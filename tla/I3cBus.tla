------------------------------- MODULE I3cBus -------------------------------
(***************************************************************************)
(* The bus of an I3C controller: what I3cAttach keeps about the devices,   *)
(* and the targets they stand for, which have addresses of their own.      *)
(* assign_dynamic_address (src/src/i3c/hal_impl.rs) and the CCCs that move *)
(* addresses (src/src/i3c/ccc.rs) bring the two together, step by step,    *)
(* while targets lose power and come back. A transfer is one step here:    *)
(* I3cXfer says what becomes of it.                                        *)
(*                                                                         *)
(* Targets are their provisional IDs, the lowest of which wins the         *)
(* arbitration of ENTDAA. A target's BCR is written as its ID as well.     *)
(***************************************************************************)
EXTENDS I3cAttach

CONSTANTS
  Targets,    \* the provisional IDs on the bus
  Expected    \* those a device may be attached with

ASSUME BusAssumption ==
  Targets \subseteq Nat \ {0} /\ Expected \subseteq Targets

VARIABLES
  known,      \* per device, DeviceEntry::pid
  at,         \* per target, its dynamic address; 0 for none
  up,         \* the targets that have power
  pc,         \* where assign_dynamic_address is
  call,       \* its argument, the target ENTDAA gave the address to, and
              \* the ID and the BCR it read; DeviceEntry::bcr is not kept, as
              \* ibi_enable only takes flags of the table entry from it
  strays,     \* history: targets that hold an address their device has not
  dropped     \* history: targets that lost power during the call

attach == vars
targets == <<at, up>>
busVars == <<attach, known, targets, pc, call, strays, dropped>>

None == 0
Junk == -1      \* what two targets make of it that answer at once
NoId == -2      \* the pid of a device attached without one
NoCall == [da |-> 0, won |-> None, pid |-> NoId, bcr |-> None]

-----------------------------------------------------------------------------
(* Who hears what is sent to a position of the table.                      *)
Least(S) == CHOOSE x \in S : \A y \in S : x <= y

(* pos_of, the empty set for None.                                         *)
PosOf(d) == {p \in PositionsOf(d) : \A q \in PositionsOf(d) : p <= q}
PosOfAddr(da) == IF FindByAddr(da) = NoDev THEN {} ELSE PosOf(FindByAddr(da))

Holding(da) == {t \in up : da # 0 /\ at[t] = da}
Heard(p) == Holding(dat[p].addr)
HeardAt(da) == UNION {Heard(p) : p \in PosOfAddr(da)}

(* What a read by do_ccc may return: the data of the target addressed, a   *)
(* mixture when there are two, or zeros, which is all that is left of a    *)
(* bus on which nobody acknowledged the broadcast address.                 *)
Answers(da) ==
  IF PosOfAddr(da) = {} THEN {}
  ELSE IF up = {} THEN {0}
  ELSE HeardAt(da) \cup (IF \E t, u \in HeardAt(da) : t # u THEN {Junk} ELSE {})

-----------------------------------------------------------------------------
(* assign_dynamic_address                                                  *)

Joining == {t \in up : at[t] = 0}
Gives(t, da) == at' = [at EXCEPT ![t] = da]

(* Whoever got the address is left with it when the call fails.            *)
Fails(won) ==
  /\ pc' = "idle" /\ call' = NoCall /\ dropped' = {}
  /\ strays' = IF won = None THEN strays ELSE strays \cup {won}

(* do_entdaa: a target without an address takes that of the table entry,   *)
(* also when the controller gives up on it. One that holds the address     *)
(* already is not asked.                                                   *)
Entdaa(da, p) ==
  \/ /\ Fails(None) /\ UNCHANGED at
  \/ /\ Joining # {} /\ Gives(Least(Joining), dat[p].addr)
     /\ Fails(Least(Joining))
  \/ /\ Joining # {} /\ Gives(Least(Joining), dat[p].addr)
     /\ pc' = "getpid" /\ UNCHANGED dropped
     /\ call' = [da |-> da, won |-> Least(Joining), pid |-> NoId, bcr |-> None]
     /\ strays' = IF Heard(p) = {} THEN strays ELSE strays \cup {Least(Joining)}

(* A mutant of Assign: the index of the device for its position.           *)
MutAssignByIndex(da) ==
  /\ pc = "idle"
  /\ \E p \in {q \in Pos : q + 1 = FindByAddr(da)} : Entdaa(da, p)
  /\ UNCHANGED <<attach, known, up>>

Assign(da) ==
  /\ pc = "idle"
  /\ \E p \in PosOfAddr(da) : Entdaa(da, p)
  /\ UNCHANGED <<attach, known, up>>

Read(pid, bcr) ==
  call' = [da |-> call.da, won |-> call.won, pid |-> pid, bcr |-> bcr]

(* A mutant of GetPid: an ID known before is kept, and not compared.       *)
MutGetPid ==
  /\ pc = "getpid"
  /\ \/ Fails(call.won)
     \/ \E pid \in Answers(call.da) :
          /\ LET old == known[FindByAddr(call.da)]
             IN  Read(IF old = NoId THEN pid ELSE old, None)
          /\ pc' = "getbcr" /\ UNCHANGED <<strays, dropped>>
  /\ UNCHANGED <<attach, known, targets>>

(* ccc_getpid, and the comparison with the ID of the device, if it has one.*)
GetPid ==
  /\ pc = "getpid"
  /\ \/ Fails(call.won)
     \/ \E pid \in Answers(call.da) :
          /\ known[FindByAddr(call.da)] \in {pid, NoId}
          /\ Read(pid, None)
          /\ pc' = "getbcr" /\ UNCHANGED <<strays, dropped>>
  /\ UNCHANGED <<attach, known, targets>>

(* ccc_getbcr, and the two results recorded. On a bus that has gone silent *)
(* the BCR is zero.                                                        *)
GetBcr ==
  /\ pc = "getbcr"
  /\ \/ Fails(call.won) /\ known' = known
     \/ /\ \E bcr \in Answers(call.da) : Read(call.pid, bcr)
        /\ known' = [known EXCEPT ![FindByAddr(call.da)] = call.pid]
        /\ pc' = "enable" /\ UNCHANGED <<strays, dropped>>
  /\ UNCHANGED <<attach, targets>>

(* ibi_enable; what becomes of its ENEC is not looked at.                  *)
Enable ==
  /\ pc = "enable" /\ pc' = "ok"
  /\ IbiEnable(call.da)
  /\ UNCHANGED <<known, targets, call, strays, dropped>>

Return ==
  /\ pc = "ok" /\ pc' = "idle" /\ call' = NoCall /\ dropped' = {}
  /\ UNCHANGED <<attach, known, targets, strays>>

-----------------------------------------------------------------------------
(* The other operations, each between two calls of the one above.          *)

Alone == pc = "idle" /\ UNCHANGED <<pc, call, up, dropped>>

(* I3cController::attach_i3c_dev, of a device with the ID t or with none.   *)
Attach(t, da, slot) ==
  /\ Alone /\ AttachDev(da, slot)
  /\ known' = Append(known, t)
  /\ UNCHANGED <<at, strays>>

(* A device that is detached leaves its address to its target.             *)
Forget(d) ==
  /\ known' = RemoveAt(known, d)
  /\ strays' = strays \cup Holding(devices[d].desired_da)
ForgetNone == UNCHANGED <<known, strays>>

DetachPos(p) ==
  /\ Alone /\ DetachByPos(p) /\ UNCHANGED at
  /\ IF p \in Pos /\ by_pos[p] # NoDev THEN Forget(by_pos[p]) ELSE ForgetNone
DetachIdx(d) == Alone /\ DetachByIdx(d) /\ Forget(d) /\ UNCHANGED at

PickDa(static_addr, desired) ==
  Alone /\ PickInitialDa(static_addr, desired) /\ ForgetNone /\ UNCHANGED at
Reassign(from, to) == Alone /\ ReassignDa(from, to) /\ ForgetNone /\ UNCHANGED at
EnableIbi(da) == Alone /\ IbiEnable(da) /\ ForgetNone /\ UNCHANGED at

(* A mutant of SetNewDa: the CCC goes out broadcast.                       *)
MutSetNewDa(from, to) ==
  /\ Alone /\ UNCHANGED <<attach, known>>
  /\ from # 0 /\ to # 0 /\ PosOfAddr(from) # {} /\ IsFree(to)
  /\ at' = [t \in Targets |-> IF t \in up /\ at[t] # 0 THEN to ELSE at[t]]
  /\ strays' = strays \cup HeardAt(from)

(* ccc_setnewda: the address book is asked and not told, and the table and *)
(* the device stay as they are. A failed CCC may have moved the target.    *)
SetNewDa(from, to) ==
  /\ Alone /\ UNCHANGED <<attach, known>>
  /\ from # 0 /\ to # 0 /\ PosOfAddr(from) # {} /\ IsFree(to)
  /\ at' = [t \in Targets |-> IF t \in HeardAt(from) THEN to ELSE at[t]]
  /\ strays' = strays \cup HeardAt(from)

(* ccc_rstdaa_all: the targets forget their addresses; nothing else does.  *)
Rstdaa ==
  /\ Alone /\ UNCHANGED <<attach, known>>
  /\ at' = [t \in Targets |-> IF t \in up THEN 0 ELSE at[t]]
  /\ strays' = strays \ up

-----------------------------------------------------------------------------
(* Targets lose power, and come back without an address, at any time.      *)
PowerOff(t) ==
  /\ t \in up /\ up' = up \ {t} /\ Gives(t, 0)
  /\ strays' = strays \ {t}
  /\ dropped' = IF pc = "idle" THEN {} ELSE dropped \cup {t}
  /\ UNCHANGED <<attach, known, pc, call>>
PowerOn(t) ==
  /\ t \in Targets \ up /\ up' = up \cup {t}
  /\ UNCHANGED <<attach, known, at, pc, call, strays, dropped>>

BusInit ==
  /\ Init
  /\ known = <<>>
  /\ at = [t \in Targets |-> 0] /\ up \in SUBSET Targets
  /\ pc = "idle" /\ call = NoCall /\ strays = {} /\ dropped = {}

BusNext ==
  \/ \E da \in Wanted : Assign(da) \/ EnableIbi(da)
  \/ GetPid \/ GetBcr \/ Enable \/ Return
  \/ \E t \in Expected \cup {NoId}, da \in Wanted, s \in Slot : Attach(t, da, s)
  \/ \E p \in Slot : DetachPos(p)
  \/ \E d \in Dev : DetachIdx(d)
  \/ \E s, d \in Wanted \cup {0} : PickDa(s, d)
  \/ \E f, t \in Wanted : Reassign(f, t) \/ SetNewDa(f, t)
  \/ Rstdaa
  \/ \E t \in Targets : PowerOff(t) \/ PowerOn(t)

BusSpec == BusInit /\ [][BusNext]_busVars

-----------------------------------------------------------------------------
(* When assign_dynamic_address returns Ok, the target with the ID of the   *)
(* device answers at the address returned and its BCR is recorded, unless  *)
(* it has lost power since the call began. Excused: a second target at the *)
(* address, a device that had no ID and took what it read for one, and one *)
(* reassigned to an address of which its target was not told, which the    *)
(* call returns nevertheless.                                              *)
OkIsOwn ==
  pc = "ok" =>
    LET d   == FindByAddr(call.da)
        own == known[d]
    IN  \/ own \in dropped \cup {None, Junk}
        \/ /\ own \in Holding(devices[d].desired_da)
           /\ \/ call.bcr = own \/ dropped # {}
              \/ Holding(devices[d].desired_da) # {own}
           /\ at[own] = call.da \/ devices[d].dyn_addr # devices[d].desired_da

(* What is sent to a device, by its ID (priv_xfer) or by its address       *)
(* (do_ccc), is heard by no target but its own. The strays are all the     *)
(* exceptions: a target left with an address when an assignment failed or  *)
(* went to an address already taken, when its device was detached, or when *)
(* it was moved by SETNEWDA; beside two devices attached at one address,   *)
(* and a device of which no ID is known.                                   *)
HeardByOwn ==
  pc = "idle" =>
    \A p \in Pos : by_pos[p] # NoDev =>
      LET d == by_pos[p]
      IN  \/ Heard(p) \subseteq {known[d]} \cup strays
          \/ known[d] \notin Targets
          \/ \E e \in Attached \ {d} : devices[e].desired_da = devices[d].desired_da
=============================================================================
