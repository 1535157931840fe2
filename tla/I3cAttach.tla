----------------------------- MODULE I3cAttach -----------------------------
(***************************************************************************)
(* The targets an I3C controller knows (src/src/i3c/config.rs and          *)
(* controller.rs): the list of attached devices, the map from positions of *)
(* the Device Address Table to devices, the address book, and the table    *)
(* itself, which the hardware reads for every transfer and interrupt.      *)
(*                                                                         *)
(* The four are updated by separate calls and hold each other's indices,   *)
(* and removing a device shifts the index of every device behind it. All   *)
(* operations run to completion one at a time (they take &mut self).       *)
(*                                                                         *)
(* Addresses are the real 7-bit ones. Devices are numbered from 1 and      *)
(* NoDev stands for None; the code counts from 0.                          *)
(***************************************************************************)
EXTENDS Integers, SequencesExt

CONSTANTS
  MaxDevs,    \* capacity of Attached::devices (8)
  NumPos,     \* positions of the Device Address Table (8)
  Wanted      \* the addresses a caller may ask for

Address == 0 .. 127

ASSUME AttachAssumption ==
  /\ MaxDevs \in Nat \ {0}
  /\ NumPos \in Nat \ {0}
  /\ Wanted \subseteq Address

Broadcast == 126     \* I3C_BROADCAST_ADDR, 0x7E

(* AddrBook::reserve_defaults: 0 to 7, the broadcast address and the       *)
(* addresses below it that differ from it in one bit. Bits 1 to 6 of 0x7E  *)
(* are set; flipping bit 0 or 7 gives a larger number.                     *)
Reserved == 0 .. 7 \cup {Broadcast} \cup {Broadcast - 2^i : i \in 1 .. 6}

NoDev == 0
Dev   == 1 .. MaxDevs
Pos   == 0 .. NumPos - 1

(* A slot number a caller may pass; NumPos stands for all beyond the table.*)
Slot == 0 .. NumPos

(* DeviceEntry: the fields that identify and route.                        *)
DeviceEntry == [dyn_addr : Address, desired_da : Address, pos : Slot]

(* An entry of the table: the address, and whether interrupts of the       *)
(* device are let through (SIR_REJECT clear).                              *)
DatEntry == [addr : Address, sir : BOOLEAN]

VARIABLES
  devices,    \* Attached::devices
  by_pos,     \* Attached::by_pos
  in_use,     \* AddrBook::in_use, as the set of marked addresses
  dat,        \* the Device Address Table
  shared      \* history: a device was attached at another device's address

vars == <<devices, by_pos, in_use, dat, shared>>

Attached == DOMAIN devices

-----------------------------------------------------------------------------
(* Operators of Attached and AddrBook.                                     *)

(* position(..) on the device list: the first device that matches.         *)
FirstDev(S) == IF S = {} THEN NoDev ELSE CHOOSE d \in S : \A e \in S : d <= e
FindByAddr(da) == FirstDev({d \in Attached : devices[d].dyn_addr = da})

(* pos_of: the positions mapped to a device, of which the code takes the   *)
(* first.                                                                  *)
PositionsOf(d) == {p \in Pos : by_pos[p] = d}

IsFree(a) == a \notin in_use /\ a \notin Reserved

(* mark_use leaves address 0 alone.                                        *)
Marked(a)   == IF a = 0 THEN in_use ELSE in_use \cup {a}
Unmarked(a) == IF a = 0 THEN in_use ELSE in_use \ {a}

(* The writes to the table; a position beyond it is ignored.               *)
DatAttach(p, da) ==
  [q \in Pos |-> IF q = p THEN [addr |-> da, sir |-> FALSE] ELSE dat[q]]
DatDetach(p) ==
  [q \in Pos |-> IF q = p THEN [addr |-> 0, sir |-> FALSE] ELSE dat[q]]
DatAllowSir(p) ==
  [q \in Pos |-> IF q = p THEN [addr |-> dat[q].addr, sir |-> TRUE] ELSE dat[q]]

(* A mutant of Shifted: the device behind the removed one keeps its index. *)
MutShiftedOffByOne(d, i) == IF i > d + 1 THEN i - 1 ELSE i

(* The index that names device i after device d is removed.                *)
Shifted(d, i) == IF i > d THEN i - 1 ELSE i

(* Attached::detach. The position the device was attached at is cleared,   *)
(* whoever it is mapped to by now.                                         *)
DetachDev(d) ==
  /\ devices' = RemoveAt(devices, d)
  /\ by_pos' = [p \in Pos |-> IF p = devices[d].pos THEN NoDev
                              ELSE Shifted(d, by_pos[p])]

-----------------------------------------------------------------------------
(* I3cController::attach_i3c_dev. It refuses addresses that cannot be      *)
(* dynamic and a full list; it checks neither that the address is free nor *)
(* that the slot is.                                                       *)
AttachRefused(da) == da = 0 \/ da >= Broadcast \/ Len(devices) = MaxDevs

(* A mutant of AttachDev: the table is written before the list refuses.    *)
MutAttachTableFirst(da, slot) ==
  /\ da # 0 /\ da < Broadcast
  /\ dat' = DatAttach(slot, da)
  /\ IF Len(devices) = MaxDevs
       THEN UNCHANGED <<devices, by_pos, in_use, shared>>
       ELSE /\ devices' = Append(devices, [dyn_addr |-> da, desired_da |-> da,
                                           pos |-> slot])
            /\ by_pos' = [p \in Pos |-> IF p = slot THEN Len(devices) + 1
                                     ELSE by_pos[p]]
            /\ in_use' = Marked(da)
            /\ UNCHANGED shared

AttachDev(da, slot) ==
  /\ ~AttachRefused(da)
  /\ devices' = Append(devices, [dyn_addr |-> da, desired_da |-> da,
                                 pos |-> slot])
  /\ by_pos' = [p \in Pos |-> IF p = slot THEN Len(devices) + 1 ELSE by_pos[p]]
  /\ in_use' = Marked(da)
  /\ dat' = DatAttach(slot, da)
  /\ shared' = (shared \/ FindByAddr(da) # NoDev)

(* A mutant of detach_i3c_dev: the table keeps the entry.                  *)
MutDetachKeepsDat(p) ==
  /\ IF p \in Pos /\ by_pos[p] # NoDev
       THEN DetachDev(by_pos[p])
       ELSE UNCHANGED <<devices, by_pos>>
  /\ UNCHANGED <<in_use, dat, shared>>

(* detach_i3c_dev(pos): the device's address stays marked.                 *)
DetachByPos(p) ==
  /\ IF p \in Pos /\ by_pos[p] # NoDev
       THEN DetachDev(by_pos[p])
       ELSE UNCHANGED <<devices, by_pos>>
  /\ dat' = DatDetach(p)
  /\ UNCHANGED <<in_use, shared>>

(* detach_i3c_dev_by_idx: the address is released.                         *)
DetachByIdx(d) ==
  /\ d \in Attached
  /\ in_use' = Unmarked(devices[d].dyn_addr)
  /\ dat' = DatDetach(devices[d].pos)
  /\ DetachDev(d)
  /\ UNCHANGED shared

(* pick_initial_da marks an address the caller asked for, but not one it   *)
(* takes from the pool.                                                    *)
PickInitialDa(static_addr, desired) ==
  /\ in_use' =
       IF desired # 0 /\ IsFree(desired) THEN in_use \cup {desired}
       ELSE IF static_addr # 0 /\ IsFree(static_addr)
         THEN in_use \cup {static_addr} ELSE in_use
  /\ UNCHANGED <<devices, by_pos, dat, shared>>

(* A device entry at another address.                                      *)
Moved(dev, da) ==
  [dyn_addr |-> da, desired_da |-> dev.desired_da, pos |-> dev.pos]

(* A mutant of reassign_da: no check that the new address is free.         *)
MutReassignUnchecked(from, to) ==
  /\ from # to
  /\ in_use' = (in_use \ {from}) \cup {to}
  /\ LET d == FindByAddr(from) IN
       devices' = IF d = NoDev THEN devices
                  ELSE [devices EXCEPT ![d] = Moved(@, to)]
  /\ UNCHANGED <<by_pos, dat, shared>>

(* reassign_da. The address book changes even when no device has the old   *)
(* address and the call fails; the table is not written.                   *)
ReassignDa(from, to) ==
  /\ from # to /\ IsFree(to)
  /\ in_use' = Unmarked(from) \cup {to}
  /\ LET d == FindByAddr(from) IN
       devices' = IF d = NoDev THEN devices
                  ELSE [devices EXCEPT ![d] = Moved(@, to)]
  /\ UNCHANGED <<by_pos, dat, shared>>

(* ibi_enable, also the last step of assign_dynamic_address: let the       *)
(* device's interrupts through, at the position it is mapped at or, failing*)
(* that, at the one it was attached at.                                    *)
IbiEnable(da) ==
  LET d == FindByAddr(da) IN
  /\ d # NoDev
  /\ \E p \in Slot :
       /\ IF PositionsOf(d) = {} THEN p = devices[d].pos
          ELSE p \in PositionsOf(d) /\ \A q \in PositionsOf(d) : p <= q
       /\ dat' = DatAllowSir(p)
  /\ UNCHANGED <<devices, by_pos, in_use, shared>>

-----------------------------------------------------------------------------
(* I3cConfig::new, init_runtime_fields and the loop over the table in init.*)
Init ==
  /\ devices = << >>
  /\ by_pos = [p \in Pos |-> NoDev]
  /\ in_use = {}
  /\ dat = [p \in Pos |-> [addr |-> 0, sir |-> FALSE]]
  /\ shared = FALSE

Next ==
  \/ \E da \in Wanted, s \in Slot : AttachDev(da, s)
  \/ \E p \in Slot : DetachByPos(p)
  \/ \E d \in Dev : DetachByIdx(d)
  \/ \E s, d \in Wanted \cup {0} : PickInitialDa(s, d)
  \/ \E f, t \in Wanted : ReassignDa(f, t)
  \/ \E da \in Wanted : IbiEnable(da)

Spec == Init /\ [][Next]_vars

-----------------------------------------------------------------------------
(* Properties.                                                             *)

(* Every variable stays in its type; the list never exceeds its capacity.  *)
TypeOK ==
  /\ devices \in Seq(DeviceEntry) /\ Len(devices) <= MaxDevs
  /\ by_pos \in [Pos -> Dev \cup {NoDev}]
  /\ in_use \subseteq Address
  /\ dat \in [Pos -> DatEntry]
  /\ shared \in BOOLEAN

(* The position map never names a device that is gone, nor, after others   *)
(* were removed in front of it, a device attached elsewhere. The indices   *)
(* it holds are used unchecked by detach_by_pos, and priv_xfer and do_ccc  *)
(* turn a device into the DEV_INDEX of a command through it.               *)
PosIndexOK ==
  \A p \in Pos : by_pos[p] # NoDev =>
    by_pos[p] \in Attached /\ devices[by_pos[p]].pos = p

(* A transfer to a device that was not reassigned goes to its address: the *)
(* table entry at a mapped position holds the address that the device      *)
(* mapped there was attached with.                                         *)
RoutedToDevice ==
  \A p \in Pos : by_pos[p] # NoDev =>
    dat[p].addr = devices[by_pos[p]].desired_da

(* Interrupts are let through only at a position some attached device has: *)
(* whatever the order of detaches, a detached device is silenced.          *)
SirOnlyFromAttached ==
  \A p \in Pos : dat[p].sir => \E d \in Attached : devices[d].pos = p

(* As long as no caller attaches two devices at one address, the address   *)
(* book protects the address of every attached device from being handed    *)
(* out again, and no two devices share one.                                *)
AddressProtected ==
  ~shared =>
    /\ \A d \in Attached : devices[d].dyn_addr \in in_use
    /\ \A d, e \in Attached : devices[d].dyn_addr = devices[e].dyn_addr => d = e

=============================================================================
