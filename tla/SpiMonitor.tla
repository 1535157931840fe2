----------------------------- MODULE SpiMonitor -----------------------------
(***************************************************************************)
(* One SPI monitor (src/src/spimonitor): the table of commands it lets     *)
(* through, the two tables of 16 KB blocks that may be read and written,   *)
(* and the locks on all three.                                             *)
(*                                                                         *)
(* init writes the tables register by register while the host's SPI bus is *)
(* live, so every round of its loops is a step. The caller may build the   *)
(* monitor's handle anew, or write its public fields, before any init.     *)
(* Adding, removing and locking single commands are crate-internal         *)
(* operations of the same tables, and are modelled with the public ones.   *)
(*                                                                         *)
(* What the registers do is the environment: a slot or a table whose lock  *)
(* bit is set ignores writes, and SPIPFWA is a window onto the block table *)
(* that the upper byte of SPIPF000 selects.                                *)
(***************************************************************************)
EXTENDS Integers, SequencesExt

CONSTANTS
  Handles,     \* what callers pass to new: list, the regions of R and W, mux, extra
  Known,       \* commands of CMDS_ARRAY
  Cmds,        \* Known and some that are not in it
  MaxIndex,        \* MAX_CMD_INDEX: 31
  Unit,        \* ACCESS_BLOCK_UNIT: 16 KB
  PerReg,      \* blocks of one register: 32
  Limit,       \* ADDR_LIMIT: 256 MB
  MaxOps       \* bound on operations

ASSUME MonitorAssumption ==
  /\ Known \subseteq Cmds /\ {"EN4B", "EX4B", "WREAR"} \subseteq Known /\ "none" \notin Cmds
  /\ MaxIndex \in Nat /\ MaxIndex > 2
  /\ {Unit, PerReg, Limit} \subseteq Nat \ {0} /\ Limit % (Unit * PerReg) = 0

\* A region's end is taken to fit the 32 bits that addr + len is computed in.
Region == [start : Nat, length : Nat]
ASSUME HandlesAssumption ==
  Handles \subseteq [list : Seq(Cmds), R : Seq(Region), W : Seq(Region),
                     mux : {0, 1}, extra : BOOLEAN]

VARIABLES
  tbl,     \* SPIPFWT: what each slot lets through
  perm,    \* per table and register, the blocks that may be accessed
  plock,   \* the block tables whose write-disable bit is set
  sel,     \* SPIPF000[31:24]: the block table SPIPFWA shows
  ctl,     \* the rest of SPIPF000 and SPIPF004
  scu,     \* this monitor's part of SCU0F0
  pc,      \* where init stands: idle, table, job or sweep
  at,      \* the local variables of init's loops
  conf,    \* the handle init was called on
  ret,     \* history: the last operation and what it granted
  asked,   \* history: commands some caller allowed and none removed
  applied, \* history: per table, the regions the last init wrote
  sealed,  \* history: lock_common has returned
  ops      \* operations so far

tables == <<tbl, perm, plock, sel>>
config == <<ctl, scu>>
history == <<ret, asked, applied, sealed>>
vars == <<tables, config, pc, at, conf, history, ops>>

Slots == 0 .. MaxIndex
Dirs == {"R", "W"}
Bits == 0 .. PerReg - 1
Regs == 0 .. Limit \div (Unit * PerReg) - 1
Start == [done |-> 0, index |-> 1, reg |-> 0, bit |-> 0, left |-> 0]
Empty == [cmd |-> "none", valid |-> {}, lock |-> FALSE]
Entry(c, flag) == [cmd |-> c, valid |-> {flag}, lock |-> FALSE]

Allows(c) == \E i \in Slots : tbl[i].cmd = c /\ tbl[i].valid # {}

Init ==
  /\ tbl = [i \in Slots |-> Empty]
  /\ perm = [d \in Dirs |-> [r \in Regs |-> {}]]
  /\ plock = {} /\ sel = "none"
  /\ ctl = [single |-> FALSE, multi |-> FALSE, filter |-> FALSE, extra |-> FALSE,
            push |-> FALSE, irq |-> FALSE, lock |-> FALSE]
  /\ scu = [pass |-> FALSE, filter |-> FALSE, mux |-> 0, detour |-> "none"]
  /\ pc = "idle" /\ at = Start /\ conf = <<>>
  /\ ret = [op |-> "none", granted |-> {}]
  /\ asked = {} /\ applied = [d \in Dirs |-> "none"] /\ sealed = FALSE
  /\ ops = 0

-----------------------------------------------------------------------------
\* The command table.

\* spim_get_cmd_table_val: the commands whose register value is known.
Listed(list) == {c \in ToSet(list) : c \in Known}

\* A write of a slot: hardware drops it when the slot is locked.
Put(t, i, entry) == IF t[i].lock THEN t ELSE [t EXCEPT ![i] = entry]

\* spim_write_fixed_loc_in_allow_cmd_table: three commands have their slots.
Fixed == [c \in {"EN4B", "EX4B", "WREAR"} |->
            CASE c = "EN4B" -> 0 [] c = "EX4B" -> 1 [] c = "WREAR" -> MaxIndex]

\* Mutant: The slot is written before the index moves on.
MutAllow(acc, c) ==
  LET put(i) == Put(acc.t, i, Entry(c, "always"))
  IN IF c \notin Known THEN acc
     ELSE IF c \in DOMAIN Fixed THEN [acc EXCEPT !.t = put(Fixed[c])]
     ELSE [t |-> IF acc.index < MaxIndex THEN put(acc.index) ELSE acc.t,
           index |-> acc.index + 1]

\* One round of spim_allow_cmd_table_init: unknown commands are skipped, and
\* those past the last free slot are counted and not written.
Allow(acc, c) ==
  LET put(i) == Put(acc.t, i, Entry(c, "always"))
  IN IF c \notin Known THEN acc
     ELSE IF c \in DOMAIN Fixed THEN [acc EXCEPT !.t = put(Fixed[c])]
     ELSE [t |-> IF acc.index + 1 < MaxIndex THEN put(acc.index + 1) ELSE acc.t,
           index |-> acc.index + 1]

\* spim_get_allow_cmd_slot, called again from the slot after each hit.
SlotsOf(c) == {i \in Slots : tbl[i].cmd = c}
First(S) == CHOOSE i \in S : \A j \in S : i <= j

\* spim_get_empty_allow_cmd_slot
FreeSlots == {i \in 2 .. MaxIndex : tbl[i] = Empty}

-----------------------------------------------------------------------------
\* The block tables.

\* Mutant: The start is aligned down and the length is not lengthened to match.
MutAdjustedLen(addr, len) == ((len + Unit - 1) \div Unit) * Unit

\* spim_get_adjusted_addr_len
AlignedAddr(addr) == (addr \div Unit) * Unit
AdjustedLen(addr, len) == ((len + (addr % Unit) + Unit - 1) \div Unit) * Unit

Accepted(r) == r.start < Limit /\ r.length # 0 /\ r.start + r.length <= Limit

\* spim_addr_priv_access_enable: a write of SPIPF000, dropped once that is locked.
Selected(d) == IF ctl.lock THEN sel ELSE d

\* The calls of spim_rw_perm_init: the whole flash is opened in both tables,
\* then the blocked regions are closed, reads before writes.
Job(d, enable, region) == [d |-> d, enable |-> enable, region |-> region]
Everything == [start |-> 0, length |-> Limit]
Closing(d) == [i \in 1 .. Len(conf[d]) |-> Job(d, FALSE, conf[d][i])]
Jobs == <<Job("R", TRUE, Everything), Job("W", TRUE, Everything)>>
        \o Closing("R") \o Closing("W")
Current == Jobs[at.done + 1]

-----------------------------------------------------------------------------
\* aspeed_spi_monitor_init.

\* Before the tables: SCU passthrough, mux, CS pull-down, push-pull mode,
\* which also turns the monitor on in the SCU. A locked SPIPF000 keeps its bits.
Control(changes) == ctl' = IF ctl.lock THEN ctl ELSE changes

StartInit ==
  /\ pc = "idle" /\ ops < MaxOps /\ ops' = ops + 1
  /\ \E h \in Handles :
       /\ conf' = h
       /\ scu' = [scu EXCEPT !.pass = TRUE, !.mux = h.mux, !.filter = TRUE]
       /\ Control([ctl EXCEPT !.push = TRUE, !.single = TRUE, !.extra = @ \/ h.extra])
  /\ pc' = "table" /\ at' = Start
  /\ UNCHANGED <<tables, history>>

\* One round of spim_allow_cmd_table_init.
AllowNext ==
  /\ pc = "table" /\ at.done < Len(conf.list)
  /\ LET c == conf.list[at.done + 1]
         acc == Allow([t |-> tbl, index |-> at.index], c)
     IN /\ tbl' = acc.t
        /\ at' = [at EXCEPT !.done = @ + 1, !.index = acc.index]
        /\ asked' = asked \cup ({c} \cap Known)
  /\ UNCHANGED <<perm, plock, sel, config, pc, conf, ret, applied, sealed, ops>>

\* spim_rw_perm_init begins.
StartRegions ==
  /\ pc = "table" /\ at.done = Len(conf.list)
  /\ pc' = "job" /\ at' = Start
  /\ applied' = [d \in Dirs |-> IF d \in plock THEN applied[d] ELSE "none"]
  /\ UNCHANGED <<tables, config, conf, ret, asked, sealed, ops>>

\* spim_address_privilege_config up to its loop. Its errors are ignored by its
\* only caller.
SkipJob ==
  /\ pc = "job" /\ at.done < Len(Jobs)
  /\ ~Accepted(Current.region) \/ Current.d \in plock
  /\ at' = [at EXCEPT !.done = @ + 1]
  /\ UNCHANGED <<tables, config, pc, conf, history, ops>>

StartSweep ==
  /\ pc = "job" /\ at.done < Len(Jobs)
  /\ Accepted(Current.region) /\ Current.d \notin plock
  /\ sel' = Selected(Current.d)
  /\ pc' = "sweep"
  /\ LET first == AlignedAddr(Current.region.start)
     IN at' = [at EXCEPT
                 !.reg = first \div (PerReg * Unit),
                 !.bit = (first % (PerReg * Unit)) \div Unit,
                 !.left = AdjustedLen(Current.region.start, Current.region.length) \div Unit]
  /\ UNCHANGED <<tbl, perm, plock, config, conf, history, ops>>

\* One round of its loop: a whole register where it can, one bit elsewhere.
\* SPIPFWA shows the selected table, which ignores writes when it is locked.
SweepRound ==
  /\ pc = "sweep"
  /\ LET over == at.bit = PerReg
         reg == IF over THEN at.reg + 1 ELSE at.reg
         bit == IF over THEN 0 ELSE at.bit
         whole == bit = 0 /\ at.left >= PerReg
         left == at.left - (IF whole THEN PerReg ELSE 1)
         swept == IF whole THEN Bits ELSE {bit}
     IN /\ perm' = IF sel \in plock THEN perm
                   ELSE [perm EXCEPT ![sel][reg] =
                           IF Current.enable THEN @ \cup swept ELSE @ \ swept]
        /\ at' = [at EXCEPT !.reg = IF whole THEN reg + 1 ELSE reg,
                            !.bit = IF whole THEN 0 ELSE bit + 1,
                            !.left = left,
                            !.done = IF left = 0 THEN @ + 1 ELSE @]
        /\ pc' = IF left = 0 THEN "job" ELSE pc
  /\ UNCHANGED <<tbl, plock, sel, config, conf, history, ops>>

\* spim_enable(true), the interrupt enables, the pins and the flash reset.
EnableFilter ==
  /\ pc = "job" /\ at.done = Len(Jobs)
  /\ pc' = "idle" /\ at' = Start
  /\ Control([ctl EXCEPT !.filter = TRUE, !.single = TRUE, !.irq = TRUE])
  /\ ret' = [op |-> "init", granted |-> Listed(conf.list)]
  /\ applied' = [d \in Dirs |-> IF d \in plock THEN applied[d] ELSE conf[d]]
  /\ conf' = <<>>
  /\ UNCHANGED <<tables, scu, asked, sealed, ops>>

-----------------------------------------------------------------------------
\* The other operations.

Op == pc = "idle" /\ ops < MaxOps /\ ops' = ops + 1
Answer(op, granted) == ret' = [op |-> op, granted |-> granted]
KeepsPolicy == UNCHANGED <<tables, pc, at, conf, asked, applied, sealed>>

\* spim_enable, behind enable() and diable(): the passthrough goes with it.
SetFilter(on) ==
  /\ Op /\ KeepsPolicy /\ UNCHANGED scu /\ Answer("other", {})
  /\ Control([ctl EXCEPT !.filter = on, !.single = on, !.multi = on /\ @])

\* spim_passthrough_config: the single-bit mode does not clear the other.
Passthrough(mode) ==
  /\ Op /\ KeepsPolicy /\ UNCHANGED scu /\ Answer("other", {})
  /\ Control(CASE mode = "single" -> [ctl EXCEPT !.single = TRUE]
               [] mode = "multi"  -> [ctl EXCEPT !.single = FALSE, !.multi = TRUE]
               [] mode = "off"    -> [ctl EXCEPT !.single = FALSE, !.multi = FALSE])

BlockMode(extra) ==
  /\ Op /\ KeepsPolicy /\ UNCHANGED scu /\ Answer("other", {})
  /\ Control([ctl EXCEPT !.extra = extra])

\* spim_ext_mux_config and spim_spi_ctrl_detour_enable: no lock covers SCU0F0.
Route(mux, detour) ==
  /\ Op /\ KeepsPolicy /\ UNCHANGED ctl /\ Answer("other", {})
  /\ scu' = [scu EXCEPT !.mux = mux, !.detour = detour]

\* spim_add_new_command
AddNew(c, flag) ==
  LET put(i) == tbl' = Put(tbl, i, Entry(c, flag)) /\ Answer("add", {c})
  IN IF c \in DOMAIN Fixed THEN put(Fixed[c])
     ELSE IF c \in Known /\ FreeSlots # {} THEN put(First(FreeSlots))
     ELSE UNCHANGED tbl /\ Answer("refused", {})

\* spim_add_allow_command: the first unlocked slot of the command, or a new one.
Unlocked(c) == {i \in SlotsOf(c) : ~tbl[i].lock}

AddCmd(c, flag) ==
  /\ Op /\ UNCHANGED <<perm, plock, sel, config, pc, at, conf, applied, sealed>>
  /\ IF Unlocked(c) # {}
     THEN /\ tbl' = [tbl EXCEPT ![First(Unlocked(c))].valid = @ \cup {flag}]
          /\ Answer("add", {c})
     ELSE AddNew(c, flag)
  /\ asked' = asked \cup ret'.granted

\* spim_remove_allow_command: clears the unlocked slots of the command, up to
\* the first one that is locked and valid.
Stuck(c) == {i \in SlotsOf(c) : tbl[i].lock /\ "always" \in tbl[i].valid}
\* Mutant: remove clears the first slot of the command and stops.
MutCleared(c) == {i \in Unlocked(c) : \A j \in SlotsOf(c) : i <= j}

Cleared(c) == {i \in Unlocked(c) : \A j \in Stuck(c) : i < j}

RemoveCmd(c) ==
  /\ Op /\ UNCHANGED <<perm, plock, sel, config, pc, at, conf, applied, sealed>>
  /\ tbl' = [i \in Slots |-> IF i \in Cleared(c) THEN Empty ELSE tbl[i]]
  /\ LET ok == Stuck(c) = {} /\ Cleared(c) # {}
     IN /\ Answer(IF ok THEN "remove" ELSE "refused", {})
        /\ asked' = IF ok THEN asked \ {c} ELSE asked

\* spim_lock_allow_command_table, for one command.
LockCmd(c) ==
  /\ Op /\ UNCHANGED <<perm, plock, sel, config, pc, at, conf, asked, applied, sealed>>
  /\ tbl' = [i \in Slots |-> IF i \in Unlocked(c) THEN [tbl[i] EXCEPT !.lock = TRUE]
                             ELSE tbl[i]]
  /\ Answer(IF Unlocked(c) = {} THEN "refused" ELSE "lock", {})

\* Mutant: lock_common leaves the read table open.
MutLockCommon ==
  /\ Op /\ UNCHANGED <<perm, sel, scu, pc, at, conf, asked, applied>>
  /\ plock' = {"W"}
  /\ tbl' = [i \in Slots |-> [tbl[i] EXCEPT !.lock = TRUE]]
  /\ ctl' = [ctl EXCEPT !.lock = TRUE]
  /\ sealed' = TRUE /\ Answer("lock", {})

\* spim_lock_common: both block tables, every slot, and the control registers.
LockCommon ==
  /\ Op /\ UNCHANGED <<perm, sel, scu, pc, at, conf, asked, applied>>
  /\ plock' = Dirs
  /\ tbl' = [i \in Slots |-> [tbl[i] EXCEPT !.lock = TRUE]]
  /\ ctl' = [ctl EXCEPT !.lock = TRUE]
  /\ sealed' = TRUE /\ Answer("lock", {})

Next ==
  \/ StartInit \/ AllowNext \/ StartRegions \/ SkipJob \/ StartSweep
  \/ SweepRound \/ EnableFilter
  \/ \E on \in BOOLEAN : SetFilter(on) \/ BlockMode(on)
  \/ \E mode \in {"single", "multi", "off"} : Passthrough(mode)
  \/ \E mux \in {0, 1}, detour \in {"none", "SPI1", "SPI2"} : Route(mux, detour)
  \/ \E c \in Cmds : RemoveCmd(c) \/ LockCmd(c)
  \/ \E c \in Cmds, flag \in {"always", "once"} : AddCmd(c, flag)
  \/ LockCommon

Spec == Init /\ [][Next]_vars

-----------------------------------------------------------------------------
\* Whatever init loops over, a finished init leaves exactly the 16 KB blocks
\* that hold a byte of a blocked region closed, in each table by itself: no
\* region spills into a neighbour's block, none is cut short at its unaligned
\* end or at a register boundary, and the reads' regions do not land in the
\* writes' table.
Touches(b, r) ==
  Accepted(r) /\ b * Unit < r.start + r.length /\ r.start < (b + 1) * Unit

RegionsBlocked ==
  pc = "idle" =>
    \A d \in Dirs : applied[d] # "none" =>
      \A r \in Regs, k \in Bits :
        k \in perm[d][r] <=> \A i \in DOMAIN applied[d] :
                               ~Touches(r * PerReg + k, applied[d][i])

\* Once lock_common has returned nothing this driver does, a second init
\* included, changes a command slot, a block table or the filter.
SealedStays == [][sealed => UNCHANGED <<tbl, perm, plock, ctl, sealed>>]_vars

\* A command gets through only if some caller allowed it and no remove has
\* answered Ok for it since, but for one locked in a use-once slot, which
\* remove skips without an error.
OnlyAsked ==
  \A c \in Cmds : Allows(c) =>
    c \in asked \/ \E i \in SlotsOf(c) : tbl[i].lock /\ tbl[i].valid = {"once"}

\* What an operation granted gets through when it returns: every known command
\* of the list after init, the command itself after an Ok of add. Excused are a
\* command with a slot of its own if that slot is locked, and any other if some
\* slot from 2 on is locked, which init may have tried to write, or if the
\* slots 2 to 30 are all filled, for which init returns without a word.
GrantedGetThrough ==
  pc = "idle" => \A c \in ret.granted :
    \/ Allows(c)
    \/ c \in DOMAIN Fixed /\ tbl[Fixed[c]].lock
    \/ /\ c \notin DOMAIN Fixed
       /\ \/ \E i \in 2 .. MaxIndex : tbl[i].lock
          \/ \A i \in 2 .. MaxIndex - 1 : tbl[i] # Empty

\* The two together: the commands that get through are the ones asked for,
\* through any sequence of init, add, remove and lock.
CommandsAsAsked == OnlyAsked /\ GrantedGetThrough

-----------------------------------------------------------------------------
\* "If the command already exists in allow command table and it is lock, it
\* will not be enabled and an error code will be returned" (hardware.rs:662).
LockedNotEnabled ==
  [][\A c \in Cmds :
       SlotsOf(c) # {} /\ Unlocked(c) = {} /\ ret'.op = "add" => c \notin ret'.granted]_vars

=============================================================================
