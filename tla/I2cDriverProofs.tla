-------------------------- MODULE I2cDriverProofs --------------------------
(***************************************************************************)
(* Proofs about the I2C drivers: the older one as a master (I2cLegacy),    *)
(* both where they serve a target (I2cTarget), and how fast the buses are, *)
(* the I3C one too (BusTiming).                                            *)
(***************************************************************************)
EXTENDS I2cTarget, I2cLegacy, BusTiming, SequenceTheorems, WellFoundedInduction, TLAPS

(***************************************************************************)
(* The older driver as a master.                                           *)

Transfer == [dir : {"write", "read"}, len : Lens, stop : BOOLEAN]
Places ==
  {"off", "idle", "prepare", "start", "recover", "wait", "failed", "look",
   "reset", "done"}
Engaged == {"wait", "failed", "look", "reset"}

LegacyTypes ==
  /\ cfg \in [mode : {"Dma", "Buff", "Byte"}, multi : BOOLEAN]
  /\ at \in Places
  /\ prog \in Seq(Transfer) /\ Len(prog) <= 2 /\ k \in {1, 2}
  /\ completion \in BOOLEAN /\ failed \in BOOLEAN /\ slipped \in BOOLEAN
  /\ buf = [i \in 0 .. BufLen + Word |-> buf[i]]
  /\ at \in Engaged \cup {"prepare", "start", "recover"} => k \in DOMAIN prog
  /\ at \in Engaged \cup {"start", "recover"} => msg = prog[k]
  /\ at = "start" => cnt = 0 /\ ~completion

(* Outside a transfer the engine is quiet; in one, a status says that the  *)
(* command is over, and one read as empty stays so; unless a command       *)
(* slipped through, of which only the kinds of command are known.          *)
Quiet == eng \in {NoCmd, Recover} /\ status \subseteq Recovered
Undisturbed ==
  /\ at \notin Engaged => Quiet
  /\ at \in Engaged =>
       /\ eng = NoCmd \/ Transferring
       /\ \/ status \subseteq Recovered
          \/ "PKT_DONE" \in status /\ eng = NoCmd
  /\ at = "wait" /\ completion => eng = NoCmd /\ status = {}
  /\ at = "look" => status = {}
LegacyEngine ==
  /\ eng \in {NoCmd, Recover} \/ Transferring
  /\ ~slipped => Undisturbed

(* A recovery nobody waited for is left to a driver that recovers again    *)
(* before it starts a command, so that none meets its failure.             *)
LegacyRecovery ==
  /\ eng = Recover =>
       ~cfg.multi /\ wire = "stuck" /\ status = {} /\ at \notin Engaged
  /\ "BUS_RECOVER_FAIL" \in status =>
       ~cfg.multi /\ wire = "stuck" /\ eng = NoCmd /\ at \notin Engaged

(* While no transfer of the call has failed on the bus: what was moved.    *)
Upto(n) == [i \in 1 .. n |-> Byte(i - 1)]
Before(dir) == IF k = 1 THEN <<>> ELSE Asked(dir, 1)
Slow == cfg.mode = "Buff" /\ msg.dir = "write"
TakenIs(n) ==
  ~Slow => taken = IF msg.dir = "write" THEN Before("write") \o Upto(n)
                   ELSE Before("write")
ReadIs(n) ==
  msg.dir = "read" /\ cfg.mode # "Buff" => \A i \in 0 .. n - 1 : buf[i] = Byte(i)
Acked == {"PKT_DONE", IF msg.dir = "write" THEN "TX_ACK" ELSE "RX_DONE"}

UnderWay ==
  /\ \E s \in BOOLEAN : eng = Command(cnt, s)
  /\ status \subseteq Recovered /\ TakenIs(cnt)
Reported ==
  /\ eng = NoCmd /\ xlen = ChunkLen(cnt) /\ TakenIs(cnt + xlen)
  /\ status \ Recovered \in {Acked, Stopped(Acked)}
  /\ msg.dir = "read" => pool = [i \in 1 .. xlen |-> Byte(cnt + i - 1)]
Pending ==
  /\ ~completion /\ cnt \in 0 .. msg.len - 1 /\ (cfg.mode = "Dma" => cnt = 0)
  /\ ReadIs(cnt)
  /\ UnderWay \/ Reported
Complete ==
  /\ completion /\ cnt = msg.len /\ ~Slow
  /\ TakenIs(cnt) /\ ReadIs(cnt)

LegacyFresh ==
  /\ at \in {"prepare", "start"} => taken = Before("write")
  /\ at \in {"prepare", "start", "wait"} /\ cfg.mode # "Buff" =>
       got = Before("read")
  /\ at \in {"start", "wait"} /\ msg.dir = "write" =>
       \A i \in 0 .. msg.len - 1 : buf[i] = Byte(i)
  /\ at = "wait" => Pending \/ Complete
  /\ at = "failed" => eng # NoCmd \/ status # {}
  /\ at = "look" => eng # NoCmd

LegacyInv ==
  /\ LegacyTypes /\ LegacyEngine /\ LegacyRecovery
  /\ ~failed /\ ~slipped => LegacyFresh
  /\ OkMeansMoved

-----------------------------------------------------------------------------
(* A target stays armed: the invariant is inductive as it stands.          *)

(* For every mode, length and number of calls: a target that is attached   *)
(* is armed with the buffer of its mode as long as its function is on, and *)
(* only recover_bus and init switch it off.                                *)
THEOREM LegacyTargetStaysArmed == LegacySpec => []TargetStaysArmed
<1>1. LegacyInit => TargetStaysArmed
  BY DEF LegacyInit, TargetStaysArmed
<1>2. TargetStaysArmed /\ [LegacyNext]_legacyVars => TargetStaysArmed'
  <2> SUFFICES ASSUME TargetStaysArmed, [LegacyNext]_legacyVars
               PROVE  TargetStaysArmed'
    OBVIOUS
  <2> USE DEF TargetStaysArmed, thread, message, engine, target
  <2>1. CASE Initialise
    BY <2>1 DEF Initialise
  <2>2. CASE Call
    <3>1. PICK program : Begin(program)
      BY <2>2 DEF Call, CallWrite, CallRead, CallWriteRead, CallTransaction
    <3> QED
      BY <3>1 DEF Begin
  <2>3. CASE Driver
    <3>1. CASE RecoverBus
      BY <3>1 DEF RecoverBus
    <3>2. CASE FailedReset
      BY <3>2 DEF FailedReset, Rearmed
    <3>3. CASE \/ Prepare \/ Start \/ TimeOut \/ Completed \/ Finish
               \/ FailedStatus \/ FailedDirection
      <4>1. UNCHANGED <<cfg, target>>
        BY <3>3 DEF Prepare, Start, TimeOut, Completed, Finish, FailedStatus,
           FailedDirection
      <4> QED
        BY <4>1
    <3>4. CASE MasterIrq
      <4>1. UNCHANGED <<cfg, target>>
        BY <3>4 DEF MasterIrq
      <4> QED
        BY <4>1
    <3> QED
      BY <2>3, <3>1, <3>2, <3>3, <3>4 DEF Driver
  <2>4. CASE Register
    BY <2>4 DEF Register
  <2>5. CASE Unregister
    BY <2>5 DEF Unregister
  <2>6. CASE EngineDone \/ EngineFails \/ EngineRecovers
    <3>1. UNCHANGED <<thread, target>>
      BY <2>6 DEF EngineDone, EngineFails, EngineRecovers
    <3> QED
      BY <3>1
  <2>7. CASE UNCHANGED legacyVars
    BY <2>7 DEF legacyVars
  <2> QED
    BY <2>1, <2>2, <2>3, <2>4, <2>5, <2>6, <2>7 DEF LegacyNext
<1> QED
  BY <1>1, <1>2, PTL DEF LegacySpec

-----------------------------------------------------------------------------
(* Types of the older driver's state.                                      *)

(* Programs of one transfer and of two.                                    *)
LEMMA SingleProgram ==
  ASSUME NEW t \in Transfer
  PROVE  <<t>> \in Seq(Transfer) /\ Len(<<t>>) <= 2
OBVIOUS

(* A write and the read after it.                                         *)
LEMMA PairProgram ==
  ASSUME NEW t \in Transfer, NEW u \in Transfer
  PROVE  <<t, u>> \in Seq(Transfer) /\ Len(<<t, u>>) <= 2
OBVIOUS

(* A call is a program of at most two transfers.                           *)
LEMMA LegacyCalls ==
  Call => \E p \in Seq(Transfer) : Len(p) <= 2 /\ Begin(p)
<1> SUFFICES ASSUME Call
             PROVE  \E p \in Seq(Transfer) : Len(p) <= 2 /\ Begin(p)
  OBVIOUS
<1>1. \A n \in Lens, s \in BOOLEAN : Write(n, s) \in Transfer /\ Read(n) \in Transfer
  BY DEF Write, Read, Transfer
<1>2. CASE CallWrite
  <2>1. PICK n \in Lens : Begin(<<Write(n, TRUE)>>)
    BY <1>2 DEF CallWrite
  <2>2. Write(n, TRUE) \in Transfer
    BY <1>1
  <2> QED
    BY <2>1, <2>2, SingleProgram
<1>3. CASE CallRead
  <2>1. PICK n \in Lens : Begin(<<Read(n)>>)
    BY <1>3 DEF CallRead
  <2>2. Read(n) \in Transfer
    BY <1>1
  <2> QED
    BY <2>1, <2>2, SingleProgram
<1>4. CASE CallWriteRead
  <2>1. PICK n \in Lens, m \in Lens : Begin(<<Write(n, FALSE), Read(m)>>)
    BY <1>4 DEF CallWriteRead
  <2>2. Write(n, FALSE) \in Transfer /\ Read(m) \in Transfer
    BY <1>1
  <2> QED
    BY <2>1, <2>2, PairProgram
<1>5. CASE CallTransaction
  <2>1. PICK a \in Ops, b \in Ops : Begin(Executed(<<a, b>>))
    BY <1>5 DEF CallTransaction
  <2>2. a \in Transfer /\ b \in Transfer
    BY <1>1 DEF Ops
  <2>3. <<a, b>> \in Seq(Transfer) /\ Len(<<a, b>>) = 2
    BY <2>2
  <2>4. Executed(<<a, b>>) \in Seq(Transfer) /\ Len(Executed(<<a, b>>)) = 1
    BY <2>3, SubSeqProperties DEF Executed
  <2> QED
    BY <2>1, <2>4
<1> QED
  BY <1>2, <1>3, <1>4, <1>5 DEF Call

(* Initially the types hold.                                               *)
LEMMA LegacyTypesInit == LegacyInit => LegacyTypes
<1> SUFFICES ASSUME LegacyInit
             PROVE  LegacyTypes
  OBVIOUS
<1>1. prog \in Seq(Transfer) /\ Len(prog) <= 2
  BY DEF LegacyInit
<1>2. buf = [i \in 0 .. BufLen + Word |-> buf[i]]
  BY DEF LegacyInit
<1>3. cfg \in [mode : {"Dma", "Buff", "Byte"}, multi : BOOLEAN]
  BY DEF LegacyInit
<1> QED
  BY <1>1, <1>2, <1>3 DEF LegacyInit, LegacyTypes, Places, Engaged

(* Where the thread goes after a transfer.                                 *)
LEMMA AfterTransfer ==
  ASSUME LegacyTypes, k \in DOMAIN prog, ToNext
  PROVE  \/ /\ k = 1 /\ Len(prog) = 2 /\ 2 \in DOMAIN prog
            /\ at' = "prepare" /\ k' = 2
         \/ /\ k = Len(prog) /\ k' = k
            /\ at' = "done" /\ ret' = "Ok"
<1>1. /\ prog \in Seq(Transfer) /\ Len(prog) \in Nat /\ Len(prog) <= 2
      /\ DOMAIN prog = 1 .. Len(prog) /\ k \in {1, 2}
  BY DEF LegacyTypes
<1> QED
  BY <1>1 DEF ToNext, Leave

(* What the handler changes.                                               *)
LEMMA MasterIrqFrame ==
  ASSUME LegacyTypes, MasterIrq
  PROVE  /\ UNCHANGED <<cfg, prog, k, ncalls, got, msg, xlen, pool, wire, taken,
                        failed, slipped, target>>
         /\ \/ at' = at /\ ret' = ret
            \/ at = "wait" /\ at' = "failed" /\ ret' = ret
            \/ at # "wait" /\ at' = "done" /\ ret' = "Bus"
         /\ completion' \in {completion, TRUE}
         /\ at \in {"wait", "recover"} /\ ~completion /\ status # {}
<1>1. WaitFails => \/ at = "wait" /\ at' = "failed" /\ ret' = ret
                   \/ at # "wait" /\ at' = "done" /\ ret' = "Bus"
  BY DEF WaitFails, Leave
<1>2. \A s : PackageIrq(s) =>
        /\ completion' \in {completion, TRUE}
        /\ WaitFails \/ UNCHANGED <<at, ret>>
  BY DEF PackageIrq, Counted
<1>3. /\ completion' \in {completion, TRUE}
      /\ WaitFails \/ UNCHANGED <<at, ret>>
  BY <1>2 DEF MasterIrq
<1> QED
  BY <1>1, <1>3 DEF MasterIrq

(* Buffers stay functions of their places.                                 *)
LEMMA BufShape ==
  ASSUME LegacyTypes, NEW f, DOMAIN f = DOMAIN buf, f = [i \in DOMAIN f |-> f[i]]
  PROVE  f = [i \in 0 .. BufLen + Word |-> f[i]]
<1>1. DOMAIN buf = 0 .. BufLen + Word
  BY DEF LegacyTypes
<1> QED
  BY <1>1

(* What the handler makes of the buffer.                                   *)
LEMMA MasterIrqTypes ==
  ASSUME LegacyTypes, MasterIrq
  PROVE  buf' = [i \in 0 .. BufLen + Word |-> buf'[i]]
<1>1. DOMAIN Received = DOMAIN buf /\ Received = [i \in DOMAIN Received |-> Received[i]]
  <2>1. CASE cfg.mode = "Buff"
    BY <2>1 DEF Received, FromPool
  <2>2. CASE cfg.mode = "Byte"
    BY <2>2 DEF Received, LegacyTypes
  <2>3. CASE cfg.mode = "Dma"
    BY <2>3 DEF Received
  <2> QED
    BY <2>1, <2>2, <2>3 DEF LegacyTypes
<1>2. Received = [i \in 0 .. BufLen + Word |-> Received[i]]
  BY <1>1, BufShape
<1>3. \A s : PackageIrq(s) => buf' = buf \/ buf' = Received
  BY DEF PackageIrq
<1>4. buf' = buf \/ buf' = Received
  BY <1>3 DEF MasterIrq
<1> QED
  BY <1>2, <1>4 DEF LegacyTypes

(* Every step keeps the types.                                             *)
LEMMA LegacyTypesStep ==
  ASSUME LegacyTypes, [LegacyNext]_legacyVars
  PROVE  LegacyTypes'
<1> USE DEF LegacyTypes, Places, Engaged, thread, message, engine, target
<1>1. CASE Initialise
  <2>1. cfg' \in [mode : {"Dma", "Buff", "Byte"}, multi : BOOLEAN]
    BY <1>1, LegacyAssumption DEF Initialise
  <2>2. UNCHANGED <<prog, k, completion, failed, slipped, buf>> /\ at' = "idle"
    BY <1>1 DEF Initialise
  <2> QED
    BY <2>1, <2>2
<1>2. CASE Call
  <2>1. PICK p \in Seq(Transfer) : Len(p) <= 2 /\ Begin(p)
    BY <1>2, LegacyCalls
  <2>2. /\ prog' = p /\ k' = 1 /\ failed' = FALSE
        /\ at' = IF p = <<>> THEN "done" ELSE "prepare"
        /\ slipped' \in BOOLEAN
        /\ UNCHANGED <<cfg, completion, buf>>
    BY <2>1 DEF Begin
  <2>3. p # <<>> => 1 \in DOMAIN p
    BY <2>1, EmptySeq
  <2>4. at' \in {"done", "prepare"} /\ (at' = "prepare" => 1 \in DOMAIN prog')
    BY <2>2, <2>3
  <2> QED
    BY <2>1, <2>2, <2>4
<1>3. CASE Prepare
  <2>1. buf' = [i \in 0 .. BufLen + Word |-> buf'[i]]
    <3> DEFINE f == [i \in DOMAIN buf |->
                       IF prog[k].dir = "write" /\ i < prog[k].len
                       THEN Byte(i) ELSE buf[i]]
    <3>1. buf' = f
      BY <1>3 DEF Prepare
    <3>2. DOMAIN f = DOMAIN buf /\ f = [i \in DOMAIN f |-> f[i]]
      OBVIOUS
    <3> HIDE DEF f
    <3> QED
      BY <3>1, <3>2, BufShape
  <2>2. /\ UNCHANGED <<cfg, prog, k, failed, slipped>> /\ at = "prepare" /\ at' = "start"
        /\ msg' = prog[k] /\ completion' = FALSE /\ cnt' = 0
    BY <1>3 DEF Prepare
  <2> QED
    BY <2>1, <2>2
<1>4. CASE Start
  <2>1. /\ UNCHANGED <<cfg, prog, k, msg, completion, failed, slipped, buf>>
        /\ at = "start" /\ at' = "wait"
    BY <1>4 DEF Start
  <2> QED
    BY <2>1
<1>5. CASE RecoverBus
  <2>1. /\ UNCHANGED <<cfg, prog, k, msg, completion, failed, slipped, buf>>
        /\ at = "start" /\ at' \in {"recover", "done"}
    BY <1>5 DEF RecoverBus, Leave
  <2> QED
    BY <2>1
<1>6. CASE MasterIrq
  <2>1. buf' = [i \in 0 .. BufLen + Word |-> buf'[i]]
    BY <1>6, MasterIrqTypes
  <2>2. /\ UNCHANGED <<cfg, prog, k, msg, failed, slipped>>
        /\ completion' \in BOOLEAN /\ at \in {"wait", "recover"}
        /\ at' \in {at, "failed", "done"}
        /\ at' = "failed" => at = "wait"
    BY <1>6, MasterIrqFrame
  <2> QED
    BY <2>1, <2>2
<1>7. CASE TimeOut
  <2>1. /\ UNCHANGED <<cfg, prog, k, msg, failed, slipped, completion, buf>>
        /\ at \in {"wait", "recover"} /\ at' \in {"failed", "done"}
        /\ at' = "failed" => at = "wait"
    BY <1>7 DEF TimeOut, WaitFails, Leave
  <2> QED
    BY <2>1
<1>8. CASE Completed \/ FailedStatus \/ FailedDirection \/ FailedReset
  <2>1. /\ UNCHANGED <<cfg, prog, msg, completion, failed, buf>>
        /\ k \in DOMAIN prog /\ at \in Engaged /\ slipped' \in {slipped, FALSE}
        /\ \/ at' \in {"look", "reset", "done"} /\ k' = k
           \/ ToNext
    BY <1>8 DEF Completed, FailedStatus, FailedDirection, FailedReset, Over, Leave
  <2>2. \/ at' \in {"look", "reset", "done"} /\ k' = k
        \/ at' = "prepare" /\ k' = 2 /\ 2 \in DOMAIN prog
    BY <2>1, AfterTransfer
  <2> QED
    BY <2>1, <2>2
<1>9. CASE Finish
  <2>1. /\ prog' = <<>> /\ k' = 1 /\ failed' = FALSE /\ at' = "idle"
        /\ UNCHANGED <<cfg, completion, slipped, buf>>
    BY <1>9 DEF Finish
  <2>2. <<>> \in Seq(Transfer) /\ Len(<<>>) <= 2
    OBVIOUS
  <2> QED
    BY <2>1, <2>2
<1>10. CASE Register \/ Unregister
  <2>1. UNCHANGED <<thread, message, engine>>
    BY <1>10 DEF Register, Unregister
  <2> QED
    BY <2>1
<1>11. CASE EngineDone \/ EngineFails \/ EngineRecovers
  <2>1. /\ UNCHANGED <<thread, message>>
        /\ failed' \in {failed, TRUE} /\ slipped' \in BOOLEAN
    BY <1>11 DEF EngineDone, EngineFails, EngineRecovers, Slips
  <2> QED
    BY <2>1, ZenonT(60)
<1>12. CASE UNCHANGED legacyVars
  BY <1>12 DEF legacyVars
<1> QED
  BY <1>1, <1>2, <1>3, <1>4, <1>5, <1>6, <1>7, <1>8, <1>9, <1>10, <1>11, <1>12
  DEF LegacyNext, Driver

-----------------------------------------------------------------------------
(* The engine, the status bits and the recoveries.                         *)

(* The ways through one round of the poll.                                 *)
LEMMA MasterIrqCases ==
  ASSUME MasterIrq
  PROVE  \/ /\ "BUS_RECOVER_FAIL" \in status /\ status' = {} /\ WaitFails
            /\ UNCHANGED <<completion, cnt, buf, eng>>
         \/ /\ status \cap Recovered = {"BUS_RECOVER"}
            /\ status' = status \ {"BUS_RECOVER_FAIL"}
            /\ UNCHANGED <<at, ret, completion, cnt, buf, eng>>
         \/ /\ status \cap Recovered = {} /\ status \cap BusErrors # {}
            /\ status' = {} /\ completion' = TRUE /\ WaitFails
            /\ UNCHANGED <<cnt, buf, eng>>
         \/ /\ status \cap Recovered = {} /\ "PKT_DONE" \in status
            /\ status' = {} /\ PackageIrq(status \ {"PKT_DONE"})
         \/ /\ status \cap Recovered = {} /\ "PKT_DONE" \notin status
            /\ status' = {}
            /\ UNCHANGED <<at, ret, completion, cnt, buf, eng>>
<1>1. \/ "BUS_RECOVER_FAIL" \in status
      \/ status \cap Recovered = {"BUS_RECOVER"} /\ "BUS_RECOVER_FAIL" \notin status
      \/ status \cap Recovered = {} /\ "BUS_RECOVER_FAIL" \notin status
  BY DEF Recovered
<1>2. CASE "BUS_RECOVER_FAIL" \in status
  <2>1. status \cap Recovered # {"BUS_RECOVER"} /\ status \cap Recovered # {}
        /\ status \cap (Recovered \cup BusErrors) # {}
    BY <1>2 DEF Recovered
  <2> QED
    BY <1>2, <2>1 DEF MasterIrq
<1>3. CASE status \cap Recovered = {"BUS_RECOVER"} /\ "BUS_RECOVER_FAIL" \notin status
  <2>1. status \cap Recovered # {} /\ status \cap (Recovered \cup BusErrors) # {}
    BY <1>3
  <2> QED
    BY <1>3, <2>1 DEF MasterIrq
<1>4. CASE status \cap Recovered = {} /\ "BUS_RECOVER_FAIL" \notin status
  <2>1. status \cap Recovered # {"BUS_RECOVER"}
    BY <1>4
  <2>2. CASE status \cap BusErrors # {}
    <3>1. status \cap (Recovered \cup BusErrors) # {}
      BY <2>2
    <3> QED
      BY <1>4, <2>1, <2>2, <3>1 DEF MasterIrq
  <2>3. CASE status \cap BusErrors = {}
    <3>1. status \cap (Recovered \cup BusErrors) = {}
      BY <1>4, <2>3
    <3> QED
      BY <1>4, <2>1, <2>3, <3>1 DEF MasterIrq
  <2> QED
    BY <2>2, <2>3
<1> QED
  BY <1>1, <1>2, <1>3, <1>4

(* What a package leaves: the next command, or none and perhaps the end of *)
(* the transfer.                                                           *)
LEMMA PackageEngine ==
  ASSUME LegacyTypes, NEW s, PackageIrq(s), ~completion
  PROVE  \/ eng' = eng
         \/ completion' = completion /\ \E c : eng' = Command(c, FALSE)
BY DEF PackageIrq, Counted, Issued

(* A command moves bytes.                                                  *)
LEMMA CommandMoves ==
  ASSUME LegacyTypes, at \in {"start", "recover", "wait"}, NEW c, NEW s
  PROVE  /\ Command(c, s).dir = msg.dir /\ msg.dir \in {"write", "read"}
         /\ msg \in Transfer
<1>1. k \in DOMAIN prog /\ msg = prog[k] /\ prog \in Seq(Transfer)
  BY DEF LegacyTypes, Engaged
<1>2. msg \in Transfer
  BY <1>1
<1> QED
  BY <1>2 DEF Command, Transfer

(* The handler leaves the engine alone, or starts a command.               *)
LEMMA MasterIrqCommand ==
  ASSUME LegacyTypes, MasterIrq
  PROVE  eng' = eng \/ eng'.dir \in {"write", "read"}
<1>1. at \in {"wait", "recover"} /\ ~completion
  BY MasterIrqFrame
<1>2. eng' = eng \/ \E c : eng' = Command(c, FALSE)
  BY <1>1, MasterIrqCases, PackageEngine
<1> QED
  BY <1>1, <1>2, CommandMoves

(* What the handler leaves of the engine and its status.                   *)
LEMMA MasterIrqEngine ==
  ASSUME LegacyTypes, Undisturbed, MasterIrq
  PROVE  Undisturbed'
<1> USE DEF Engaged
<1>1. /\ msg' = msg /\ at' \in {at, "failed", "done"} /\ ~completion
      /\ \/ at = "wait" /\ at' \in {"wait", "failed"}
         \/ at = "recover" /\ at' \in {"recover", "done"}
      /\ WaitFails => \/ at = "wait" /\ at' = "failed"
                      \/ at = "recover" /\ at' = "done"
  BY MasterIrqFrame DEF WaitFails, Leave
<1>2. CASE status \subseteq Recovered
  <2>1. eng' = eng /\ completion' = completion /\ status' \subseteq Recovered
    <3>1. "PKT_DONE" \notin status /\ status \cap BusErrors = {}
      BY <1>2, LegacyAssumption DEF Recovered
    <3> QED
      BY <1>2, <3>1, MasterIrqCases
  <2> QED
    BY <1>1, <1>2, <2>1 DEF Undisturbed, Quiet, Transferring
<1>3. CASE ~(status \subseteq Recovered)
  <2>1. at = "wait" /\ "PKT_DONE" \in status /\ eng = NoCmd
    BY <1>1, <1>3 DEF Undisturbed, Quiet
  <2>2. /\ \/ eng' = NoCmd
           \/ /\ eng'.dir \in {"write", "read"}
              /\ status' = {} /\ completion' = completion
        /\ \/ status' = {}
           \/ eng' = NoCmd /\ "PKT_DONE" \in status' /\ completion' = completion
    <3>1. CASE PackageIrq(status \ {"PKT_DONE"}) /\ status' = {}
      BY <1>1, <2>1, <3>1, PackageEngine, CommandMoves
    <3>2. CASE ~(PackageIrq(status \ {"PKT_DONE"}) /\ status' = {})
      BY <2>1, <3>2, MasterIrqCases
    <3> QED
      BY <3>1, <3>2
  <2>3. status' = {} => status' \subseteq Recovered
    OBVIOUS
  <2> QED
    BY <1>1, <2>1, <2>2, <2>3 DEF Undisturbed, Transferring
<1> QED
  BY <1>2, <1>3

(* Every step that follows no slip keeps the engine's part of the          *)
(* invariant.                                                              *)
LEMMA UndisturbedStep ==
  ASSUME LegacyTypes, LegacyEngine, [LegacyNext]_legacyVars, ~slipped'
  PROVE  Undisturbed'
<1> USE DEF Engaged, thread, message, engine, target
<1>1. CASE Initialise
  BY <1>1 DEF Initialise, MasterReset, Undisturbed, Quiet
<1>2. CASE Call
  <2>1. PICK p : Begin(p)
    BY <1>2, LegacyCalls
  <2>2. /\ at = "idle" /\ at' \in {"done", "prepare"}
        /\ UNCHANGED <<eng, status>> /\ (~slipped \/ LeftQuietly)
    BY <2>1 DEF Begin
  <2>3. Quiet
    BY <2>2 DEF LegacyEngine, Undisturbed, Quiet, LeftQuietly
  <2> QED
    BY <2>2, <2>3 DEF Undisturbed, Quiet
<1>3. CASE FailedReset
  <2>1. at' = "done" /\ eng' = NoCmd /\ status' = {}
    BY <1>3 DEF FailedReset, MasterReset, Leave
  <2> QED
    BY <2>1 DEF Undisturbed, Quiet
<1>4. CASE slipped' = slipped
  <2> USE <1>4
  <2>1. Undisturbed
    BY DEF LegacyEngine
  <2>2. CASE Prepare \/ Finish
    <3>1. /\ at \notin Engaged /\ at' \notin Engaged
          /\ UNCHANGED <<eng, status>>
      BY <2>2 DEF Prepare, Finish
    <3> QED
      BY <2>1, <3>1 DEF Undisturbed, Quiet
  <2>3. CASE Start
    <3>1. /\ at = "start" /\ at' = "wait" /\ eng' = Command(cnt, TRUE)
          /\ UNCHANGED <<msg, completion, status>> /\ ~completion
      BY <2>3 DEF Start, Issued, LegacyTypes
    <3>2. eng'.dir \in {"write", "read"}
      BY <3>1, CommandMoves
    <3> QED
      BY <2>1, <3>1, <3>2 DEF Undisturbed, Quiet, Transferring
  <2>4. CASE RecoverBus
    <3>1. /\ at' \in {"recover", "done"} /\ status' = {}
          /\ eng' \in {NoCmd, Recover}
      BY <2>4 DEF RecoverBus, Leave, MasterReset
    <3> QED
      BY <3>1 DEF Undisturbed, Quiet
  <2>5. CASE MasterIrq
    BY <2>1, <2>5, MasterIrqEngine
  <2>6. CASE TimeOut
    <3>1. /\ \/ at = "wait" /\ at' = "failed"
             \/ at = "recover" /\ at' = "done"
          /\ UNCHANGED <<eng, status>>
      BY <2>6 DEF TimeOut, WaitFails, Leave
    <3> QED
      BY <2>1, <3>1 DEF Undisturbed, Quiet, Transferring
  <2>7. CASE Completed
    <3>1. /\ at = "wait" /\ completion /\ at' \in {"prepare", "done"}
          /\ UNCHANGED <<eng, status>>
      BY <2>7 DEF Completed, Over, ToNext, Leave
    <3> QED
      BY <2>1, <3>1 DEF Undisturbed, Quiet
  <2>8. CASE FailedStatus
    <3>1. /\ at = "failed" /\ UNCHANGED <<eng, status>>
          /\ \/ at' = "reset"
             \/ at' = "look" /\ status = {}
      BY <2>8 DEF FailedStatus
    <3> QED
      BY <2>1, <3>1 DEF Undisturbed, Transferring
  <2>9. CASE FailedDirection
    <3>1. /\ at = "look" /\ UNCHANGED <<eng, status>>
          /\ \/ at' = "reset"
             \/ at' \in {"prepare", "done"} /\ Idle
      BY <2>9 DEF FailedDirection, Over, ToNext, Leave, Direction
    <3> QED
      BY <2>1, <3>1 DEF Idle, Undisturbed, Quiet, Transferring
  <2>10. CASE Register \/ Unregister
    <3>1. UNCHANGED <<thread, message, engine>>
      BY <2>10 DEF Register, Unregister
    <3> QED
      BY <2>1, <3>1 DEF Undisturbed, Quiet, Transferring
  <2>11. CASE EngineDone \/ EngineFails
    <3>1. /\ UNCHANGED <<thread, message>> /\ eng' = NoCmd /\ at # "look"
          /\ Transferring /\ "PKT_DONE" \in status'
      BY <2>11 DEF EngineDone, EngineFails, Slips
    <3>2. eng # NoCmd /\ eng # Recover
      BY <3>1 DEF Transferring, NoCmd, Recover
    <3> QED
      BY <2>1, <3>1, <3>2 DEF Undisturbed, Quiet
  <2>12. CASE EngineRecovers
    <3>1. /\ UNCHANGED <<thread, message>> /\ eng' = NoCmd /\ eng = Recover
          /\ \E b \in Recovered : status' = status \cup {b}
      BY <2>12 DEF EngineRecovers, Recovered
    <3>2. eng # NoCmd /\ ~Transferring
      BY <3>1 DEF NoCmd, Recover, Transferring
    <3>3. at \notin Engaged
      BY <2>1, <3>2 DEF Undisturbed
    <3> QED
      BY <2>1, <3>1, <3>3 DEF Undisturbed, Quiet
  <2>13. CASE UNCHANGED legacyVars
    BY <2>1, <2>13 DEF legacyVars, Undisturbed, Quiet, Transferring
  <2> QED
    BY <1>1, <1>2, <1>3, <2>2, <2>3, <2>4, <2>5, <2>6, <2>7, <2>8, <2>9, <2>10,
       <2>11, <2>12, <2>13, [LegacyNext]_legacyVars
    DEF LegacyNext, Driver
<1>5. CASE slipped' # slipped
  <2>1. UNCHANGED <<slipped>> \/ Call \/ FailedReset \/ EngineDone \/ EngineFails
    BY [LegacyNext]_legacyVars
    DEF LegacyNext, Driver, legacyVars, Initialise, Register, Unregister, Prepare,
        Start, RecoverBus, MasterIrq, TimeOut, Completed, FailedStatus,
        FailedDirection, Finish, EngineRecovers
  <2>2. CASE EngineDone \/ EngineFails
    <3>1. slipped \/ slipped' = slipped \/ slipped'
      BY <2>2 DEF EngineDone, EngineFails, Slips, LegacyTypes
    <3>2. slipped => slipped'
      BY <2>2 DEF EngineDone, EngineFails, Slips
    <3> QED
      BY <1>5, <3>1, <3>2 DEF LegacyTypes
  <2> QED
    BY <1>2, <1>3, <1>5, <2>1, <2>2
<1> QED
  BY <1>4, <1>5

(* Every step keeps the engine's part of the invariant.                    *)
LEMMA LegacyEngineStep ==
  ASSUME LegacyTypes, LegacyEngine, [LegacyNext]_legacyVars
  PROVE  LegacyEngine'
<1> USE DEF thread, message, engine, target
<1>1. eng' \in {NoCmd, Recover} \/ Transferring'
  <2>1. CASE eng' = eng
    BY <2>1 DEF LegacyEngine, Transferring
  <2>2. CASE eng' # eng
    <3>1. \/ Initialise \/ Start \/ RecoverBus \/ MasterIrq \/ FailedReset
          \/ EngineDone \/ EngineFails \/ EngineRecovers
      <4>1. Call => eng' = eng
        BY LegacyCalls DEF Begin
      <4> QED
        BY <2>2, <4>1, [LegacyNext]_legacyVars
        DEF LegacyNext, Driver, legacyVars, Register, Unregister, Prepare, TimeOut,
            Completed, FailedStatus, FailedDirection, Finish
    <3>2. CASE Start
      <4>1. at = "start" /\ eng' = Command(cnt, TRUE)
        BY <3>2 DEF Start, Issued
      <4> QED
        BY <4>1, CommandMoves DEF Transferring
    <3>3. CASE MasterIrq
      BY <2>2, <3>3, MasterIrqCommand DEF Transferring
    <3>4. CASE \/ Initialise \/ RecoverBus \/ FailedReset
               \/ EngineDone \/ EngineFails \/ EngineRecovers
      BY <3>4 DEF Initialise, RecoverBus, FailedReset, MasterReset, EngineDone,
         EngineFails, EngineRecovers
    <3> QED
      BY <3>1, <3>2, <3>3, <3>4
  <2> QED
    BY <2>1, <2>2
<1> QED
  BY <1>1, UndisturbedStep DEF LegacyEngine

(* The types and the engine, always.                                       *)
LEMMA LegacyShape == LegacySpec => [](LegacyTypes /\ LegacyEngine)
<1>1. LegacyInit => LegacyTypes /\ LegacyEngine
  <2>1. LegacyInit => LegacyEngine
    BY DEF LegacyInit, LegacyEngine, Undisturbed, Quiet, Engaged
  <2> QED
    BY <2>1, LegacyTypesInit
<1>2. LegacyTypes /\ LegacyEngine /\ [LegacyNext]_legacyVars
        => LegacyTypes' /\ LegacyEngine'
  BY LegacyTypesStep, LegacyEngineStep
<1> QED
  BY <1>1, <1>2, PTL DEF LegacySpec

(* For every mode, length and number of calls: between calls the engine    *)
(* has no command but a recovery, and no status but a recovery's, unless a *)
(* command ended between the two reads after a failed wait and what it     *)
(* left is still there.                                                    *)
THEOREM LegacyLeftQuiet == LegacySpec => []LeftQuiet
<1>1. LegacyEngine => LeftQuiet
  BY DEF LegacyEngine, Undisturbed, Engaged, Quiet, LeftQuiet, Recovered
<1> QED
  BY <1>1, LegacyShape, PTL

-----------------------------------------------------------------------------
(* Recoveries that were given up.                                          *)

(* Every step keeps the part of the invariant about recoveries.            *)
LEMMA LegacyRecoveryStep ==
  ASSUME LegacyTypes, LegacyRecovery, [LegacyNext]_legacyVars
  PROVE  LegacyRecovery'
<1> USE DEF Engaged, thread, message, engine, target
<1>1. CASE Initialise
  BY <1>1 DEF Initialise, MasterReset, LegacyRecovery, NoCmd, Recover
<1>2. CASE Call
  <2>1. PICK p : Begin(p)
    BY <1>2, LegacyCalls
  <2>2. at' \notin Engaged /\ UNCHANGED <<cfg, eng, status, wire>>
    BY <2>1 DEF Begin
  <2> QED
    BY <2>2 DEF LegacyRecovery
<1>3. CASE Prepare \/ Finish
  <2>1. at' \notin Engaged /\ UNCHANGED <<cfg, eng, status, wire>>
    BY <1>3 DEF Prepare, Finish
  <2> QED
    BY <2>1 DEF LegacyRecovery
<1>4. CASE Start
  <2>1. /\ at = "start" /\ eng' = Command(cnt, TRUE) /\ ~MustRecover
        /\ UNCHANGED <<cfg, status, wire>>
    BY <1>4 DEF Start, Issued
  <2>2. eng' # Recover
    <3>1. eng'.dir \in {"write", "read"}
      BY <2>1, CommandMoves
    <3> QED
      BY <3>1 DEF Recover
  <2>3. "BUS_RECOVER_FAIL" \notin status
    BY <2>1 DEF LegacyRecovery, MustRecover
  <2> QED
    BY <2>1, <2>2, <2>3 DEF LegacyRecovery
<1>5. CASE RecoverBus
  <2>1. /\ ~cfg.multi /\ cfg' = cfg /\ status' = {}
        /\ eng' = Recover => wire' = "stuck"
        /\ at' \in {"recover", "done"}
    BY <1>5 DEF RecoverBus, MustRecover, MasterReset, NoCmd, Recover, Leave
  <2> QED
    BY <2>1 DEF LegacyRecovery
<1>6. CASE MasterIrq
  <2>1. UNCHANGED <<cfg, wire>> /\ status # {}
        /\ (at = "wait" \/ at = "recover") /\ ~completion
    BY <1>6, MasterIrqFrame
  <2>2. "BUS_RECOVER_FAIL" \notin status'
    BY <1>6, MasterIrqCases
  <2>3. eng' # Recover
    <3>1. CASE eng' = eng
      BY <2>1, <3>1 DEF LegacyRecovery
    <3>2. CASE eng'.dir \in {"write", "read"}
      BY <3>2 DEF Recover
    <3> QED
      BY <1>6, <3>1, <3>2, MasterIrqCommand
  <2> QED
    BY <2>2, <2>3 DEF LegacyRecovery
<1>7. CASE TimeOut
  <2>1. /\ \/ at = "wait" /\ at' = "failed"
           \/ at = "recover" /\ at' = "done"
        /\ UNCHANGED <<cfg, eng, status, wire>>
    BY <1>7 DEF TimeOut, WaitFails, Leave
  <2> QED
    BY <2>1 DEF LegacyRecovery
<1>8. CASE Completed
  <2>1. at' \in {"prepare", "done"} /\ UNCHANGED <<cfg, eng, status, wire>>
    BY <1>8 DEF Completed, Over, ToNext, Leave
  <2> QED
    BY <2>1 DEF LegacyRecovery
<1>9. CASE FailedStatus \/ FailedDirection
  <2>1. at \in Engaged /\ UNCHANGED <<cfg, eng, status, wire>>
    BY <1>9 DEF FailedStatus, FailedDirection
  <2> QED
    BY <2>1 DEF LegacyRecovery
<1>14. CASE FailedReset
  <2>1. eng' = NoCmd /\ status' = {}
    BY <1>14 DEF FailedReset, MasterReset
  <2> QED
    BY <2>1 DEF LegacyRecovery, NoCmd, Recover
<1>10. CASE Register \/ Unregister
  <2>1. UNCHANGED <<thread, message, engine>>
    BY <1>10 DEF Register, Unregister
  <2> QED
    BY <2>1 DEF LegacyRecovery
<1>11. CASE EngineDone \/ EngineFails
  <2>1. /\ UNCHANGED <<thread, message>> /\ eng' = NoCmd
        /\ Transferring
    BY <1>11 DEF EngineDone, EngineFails
  <2>2. "BUS_RECOVER_FAIL" \notin status
    BY <2>1 DEF LegacyRecovery, Transferring, NoCmd
  <2>3. "BUS_RECOVER_FAIL" \notin status'
    <3>1. CASE EngineDone
      BY <2>2, <3>1 DEF EngineDone
    <3>2. CASE EngineFails
      <4>1. PICK e \in BusErrors \cup {"TX_NAK"}, bits \in {{}, {"NORMAL_STOP"}} :
              status' = status \cup bits \cup {"PKT_DONE", "PKT_ERROR", e}
        BY <3>2 DEF EngineFails
      <4> QED
        BY <2>2, <4>1, LegacyAssumption
    <3> QED
      BY <1>11, <3>1, <3>2
  <2> QED
    BY <2>1, <2>3 DEF LegacyRecovery, NoCmd, Recover
<1>12. CASE EngineRecovers
  <2>1. /\ UNCHANGED <<thread, message>> /\ eng' = NoCmd /\ eng = Recover
        /\ \/ status' = status \cup {"BUS_RECOVER"}
           \/ "BUS_RECOVER_FAIL" \in status' /\ wire' = wire
    BY <1>12 DEF EngineRecovers
  <2> QED
    BY <2>1 DEF LegacyRecovery, NoCmd, Recover
<1>13. CASE UNCHANGED legacyVars
  BY <1>13 DEF legacyVars, LegacyRecovery
<1> QED
  BY <1>1, <1>2, <1>3, <1>4, <1>5, <1>6, <1>7, <1>8, <1>9, <1>10, <1>11, <1>12,
     <1>13, <1>14, [LegacyNext]_legacyVars
  DEF LegacyNext, Driver

-----------------------------------------------------------------------------
(* The bytes of a call.                                                    *)

Items == {ncalls} \X {1, 2} \X Int

(* A message has a byte, and fits its buffer.                              *)
LEMMA LengthFits ==
  \A n \in Lens : n \in Nat /\ 1 <= n /\ n <= BufLen /\ BufLen \in Nat
BY LegacyAssumption

(* The first bytes of the transfer under way.                              *)
LEMMA UptoType ==
  ASSUME LegacyTypes, NEW n \in Nat
  PROVE  /\ Upto(n) \in Seq(Items) /\ Len(Upto(n)) = n
         /\ \A i \in 1 .. n : Upto(n)[i] = Byte(i - 1)
<1>1. \A i \in 1 .. n : Byte(i - 1) \in Items
  BY DEF Byte, Items, LegacyTypes
<1> QED
  BY <1>1 DEF Upto

(* What a chunk adds.                                                      *)
LEMMA UptoAppend ==
  ASSUME LegacyTypes, NEW c \in Nat, NEW n \in Nat
  PROVE  Upto(c) \o [i \in 1 .. n |-> Byte(c + i - 1)] = Upto(c + n)
<1> DEFINE a == Upto(c)
           b == [i \in 1 .. n |-> Byte(c + i - 1)]
           r == Upto(c + n)
<1>1. a \in Seq(Items) /\ Len(a) = c /\ \A i \in 1 .. c : a[i] = Byte(i - 1)
  BY UptoType
<1>2. r \in Seq(Items) /\ Len(r) = c + n
      /\ \A i \in 1 .. c + n : r[i] = Byte(i - 1)
  BY UptoType
<1>3. \A i \in 1 .. n : Byte(c + i - 1) \in Items
  BY DEF Byte, Items, LegacyTypes
<1>4. b \in Seq(Items) /\ Len(b) = n /\ \A i \in 1 .. n : b[i] = Byte(c + i - 1)
  BY <1>3
<1> HIDE DEF a, b, r
<1>5. /\ a \o b \in Seq(Items) /\ Len(a \o b) = c + n
      /\ \A j \in 1 .. c + n : (a \o b)[j] = IF j <= c THEN a[j] ELSE b[j - c]
  BY <1>1, <1>4, ConcatProperties
<1>6. \A j \in 1 .. c + n : (a \o b)[j] = r[j]
  <2> TAKE j \in 1 .. c + n
  <2>1. CASE j <= c
    <3>1. j \in 1 .. c
      BY <2>1
    <3>2. a[j] = Byte(j - 1)
      BY <1>1, <3>1
    <3>3. (a \o b)[j] = a[j]
      BY <1>5, <2>1
    <3> QED
      BY <1>2, <3>2, <3>3
  <2>2. CASE j > c
    <3>1. j - c \in 1 .. n /\ c + (j - c) - 1 = j - 1
      BY <2>2
    <3>2. b[j - c] = Byte(j - 1)
      BY <1>4, <3>1
    <3>3. (a \o b)[j] = b[j - c]
      BY <1>5, <2>2
    <3>4. r[j] = Byte(j - 1)
      BY <1>2
    <3> QED
      BY <3>2, <3>3, <3>4
  <2>3. j <= c \/ j > c
    OBVIOUS
  <2> QED
    BY <2>1, <2>2, <2>3
<1>7. a \o b = r
  BY <1>2, <1>5, <1>6, SeqEqual
<1> QED
  BY <1>7 DEF a, b, r

(* No bytes are the empty sequence.                                        *)
LEMMA UptoNone == Upto(0) = <<>>
BY DEF Upto

(* What a transfer asks for.                                               *)
LEMMA AskedType ==
  ASSUME LegacyTypes, NEW dir, NEW j \in {1, 2}
  PROVE  Asked(dir, j) \in Seq(Items)
<1>1. CASE j \in DOMAIN prog /\ prog[j].dir = dir
  <2>1. prog[j].len \in Nat
    <3>1. prog[j] \in Transfer
      BY <1>1 DEF LegacyTypes
    <3> QED
      BY <3>1, LengthFits DEF Transfer
  <2>2. \A i \in 1 .. prog[j].len : <<ncalls, j, i - 1>> \in Items
    BY <2>1 DEF Items
  <2>3. [i \in 1 .. prog[j].len |-> <<ncalls, j, i - 1>>] \in Seq(Items)
    BY <2>1, <2>2
  <2> QED
    BY <1>1, <2>3 DEF Asked
<1>2. CASE ~(j \in DOMAIN prog /\ prog[j].dir = dir)
  BY <1>2 DEF Asked
<1> QED
  BY <1>1, <1>2

(* What the transfers before the one under way ask for.                    *)
LEMMA BeforeType ==
  ASSUME LegacyTypes, NEW dir
  PROVE  Before(dir) \in Seq(Items)
BY AskedType DEF Before

(* The transfer under way asks for all of its bytes.                       *)
LEMMA AskedNow ==
  ASSUME LegacyTypes, NEW dir, k \in DOMAIN prog
  PROVE  Asked(dir, k) = IF prog[k].dir = dir THEN Upto(prog[k].len) ELSE <<>>
BY DEF Asked, Upto, Byte

(* What the call asks for, when the last of its transfers is under way.    *)
LEMMA SentNow ==
  ASSUME LegacyTypes, NEW dir, k \in DOMAIN prog, k = Len(prog)
  PROVE  Sent(dir) = Before(dir) \o Asked(dir, k)
<1>1. /\ Asked(dir, 1) \in Seq(Items) /\ Asked(dir, 2) \in Seq(Items)
      /\ k \in {1, 2} /\ DOMAIN prog = 1 .. Len(prog)
  BY AskedType DEF LegacyTypes
<1>2. CASE k = 1
  <2>1. Asked(dir, 2) = <<>>
    BY <1>1, <1>2 DEF Asked
  <2>2. Sent(dir) = Asked(dir, 1) /\ Before(dir) = <<>>
    BY <1>1, <1>2, <2>1, ConcatEmptySeq DEF Sent, Before
  <2> QED
    BY <1>1, <1>2, <2>2, ConcatEmptySeq
<1>3. CASE k = 2
  BY <1>1, <1>3 DEF Sent, Before
<1> QED
  BY <1>1, <1>2, <1>3

-----------------------------------------------------------------------------
(* What was moved while nothing failed.                                    *)

(* The transfer under way.                                                 *)
LEMMA MessageFacts ==
  ASSUME LegacyTypes, at \in {"start", "wait"}
  PROVE  /\ k \in DOMAIN prog /\ msg = prog[k] /\ msg.dir \in {"write", "read"}
         /\ msg.len \in Nat /\ 1 <= msg.len /\ msg.len <= BufLen /\ BufLen \in Nat
         /\ cfg.mode \in {"Dma", "Buff", "Byte"}
<1>1. k \in DOMAIN prog /\ msg = prog[k] /\ prog \in Seq(Transfer)
  BY DEF LegacyTypes, Engaged
<1>2. msg \in Transfer
  BY <1>1
<1>3. msg.dir \in {"write", "read"} /\ msg.len \in Lens
  BY <1>2 DEF Transfer
<1> QED
  BY <1>1, <1>3, LengthFits DEF LegacyTypes

(* A chunk has a byte, and ends with the message or before it.             *)
LEMMA PartFacts ==
  ASSUME LegacyTypes, at \in {"start", "wait"}, NEW c \in 0 .. msg.len - 1
  PROVE  /\ ChunkLen(c) \in Nat /\ 1 <= ChunkLen(c) /\ c + ChunkLen(c) <= msg.len
         /\ cfg.mode = "Byte" => ChunkLen(c) = 1
         /\ cfg.mode = "Dma" => ChunkLen(c) = msg.len - c
BY MessageFacts, LegacyAssumption DEF ChunkLen, Left

(* What is looked at when a step leaves the call and its message alone.    *)
LEMMA SameMessage ==
  ASSUME UNCHANGED <<cfg, prog, k, ncalls, msg>>
  PROVE  /\ \A dir : Before(dir)' = Before(dir)
         /\ \A n : Upto(n)' = Upto(n)
         /\ \A i : Byte(i)' = Byte(i)
         /\ Slow' = Slow /\ Acked' = Acked
         /\ \A c : ChunkLen(c)' = ChunkLen(c)
<1>1. \A i : Byte(i)' = Byte(i)
  BY DEF Byte
<1>2. \A n : Upto(n)' = Upto(n)
  BY <1>1 DEF Upto
<1>3. \A dir : Before(dir)' = Before(dir)
  BY DEF Before, Asked
<1> QED
  BY <1>1, <1>2, <1>3 DEF Slow, Acked, ChunkLen, Left

(* A call begins: nothing was moved.                                       *)
LEMMA FreshBegin ==
  ASSUME LegacyTypes, NEW p \in Seq(Transfer), Begin(p)
  PROVE  LegacyFresh' /\ OkMeansMoved'
<1>1. /\ prog' = p /\ k' = 1 /\ taken' = <<>> /\ got' = <<>>
      /\ at' = IF p = <<>> THEN "done" ELSE "prepare"
  BY DEF Begin
<1>2. \A dir : Before(dir)' = <<>>
  BY <1>1 DEF Before
<1>3. p = <<>> => Sent("write")' = <<>> /\ Sent("read")' = <<>>
  BY <1>1 DEF Sent, Asked
<1> QED
  BY <1>1, <1>2, <1>3 DEF LegacyFresh, OkMeansMoved

(* The message is prepared.                                                *)
LEMMA FreshPrepare ==
  ASSUME LegacyTypes, LegacyTypes', LegacyFresh, Prepare
  PROVE  LegacyFresh' /\ OkMeansMoved'
<1>1. /\ at = "prepare" /\ at' = "start" /\ msg' = prog[k]
      /\ UNCHANGED <<cfg, prog, k, ncalls, got, taken>>
  BY DEF Prepare, engine
<1>2. \A dir : Before(dir)' = Before(dir)
  BY <1>1 DEF Before, Asked
<1>3. msg'.dir = "write" => \A i \in 0 .. msg'.len - 1 : buf'[i] = Byte(i)
  <2>1. msg'.len \in Nat /\ msg'.len <= BufLen /\ BufLen \in Nat
    <3>1. prog[k] \in Transfer
      BY <1>1 DEF LegacyTypes
    <3> QED
      BY <1>1, <3>1, LengthFits DEF Transfer
  <2>2. DOMAIN buf = 0 .. BufLen + Word /\ Word \in Nat
    BY LegacyAssumption DEF LegacyTypes
  <2>3. \A i \in 0 .. msg'.len - 1 : i \in DOMAIN buf
    BY <2>1, <2>2
  <2>4. \A i \in DOMAIN buf :
          prog[k].dir = "write" /\ i < prog[k].len => buf'[i] = Byte(i)
    BY DEF Prepare
  <2> QED
    BY <1>1, <2>1, <2>3, <2>4
<1>4. \A i : Byte(i)' = Byte(i)
  BY <1>1 DEF Byte
<1> QED
  BY <1>1, <1>2, <1>3, <1>4 DEF LegacyFresh, OkMeansMoved

(* The first command.                                                      *)
LEMMA FreshStart ==
  ASSUME LegacyTypes, Undisturbed, LegacyFresh, Start
  PROVE  LegacyFresh' /\ OkMeansMoved'
<1>1. /\ at = "start" /\ at' = "wait" /\ eng' = Command(cnt, TRUE)
      /\ cnt = 0 /\ cnt' = cnt /\ completion = FALSE
      /\ UNCHANGED <<cfg, prog, k, ncalls, got, msg, buf, completion, status,
                     taken>>
  BY DEF Start, Issued, message, LegacyTypes
<1>2. status' \subseteq Recovered
  BY <1>1 DEF Undisturbed, Quiet, Engaged
<1>3. TakenIs(0)
  <2>1. taken = Before("write") /\ Before("write") \in Seq(Items)
    BY <1>1, BeforeType DEF LegacyFresh
  <2>2. Before("write") \o Upto(0) = Before("write")
    BY <2>1, UptoNone, ConcatEmptySeq
  <2> QED
    BY <2>1, <2>2 DEF TakenIs
<1>4. TakenIs(cnt)' /\ ReadIs(cnt)'
  <2>1. TakenIs(cnt)'
    BY <1>1, <1>3 DEF TakenIs, Slow, Before, Asked, Upto, Byte
  <2>2. ReadIs(cnt)'
    BY <1>1 DEF ReadIs
  <2> QED
    BY <2>1, <2>2
<1>5. eng' = Command(cnt, TRUE)'
  BY <1>1 DEF Command, ChunkLen, IsLast, Left, From
<1>6. UnderWay'
  BY <1>2, <1>4, <1>5 DEF UnderWay
<1>7. Pending'
  BY <1>1, <1>4, <1>6, MessageFacts DEF Pending
<1> QED
  BY <1>1, <1>7, SameMessage DEF LegacyFresh, OkMeansMoved

(* The engine moves a chunk.                                               *)
LEMMA MovedChunk ==
  ASSUME LegacyTypes, LegacyFresh, at = "wait", Pending, UnderWay, EngineDone
  PROVE  TakenIs(cnt + ChunkLen(cnt))'
<1> DEFINE n == ChunkLen(cnt)
           data == [i \in 1 .. n |-> Byte(cnt + i - 1)]
<1>1. /\ cnt \in Nat /\ n \in Nat /\ cnt + n <= msg.len /\ msg.len \in Nat
      /\ msg.dir \in {"write", "read"}
      /\ cfg.mode = "Dma" => cnt = 0
  BY MessageFacts, PartFacts DEF Pending
<1>2. /\ UNCHANGED <<cfg, prog, k, ncalls, msg, cnt>> /\ taken' = taken \o eng.data
  BY DEF EngineDone, thread, message
<1>3. PICK s \in BOOLEAN : eng = Command(cnt, s)
  BY DEF UnderWay
<1>4. CASE msg.dir = "write" /\ ~Slow
  <2>1. eng.data = data
    <3>1. eng.data = [i \in 1 .. n |-> buf[From(cnt) + i - 1]]
      BY <1>3, <1>4 DEF Command
    <3>2. From(cnt) = cnt
      BY <1>1 DEF From
    <3>3. \A i \in 1 .. n : buf[From(cnt) + i - 1] = Byte(cnt + i - 1)
      <4> TAKE i \in 1 .. n
      <4>1. cnt + i - 1 \in 0 .. msg.len - 1
        BY <1>1
      <4> QED
        BY <1>4, <3>2, <4>1 DEF LegacyFresh
    <3> QED
      BY <3>1, <3>3
  <2>2. taken = Before("write") \o Upto(cnt)
    BY <1>4 DEF UnderWay, TakenIs
  <2>3. /\ Before("write") \in Seq(Items) /\ Upto(cnt) \in Seq(Items)
        /\ Upto(cnt) \o data = Upto(cnt + n)
    BY <1>1, BeforeType, UptoType, UptoAppend
  <2>4. data \in Seq(Items)
    <3>1. \A i \in 1 .. n : Byte(cnt + i - 1) \in Items
      BY <1>1 DEF Byte, Items, LegacyTypes
    <3> QED
      BY <1>1, <3>1
  <2> HIDE DEF n, data
  <2>5. taken' = Before("write") \o Upto(cnt + n)
    <3>1. taken' = (Before("write") \o Upto(cnt)) \o data
      BY <1>2, <2>1, <2>2
    <3>2. (Before("write") \o Upto(cnt)) \o data
            = Before("write") \o (Upto(cnt) \o data)
      <4> DEFINE b == Before("write")
                 u == Upto(cnt)
      <4>1. b \in Seq(Items) /\ u \in Seq(Items)
        BY <2>3
      <4> HIDE DEF b, u
      <4>2. (b \o u) \o data = b \o (u \o data)
        BY <2>4, <4>1, ConcatAssociative
      <4> QED
        BY <4>2 DEF b, u
    <3> QED
      BY <2>3, <3>1, <3>2
  <2>6. n' = n /\ cnt' = cnt
    BY <1>2 DEF n, ChunkLen, Left
  <2> QED
    BY <1>2, <1>4, <2>5, <2>6 DEF n, TakenIs, Before, Asked, Upto, Byte, Slow
<1>5. CASE msg.dir = "read"
  <2>1. eng.data = <<>> /\ taken = Before("write")
    BY <1>3, <1>5 DEF Command, UnderWay, TakenIs, Slow
  <2>2. taken' = Before("write")
    BY <1>2, <2>1, BeforeType, ConcatEmptySeq
  <2> QED
    BY <1>2, <1>5, <2>2 DEF TakenIs, Before, Asked
<1>6. CASE Slow
  BY <1>2, <1>6 DEF TakenIs, Slow
<1> QED
  BY <1>1, <1>4, <1>5, <1>6

(* A command that is done is reported.                                     *)
LEMMA FreshDone ==
  ASSUME LegacyTypes, Undisturbed, LegacyFresh, OkMeansMoved, EngineDone, ~slipped'
  PROVE  LegacyFresh' /\ OkMeansMoved'
<1>1. /\ UNCHANGED <<cfg, at, prog, k, ret, ncalls, got, msg, completion, cnt, buf>>
      /\ eng' = NoCmd /\ eng.dir \in {"write", "read"} /\ xlen' = eng.n
      /\ "PKT_DONE" \in status' /\ at # "look"
  BY DEF EngineDone, Transferring, Slips, thread, message
<1>2. eng # NoCmd /\ eng # Recover
  BY <1>1 DEF NoCmd, Recover
<1>3. at \in {"wait", "failed", "reset"}
  BY <1>1, <1>2 DEF Undisturbed, Quiet, Engaged
<1>4. CASE at \in {"failed", "reset"}
  <2>1. status' # {}
    BY <1>1
  <2> QED
    BY <1>1, <1>4, <2>1 DEF LegacyFresh, OkMeansMoved
<1>5. CASE at = "wait"
  <2>1. Pending /\ UnderWay
    BY <1>2, <1>5 DEF LegacyFresh, Undisturbed, Pending, Complete, Reported
  <2>2. PICK s \in BOOLEAN : eng = Command(cnt, s)
    BY <2>1 DEF UnderWay
  <2>3. eng.n = ChunkLen(cnt) /\ eng.dir = msg.dir
    BY <2>2 DEF Command
  <2>4. ChunkLen(cnt)' = ChunkLen(cnt)
    BY <1>1 DEF ChunkLen, Left
  <2>5. TakenIs(cnt + xlen)'
    <3>1. TakenIs(cnt + ChunkLen(cnt))'
      BY <1>5, <2>1, MovedChunk
    <3>2. (cnt + ChunkLen(cnt))' = (cnt + xlen)'
      BY <1>1, <2>3, <2>4
    <3> QED
      BY <3>1, <3>2 DEF TakenIs, Upto
  <2>6. (status \ Recovered)' \in {Acked, Stopped(Acked)}'
    <3>1. status \subseteq Recovered
      BY <2>1 DEF UnderWay
    <3>2. Acked' = Acked /\ Stopped(Acked)' = Acked \cup {"NORMAL_STOP"}
          /\ Recovered' = Recovered
      BY <1>1 DEF Acked, Stopped, Recovered
    <3>3. status' = status \cup Acked \cup (IF eng.stop THEN {"NORMAL_STOP"} ELSE {})
      BY <1>1, <2>3 DEF EngineDone, Acked
    <3>4. Acked \cap Recovered = {} /\ "NORMAL_STOP" \notin Recovered
      BY DEF Acked, Recovered
    <3>5. status' \ Recovered = Acked \cup (IF eng.stop THEN {"NORMAL_STOP"} ELSE {})
      BY <3>1, <3>3, <3>4
    <3> QED
      BY <3>2, <3>5
  <2>7. msg'.dir = "read" => pool' = [i \in 1 .. xlen' |-> Byte(cnt + i - 1)]
    BY <1>1, <2>3 DEF EngineDone
  <2>8. Reported'
    BY <1>1, <2>3, <2>4, <2>5, <2>6, <2>7 DEF Reported, Byte
  <2>9. ReadIs(cnt)'
    BY <1>1, <2>1 DEF Pending, ReadIs, Byte
  <2>10. Pending'
    BY <1>1, <2>1, <2>8, <2>9 DEF Pending
  <2> QED
    BY <1>1, <1>5, <2>10 DEF LegacyFresh, OkMeansMoved, Before, Asked, Byte
<1> QED
  BY <1>3, <1>4, <1>5

(* The handler takes a report: the next command of the message is issued,  *)
(* or the transfer is complete. A write from the pool is never complete.   *)
LEMMA MovedIs ==
  ASSUME LegacyTypes, at = "wait", Pending, Reported
  PROVE  /\ cnt \in Nat /\ cnt + ChunkLen(cnt) <= msg.len /\ msg.len \in Nat
         /\ Moved \in Nat
         /\ ~Slow => Moved = ChunkLen(cnt)
         /\ Slow => cnt + Moved < msg.len
         /\ cfg.mode = "Dma" => cnt + Moved = msg.len
<1>1. /\ cnt \in Nat /\ ChunkLen(cnt) \in Nat /\ 1 <= ChunkLen(cnt)
      /\ cnt + ChunkLen(cnt) <= msg.len /\ msg.len \in Nat
      /\ cfg.mode = "Byte" => ChunkLen(cnt) = 1
      /\ cfg.mode = "Dma" => ChunkLen(cnt) = msg.len - cnt
      /\ xlen = ChunkLen(cnt) /\ cfg.mode \in {"Dma", "Buff", "Byte"}
  BY MessageFacts, PartFacts DEF Pending, Reported
<1> HIDE DEF ChunkLen
<1> QED
  BY <1>1 DEF Moved, Slow

(* Bytes received go behind those before them.                             *)
LEMMA ReceivedIs ==
  ASSUME LegacyTypes, at = "wait", Pending, Reported,
         msg.dir = "read", cfg.mode # "Buff",
         NEW i \in 0 .. cnt + ChunkLen(cnt) - 1
  PROVE  Received[i] = Byte(i)
<1>1. /\ cnt \in Nat /\ ChunkLen(cnt) \in Nat /\ 1 <= ChunkLen(cnt)
      /\ cnt + ChunkLen(cnt) <= msg.len /\ msg.len \in Nat
      /\ cfg.mode = "Byte" => ChunkLen(cnt) = 1
      /\ cfg.mode = "Dma" => cnt = 0
      /\ xlen = ChunkLen(cnt) /\ cfg.mode \in {"Dma", "Buff", "Byte"}
      /\ msg.len <= BufLen /\ BufLen \in Nat
  BY MessageFacts, PartFacts DEF Pending, Reported
<1>2. /\ pool = [j \in 1 .. xlen |-> Byte(cnt + j - 1)]
      /\ \A j \in 0 .. cnt - 1 : buf[j] = Byte(j)
  BY DEF Reported, Pending, ReadIs
<1>3. DOMAIN buf = 0 .. BufLen + Word /\ Word \in Nat
  BY LegacyAssumption DEF LegacyTypes
<1> HIDE DEF ChunkLen
<1>4. i \in DOMAIN buf /\ cnt \in DOMAIN buf /\ i \in Nat
  BY <1>1, <1>3
<1>5. CASE cfg.mode = "Byte"
  <2>1. Received = [buf EXCEPT ![cnt] = pool[1]]
    BY <1>5 DEF Received
  <2>2. pool[1] = Byte(cnt)
    BY <1>1, <1>2, <1>5
  <2>3. CASE i = cnt
    BY <1>4, <2>1, <2>2, <2>3
  <2>4. CASE i # cnt
    <3>1. i \in 0 .. cnt - 1
      BY <1>1, <1>5, <2>4
    <3> QED
      BY <1>2, <1>4, <2>1, <2>4, <3>1
  <2> QED
    BY <2>3, <2>4
<1>6. CASE cfg.mode = "Dma"
  <2>1. Received[i] = IF i < xlen THEN pool[i + 1] ELSE buf[i]
    BY <1>4, <1>6 DEF Received
  <2>2. i < xlen /\ i + 1 \in 1 .. xlen /\ cnt + (i + 1) - 1 = i
    BY <1>1, <1>4, <1>6
  <2> QED
    BY <1>2, <2>1, <2>2
<1> QED
  BY <1>1, <1>5, <1>6

(* The report is taken as what it is.                                      *)
LEMMA ReportTaken ==
  ASSUME LegacyTypes, at = "wait", Reported, status \cap Recovered = {}, MasterIrq
  PROVE  /\ status' = {} /\ UNCHANGED <<at, ret>>
         /\ Counted(Moved)
         /\ buf' = IF msg.dir = "read" THEN Received ELSE buf
<1>1. msg.dir \in {"write", "read"}
  BY MessageFacts
<1>2. status = Acked \/ status = Stopped(Acked)
  <2>1. status \ Recovered = status
    OBVIOUS
  <2> QED
    BY <2>1 DEF Reported
<1>3. "PKT_DONE" \in status /\ status \cap BusErrors = {}
      /\ "BUS_RECOVER_FAIL" \notin status
  BY <1>2, LegacyAssumption DEF Acked, Stopped
<1>4. status' = {} /\ PackageIrq(status \ {"PKT_DONE"})
  BY <1>3, MasterIrqCases
<1> DEFINE ack == IF msg.dir = "write" THEN "TX_ACK" ELSE "RX_DONE"
<1>5. Is({ack}, status \ {"PKT_DONE"})
  BY <1>2 DEF Acked, Stopped, Is
<1>6. /\ ~Is({"PKT_ERROR", "TX_NAK"}, status \ {"PKT_DONE"})
      /\ status \ {"PKT_DONE"} # {"NORMAL_STOP"}
  <2>1. ack \in status \ {"PKT_DONE"} /\ "PKT_ERROR" \notin status
    BY <1>2 DEF Acked, Stopped
  <2>2. "PKT_ERROR" \in {"PKT_ERROR", "TX_NAK"}
        /\ "PKT_ERROR" \in Stopped({"PKT_ERROR", "TX_NAK"})
        /\ ack \notin {"NORMAL_STOP"}
    BY DEF Stopped
  <2> QED
    BY <2>1, <2>2 DEF Is
<1>7. CASE msg.dir = "write"
  <2>1. Is({"TX_ACK"}, status \ {"PKT_DONE"})
    BY <1>5, <1>7
  <2>2. ~Is({"RX_DONE"}, status \ {"PKT_DONE"})
    <3>1. "RX_DONE" \notin status
      BY <1>2, <1>7 DEF Acked, Stopped
    <3> QED
      BY <3>1 DEF Is, Stopped
  <2> QED
    BY <1>4, <1>6, <1>7, <2>1, <2>2 DEF PackageIrq
<1>8. CASE msg.dir = "read"
  <2>1. Is({"RX_DONE"}, status \ {"PKT_DONE"})
    BY <1>5, <1>8
  <2>2. ~Is({"TX_ACK"}, status \ {"PKT_DONE"})
    <3>1. "TX_ACK" \notin status
      BY <1>2, <1>8 DEF Acked, Stopped
    <3> QED
      BY <3>1 DEF Is, Stopped
  <2> QED
    BY <1>4, <1>6, <1>8, <2>1, <2>2 DEF PackageIrq
<1> QED
  BY <1>1, <1>4, <1>7, <1>8

(* A step of the handler keeps count of what was moved.                    *)
LEMMA FreshTaken ==
  ASSUME LegacyTypes, LegacyFresh, MasterIrq, at = "wait", Pending, Reported,
         status \cap Recovered = {}
  PROVE  LegacyFresh' /\ OkMeansMoved'
<1>1. /\ UNCHANGED <<cfg, prog, k, ncalls, got, msg, xlen, pool, taken, failed>>
      /\ ~completion /\ UNCHANGED <<at, ret>> /\ status' = {}
  BY MasterIrqFrame, ReportTaken
<1>2. /\ Counted(Moved)
      /\ buf' = IF msg.dir = "read" THEN Received ELSE buf
  BY ReportTaken
<1>3. /\ cnt \in Nat /\ msg.len \in Nat /\ Moved \in Nat
      /\ cnt + ChunkLen(cnt) <= msg.len /\ ChunkLen(cnt) \in Nat
      /\ ~Slow => Moved = ChunkLen(cnt)
      /\ Slow => cnt + Moved < msg.len
      /\ cfg.mode = "Dma" => cnt + Moved = msg.len
      /\ msg.dir \in {"write", "read"} /\ xlen = ChunkLen(cnt)
  BY MovedIs, MessageFacts, PartFacts DEF Pending, Reported
<1>4. cnt' = cnt + Moved
  BY <1>2 DEF Counted
<1>5. TakenIs(cnt)'
  <2>1. CASE Slow
    BY <1>1, <2>1 DEF TakenIs, Slow
  <2>2. CASE ~Slow
    <3>1. TakenIs(cnt + xlen) /\ cnt' = cnt + xlen
      BY <1>3, <1>4, <2>2 DEF Reported
    <3> QED
      BY <1>1, <3>1 DEF TakenIs, Slow, Before, Asked, Upto, Byte
  <2> QED
    BY <2>1, <2>2
<1>6. ReadIs(cnt)'
  <2> SUFFICES ASSUME msg.dir = "read", cfg.mode # "Buff", NEW i \in 0 .. cnt' - 1
               PROVE  buf'[i] = Byte(i)
    BY <1>1 DEF ReadIs, Byte
  <2>1. i \in 0 .. cnt + ChunkLen(cnt) - 1
    BY <1>3, <1>4 DEF Slow
  <2>2. Received[i] = Byte(i)
    BY <2>1, ReceivedIs
  <2> QED
    BY <1>2, <2>2
<1>7. /\ got' = got /\ \A dir : Before(dir)' = Before(dir)
      /\ msg'.dir = "write" => \A i \in 0 .. msg'.len - 1 : buf'[i] = Byte(i)'
  BY <1>1, <1>2, SameMessage DEF LegacyFresh
<1>8. Pending' \/ Complete'
  <2>1. CASE cnt' = msg.len
    <3>1. completion' = TRUE /\ ~Slow
      <4>1. completion' = TRUE
        BY <1>2, <2>1 DEF Counted
      <4>2. ~(cnt + Moved < msg.len)
        BY <1>3, <1>4, <2>1
      <4> QED
        BY <1>3, <4>1, <4>2
    <3> QED
      BY <1>1, <1>5, <1>6, <2>1, <3>1 DEF Complete, Slow
  <2>2. CASE cnt' # msg.len
    <3>1. /\ completion' = completion /\ eng' = Command(cnt', FALSE)
      BY <1>2, <2>2 DEF Counted, Issued
    <3>2. cnt' < msg.len
      BY <1>3, <1>4, <2>2
    <3>3. Command(cnt', FALSE) = Command(cnt, FALSE)'
      <4>1. msg.dir = "write" => buf' = buf
        BY <1>2
      <4> QED
        BY <1>1, <1>3, <4>1 DEF Command, ChunkLen, IsLast, Left, From
    <3>4. UnderWay'
      BY <1>1, <1>5, <3>1, <3>3 DEF UnderWay
    <3>5. cnt' \in 0 .. msg'.len - 1
      BY <1>1, <1>3, <1>4, <3>2
    <3> QED
      BY <1>1, <1>3, <1>4, <1>6, <2>2, <3>1, <3>4, <3>5 DEF Pending
  <2> QED
    BY <2>1, <2>2
<1> QED
  BY <1>1, <1>7, <1>8 DEF LegacyFresh, OkMeansMoved

(* The handler, whatever it finds.                                         *)
LEMMA FreshIrq ==
  ASSUME LegacyTypes, Undisturbed, LegacyRecovery, LegacyFresh, OkMeansMoved,
         MasterIrq, ~failed, ~slipped
  PROVE  LegacyFresh' /\ OkMeansMoved'
<1>1. /\ UNCHANGED <<cfg, prog, k, ncalls, got, msg, xlen, pool, taken>>
      /\ ~completion /\ status # {} /\ at \in {"wait", "recover"}
      /\ at = "recover" => \/ at' = at /\ ret' = ret
                           \/ at' = "done" /\ ret' = "Bus"
  BY MasterIrqFrame
<1>2. CASE at = "recover"
  BY <1>1, <1>2 DEF LegacyFresh, OkMeansMoved
<1>3. CASE at = "wait"
  <2>1. Pending /\ "BUS_RECOVER_FAIL" \notin status
    BY <1>1, <1>3 DEF LegacyFresh, Complete, LegacyRecovery, Engaged
  <2>2. CASE status \cap Recovered # {}
    <3>1. status \cap Recovered = {"BUS_RECOVER"} /\ status \ {"BUS_RECOVER_FAIL"} = status
      BY <2>1, <2>2 DEF Recovered
    <3>2. UNCHANGED <<at, ret, completion, cnt, buf, eng, status>>
      BY <2>1, <3>1, MasterIrqCases, Zenon
    <3>3. Pending'
      BY <1>1, <2>1, <3>2, ZenonT(60) DEF Pending, UnderWay, Reported, ReadIs, TakenIs, Slow,
         Before, Asked, Upto, Byte, Acked, Stopped, ChunkLen, IsLast, Left, From,
         Command, Recovered
    <3> QED
      BY <1>1, <1>3, <3>2, <3>3 DEF LegacyFresh, OkMeansMoved, Before, Asked, Byte
  <2>3. CASE status \cap Recovered = {}
    <3>1. ~UnderWay
      BY <1>1, <2>3 DEF UnderWay
    <3> QED
      BY <1>3, <2>1, <2>3, <3>1, FreshTaken DEF Pending
  <2> QED
    BY <2>2, <2>3
<1> QED
  BY <1>1, <1>2, <1>3

(* A wait that is given up leaves a command or a status behind.            *)
LEMMA FreshTimeOut ==
  ASSUME LegacyTypes, LegacyFresh, TimeOut
  PROVE  LegacyFresh' /\ OkMeansMoved'
<1>1. /\ \/ at = "wait" /\ at' = "failed"
         \/ at = "recover" /\ at' = "done" /\ ret' = "Bus"
      /\ UNCHANGED <<eng, status>> /\ ~completion
  BY DEF TimeOut, WaitFails, Leave, engine
<1>2. at = "wait" => eng # NoCmd \/ status # {}
  <2> SUFFICES ASSUME at = "wait"
               PROVE  eng # NoCmd \/ status # {}
    OBVIOUS
  <2>1. Pending
    BY <1>1 DEF LegacyFresh, Complete
  <2>2. CASE UnderWay
    <3>1. eng.dir \in {"write", "read"}
      BY <2>2, CommandMoves DEF UnderWay
    <3> QED
      BY <3>1 DEF NoCmd
  <2>3. CASE Reported
    BY <2>3 DEF Reported, Acked, Stopped
  <2> QED
    BY <2>1, <2>2, <2>3 DEF Pending
<1> QED
  BY <1>1, <1>2 DEF LegacyFresh, OkMeansMoved

(* A transfer that is complete has moved what it asked for.                *)
LEMMA FreshCompleted ==
  ASSUME LegacyTypes, LegacyFresh, Completed
  PROVE  LegacyFresh' /\ OkMeansMoved'
<1>1. /\ at = "wait" /\ completion /\ ToNext
      /\ UNCHANGED <<cfg, prog, ncalls, msg, taken>>
      /\ got' = IF msg.dir = "read" THEN got \o Handed ELSE got
  BY DEF Completed, Over, message, engine
<1>2. Complete /\ (cfg.mode # "Buff" => got = Before("read"))
  BY <1>1 DEF LegacyFresh, Pending
<1>3. /\ k \in DOMAIN prog /\ msg = prog[k] /\ msg.dir \in {"write", "read"}
      /\ msg.len \in Nat
  BY <1>1, MessageFacts
<1>4. \A dir : Asked(dir, k) = IF msg.dir = dir THEN Upto(msg.len) ELSE <<>>
  BY <1>3, AskedNow
<1>5. taken = Before("write") \o Asked("write", k)
  <2>1. CASE msg.dir = "write"
    BY <1>2, <1>4, <2>1 DEF Complete, TakenIs
  <2>2. CASE msg.dir = "read"
    BY <1>2, <1>4, <2>2, BeforeType, ConcatEmptySeq DEF Complete, TakenIs
  <2> QED
    BY <1>3, <2>1, <2>2
<1>6. cfg.mode # "Buff" => got' = Before("read") \o Asked("read", k)
  <2> SUFFICES ASSUME cfg.mode # "Buff"
               PROVE  got' = Before("read") \o Asked("read", k)
    OBVIOUS
  <2>1. CASE msg.dir = "read"
    <3>1. \A i \in 1 .. msg.len : buf[i - 1] = Byte(i - 1)
      BY <1>2, <1>3, <2>1 DEF Complete, ReadIs
    <3>2. Handed = Upto(msg.len)
      BY <3>1 DEF Handed, Upto
    <3> QED
      BY <1>1, <1>2, <1>4, <2>1, <3>2
  <2>2. CASE msg.dir = "write"
    BY <1>1, <1>2, <1>4, <2>2, BeforeType, ConcatEmptySeq
  <2> QED
    BY <1>3, <2>1, <2>2
<1>7. CASE at' = "prepare" /\ k = 1 /\ k' = 2
  <2>1. \A dir : Before(dir)' = Before(dir) \o Asked(dir, k)
    <3> TAKE dir
    <3>1. Before(dir) = <<>> /\ Before(dir)' = Asked(dir, 1)
      BY <1>1, <1>7 DEF Before, Asked
    <3> QED
      BY <1>7, <3>1, AskedType, ConcatEmptySeq
  <2> QED
    BY <1>1, <1>5, <1>6, <1>7, <2>1 DEF LegacyFresh, OkMeansMoved
<1>8. CASE k = Len(prog) /\ at' = "done" /\ ret' = "Ok"
  <2>1. \A dir : Sent(dir)' = Before(dir) \o Asked(dir, k)
    <3> TAKE dir
    <3>1. Sent(dir)' = Sent(dir)
      BY <1>1 DEF Sent, Asked
    <3> QED
      BY <1>3, <1>8, <3>1, SentNow
  <2> QED
    BY <1>1, <1>5, <1>6, <1>8, <2>1 DEF LegacyFresh, OkMeansMoved
<1> QED
  BY <1>1, <1>3, <1>7, <1>8, AfterTransfer

(* Every step that leaves no transfer failed keeps the account.            *)
LEMMA LegacyFreshStep ==
  ASSUME LegacyTypes, LegacyTypes', LegacyEngine, LegacyRecovery,
         ~failed /\ ~slipped => LegacyFresh, OkMeansMoved, [LegacyNext]_legacyVars
  PROVE  (~failed' /\ ~slipped' => LegacyFresh') /\ OkMeansMoved'
<1> USE DEF thread, message, engine, target
<1>1. CASE Initialise
  <2>1. at' = "idle"
    BY <1>1 DEF Initialise
  <2> QED
    BY <2>1 DEF LegacyFresh, OkMeansMoved
<1>2. CASE Call
  BY <1>2, LegacyCalls, FreshBegin
<1>3. CASE Finish
  <2>1. at' = "idle"
    BY <1>3 DEF Finish
  <2> QED
    BY <2>1 DEF LegacyFresh, OkMeansMoved
<1>4. CASE UNCHANGED <<failed, slipped>> /\ (failed \/ slipped)
  BY <1>4 DEF OkMeansMoved
<1> DEFINE Account == ~failed /\ ~slipped /\ LegacyFresh /\ Undisturbed
<1>a. UNCHANGED <<failed, slipped>> /\ ~Account =>
        (~failed' /\ ~slipped' => LegacyFresh') /\ OkMeansMoved'
  BY <1>4 DEF LegacyEngine, LegacyTypes
<1>5. CASE Prepare
  BY <1>a, <1>5, FreshPrepare DEF Prepare, LegacyTypes
<1>6. CASE Start
  BY <1>a, <1>6, FreshStart DEF Start, LegacyTypes
<1>7. CASE RecoverBus
  <2>1. at' = "recover" \/ (at' = "done" /\ ret' = "Bus")
    <3>1. CASE wire = "stuck"
      BY <1>7, <3>1 DEF RecoverBus
    <3>2. CASE wire # "stuck"
      BY <1>7, <3>2 DEF RecoverBus, Leave
    <3> QED
      BY <3>1, <3>2
  <2> QED
    BY <2>1 DEF LegacyFresh, OkMeansMoved
<1>8. CASE MasterIrq
  BY <1>a, <1>8, FreshIrq DEF MasterIrq, LegacyTypes
<1>9. CASE TimeOut
  BY <1>a, <1>9, FreshTimeOut DEF TimeOut, LegacyTypes
<1>10. CASE Completed
  BY <1>a, <1>10, FreshCompleted DEF Completed, LegacyTypes
<1>11. CASE FailedStatus
  <2>1. /\ at = "failed" /\ UNCHANGED <<failed, slipped, eng>>
        /\ at' = IF status # {} THEN "reset" ELSE "look"
    BY <1>11 DEF FailedStatus
  <2>2. CASE Account
    <3>1. at' = "look" => eng' # NoCmd
      BY <2>1, <2>2 DEF LegacyFresh
    <3> QED
      BY <2>1, <3>1 DEF LegacyFresh, OkMeansMoved, NoCmd
  <2> QED
    BY <1>a, <2>1, <2>2
<1>17. CASE FailedDirection
  <2>1. at = "look" /\ UNCHANGED <<failed, slipped>>
    BY <1>17 DEF FailedDirection
  <2>2. CASE Account
    <3>1. Direction = {TRUE}
      BY <2>1, <2>2 DEF LegacyFresh, Direction, Idle
    <3>2. at' = "reset"
      BY <1>17, <3>1 DEF FailedDirection
    <3> QED
      BY <3>2 DEF LegacyFresh, OkMeansMoved
  <2> QED
    BY <1>a, <2>1, <2>2
<1>18. CASE FailedReset
  <2>1. at' = "done" /\ ret' = "Timeout"
    BY <1>18 DEF FailedReset, Leave
  <2> QED
    BY <2>1 DEF LegacyFresh, OkMeansMoved
<1>12. CASE Register \/ Unregister
  <2>1. at' \in {"idle"}
    BY <1>12 DEF Register, Unregister
  <2> QED
    BY <2>1 DEF LegacyFresh, OkMeansMoved
<1>13. CASE EngineDone
  <2>1. failed' = failed /\ (slipped => slipped') /\ slipped' \in BOOLEAN
    BY <1>13 DEF EngineDone, Slips, LegacyTypes
  <2>2. CASE slipped' \/ failed
    BY <2>1, <2>2 DEF OkMeansMoved
  <2>3. CASE ~slipped' /\ ~failed
    <3>1. LegacyFresh /\ Undisturbed
      BY <2>1, <2>3 DEF LegacyEngine
    <3> QED
      BY <1>13, <2>3, <3>1, FreshDone
  <2> QED
    BY <2>2, <2>3
<1>14. CASE EngineFails
  <2>1. failed' = TRUE
    BY <1>14 DEF EngineFails
  <2> QED
    BY <2>1 DEF OkMeansMoved
<1>15. CASE EngineRecovers
  <2>1. /\ UNCHANGED <<thread, message, taken, failed, slipped>>
        /\ eng = Recover
    BY <1>15 DEF EngineRecovers
  <2>2. at \notin {"wait", "failed", "look"}
    BY <2>1 DEF LegacyRecovery, Engaged
  <2>3. CASE Account
    BY <2>1, <2>2, <2>3 DEF LegacyFresh, OkMeansMoved, Before, Asked, Sent, Byte
  <2> QED
    BY <1>a, <2>1, <2>3
<1>16. CASE UNCHANGED legacyVars
  <2>1. UNCHANGED <<thread, message, engine>>
    BY <1>16 DEF legacyVars
  <2>2. Pending' = Pending /\ Complete' = Complete
    <3>1. UnderWay' = UnderWay
      BY <2>1 DEF UnderWay, TakenIs, Slow, Before, Asked, Upto, Byte, ChunkLen,
         IsLast, Left, From, Command, Recovered
    <3>2. Reported' = Reported
      BY <2>1 DEF Reported, TakenIs, Slow, Before, Asked, Upto, Byte, Acked,
         Stopped, ChunkLen, Left, Recovered, NoCmd
    <3> QED
      BY <2>1, <3>1, <3>2 DEF Pending, Complete, ReadIs, TakenIs, Slow, Before,
         Asked, Upto, Byte
  <2>3. LegacyFresh' = LegacyFresh
    BY <2>1, <2>2 DEF LegacyFresh, Before, Asked, Byte, NoCmd
  <2>4. OkMeansMoved' = OkMeansMoved
    BY <2>1 DEF OkMeansMoved, Sent, Asked
  <2> QED
    BY <2>1, <2>3, <2>4
<1> QED
  BY <1>1, <1>2, <1>3, <1>5, <1>6, <1>7, <1>8, <1>9, <1>10, <1>11, <1>12, <1>13,
     <1>14, <1>15, <1>16, <1>17, <1>18, [LegacyNext]_legacyVars
  DEF LegacyNext, Driver

(* The invariant of the older driver.                                      *)
LEMMA LegacyInvariant == LegacySpec => []LegacyInv
<1>1. LegacyInit => LegacyInv
  <2>1. LegacyInit => LegacyEngine /\ LegacyRecovery /\ LegacyFresh /\ OkMeansMoved
    BY DEF LegacyInit, LegacyEngine, Undisturbed, Engaged, LegacyRecovery, Quiet,
           LegacyFresh, OkMeansMoved, NoCmd, Recover
  <2> QED
    BY <2>1, LegacyTypesInit DEF LegacyInv
<1>2. LegacyInv /\ [LegacyNext]_legacyVars => LegacyInv'
  BY LegacyTypesStep, LegacyEngineStep, LegacyRecoveryStep, LegacyFreshStep
  DEF LegacyInv
<1> QED
  BY <1>1, <1>2, PTL DEF LegacySpec

(* For every mode, size, length and number of calls: a call that returns   *)
(* Ok, none of whose transfers failed on the bus and none of whose         *)
(* commands ended between the two reads after a failed wait, has moved     *)
(* every byte its transfers ask for, once and in order.                    *)
THEOREM LegacyOkMeansMoved == LegacySpec => []OkMeansMoved
<1>1. LegacyInv => OkMeansMoved
  BY DEF LegacyInv
<1> QED
  BY <1>1, LegacyInvariant, PTL

-----------------------------------------------------------------------------
(* The two drivers as a target.                                            *)

Octets == (Nat \X Nat) \cup ({"app"} \X Nat) \cup {<<"stale">>}
TargetTypes ==
  /\ conf \in [drv : {"Core", "Legacy"}, mode : {"Dma", "Buff", "Byte"}]
  /\ on \in BOOLEAN /\ match \in BOOLEAN /\ told \in BOOLEAN
  /\ broken \in BOOLEAN /\ lossy \in BOOLEAN
  /\ armed \in {"none", "rx", "tx", "wrong"}
  /\ mem \in [0 .. Size - 1 -> Octets]
  /\ rxlen \in 0 .. Size /\ txpos \in Nat /\ txlen \in 0 .. Size
  /\ xf \in [dir : {"none", "write", "read"}, n : Nat, len : Nat, then : Nat]
  /\ xfers \in Nat /\ given \in Nat
  /\ wrote \in Seq(Octets) /\ read \in Seq(Octets)
  /\ heard \in Seq(Octets) /\ handed \in Seq(Octets)
  /\ pc \in {"poll", "read", "readwrite", "write"}
  /\ missed \in BOOLEAN /\ (missed => lossy)
  /\ Legacy => pc = "poll"
  /\ Core => ~told
  /\ ~on => Free /\ ~match /\ pc = "poll" /\ sts = {}
  /\ seen # {} => on /\ pc = "poll"

(* What the status says the bus waits for, in the modes with packets: a    *)
(* byte to send, a buffer to receive into, or nothing after a stop.        *)
AsksToSend == DataThenRead \cup FirstRead \cup NextRead
AsksToReceive == SwData \cup {{"RX_DONE", "WAIT_RX"}}
Stops == SwStop \cup Stop \cup {d \in Data : "STOP" \in d}

(* Where driver, engine and external master can be, while every event has  *)
(* an answer. With packets: the engine receives, has reported the address, *)
(* or sends; an event is due; the application has it in hand; the bus was  *)
(* quiet for too long.                                                     *)
Receives ==
  sts = {} /\ armed = "rx" /\ xf.dir # "read" /\ pc \in {"poll", "read"}
Addressed ==
  /\ sts = {"PKT_DONE", "MATCH"} /\ armed = "rx" /\ xf.dir = "write"
  /\ ~match /\ pc \in {"poll", "read"}
Sends ==
  sts = {} /\ armed = "tx" /\ xf.dir = "read" /\ pc = "poll" /\ txpos < txlen
Due(r) ==
  /\ sts = {"PKT_DONE"} \cup r /\ armed = "none" /\ pc \in {"poll", "read"}
  /\ \/ r \in AsksToSend /\ xf.dir = "read"
     \/ r \in AsksToReceive /\ xf.dir = "write"
     \/ r \in Stops /\ Free
EventDue == \E r \in AsksToSend \cup AsksToReceive \cup Stops : Due(r)
InHand ==
  /\ sts = {} /\ armed = "none"
  /\ \/ pc = "read" /\ xf.dir # "read"
     \/ pc \in {"readwrite", "write"} /\ xf.dir = "read"
Between == sts = {} /\ armed = "rx" /\ pc = "write" /\ xf.dir = "read"
Expired ==
  /\ "INACTIVE_TO" \in sts /\ Legacy /\ conf.mode # "Buff" /\ armed = "none"
  /\ xf.dir # "read" /\ (~ByteMode => Free)

(* Byte by byte, the status stays until the event is answered.             *)
ByteReceives == Receives /\ pc = "poll"
ByteWrite ==
  /\ armed = "none" /\ xf.dir = "write"
  /\ \/ sts \in {ByteAddress} \cup ByteStopAddress /\ pc = "poll"
     \/ sts = ByteData /\ pc \in {"poll", "read"}
ByteRead ==
  /\ armed = "none" /\ xf.dir = "read"
  /\ sts \in ByteReads /\ pc \in {"poll", "write"}
ByteStopped ==
  /\ Free /\ pc = "poll"
  /\ \/ sts = {"STOP"} /\ armed = "rx"
     \/ sts = {"STOP", "TX_NAK"} /\ armed = "none"

PacketSituation ==
  \/ Receives \/ Addressed \/ Sends \/ EventDue \/ InHand \/ Between \/ Expired
ByteSituation ==
  \/ ByteReceives \/ Sends \/ ByteWrite \/ ByteRead \/ ByteStopped \/ Expired
Situated ==
  on /\ ~broken /\ ~missed => IF ByteMode THEN ByteSituation ELSE PacketSituation
MatchDue == match /\ ~broken => xf.dir = "write" /\ armed = "rx" /\ ~ByteMode
Situation == Situated /\ MatchDue

(* A handler that has read the status of a packet finds it as it was, or   *)
(* it has read the bare address and another event has come up since. After *)
(* one was cleared unseen the engine is at rest, until a time-out or until *)
(* the target is switched on anew.                                         *)
Overtaken ==
  seen = {"PKT_DONE", "MATCH"} /\ EventDue /\ pc = "poll"
Reading ==
  on /\ ~broken /\ seen # {} =>
    /\ ~ByteMode /\ ~missed /\ (seen = sts \/ Overtaken)
    /\ Addressed \/ EventDue
Stranded ==
  /\ ~ByteMode /\ armed = "none" /\ ~match /\ pc = "poll"
  /\ \/ sts = {}
     \/ sts = {"INACTIVE_TO"} /\ Legacy /\ conf.mode # "Buff" /\ Free
Stuck ==
  ~broken /\ missed => IF on THEN Stranded ELSE armed = "none"
Handling == Reading /\ Stuck
Within == xf.dir = "write" => rxlen <= xf.n

(* What the engine has received and nobody has fetched.                    *)
Row == sts \ {"PKT_DONE", "PKT_ERROR"}
Fetched ==
  /\ ~on => rxlen = 0
  /\ on /\ ByteMode /\ sts # ByteData => rxlen = 0
  /\ on /\ ~ByteMode =>
       /\ Free /\ armed = "rx" => rxlen = 0
       /\ (xf.dir = "read" /\ armed # "none") \/ pc = "write" => rxlen = 0
       /\ Row \in SwStop \cup Stop \cup FirstRead \cup NextRead => rxlen = 0
Account ==
  ~broken /\ ~lossy =>
    /\ Fetched /\ "INACTIVE_TO" \notin sts
    /\ ~(Legacy /\ conf.mode = "Buff") => wrote = heard \o Bytes(rxlen)
    /\ told => on /\ (~Free \/ "STOP" \in sts)

(* What was handed out for a read and not sent: nothing while the external *)
(* master writes; and a write turns into a read only after data.           *)
Unsent == [i \in 1 .. txlen - txpos |-> mem[txpos + i - 1]]
NoneHanded == ~broken /\ xf.dir = "write" => read = <<>> /\ handed = <<>>
AllHanded ==
  on /\ ~broken /\ xf.dir = "read" /\ ~Echo(xf) =>
    handed = IF armed = "tx" THEN read \o Unsent ELSE read
Turned ==
  on /\ ~broken /\ ~ByteMode /\ Row \in DataThenRead => xf.then > 0
Sending == NoneHanded /\ AllHanded /\ Turned

-----------------------------------------------------------------------------
(* What the buffer holds, and its types.                                   *)

(* What is fetched from the buffer are as many bytes as were received.     *)
LEMMA FetchedBytes ==
  ASSUME TargetTypes
  PROVE  /\ Bytes(rxlen) \in Seq(Octets) /\ Len(Bytes(rxlen)) = rxlen
         /\ Stale \in Seq(Octets)
<1>1. /\ rxlen \in Nat /\ rxlen <= Size /\ Size \in Nat
      /\ \A i \in 0 .. Size - 1 : mem[i] \in Octets
  BY TargetAssumption DEF TargetTypes
<1>2. Bytes(rxlen) \in [1 .. rxlen -> Octets]
  BY <1>1 DEF Bytes
<1>3. Stale \in [1 .. rxlen -> Octets]
  BY <1>1 DEF Stale, Octets
<1> QED
  BY <1>1, <1>2, <1>3

(* An answer has the bytes it is asked for, which are the application's.   *)
LEMMA AnswerBytes ==
  ASSUME given \in Nat, NEW n \in Nat
  PROVE  Answer(n) \in Seq(Octets) /\ Len(Answer(n)) = n
<1>1. \A j \in 1 .. n : <<"app", given + j>> \in Octets
  BY DEF Octets
<1>2. Answer(n) \in [1 .. n -> Octets]
  BY <1>1 DEF Answer
<1> QED
  BY <1>2

(* A send puts the bytes at the beginning of the buffer.                   *)
LEMMA SendPlaces ==
  ASSUME TargetTypes, NEW bytes \in Seq(Octets), Len(bytes) <= Size, Send(bytes)
  PROVE  /\ mem' \in [0 .. Size - 1 -> Octets]
         /\ txpos' = 0 /\ txlen' = Len(bytes) /\ txlen' \in 0 .. Size
         /\ armed' = "tx"
         /\ \A i \in 1 .. Len(bytes) : mem'[i - 1] = bytes[i]
<1>1. /\ mem \in [0 .. Size - 1 -> Octets] /\ Size \in Nat /\ Len(bytes) \in Nat
      /\ \A i \in 1 .. Len(bytes) : bytes[i] \in Octets
  BY TargetAssumption DEF TargetTypes
<1>2. mem' = [i \in 0 .. Size - 1 |->
                IF i < Len(bytes) THEN bytes[i + 1] ELSE mem[i]]
  BY <1>1 DEF Send
<1>3. \A i \in 0 .. Size - 1 :
        (IF i < Len(bytes) THEN bytes[i + 1] ELSE mem[i]) \in Octets
  BY <1>1
<1>4. mem' \in [0 .. Size - 1 -> Octets]
  BY <1>2, <1>3
<1>5. \A i \in 1 .. Len(bytes) : mem'[i - 1] = bytes[i]
  BY <1>1, <1>2
<1> QED
  BY <1>1, <1>4, <1>5 DEF Send

(* An answer is handed out, and the engine has exactly it to send.         *)
LEMMA HandsOut ==
  ASSUME TargetTypes, NEW n \in 1 .. Size, HandOut(n)
  PROVE  /\ handed' \in Seq(Octets) /\ given' \in Nat
         /\ handed' = handed \o Answer(n)
         /\ mem' \in [0 .. Size - 1 -> Octets]
         /\ txpos' = 0 /\ txlen' = n /\ armed' = "tx"
         /\ \A i \in 1 .. n : mem'[i - 1] = Answer(n)[i]
<1>1. given \in Nat /\ handed \in Seq(Octets) /\ n \in Nat /\ n <= Size
  BY TargetAssumption DEF TargetTypes
<1>2. Answer(n) \in Seq(Octets) /\ Len(Answer(n)) = n
  BY <1>1, AnswerBytes
<1>3. Send(Answer(n)) /\ handed' = handed \o Answer(n) /\ given' = given + n
  BY DEF HandOut
<1>4. /\ mem' \in [0 .. Size - 1 -> Octets]
      /\ txpos' = 0 /\ txlen' = Len(Answer(n)) /\ armed' = "tx"
      /\ \A i \in 1 .. Len(Answer(n)) : mem'[i - 1] = Answer(n)[i]
  BY <1>1, <1>2, <1>3, SendPlaces
<1>5. handed' \in Seq(Octets)
  BY <1>1, <1>2, <1>3
<1> QED
  BY <1>1, <1>2, <1>3, <1>4, <1>5

(* The core driver sends at least one byte and no more than a buffer.      *)
LEMMA SendsSome == ToSend \in 1 .. Size
  BY TargetAssumption DEF ToSend

-----------------------------------------------------------------------------
(* The types of the target                                                 *)

(* The initial state has the types.                                        *)
LEMMA TargetTypesInit == Init => TargetTypes
<1> SUFFICES ASSUME Init PROVE TargetTypes
  OBVIOUS
<1>1. mem \in [0 .. Size - 1 -> Octets]
  BY DEF Init, Octets
<1>2. conf \in [drv : {"Core", "Legacy"}, mode : {"Dma", "Buff", "Byte"}]
  BY TargetAssumption DEF Init
<1>3. xf \in [dir : {"none", "write", "read"}, n : Nat, len : Nat, then : Nat]
  BY DEF Init, NoXfer
<1>4. /\ <<>> \in Seq(Octets) /\ Size \in Nat \ {0} /\ 0 \in 0 .. Size
      /\ wrote = <<>> /\ read = <<>> /\ heard = <<>> /\ handed = <<>>
  BY TargetAssumption DEF Init
<1>5. /\ on = FALSE /\ armed = "none" /\ rxlen = 0 /\ txpos = 0 /\ txlen = 0
      /\ sts = {} /\ xf = NoXfer /\ match = FALSE /\ xfers = 0 /\ given = 0
      /\ pc = "poll" /\ told = FALSE /\ broken = FALSE /\ lossy = FALSE
      /\ missed = FALSE /\ seen = {}
  BY DEF Init
<1> QED
  BY <1>1, <1>2, <1>3, <1>4, <1>5 DEF TargetTypes, Free

(* The external master and the engine are not in a handler.                *)
LEMMA ExternalKeeps ==
  ASSUME External PROVE seen' = seen /\ missed' = missed /\ pc' = pc
<1>1. UNCHANGED handler /\ pc' = pc
  BY DEF External, StartWrite, StartRead, ReportMatch, WriteByte, BufferFull, WriteStop,
     Restart, ReadByte, BusError, Inactive, app
<1> QED
  BY <1>1 DEF handler

(* So has what the external master and the engine do.                      *)
LEMMA ExternalTypes ==
  ASSUME TargetTypes, External PROVE TargetTypes'
<1>0. seen' = seen /\ missed' = missed /\ pc' = pc
  BY ExternalKeeps
<1> DEFINE Xfer == [dir : {"none", "write", "read"}, n : Nat, len : Nat, then : Nat]
<1>1. NoXfer \in Xfer /\ NoXfer.dir = "none"
  BY DEF NoXfer
<1>2. /\ xf \in Xfer /\ xfers \in Nat /\ rxlen \in 0 .. Size /\ Size \in Nat \ {0}
      /\ <<>> \in Seq(Octets) /\ Core => ~told
      /\ mem \in [0 .. Size - 1 -> Octets]
  BY TargetAssumption DEF TargetTypes
<1>3. on
  BY DEF TargetTypes, External, StartWrite, StartRead, ReportMatch, WriteByte,
     BufferFull, WriteStop, Restart, ReadByte, BusError, Inactive, Free, NoXfer
<1>4. CASE StartWrite
  <2>1. xf' \in Xfer
    BY <1>4, TargetAssumption DEF StartWrite
  <2> QED
    <3> HIDE DEF Xfer
    <3>1. /\ xfers' \in Nat /\ rxlen' \in 0 .. Size /\ match' \in BOOLEAN
          /\ armed' \in {"none", "rx"}
          /\ read' \in Seq(Octets) /\ handed' \in Seq(Octets)
      BY <1>2, <1>4 DEF StartWrite
    <3>2. UNCHANGED <<conf, on, mem, txpos, txlen, wrote, pc, heard, given, told,
                      marks>>
      BY <1>4 DEF StartWrite
    <3> USE DEF Xfer
    <3> QED
      BY <1>0, <1>3, <2>1, <3>1, <3>2 DEF TargetTypes, Core, Legacy, marks
<1>5. CASE StartRead
  <2>1. xf' \in Xfer
    BY <1>5, TargetAssumption DEF StartRead
  <2> QED
    BY <1>0, <1>2, <1>3, <1>5, <2>1 DEF StartRead, TargetTypes, Core, Legacy, Free
<1>6. CASE ReportMatch \/ BufferFull
  <2>1. /\ match' = FALSE /\ armed' \in {armed, "none"}
        /\ UNCHANGED <<conf, on, mem, rxlen, txpos, txlen, xf, xfers, wrote, read,
                       app, marks>>
    BY <1>6 DEF ReportMatch, BufferFull
  <2> QED
    BY <1>0, <1>3, <2>1, ZenonT(60) DEF TargetTypes, Core, Legacy, app, marks
<1>7. CASE WriteByte
  <2>1. xf.n \in Nat /\ <<xfers, xf.n>> \in Octets /\ rxlen < Size
    BY <1>2, <1>7 DEF WriteByte, Capacity, Octets
  <2>2. /\ xf' = [xf EXCEPT !.n = @ + 1] /\ rxlen' = rxlen + 1
        /\ mem' = [mem EXCEPT ![rxlen] = <<xfers, xf.n>>]
        /\ wrote' = Append(wrote, <<xfers, xf.n>>)
        /\ armed' \in {armed, "none"}
        /\ UNCHANGED <<conf, on, txpos, txlen, match, xfers, read, app, marks>>
    BY <1>7 DEF WriteByte
  <2>3. xf' \in Xfer
    <3>1. xf.n + 1 \in Nat
      BY <2>1
    <3> QED
      BY <1>2, <2>2, <3>1
  <2>5. mem' \in [0 .. Size - 1 -> Octets] /\ rxlen' \in 0 .. Size
    <3> HIDE DEF Xfer
    <3> QED
      BY <1>2, <2>1, <2>2
  <2>4. wrote' \in Seq(Octets)
    BY <2>1, <2>2 DEF TargetTypes
  <2> QED
    BY <1>0, <1>3, <2>2, <2>3, <2>4, <2>5, ZenonT(60) DEF TargetTypes, Core, Legacy, app, marks
<1>8. CASE WriteStop \/ BusError \/ Inactive
  <2>1. /\ xf' = NoXfer /\ match' = FALSE /\ armed' \in {armed, "none"}
        /\ broken' \in BOOLEAN /\ lossy' \in BOOLEAN /\ (lossy => lossy')
        /\ UNCHANGED <<conf, on, mem, rxlen, txpos, txlen, xfers, wrote, read, app>>
    BY <1>8 DEF WriteStop, BusError, Inactive, marks, TargetTypes
  <2> QED
    BY <1>0, <1>1, <1>3, <2>1 DEF TargetTypes, Core, Legacy, app
<1>9. CASE Restart
  <2>1. xf' \in Xfer
    BY <1>2, <1>9 DEF Restart
  <2> QED
    BY <1>0, <1>3, <1>9, <2>1 DEF Restart, TargetTypes, Core, Legacy, app, marks
<1>10. CASE ReadByte
  <2>1. txpos \in Nat /\ txlen \in 0 .. Size /\ txpos < txlen
    BY <1>10 DEF ReadByte, TargetTypes
  <2>2. mem[txpos] \in Octets
    BY <1>2, <2>1
  <2>3. /\ read' = Append(read, mem[txpos]) /\ txpos' = txpos + 1
        /\ xf' = NoXfer \/ xf' = [xf EXCEPT !.n = @ + 1]
        /\ armed' \in {armed, "none"}
        /\ UNCHANGED <<conf, on, mem, rxlen, txlen, match, xfers, wrote, app, marks>>
    BY <1>10 DEF ReadByte
  <2>4. xf' \in Xfer
    BY <1>1, <1>2, <2>3
  <2>5. read' \in Seq(Octets)
    BY <2>2, <2>3 DEF TargetTypes
  <2> QED
    <3> HIDE DEF Xfer
    <3>1. txpos' \in Nat /\ armed' \in {"none", "rx", "tx", "wrong"}
      BY <2>1, <2>3 DEF TargetTypes
    <3>2. UNCHANGED <<conf, on, mem, rxlen, txlen, match, xfers, wrote, pc, heard,
                      handed, given, told, broken, lossy>>
      BY <2>3 DEF app, marks
    <3> USE DEF Xfer
    <3> QED
      BY <1>0, <1>3, <2>4, <2>5, <3>1, <3>2 DEF TargetTypes, Core, Legacy
<1> QED
  BY <1>4, <1>5, <1>6, <1>7, <1>8, <1>9, <1>10 DEF External

(* What a poll of the core driver leaves as it was.                        *)
LEMMA PollKeeps ==
  ASSUME TargetTypes, Poll
  PROVE  /\ Core /\ on /\ pc = "poll" /\ (seen # {} \/ sts # {})
         /\ \/ UNCHANGED <<armed, rxlen>>
            \/ armed' = "rx" /\ rxlen' = 0
         /\ pc' \in {"poll", "read", "readwrite", "write"}
         /\ lossy' \in BOOLEAN /\ missed' \in BOOLEAN /\ (lossy => lossy')
         /\ seen' = {} /\ (missed' => missed \/ lossy')
         /\ UNCHANGED <<conf, on, master, heard, handed, given, told, broken,
                        mem, txpos, txlen>>
<1>0. lossy \in BOOLEAN /\ missed \in BOOLEAN
  BY DEF TargetTypes
<1>1. CASE seen = {} /\ "PKT_ERROR" \in sts
  <2>1. NotArming /\ UNCHANGED <<pc, lossy, handler>> /\ sts # {}
    BY <1>1 DEF Poll
  <2>2. UNCHANGED <<armed, mem, rxlen, txpos, txlen, pc, lossy, seen, missed>>
    BY <2>1 DEF NotArming, handler
  <2> QED
    BY <1>0, <1>1, <2>1, <2>2 DEF Poll
<1>2. CASE seen # {}
  <2>1. PollPacket
    BY <1>2 DEF Poll
  <2>2. /\ \/ NotArming
           \/ ArmReceive /\ Arming
        /\ pc' \in {"poll", "read", "readwrite", "write"}
    BY <2>1 DEF PollPacket, Poll
  <2>3. /\ lossy' \in BOOLEAN /\ missed' \in BOOLEAN /\ (lossy => lossy')
        /\ seen' = {} /\ (missed' => missed \/ lossy')
    BY <1>0, <2>1 DEF PollPacket, ClearPacket
  <2>4. \/ UNCHANGED <<armed, rxlen>>
        \/ armed' = "rx" /\ rxlen' = 0
    BY <2>2 DEF NotArming, ArmReceive
  <2>5. UNCHANGED <<mem, txpos, txlen>>
    BY <2>2 DEF NotArming, Arming
  <2>6. Core /\ on /\ pc = "poll"
        /\ UNCHANGED <<conf, on, master, heard, handed, given, told, broken>>
    BY DEF Poll
  <2> QED
    BY <1>2, <2>2, <2>3, <2>4, <2>5, <2>6
<1>3. CASE seen = {} /\ "PKT_ERROR" \notin sts
  <2>1. PollByte /\ sts # {} /\ UNCHANGED <<lossy, handler>>
    BY <1>3 DEF Poll
  <2>2. /\ \/ UNCHANGED <<armed, rxlen>>
           \/ armed' = "rx" /\ rxlen' = 0
        /\ UNCHANGED <<mem, txpos, txlen>>
        /\ pc' = pc \/ pc' \in {"read", "write"}
    BY <2>1 DEF PollByte, NotArming, ArmReceive, Arming
  <2>3. UNCHANGED <<lossy, seen, missed>>
    BY <2>1 DEF handler
  <2> QED
    BY <1>0, <1>3, <2>1, <2>2, <2>3 DEF Poll
<1> QED
  BY <1>1, <1>2, <1>3

(* The core driver keeps the types.                                        *)
LEMMA CoreTypes ==
  ASSUME TargetTypes, Poll \/ SlaveRead \/ SlaveWrite PROVE TargetTypes'
<1>1. Size \in Nat \ {0}
  BY TargetAssumption
<1>2. CASE Poll
  <2>1. rxlen' \in 0 .. Size /\ armed' \in {"none", "rx", "tx", "wrong"}
    BY <1>1, <1>2, PollKeeps DEF TargetTypes
  <2>2. /\ UNCHANGED <<conf, on, master, heard, handed, given, told, broken,
                        mem, txpos, txlen>>
        /\ Core /\ on /\ pc' \in {"poll", "read", "readwrite", "write"}
    BY <1>2, PollKeeps
  <2>3. lossy' \in BOOLEAN /\ missed' \in BOOLEAN /\ (missed' => lossy') /\ seen' = {}
    BY <1>2, PollKeeps DEF TargetTypes
  <2>4. UNCHANGED <<xf, match, xfers, wrote, read>>
    BY <2>2 DEF master
  <2>5. (Legacy' => pc' = "poll") /\ (Core' => ~told')
    BY <2>2 DEF TargetTypes, Legacy, Core
  <2>6. on' /\ (seen' # {} => on' /\ pc' = "poll")
    BY <2>2, <2>3
  <2> QED
    BY <2>1, <2>2, <2>3, <2>4, <2>5, <2>6 DEF TargetTypes
<1>3. CASE SlaveRead
  <2>1. heard' \in Seq(Octets)
    BY <1>3, FetchedBytes DEF SlaveRead, TargetTypes
  <2> QED
    BY <1>1, <1>3, <2>1 DEF SlaveRead, TargetTypes, Core, Legacy, Free, NoXfer,
       master, handler, ArmReceive, Arming
<1>4. CASE SlaveWrite
  <2>1. /\ handed' \in Seq(Octets) /\ given' \in Nat
        /\ mem' \in [0 .. Size - 1 -> Octets]
        /\ txpos' = 0 /\ txlen' \in 0 .. Size /\ armed' = "tx"
    BY <1>1, <1>4, HandsOut, SendsSome DEF SlaveWrite
  <2> QED
    BY <1>4, <2>1 DEF SlaveWrite, TargetTypes, Core, Legacy, Free, NoXfer,
       master, marks, handler
<1> QED
  BY <1>2, <1>3, <1>4

(* What the interrupt handler of the older driver does to its buffer, its  *)
(* answers and the engine: it leaves all as they are, receives anew, or    *)
(* sends an answer or an echo.                                             *)
LEMMA SlaveIrqShape ==
  ASSUME TargetTypes, SlaveIrq
  PROVE  /\ \/ NotArming /\ NothingHanded
            \/ /\ armed' \in {"rx", "wrong"} /\ rxlen' = 0
               /\ Arming /\ NothingHanded
            \/ HandOut(1) /\ rxlen' = rxlen
            \/ Send(<<mem[0]>>) /\ NothingHanded /\ rxlen' = 0
         /\ heard' = heard \/ Deliver \/ heard' = heard \o Bytes(rxlen)
         /\ sts' = {} /\ Legacy /\ on /\ (seen # {} \/ sts # {})
         /\ told' \in {TRUE, FALSE, told}
         /\ lossy' \in BOOLEAN /\ missed' \in BOOLEAN /\ (lossy => lossy')
         /\ seen' = {} /\ (missed' => missed \/ lossy')
         /\ UNCHANGED <<conf, on, master, pc, broken>>
<1> USE DEF ArmReceive
<1>0. lossy \in BOOLEAN /\ missed \in BOOLEAN
  BY DEF TargetTypes
<1>1. CASE seen = {} /\ "INACTIVE_TO" \in sts
  <2>1. IrqTimeout
    BY <1>1 DEF SlaveIrq
  <2> QED
    BY <1>0, <1>1, <2>1 DEF SlaveIrq, IrqTimeout
<1>2. CASE seen # {}
  <2>1. IrqPacket
    BY <1>2 DEF SlaveIrq
  <2>2. \/ PacketAddress \/ PacketData \/ PacketTurned \/ PacketRead \/ PacketStop
        \/ NotArming /\ NothingHanded /\ UNCHANGED <<heard, told>>
    BY <2>1 DEF IrqPacket
  <2>3. told' \in {TRUE, FALSE, told}
    BY <2>2 DEF PacketAddress, PacketData, PacketTurned, PacketRead, PacketStop
  <2>7. conf.drv # "Core"
    BY DEF SlaveIrq, Legacy
  <2>8. seen' = {} /\ sts' = {}
    BY <2>1, <2>7 DEF IrqPacket, ClearPacket, Core
  <2>4. /\ lossy' \in BOOLEAN /\ missed' \in BOOLEAN /\ (lossy => lossy')
        /\ (missed' => missed \/ lossy')
    BY <1>0, <2>1 DEF IrqPacket, ClearPacket
  <2>5. /\ \/ NotArming /\ NothingHanded
           \/ /\ armed' \in {"rx", "wrong"} /\ rxlen' = 0
              /\ Arming /\ NothingHanded
           \/ HandOut(1) /\ rxlen' = rxlen
           \/ Send(<<mem[0]>>) /\ NothingHanded /\ rxlen' = 0
        /\ heard' = heard \/ Deliver
    BY <2>2 DEF PacketAddress, PacketData, PacketTurned, PacketRead, PacketStop
  <2> QED
    BY <1>2, <2>3, <2>4, <2>5, <2>8 DEF SlaveIrq
<1>3. CASE seen = {} /\ "INACTIVE_TO" \notin sts
  <2>1. IrqByte /\ sts # {}
    BY <1>3 DEF SlaveIrq
  <2>2. told' \in {TRUE, FALSE, told}
    BY <2>1 DEF IrqByte
  <2> QED
    BY <1>0, <1>3, <2>1, <2>2 DEF SlaveIrq, IrqByte, handler
<1> QED
  BY <1>1, <1>2, <1>3

(* So the older driver keeps the types, too.                               *)
LEMMA IrqTypes ==
  ASSUME TargetTypes, SlaveIrq PROVE TargetTypes'
<1>1. /\ Size \in Nat \ {0} /\ mem \in [0 .. Size - 1 -> Octets]
      /\ txlen \in 0 .. Size /\ txpos \in Nat /\ handed \in Seq(Octets)
      /\ given \in Nat /\ rxlen \in 0 .. Size /\ told \in BOOLEAN
  BY TargetAssumption DEF TargetTypes
<1>2. <<mem[0]>> \in Seq(Octets) /\ Len(<<mem[0]>>) = 1 /\ 1 <= Size
  BY <1>1
<1>3. /\ mem' \in [0 .. Size - 1 -> Octets] /\ txlen' \in 0 .. Size
      /\ txpos' \in Nat /\ handed' \in Seq(Octets) /\ given' \in Nat
      /\ rxlen' \in 0 .. Size /\ armed' \in {"none", "rx", "tx", "wrong"}
  <2>1. CASE NotArming /\ NothingHanded
    BY <1>1, <2>1 DEF NotArming, NothingHanded, TargetTypes
  <2>2. CASE /\ armed' \in {"rx", "wrong"} /\ rxlen' = 0
             /\ Arming /\ NothingHanded
    BY <1>1, <2>2 DEF Arming, NothingHanded
  <2>3. CASE HandOut(1) /\ rxlen' = rxlen
    BY <1>1, <2>3, HandsOut
  <2>4. CASE Send(<<mem[0]>>) /\ NothingHanded /\ rxlen' = 0
    <3>1. /\ mem' \in [0 .. Size - 1 -> Octets] /\ txpos' = 0 /\ armed' = "tx"
          /\ txlen' \in 0 .. Size
      <4> DEFINE echo == <<mem[0]>>
      <4>1. echo \in Seq(Octets) /\ Len(echo) <= Size /\ Send(echo)
        BY <1>2, <2>4
      <4> HIDE DEF echo
      <4> QED
        BY <4>1, SendPlaces
    <3> QED
      BY <1>1, <2>4, <3>1 DEF NothingHanded
  <2> QED
    BY <2>1, <2>2, <2>3, <2>4, SlaveIrqShape
<1>4. heard' \in Seq(Octets)
  <2>1. heard \in Seq(Octets)
    BY DEF TargetTypes
  <2>2. heard' = heard \/ heard' = heard \o Bytes(rxlen) \/ heard' = heard \o Stale
    BY SlaveIrqShape DEF Deliver
  <2>3. Bytes(rxlen) \in Seq(Octets) /\ Stale \in Seq(Octets)
    BY FetchedBytes
  <2> QED
    BY <2>1, <2>2, <2>3, ConcatProperties
<1>5. Legacy /\ on /\ UNCHANGED <<conf, on, master, pc, broken>> /\ sts' = {}
  BY SlaveIrqShape
<1>6. told' \in BOOLEAN
  BY <1>1, SlaveIrqShape
<1>7. seen' = {} /\ lossy' \in BOOLEAN /\ missed' \in BOOLEAN /\ (missed' => lossy')
  BY SlaveIrqShape DEF TargetTypes
<1>8. UNCHANGED <<xf, match, xfers, wrote, read>>
  BY <1>5 DEF master
<1>9. ~on' => Free' /\ ~match' /\ pc' = "poll" /\ sts' = {}
  BY <1>5
<1>10. (Legacy' => pc' = "poll") /\ (Core' => ~told')
  BY <1>5 DEF TargetTypes, Legacy, Core
<1> QED
  BY <1>3, <1>4, <1>5, <1>6, <1>7, <1>8, <1>9, <1>10 DEF TargetTypes

(* Every step keeps the types.                                             *)
LEMMA TargetTypesStep ==
  ASSUME TargetTypes, [Next]_vars PROVE TargetTypes'
<1>1. CASE SwitchOn
  <2>1. 0 \in 0 .. Size
    BY TargetAssumption
  <2> QED
    BY <1>1, <2>1 DEF SwitchOn, TargetTypes, Core, Legacy, Free, NoXfer, ArmReceive,
       Arming, master, marks, app
<1>5. CASE ReadStatus
  BY <1>5 DEF ReadStatus, TargetTypes, Core, Legacy, Free, NoXfer, driver, master, app,
     marks
<1>3. CASE SwitchOff
  <2>1. NoXfer \in [dir : {"none", "write", "read"}, n : Nat, len : Nat, then : Nat]
    BY DEF NoXfer
  <2> QED
    BY <1>3, <2>1 DEF SwitchOff, TargetTypes, Core, Legacy, Free, handler
<1>4. CASE EnableSlave
  BY <1>4 DEF EnableSlave, TargetTypes, Core, Legacy, Free, NoXfer, master, app,
     driver, handler
<1>2. CASE UNCHANGED vars
  BY <1>2 DEF vars, TargetTypes, Core, Legacy, Free, NoXfer, master, marks, app, driver,
     handler
<1> QED
  BY <1>1, <1>2, <1>3, <1>4, <1>5, ExternalTypes, CoreTypes, IrqTypes DEF Next

-----------------------------------------------------------------------------
(* The table of the status bits: which bits tell its rows apart.           *)

Rows == Sw \cup SwData \cup SwStop \cup Data \cup DataThenRead \cup FirstRead
          \cup NextRead \cup Stop

(* The marks of a packet are in no row.                                    *)
LEMMA RowsHaveNoMark ==
  ASSUME NEW r \in Rows
  PROVE  "PKT_DONE" \notin r /\ "PKT_ERROR" \notin r /\ "INACTIVE_TO" \notin r
BY DEF Rows, Sw, SwData, SwStop, Data, DataThenRead, FirstRead, NextRead, Stop

(* What a driver makes of a packet is the row it was reported with.        *)
LEMMA ReasonIsRow ==
  ASSUME NEW r \in Rows, sts = {"PKT_DONE"} \cup r
  PROVE  /\ Row = r /\ "PKT_DONE" \in sts /\ "PKT_ERROR" \notin sts
         /\ seen = sts => Reason = r
         /\ "INACTIVE_TO" \notin sts /\ sts \cap {"INACTIVE_TO"} = {}
BY RowsHaveNoMark DEF Reason, Row

(* The rows of a request for a byte to send.                               *)
LEMMA RowsToSend ==
  ASSUME NEW r
  PROVE  /\ r \in AsksToSend => /\ "WAIT_TX" \in r /\ "STOP" \notin r
                                /\ "WAIT_RX" \notin r
         /\ r \in DataThenRead => "RX_DONE" \in r
         /\ r \in FirstRead \cup NextRead => "RX_DONE" \notin r
BY DEF AsksToSend, DataThenRead, FirstRead, NextRead

(* The rows of an address, and of a stop without data.                     *)
LEMMA RowsOfAddress ==
  ASSUME NEW r
  PROVE  /\ r \in Sw => /\ "MATCH" \in r /\ "WAIT_RX" \notin r
                        /\ "WAIT_TX" \notin r /\ "STOP" \notin r
         /\ r \in SwData => /\ "MATCH" \in r /\ "WAIT_RX" \in r
                            /\ "WAIT_TX" \notin r /\ "STOP" \notin r
         /\ r \in SwStop \cup Stop => /\ "STOP" \in r /\ "RX_DONE" \notin r
                                      /\ "WAIT_TX" \notin r
BY DEF Sw, SwData, SwStop, Stop

(* The rows with data.                                                     *)
LEMMA RowsWithData ==
  ASSUME NEW r
  PROVE  /\ r \in Data => /\ "RX_DONE" \in r /\ "WAIT_TX" \notin r
                          /\ "STOP" \in r \/ ("MATCH" \notin r /\ "WAIT_RX" \in r)
         /\ r \in Stops => "STOP" \in r
         /\ r \in AsksToReceive => "WAIT_RX" \in r /\ "STOP" \notin r
BY DEF Data, Stops, SwStop, Stop, AsksToReceive, SwData

(* An event asks for one thing, and every row of one has its case.         *)
LEMMA RowsOfEvents ==
  ASSUME NEW r \in AsksToSend \cup AsksToReceive \cup Stops
  PROVE  /\ r \in Rows \ Sw
         /\ r \in AsksToReceive => r \in SwData \cup Data
         /\ r \in Stops => r \in SwStop \cup Stop \cup Data
         /\ r \in Data => r \in AsksToReceive \cup Stops
<1>1. {"RX_DONE", "WAIT_RX"} \in Data
  BY DEF Data
<1>2. r \in Rows
  BY <1>1 DEF Rows, AsksToSend, AsksToReceive, Stops
<1>3. r \notin Sw
  BY RowsToSend, RowsOfAddress, RowsWithData
<1>4. r \in Data => r \notin AsksToSend
  BY RowsToSend, RowsWithData
<1> QED
  BY <1>1, <1>2, <1>3, <1>4 DEF AsksToReceive, Stops

(* What the engine reports is a row of the table.                          *)
LEMMA ReportedRows ==
  /\ {"MATCH", "WAIT_TX"} \in FirstRead
  /\ {"WAIT_TX"} \in NextRead
  /\ {"RX_DONE", "WAIT_TX"} \in DataThenRead
  /\ {"MATCH", "RX_DONE", "WAIT_TX"} \in DataThenRead
  /\ {"MATCH", "RX_DONE", "WAIT_RX"} \in SwData
  /\ {"RX_DONE", "WAIT_RX"} \in AsksToReceive
  /\ {"STOP"} \in Stop /\ {"TX_NAK", "STOP"} \in Stop
  /\ {"MATCH", "STOP"} \in SwStop
BY DEF FirstRead, NextRead, DataThenRead, SwData, AsksToReceive, Stop, SwStop

(* The status bits byte by byte, told apart.                               *)
LEMMA ByteRows ==
  ASSUME NEW r
  PROVE  /\ r \in {ByteAddress} \cup ByteStopAddress =>
              {"MATCH", "RX_DONE", "WAIT_RX"} \subseteq r /\ "WAIT_TX" \notin r
         /\ r = ByteData => /\ "MATCH" \notin r /\ "RX_DONE" \in r
                            /\ "WAIT_RX" \in r /\ "WAIT_TX" \notin r
         /\ r \in ByteReads => "WAIT_TX" \in r
         /\ r \in ByteStop => "STOP" \in r /\ "RX_DONE" \notin r /\ "WAIT_TX" \notin r
         /\ r \in {ByteAddress, ByteData} \cup ByteStopAddress \cup ByteReads
                    \cup ByteStop =>
              "PKT_DONE" \notin r /\ "PKT_ERROR" \notin r /\ "INACTIVE_TO" \notin r
BY DEF ByteAddress, ByteStopAddress, ByteData, ByteReads, ByteStop

-----------------------------------------------------------------------------
(* What the drivers do with each row.                                      *)

(* The core driver, polled over a packet.                                  *)
LEMMA PollOfPacket ==
  ASSUME TargetTypes, NEW r \in Rows, sts = {"PKT_DONE"} \cup r,
         seen \in {{}, sts}, Poll
  PROVE  /\ sts' = {} /\ UNCHANGED missed
         /\ r \in SwData => /\ armed' = "rx" /\ rxlen' = 0 /\ pc' = "read"
                            /\ lossy' = TRUE
         /\ r \in SwStop \cup Stop => /\ armed' = "rx" /\ rxlen' = 0
                                      /\ UNCHANGED <<pc, lossy>>
         /\ r \in Data => /\ pc' = "read" /\ UNCHANGED <<armed, rxlen, lossy>>
         /\ r \in DataThenRead => /\ pc' = "readwrite"
                                  /\ UNCHANGED <<armed, rxlen, lossy>>
         /\ r \in FirstRead \cup NextRead =>
              pc' = "write" /\ UNCHANGED <<armed, rxlen, lossy>>
         /\ r \in Sw => UNCHANGED <<pc, armed, rxlen, lossy>>
<1>0. "PKT_DONE" \in sts /\ "PKT_ERROR" \notin sts /\ sts \cap {"INACTIVE_TO"} = {}
  BY ReasonIsRow
<1>1. PollPacket /\ Reason = r /\ seen = sts
  <2>1. seen # {} /\ PollPacket
    BY <1>0 DEF Poll
  <2> QED
    BY <2>1, ReasonIsRow
<1>2. sts' = {}
  BY <1>0, <1>1 DEF PollPacket, ClearPacket
<1>9. UNCHANGED missed /\ lossy' = (lossy \/ r \in SwData)
  <2>1. missed' = (missed \/ FALSE) /\ lossy' = (lossy \/ FALSE \/ r \in SwData)
    BY <1>1 DEF PollPacket, ClearPacket
  <2> QED
    BY <2>1 DEF TargetTypes
<1>10. r \notin SwData => UNCHANGED lossy
  BY <1>9 DEF TargetTypes
<1>3. CASE r \in SwData
  BY <1>1, <1>2, <1>9, <1>10, <1>3, RowsToSend, RowsOfAddress, RowsWithData
  DEF PollPacket, ArmReceive, AsksToSend
<1>4. CASE r \in SwStop \cup Stop
  BY <1>1, <1>2, <1>9, <1>10, <1>4, RowsToSend, RowsOfAddress, RowsWithData
  DEF PollPacket, ArmReceive, AsksToSend
<1>5. CASE r \in Data
  BY <1>1, <1>2, <1>9, <1>10, <1>5, RowsToSend, RowsOfAddress, RowsWithData
  DEF PollPacket, NotArming, AsksToSend
<1>6. CASE r \in DataThenRead
  BY <1>1, <1>2, <1>9, <1>10, <1>6, RowsToSend, RowsOfAddress, RowsWithData
  DEF PollPacket, NotArming, AsksToSend
<1>7. CASE r \in FirstRead \cup NextRead
  BY <1>1, <1>2, <1>9, <1>10, <1>7, RowsToSend, RowsOfAddress, RowsWithData
  DEF PollPacket, NotArming, AsksToSend
<1>8. CASE r \in Sw
  BY <1>1, <1>2, <1>9, <1>10, <1>8, RowsToSend, RowsOfAddress, RowsWithData
  DEF PollPacket, NotArming, AsksToSend
<1> QED
  BY <1>2, <1>3, <1>4, <1>5, <1>6, <1>7, <1>8, <1>9 DEF Rows

(* The interrupt handler of the older driver, on a packet.                 *)
LEMMA IrqOfRow ==
  ASSUME NEW r \in Rows, Reason = r, IrqPacket
  PROVE  /\ r \in Sw \cup SwData => PacketAddress
         /\ r \in Data => PacketData
         /\ r \in DataThenRead => PacketTurned
         /\ r \in FirstRead \cup NextRead => PacketRead
         /\ r \in SwStop \cup Stop => PacketStop
<1>2. CASE r \in Sw \cup SwData
  BY <1>2, RowsToSend, RowsOfAddress, RowsWithData DEF IrqPacket, AsksToSend
<1>3. CASE r \in Data
  BY <1>3, RowsToSend, RowsOfAddress, RowsWithData DEF IrqPacket, AsksToSend
<1>4. CASE r \in DataThenRead
  BY <1>4, RowsToSend, RowsOfAddress, RowsWithData DEF IrqPacket, AsksToSend
<1>5. CASE r \in FirstRead \cup NextRead
  BY <1>5, RowsToSend, RowsOfAddress, RowsWithData DEF IrqPacket, AsksToSend
<1>6. CASE r \in SwStop \cup Stop
  BY <1>6, RowsToSend, RowsOfAddress, RowsWithData DEF IrqPacket, AsksToSend
<1> QED
  BY <1>2, <1>3, <1>4, <1>5, <1>6 DEF Rows

LEMMA IrqOfPacket ==
  ASSUME TargetTypes, NEW r \in Rows, sts = {"PKT_DONE"} \cup r,
         seen \in {{}, sts}, SlaveIrq
  PROVE  /\ Reason = r /\ UNCHANGED <<lossy, missed>>
         /\ r \in Sw \cup SwData => PacketAddress
         /\ r \in Data => PacketData
         /\ r \in DataThenRead => PacketTurned
         /\ r \in FirstRead \cup NextRead => PacketRead
         /\ r \in SwStop \cup Stop => PacketStop
<1>1. IrqPacket /\ Reason = r /\ seen = sts
  <2>1. seen # {} /\ IrqPacket
    BY ReasonIsRow DEF SlaveIrq
  <2> QED
    BY <2>1, ReasonIsRow
<1>2. UNCHANGED <<lossy, missed>>
  <2>1. missed' = (missed \/ FALSE) /\ lossy' = (lossy \/ FALSE)
    BY <1>1 DEF IrqPacket, ClearPacket
  <2> QED
    BY <2>1 DEF TargetTypes
<1> QED
  BY <1>1, <1>2, IrqOfRow

(* The core driver, polled byte by byte.                                   *)
LEMMA PollOfByte ==
  ASSUME "PKT_DONE" \notin sts, "PKT_ERROR" \notin sts, seen = {}, Poll
  PROVE  /\ UNCHANGED lossy /\ missed' = missed
         /\ sts \in {ByteAddress} \cup ByteStopAddress \cup ByteStop =>
              sts' = {} /\ armed' = "rx" /\ rxlen' = 0 /\ UNCHANGED pc
         /\ sts = ByteData => pc' = "read" /\ UNCHANGED <<armed, rxlen, sts>>
         /\ sts \in ByteReads => pc' = "write" /\ UNCHANGED <<armed, rxlen, sts>>
<1>1. PollByte /\ UNCHANGED lossy /\ missed' = missed
  BY DEF Poll, handler
<1>2. CASE sts \in {ByteAddress} \cup ByteStopAddress \cup ByteStop
  BY <1>1, <1>2, ByteRows DEF PollByte, ArmReceive
<1>3. CASE sts = ByteData
  BY <1>1, <1>3, ByteRows DEF PollByte, NotArming
<1>4. CASE sts \in ByteReads
  <2>1. sts # ByteData /\ sts \notin {ByteAddress} \cup ByteStopAddress \cup ByteStop
    BY <1>4, ByteRows
  <2> QED
    BY <1>1, <1>4, <2>1 DEF PollByte, NotArming
<1> QED
  BY <1>1, <1>2, <1>3, <1>4 DEF PollByte

(* The interrupt handler of the older driver, byte by byte.                *)
LEMMA IrqOfOneByte ==
  ASSUME IrqByte
  PROVE  /\ sts \in {ByteAddress} \cup ByteStopAddress =>
              /\ told' = TRUE /\ armed' = "rx" /\ rxlen' = 0 /\ Arming
              /\ NothingHanded /\ UNCHANGED heard
         /\ sts = ByteData =>
              /\ heard' = heard \o Bytes(rxlen) /\ armed' = "rx" /\ rxlen' = 0
              /\ Arming /\ NothingHanded /\ UNCHANGED told
         /\ sts \in ByteReads => HandOut(1) /\ UNCHANGED <<heard, told, rxlen>>
         /\ sts \in ByteStop =>
              /\ told' = FALSE /\ armed' = "rx" /\ rxlen' = 0 /\ Arming
              /\ NothingHanded /\ UNCHANGED heard
<1>2. CASE sts \in {ByteAddress} \cup ByteStopAddress
  <2>1. sts # ByteData /\ sts \notin ByteReads /\ sts \notin ByteStop
    BY <1>2, ByteRows
  <2> QED
    BY <1>2, <2>1 DEF IrqByte, ArmReceive
<1>3. CASE sts = ByteData
  <2>1. /\ sts \notin {ByteAddress} \cup ByteStopAddress /\ sts \notin ByteReads
        /\ sts \notin ByteStop
    BY <1>3, ByteRows
  <2> QED
    BY <1>3, <2>1 DEF IrqByte, ArmReceive
<1>4. CASE sts \in ByteReads
  <2>1. /\ sts \notin {ByteAddress} \cup ByteStopAddress /\ sts # ByteData
        /\ sts \notin ByteStop
    BY <1>4, ByteRows
  <2> QED
    BY <1>4, <2>1 DEF IrqByte
<1>5. CASE sts \in ByteStop
  <2>1. /\ sts \notin {ByteAddress} \cup ByteStopAddress /\ sts # ByteData
        /\ sts \notin ByteReads
    BY <1>5, ByteRows
  <2> QED
    BY <1>5, <2>1 DEF IrqByte, ArmReceive
<1> QED
  BY <1>2, <1>3, <1>4, <1>5

LEMMA IrqOfByte ==
  ASSUME "INACTIVE_TO" \notin sts, "PKT_DONE" \notin sts, seen = {}, SlaveIrq
  PROVE  /\ UNCHANGED lossy /\ missed' = missed
         /\ sts \in {ByteAddress} \cup ByteStopAddress =>
              /\ told' = TRUE /\ armed' = "rx" /\ rxlen' = 0 /\ Arming
              /\ NothingHanded /\ UNCHANGED heard
         /\ sts = ByteData =>
              /\ heard' = heard \o Bytes(rxlen) /\ armed' = "rx" /\ rxlen' = 0
              /\ Arming /\ NothingHanded /\ UNCHANGED told
         /\ sts \in ByteReads => HandOut(1) /\ UNCHANGED <<heard, told, rxlen>>
         /\ sts \in ByteStop =>
              /\ told' = FALSE /\ armed' = "rx" /\ rxlen' = 0 /\ Arming
              /\ NothingHanded /\ UNCHANGED heard
<1>1. IrqByte
  BY DEF SlaveIrq
<1>2. UNCHANGED lossy /\ missed' = missed
  BY <1>1 DEF IrqByte, handler
<1> QED
  BY <1>1, <1>2, IrqOfOneByte

-----------------------------------------------------------------------------
(* Where driver, engine and external master can be                         *)

(* What went wrong once stays noted.                                       *)
LEMMA MarksStay ==
  ASSUME TargetTypes, [Next]_vars
  PROVE  (broken => broken') /\ (lossy => lossy')
<1>0. broken \in BOOLEAN /\ lossy \in BOOLEAN
  BY DEF TargetTypes
<1>1. CASE External
  <2>1. CASE StartWrite \/ ReportMatch \/ WriteByte \/ BufferFull \/ WriteStop
               \/ Restart \/ ReadByte
    <3>1. UNCHANGED marks
      BY <2>1 DEF StartWrite, ReportMatch, WriteByte, BufferFull, WriteStop,
         Restart, ReadByte
    <3> QED
      BY <3>1 DEF marks
  <2>2. CASE StartRead
    BY <1>0, <2>2 DEF StartRead
  <2>3. CASE BusError \/ Inactive
    BY <1>0, <2>3 DEF BusError, Inactive
  <2> QED
    BY <1>1, <2>1, <2>2, <2>3 DEF External
<1>2. CASE Poll
  BY <1>0, <1>2, PollKeeps
<1>3. CASE SlaveIrq
  BY <1>0, <1>3, SlaveIrqShape
<1>4. CASE SlaveRead
  BY <1>0, <1>4 DEF SlaveRead
<1>5. CASE SlaveWrite \/ SwitchOn \/ ReadStatus \/ UNCHANGED vars
  <2>1. UNCHANGED marks
    BY <1>5 DEF SlaveWrite, SwitchOn, ReadStatus, vars
  <2> QED
    BY <2>1 DEF marks
<1>6. CASE SwitchOff \/ EnableSlave
  BY <1>0, <1>6 DEF SwitchOff, EnableSlave
<1> QED
  BY <1>1, <1>2, <1>3, <1>4, <1>5, <1>6 DEF Next

(* The external master acts on a target that is switched on, which stays   *)
(* so, under the same driver.                                              *)
LEMMA ExternalMeetsOn ==
  ASSUME TargetTypes, External
  PROVE  /\ on /\ on' /\ conf' = conf /\ pc' = pc
         /\ ByteMode' = ByteMode /\ Legacy' = Legacy
BY SMTT(60) DEF TargetTypes, External, StartWrite, StartRead, ReportMatch, WriteByte,
   BufferFull, WriteStop, Restart, ReadByte, BusError, Inactive, Free, NoXfer,
   ByteMode, Legacy, app

(* A transfer begins: with packets the engine was receiving; byte by byte  *)
(* it may have a stop to report still.                                     *)
LEMMA SituationStarts ==
  ASSUME TargetTypes, Situation, ~missed, StartWrite \/ StartRead, ~broken'
  PROVE  Situation'
<1>1. /\ on /\ on' /\ conf' = conf /\ pc' = pc /\ ~broken /\ Free
      /\ ByteMode' = ByteMode /\ Legacy' = Legacy
  BY ExternalMeetsOn, MarksStay DEF External, Next, StartWrite, StartRead
<1>2. xf.dir = "none" /\ ~match
  BY <1>1 DEF Free, NoXfer, Situation, MatchDue
<1>3. CASE ~ByteMode
  <2>1. Receives
    BY <1>1, <1>2, <1>3 DEF StartWrite, StartRead, Situation, Situated,
       PacketSituation, Addressed, Sends, EventDue, Due, InHand, Between, Expired
  <2>2. CASE StartWrite
    <3>1. xf'.dir = "write" /\ armed' = "rx" /\ sts' = {} /\ match'
      BY <1>3, <2>1, <2>2 DEF StartWrite, Receives
    <3> QED
      BY <1>1, <1>3, <2>1, <3>1 DEF Receives, Situation, Situated, PacketSituation,
         MatchDue
  <2>3. CASE StartRead
    <3>1. /\ xf'.dir = "read" /\ armed' = "none" /\ match' = match
          /\ sts' = {"PKT_DONE"} \cup {"MATCH", "WAIT_TX"}
      BY <1>3, <2>1, <2>3 DEF StartRead, Receives, Raise, Packet
    <3>2. {"MATCH", "WAIT_TX"} \in AsksToSend
      BY ReportedRows DEF AsksToSend
    <3>3. EventDue'
      BY <1>1, <2>1, <3>1, <3>2 DEF EventDue, Due, Receives, AsksToSend
    <3> QED
      BY <1>1, <1>2, <1>3, <3>1, <3>3 DEF Situation, Situated, PacketSituation,
         MatchDue
  <2> QED
    BY <2>2, <2>3
<1>4. CASE ByteMode
  <2>1. ByteReceives \/ ByteStopped \/ Expired
    BY <1>1, <1>2, <1>4 DEF Situation, Situated, ByteSituation, Sends, ByteWrite,
       ByteRead
  <2>2. CASE StartWrite
    <3>1. /\ xf'.dir = "write" /\ armed' = "none" /\ match' = FALSE
          /\ sts' = sts \cup ByteAddress
      BY <1>4, <2>2 DEF StartWrite, Raise, ByteAddress
    <3>2. CASE ByteReceives
      <4>1. sts' = ByteAddress /\ pc = "poll"
        BY <3>1, <3>2 DEF ByteReceives, Receives
      <4>2. ByteWrite'
        BY <1>1, <3>1, <4>1 DEF ByteWrite
      <4> QED
        BY <1>1, <1>4, <3>1, <4>2 DEF Situation, Situated, ByteSituation, MatchDue
    <3>3. CASE ByteStopped
      <4>1. sts' \in ByteStopAddress /\ pc = "poll"
        BY <3>1, <3>3 DEF ByteStopped, ByteStopAddress
      <4>2. ByteWrite'
        BY <1>1, <3>1, <4>1 DEF ByteWrite, ByteStopAddress
      <4> QED
        BY <1>1, <1>4, <3>1, <4>2 DEF Situation, Situated, ByteSituation, MatchDue
    <3>4. CASE Expired
      <4>1. Expired'
        BY <1>1, <1>4, <3>1, <3>4 DEF Expired
      <4> QED
        BY <1>1, <1>4, <3>1, <4>1 DEF Situation, Situated, ByteSituation, MatchDue
    <3> QED
      BY <2>1, <3>2, <3>3, <3>4
  <2>3. CASE StartRead
    <3>1. /\ xf'.dir = "read" /\ armed' = "none" /\ match' = match
          /\ sts' = {"MATCH", "RX_DONE", "WAIT_TX"} /\ sts = {}
      <4>1. ~(broken \/ sts # {})
        BY <2>3 DEF StartRead
      <4> QED
        BY <1>4, <2>3, <4>1 DEF StartRead, Raise, Packet
    <3>2. ByteRead'
      BY <1>1, <2>1, <3>1
      DEF ByteRead, ByteReads, ByteReceives, Receives, ByteStopped, Expired
    <3> QED
      BY <1>1, <1>2, <1>4, <3>1, <3>2 DEF Situation, Situated, ByteSituation, MatchDue
  <2> QED
    BY <2>2, <2>3
<1> QED
  BY <1>3, <1>4

(* A byte of a write, or its address, reaches an engine that receives.     *)
LEMMA SituationReceives ==
  ASSUME TargetTypes, Situation, ~missed, ~broken',
         ReportMatch \/ WriteByte \/ BufferFull
  PROVE  Situation'
<1>1. /\ on /\ on' /\ conf' = conf /\ pc' = pc /\ ~broken
      /\ ByteMode' = ByteMode /\ Legacy' = Legacy
  BY ExternalMeetsOn, MarksStay DEF External, Next
<1>2. armed = "rx" /\ xf.dir = "write" /\ xf'.dir = "write"
  BY <1>1 DEF ReportMatch, WriteByte, BufferFull, Situation, MatchDue, TargetTypes
<1>3. Free => xf.dir = "none"
  BY DEF Free, NoXfer
<1>4. CASE ~ByteMode
  <2>1. Receives \/ Addressed
    BY <1>1, <1>2, <1>3, <1>4 DEF Situation, Situated, PacketSituation, Sends, EventDue,
       Due, InHand, Between, Expired
  <2>2. CASE ReportMatch
    <3>1. sts' = {"PKT_DONE", "MATCH"} /\ ~match' /\ armed' = armed /\ xf' = xf
      BY <2>2 DEF ReportMatch, Raise
    <3>2. Addressed'
      BY <1>1, <1>2, <2>1, <3>1 DEF Addressed, Receives
    <3> QED
      BY <1>1, <1>4, <3>1, <3>2 DEF Situation, Situated, PacketSituation, MatchDue
  <2>3. CASE WriteByte
    <3>1. UNCHANGED <<sts, armed, match>>
      BY <1>4, <2>3 DEF WriteByte
    <3>2. Receives' \/ Addressed'
      BY <1>1, <1>2, <2>1, <3>1 DEF Addressed, Receives
    <3> QED
      BY <1>1, <1>2, <1>4, <3>1, <3>2 DEF Situation, Situated, PacketSituation,
         MatchDue
  <2>4. CASE BufferFull
    <3>1. /\ ~match' /\ armed' = "none"
          /\ sts' = sts \cup {"PKT_DONE", "RX_DONE", "WAIT_RX"}
                      \cup (IF match THEN {"MATCH"} ELSE {})
      BY <2>4 DEF BufferFull, Raise, Matched
    <3>2. \/ sts' = {"PKT_DONE"} \cup {"RX_DONE", "WAIT_RX"}
          \/ sts' = {"PKT_DONE"} \cup {"MATCH", "RX_DONE", "WAIT_RX"}
      BY <2>1, <3>1 DEF Receives, Addressed
    <3>3. /\ {"RX_DONE", "WAIT_RX"} \in AsksToReceive
          /\ {"MATCH", "RX_DONE", "WAIT_RX"} \in AsksToReceive
      BY ReportedRows DEF AsksToReceive
    <3>4. pc \in {"poll", "read"}
      BY <2>1 DEF Receives, Addressed
    <3>5. EventDue'
      BY <1>1, <1>2, <3>1, <3>2, <3>3, <3>4 DEF EventDue, Due, AsksToReceive
    <3> QED
      BY <1>1, <1>4, <3>1, <3>5 DEF Situation, Situated, PacketSituation, MatchDue
  <2> QED
    BY <2>2, <2>3, <2>4
<1>5. CASE ByteMode
  <2>1. ByteReceives /\ WriteByte
    BY <1>1, <1>2, <1>3, <1>5 DEF Situation, Situated, ByteSituation, Sends,
       ByteWrite, ByteRead, ByteStopped, Expired, ReportMatch, BufferFull
  <2>2. sts' = ByteData /\ armed' = "none" /\ match' = match
    BY <1>5, <2>1 DEF WriteByte, Raise, ByteReceives, Receives, ByteData
  <2>3. ByteWrite'
    BY <1>1, <1>2, <2>1, <2>2 DEF ByteWrite, ByteReceives
  <2> QED
    BY <1>1, <1>5, <2>2, <2>3 DEF Situation, Situated, ByteSituation, MatchDue
<1> QED
  BY <1>4, <1>5

(* What a write may end with: a stop, with or without data.                *)
LEMMA StopRows ==
  ASSUME NEW matched \in {{}, {"MATCH"}}, NEW data \in {{}, {"RX_DONE"}},
         NEW more \in {{}, {"RX_DONE_NAK"}, {"WAIT_RX"}},
         more # {} => data # {}
  PROVE  matched \cup data \cup more \cup {"STOP"} \in Stops
<1> DEFINE r == matched \cup data \cup more \cup {"STOP"}
<1>1. CASE data = {}
  <2>1. r = {"STOP"} \/ r = {"MATCH", "STOP"}
    BY <1>1
  <2> QED
    BY <2>1, ReportedRows DEF Stops
<1>2. CASE data = {"RX_DONE"}
  <2>1. r \in Data
    <3>1. CASE matched = {}
      BY <1>2, <3>1 DEF Data
    <3>2. CASE matched = {"MATCH"}
      BY <1>2, <3>2 DEF Data
    <3> QED
      BY <3>1, <3>2
  <2>2. "STOP" \in r
    OBVIOUS
  <2> QED
    BY <2>1, <2>2 DEF Stops
<1> QED
  BY <1>1, <1>2

(* A transfer ends, or turns into a read.                                  *)
LEMMA SituationEnds ==
  ASSUME TargetTypes, Situation, ~missed, ~broken', WriteStop \/ Restart
  PROVE  Situation'
<1>1. /\ on /\ on' /\ conf' = conf /\ pc' = pc /\ ~broken
      /\ ByteMode' = ByteMode /\ Legacy' = Legacy
  BY ExternalMeetsOn, MarksStay DEF External, Next
<1>2. armed = "rx" /\ xf.dir = "write"
  BY DEF WriteStop, Restart
<1>3. Free => xf.dir = "none"
  BY DEF Free, NoXfer
<1>4. CASE ~ByteMode
  <2>1. Receives \/ Addressed
    BY <1>1, <1>2, <1>3, <1>4 DEF Situation, Situated, PacketSituation, Sends, EventDue,
       Due, InHand, Between, Expired
  <2>2. pc \in {"poll", "read"} /\ sts \in {{}, {"PKT_DONE", "MATCH"}}
    BY <2>1 DEF Receives, Addressed
  <2>3. ~match' /\ armed' = "none"
    BY <1>4 DEF WriteStop, Restart
  <2>4. EventDue'
    <3>1. CASE WriteStop
      <4>1. PICK more \in {{}, {"RX_DONE_NAK"}, {"WAIT_RX"}} :
              /\ more # {} => rxlen = Capacity /\ ~ByteMode
              /\ Raise(Packet \cup Matched \cup RxDone \cup more \cup {"STOP"})
        BY <3>1 DEF WriteStop
      <4>2. more # {} => RxDone # {}
        BY <1>4, <4>1, TargetAssumption DEF RxDone, Capacity
      <4> DEFINE matched == IF sts = {} THEN Matched ELSE {"MATCH"}
      <4>3. matched \in {{}, {"MATCH"}} /\ RxDone \in {{}, {"RX_DONE"}}
        BY DEF Matched, RxDone
      <4>4. matched \cup RxDone \cup more \cup {"STOP"} \in Stops
        <5> HIDE DEF matched
        <5> QED
          BY <4>2, <4>3, StopRows
      <4>5. sts' = {"PKT_DONE"} \cup (matched \cup RxDone \cup more \cup {"STOP"})
        BY <1>4, <2>2, <4>1 DEF Raise, Packet, Matched
      <4>6. xf' = NoXfer
        BY <3>1 DEF WriteStop
      <4> HIDE DEF matched
      <4> QED
        BY <1>1, <2>2, <2>3, <4>4, <4>5, <4>6 DEF EventDue, Due, Free
    <3>2. CASE Restart
      <4>1. /\ xf'.dir = "read"
            /\ sts' = sts \cup {"PKT_DONE", "RX_DONE", "WAIT_TX"}
                        \cup (IF match THEN {"MATCH"} ELSE {})
        BY <1>4, <3>2 DEF Restart, Raise, Matched
      <4>2. \/ sts' = {"PKT_DONE"} \cup {"RX_DONE", "WAIT_TX"}
            \/ sts' = {"PKT_DONE"} \cup {"MATCH", "RX_DONE", "WAIT_TX"}
        BY <2>2, <4>1
      <4>3. /\ {"RX_DONE", "WAIT_TX"} \in AsksToSend
            /\ {"MATCH", "RX_DONE", "WAIT_TX"} \in AsksToSend
        BY ReportedRows DEF AsksToSend
      <4> QED
        BY <1>1, <2>2, <2>3, <4>1, <4>2, <4>3 DEF EventDue, Due, AsksToSend
    <3> QED
      BY <3>1, <3>2
  <2> QED
    BY <1>1, <1>4, <2>3, <2>4 DEF Situation, Situated, PacketSituation, MatchDue
<1>5. CASE ByteMode
  <2>1. ByteReceives
    BY <1>1, <1>2, <1>3, <1>5 DEF Situation, Situated, ByteSituation, Sends,
       ByteWrite, ByteRead, ByteStopped, Expired
  <2>2. sts = {} /\ pc = "poll"
    BY <2>1 DEF ByteReceives, Receives
  <2>3. CASE WriteStop
    <3>1. sts' = {"STOP"} /\ armed' = "rx" /\ xf' = NoXfer /\ ~match'
      <4>1. PICK more \in {{}, {"RX_DONE_NAK"}, {"WAIT_RX"}} :
              /\ more # {} => rxlen = Capacity /\ ~ByteMode
              /\ Raise(Packet \cup Matched \cup RxDone \cup more \cup {"STOP"})
        BY <2>3 DEF WriteStop
      <4>2. more = {} /\ Packet = {} /\ Matched = {} /\ RxDone = {}
        BY <1>1, <1>5, <4>1 DEF Packet, Matched, RxDone, Situation, MatchDue
      <4>3. sts' = {"STOP"}
        BY <2>2, <4>1, <4>2 DEF Raise
      <4> QED
        BY <1>2, <1>5, <2>3, <4>3 DEF WriteStop
    <3>2. ByteStopped'
      BY <1>1, <2>2, <3>1 DEF ByteStopped, Free
    <3> QED
      BY <1>1, <1>5, <3>1, <3>2 DEF Situation, Situated, ByteSituation, MatchDue
  <2>4. CASE Restart
    <3>1. /\ sts' = {"MATCH", "RX_DONE", "WAIT_TX"} /\ armed' = "none"
          /\ xf'.dir = "read" /\ ~match'
      BY <1>5, <2>2, <2>4 DEF Restart, Raise
    <3>2. ByteRead'
      BY <1>1, <2>2, <3>1 DEF ByteRead, ByteReads
    <3> QED
      BY <1>1, <1>5, <3>1, <3>2 DEF Situation, Situated, ByteSituation, MatchDue
  <2> QED
    BY <2>3, <2>4
<1> QED
  BY <1>4, <1>5

(* A byte is sent: there is another one, the next must be asked for, or    *)
(* the external master ends the read.                                      *)
LEMMA SituationSends ==
  ASSUME TargetTypes, Situation, ~missed, ~broken', ReadByte
  PROVE  Situation'
<1>1. /\ on /\ on' /\ conf' = conf /\ pc' = pc /\ ~broken
      /\ ByteMode' = ByteMode /\ Legacy' = Legacy
  BY ExternalMeetsOn, MarksStay DEF External, Next
<1>2. /\ armed = "tx" /\ xf.dir = "read" /\ txpos \in Nat /\ txlen \in Nat
      /\ match' = match /\ txpos' = txpos + 1 /\ txlen' = txlen /\ txpos < txlen
  BY DEF ReadByte, TargetTypes
<1>3. Sends
  BY <1>1, <1>2 DEF Situation, Situated, PacketSituation, ByteSituation, Receives,
     Addressed, EventDue, Due, InHand, Between, Expired, ByteReceives, ByteWrite,
     ByteRead, ByteStopped, Free, NoXfer
<1>4. sts = {} /\ pc = "poll" /\ ~match
  BY <1>1, <1>2, <1>3 DEF Sends, Situation, MatchDue, TargetTypes
<1>5. MatchDue'
  BY <1>2, <1>4 DEF MatchDue
<1>6. CASE xf.n + 1 = xf.len
  <2>1. /\ sts' = Packet \cup {"TX_NAK", "STOP"} /\ xf' = NoXfer /\ armed' = "none"
    BY <1>4, <1>6 DEF ReadByte, Raise
  <2>2. CASE ByteMode
    <3>1. sts' = {"STOP", "TX_NAK"}
      BY <2>1, <2>2 DEF Packet
    <3>2. ByteStopped'
      BY <1>1, <1>4, <2>1, <3>1 DEF ByteStopped, Free
    <3> QED
      BY <1>1, <1>5, <2>2, <3>2 DEF Situation, Situated, ByteSituation
  <2>3. CASE ~ByteMode
    <3>1. sts' = {"PKT_DONE"} \cup {"TX_NAK", "STOP"}
      BY <2>1, <2>3 DEF Packet
    <3>2. {"TX_NAK", "STOP"} \in Stops
      BY ReportedRows DEF Stops
    <3>3. EventDue'
      BY <1>1, <1>4, <2>1, <3>1, <3>2 DEF EventDue, Due, Free
    <3> QED
      BY <1>1, <1>5, <2>3, <3>3 DEF Situation, Situated, PacketSituation
  <2> QED
    BY <2>2, <2>3
<1>7. CASE xf.n + 1 # xf.len
  <2>1. xf' = [xf EXCEPT !.n = @ + 1]
    BY <1>7 DEF ReadByte
  <2>2. xf'.dir = "read"
    BY <1>2, <2>1 DEF TargetTypes
  <2>3. CASE txpos' # txlen
    <3>1. UNCHANGED <<sts, armed>>
      BY <1>7, <2>3 DEF ReadByte
    <3>2. Sends'
      BY <1>1, <1>2, <1>4, <2>2, <2>3, <3>1 DEF Sends
    <3> QED
      BY <1>1, <1>5, <3>2 DEF Situation, Situated, PacketSituation, ByteSituation
  <2>4. CASE txpos' = txlen
    <3>1. /\ armed' = "none"
          /\ sts' = Packet \cup {"WAIT_TX"} \cup (IF ByteMode THEN {"TX_ACK"} ELSE {})
      BY <1>4, <1>7, <2>4 DEF ReadByte, Raise
    <3>2. CASE ByteMode
      <4>1. sts' \in ByteReads
        BY <3>1, <3>2 DEF Packet, ByteReads
      <4>2. ByteRead'
        BY <1>1, <1>4, <2>2, <3>1, <4>1 DEF ByteRead, ByteReads
      <4> QED
        BY <1>1, <1>5, <3>2, <4>2 DEF Situation, Situated, ByteSituation
    <3>3. CASE ~ByteMode
      <4>1. sts' = {"PKT_DONE"} \cup {"WAIT_TX"}
        BY <3>1, <3>3 DEF Packet
      <4>2. {"WAIT_TX"} \in AsksToSend
        BY ReportedRows DEF AsksToSend
      <4>3. EventDue'
        BY <1>1, <1>4, <2>2, <3>1, <4>1, <4>2 DEF EventDue, Due, AsksToSend
      <4> QED
        BY <1>1, <1>5, <3>3, <4>3 DEF Situation, Situated, PacketSituation
    <3> QED
      BY <3>2, <3>3
  <2> QED
    BY <2>3, <2>4
<1> QED
  BY <1>6, <1>7

(* A transfer breaks off: only the time-out of the older driver has an     *)
(* answer.                                                                 *)
LEMMA SituationBreaks ==
  ASSUME TargetTypes, Situation, ~missed, ~broken', BusError \/ Inactive
  PROVE  Situation'
<1>1. /\ on /\ on' /\ conf' = conf /\ ByteMode' = ByteMode /\ Legacy' = Legacy
  BY ExternalMeetsOn DEF External
<1>2. /\ Inactive /\ ~Core /\ conf.mode # "Buff"
  BY DEF BusError, Inactive
<1>3. /\ xf' = NoXfer /\ ~match' /\ armed' = "none" /\ "INACTIVE_TO" \in sts'
  BY <1>2 DEF Inactive, Raise
<1>4. Legacy
  BY <1>2 DEF Core, Legacy, TargetTypes
<1>5. Expired'
  BY <1>1, <1>2, <1>3, <1>4 DEF Expired, NoXfer, Free
<1> QED
  BY <1>1, <1>3, <1>5 DEF Situation, Situated, PacketSituation, ByteSituation, MatchDue

(* An address is the row of an address.                                    *)
LEMMA AddressRow ==
  ASSUME Addressed
  PROVE  {"MATCH"} \in Sw /\ {"MATCH"} \in Rows /\ sts = {"PKT_DONE"} \cup {"MATCH"}
BY DEF Addressed, Sw, Rows

(* The bare address: a driver leaves all as it is, and has missed what has *)
(* come up since.                                                          *)
LEMMA OvertakenAddress ==
  ASSUME TargetTypes, Situation, ~missed, ~broken, on, Overtaken, ~ByteMode,
         Poll \/ SlaveIrq
  PROVE  /\ sts' = {} /\ missed' = TRUE /\ lossy' = TRUE /\ seen' = {}
         /\ armed = "none" /\ ~match /\ pc = "poll"
         /\ UNCHANGED <<armed, mem, rxlen, txpos, txlen, pc, heard, handed, given>>
         /\ UNCHANGED <<xf, match, wrote, read, conf, on, broken>>
<1>1. /\ Reason = {"MATCH"} /\ seen # {} /\ {"MATCH"} \in Sw /\ {"MATCH"} \in Rows
  BY DEF Overtaken, Reason, Sw, Rows
<1>2. PICK r \in AsksToSend \cup AsksToReceive \cup Stops : Due(r)
  BY DEF Overtaken, EventDue
<1>3. r \in Rows \ Sw /\ sts = {"PKT_DONE"} \cup r /\ armed = "none" /\ ~match
  BY <1>2, RowsOfEvents DEF Due, Situation, MatchDue
<1>4. sts # seen /\ sts \cap {"INACTIVE_TO"} = {}
  <2>1. seen = {"PKT_DONE"} \cup {"MATCH"} /\ "PKT_DONE" \notin r /\ r # {"MATCH"}
    BY <1>1, <1>3, RowsHaveNoMark DEF Overtaken
  <2> QED
    BY <1>3, <2>1, RowsHaveNoMark
<1>5. UNCHANGED <<xf, match, wrote, read, conf, on, broken>>
  BY PollKeeps, SlaveIrqShape DEF master
<1>6. CASE Poll
  <2>1. PollPacket
    BY <1>1, <1>6 DEF Poll
  <2>2. NotArming /\ pc' = pc
    BY <1>1, <2>1, RowsToSend, RowsOfAddress, RowsWithData DEF PollPacket, AsksToSend
  <2>3. sts' = {} /\ seen' = {} /\ missed' = TRUE /\ lossy' = TRUE
    BY <1>4, <2>1 DEF PollPacket, ClearPacket
  <2>4. UNCHANGED <<heard, handed, given>>
    BY <1>6 DEF Poll
  <2> QED
    BY <1>3, <1>5, <2>2, <2>3, <2>4 DEF NotArming, Overtaken
<1>7. CASE SlaveIrq
  <2>1. IrqPacket /\ pc' = pc
    BY <1>1, <1>7 DEF SlaveIrq
  <2>2. PacketAddress
    BY <1>1, <2>1, IrqOfRow
  <2>3. NotArming /\ NothingHanded /\ UNCHANGED heard
    BY <1>1, <2>2 DEF PacketAddress
  <2>4. sts' = {} /\ seen' = {} /\ missed' = TRUE /\ lossy' = TRUE
    BY <1>4, <2>1 DEF IrqPacket, ClearPacket
  <2> QED
    BY <1>3, <1>5, <2>1, <2>3, <2>4 DEF NotArming, NothingHanded, Overtaken
<1> QED
  BY <1>6, <1>7

(* Otherwise a handler that has read a status finds it as it was.          *)
LEMMA ReadAsItWas ==
  ASSUME Handling, ~missed, ~broken, on, ~Overtaken
  PROVE  seen \in {{}, sts} /\ (ByteMode => seen = {})
BY DEF Handling, Reading

(* The application polls.                                                  *)
LEMMA SituationPoll ==
  ASSUME TargetTypes, Situation, Handling, ~missed, ~Overtaken, ~broken', Poll
  PROVE  Situation'
<1>1. /\ on /\ on' /\ Core /\ pc = "poll" /\ sts # {} /\ ~broken
      /\ UNCHANGED <<conf, xf, match>>
      /\ ByteMode' = ByteMode /\ Legacy' = Legacy
      /\ seen \in {{}, sts} /\ (ByteMode => seen = {})
  <2>1. /\ on /\ on' /\ Core /\ pc = "poll" /\ ~broken /\ (seen # {} \/ sts # {})
        /\ UNCHANGED <<conf, master>>
    BY PollKeeps
  <2>2. seen \in {{}, sts} /\ (ByteMode => seen = {})
    BY <2>1, ReadAsItWas
  <2> QED
    BY <2>1, <2>2 DEF master, ByteMode, Legacy
<1>2. ~Legacy /\ ~Expired
  BY <1>1 DEF Core, Legacy, Expired
<1>3. Free => xf.dir = "none"
  BY DEF Free, NoXfer
<1>4. armed' \in {armed, "rx"}
  BY PollKeeps
<1>5. MatchDue'
  BY <1>1, <1>4 DEF Situation, MatchDue
<1>6. CASE ~ByteMode
  <2>1. Addressed \/ EventDue
    BY <1>1, <1>2, <1>6 DEF Situation, Situated, PacketSituation, Receives, Sends,
       InHand, Between
  <2>2. CASE Addressed
    <3>1. sts' = {} /\ pc' = pc /\ armed' = armed
      BY <1>1, <2>2, AddressRow, PollOfPacket
    <3>2. Receives'
      BY <1>1, <2>2, <3>1 DEF Receives, Addressed
    <3> QED
      BY <1>1, <1>5, <1>6, <3>2 DEF Situation, Situated, PacketSituation
  <2>3. CASE EventDue
    <3>1. PICK r \in AsksToSend \cup AsksToReceive \cup Stops : Due(r)
      BY <2>3 DEF EventDue
    <3>2. sts = {"PKT_DONE"} \cup r /\ armed = "none" /\ r \in Rows
      BY <3>1, RowsOfEvents DEF Due
    <3>3. CASE r \in AsksToSend
      <4>1. xf.dir = "read"
        BY <1>3, <3>1, <3>3, RowsToSend, RowsWithData DEF Due
      <4>2. sts' = {} /\ armed' = "none" /\ pc' \in {"readwrite", "write"}
        BY <1>1, <3>2, <3>3, PollOfPacket DEF AsksToSend
      <4>3. InHand'
        BY <1>1, <4>1, <4>2 DEF InHand
      <4> QED
        BY <1>1, <1>5, <1>6, <4>3 DEF Situation, Situated, PacketSituation
    <3>4. CASE r \in AsksToReceive \cup Stops
      <4>1. xf.dir # "read" /\ r \in SwData \cup Data \cup SwStop \cup Stop
        BY <1>3, <3>1, <3>4, RowsToSend, RowsWithData, RowsOfEvents DEF Due
      <4>2. /\ sts' = {}
            /\ \/ armed' = "rx" /\ pc' \in {"poll", "read"}
               \/ armed' = "none" /\ pc' = "read"
        BY <1>1, <3>2, <4>1, PollOfPacket
      <4>3. Receives' \/ InHand'
        BY <1>1, <4>1, <4>2 DEF Receives, InHand
      <4> QED
        BY <1>1, <1>5, <1>6, <4>3 DEF Situation, Situated, PacketSituation
    <3> QED
      BY <3>3, <3>4
  <2> QED
    BY <2>1, <2>2, <2>3
<1>7. CASE ByteMode
  <2>1. ByteWrite \/ ByteRead \/ ByteStopped
    BY <1>1, <1>2, <1>7 DEF Situation, Situated, ByteSituation, ByteReceives,
       Receives, Sends
  <2>2. /\ sts \in {ByteAddress, ByteData} \cup ByteStopAddress \cup ByteReads
                     \cup ByteStop
        /\ "PKT_DONE" \notin sts /\ "PKT_ERROR" \notin sts
    <3>1. sts \in {ByteAddress, ByteData} \cup ByteStopAddress \cup ByteReads
                    \cup ByteStop
      BY <2>1 DEF ByteWrite, ByteRead, ByteStopped, ByteStop
    <3> QED
      BY <3>1, ByteRows
  <2>3. CASE ByteRead
    <3>1. pc' = "write" /\ UNCHANGED <<armed, sts>>
      BY <1>1, <1>7, <2>2, <2>3, PollOfByte DEF ByteRead
    <3>2. ByteRead'
      BY <1>1, <2>3, <3>1 DEF ByteRead, ByteReads
    <3> QED
      BY <1>1, <1>5, <1>7, <3>2 DEF Situation, Situated, ByteSituation
  <2>4. CASE ByteWrite /\ sts = ByteData
    <3>1. pc' = "read" /\ UNCHANGED <<armed, sts>>
      BY <1>1, <1>7, <2>2, <2>4, PollOfByte
    <3>2. ByteWrite'
      BY <1>1, <2>4, <3>1 DEF ByteWrite, ByteData
    <3> QED
      BY <1>1, <1>5, <1>7, <3>2 DEF Situation, Situated, ByteSituation
  <2>5. CASE (ByteWrite /\ sts # ByteData) \/ ByteStopped
    <3>1. /\ sts \in {ByteAddress} \cup ByteStopAddress \cup ByteStop
          /\ xf.dir # "read"
      BY <1>3, <2>5 DEF ByteWrite, ByteStopped, ByteStop
    <3>2. sts' = {} /\ armed' = "rx" /\ pc' = pc
      BY <1>1, <1>7, <2>2, <3>1, PollOfByte
    <3>3. ByteReceives'
      BY <1>1, <3>1, <3>2 DEF ByteReceives, Receives
    <3> QED
      BY <1>1, <1>5, <1>7, <3>3 DEF Situation, Situated, ByteSituation
  <2> QED
    BY <2>1, <2>3, <2>4, <2>5
<1> QED
  BY <1>6, <1>7

(* The application fetches what was received, or answers.                  *)
LEMMA SituationApplication ==
  ASSUME TargetTypes, Situation, ~missed, ~broken', SlaveRead \/ SlaveWrite
  PROVE  Situation'
<1>1. /\ on /\ on' /\ Core /\ pc # "poll" /\ ~broken
      /\ UNCHANGED <<conf, xf, match>>
      /\ ByteMode' = ByteMode /\ Legacy' = Legacy
  <2>1. /\ Core /\ pc # "poll" /\ UNCHANGED <<conf, on, xf, match>>
    BY DEF SlaveRead, SlaveWrite, master
  <2> QED
    BY <2>1, MarksStay DEF TargetTypes, Next, ByteMode, Legacy
<1>2. ~Legacy /\ ~Expired
  BY <1>1 DEF Core, Legacy, Expired
<1>3. CASE SlaveRead
  <2>1. /\ pc \in {"read", "readwrite"} /\ armed' = "rx"
        /\ pc' = IF pc = "read" THEN "poll" ELSE "write"
        /\ sts' = IF ByteMode THEN {} ELSE sts
    BY <1>3 DEF SlaveRead, ArmReceive, Cleared
  <2>2. MatchDue'
    BY <1>1, <2>1 DEF Situation, MatchDue
  <2>3. CASE ~ByteMode
    <3>1. sts = {}
      <4>1. ~(broken \/ (~ByteMode /\ sts # {}))
        BY <1>3 DEF SlaveRead
      <4> QED
        BY <2>3, <4>1
    <3>2. Receives \/ InHand
      BY <1>1, <1>2, <2>1, <2>3, <3>1 DEF Situation, Situated, PacketSituation,
         Addressed, Sends, EventDue, Due, Between
    <3>3. Receives' \/ Between'
      BY <1>1, <2>1, <2>3, <3>1, <3>2 DEF Receives, InHand, Between
    <3> QED
      BY <1>1, <2>2, <2>3, <3>3 DEF Situation, Situated, PacketSituation
  <2>4. CASE ByteMode
    <3>1. ByteWrite /\ pc = "read"
      <4>1. ByteWrite
        BY <1>1, <1>2, <2>1, <2>4 DEF Situation, Situated, ByteSituation,
           ByteReceives, Sends, ByteRead, ByteStopped
      <4> QED
        BY <2>1, <4>1 DEF ByteWrite
    <3>2. ByteReceives'
      BY <1>1, <2>1, <2>4, <3>1 DEF ByteWrite, ByteReceives, Receives
    <3> QED
      BY <1>1, <2>2, <2>4, <3>2 DEF Situation, Situated, ByteSituation
  <2> QED
    BY <2>3, <2>4
<1>4. CASE SlaveWrite
  <2>1. /\ pc = "write" /\ pc' = "poll" /\ sts' = IF ByteMode THEN {} ELSE sts
    BY <1>4 DEF SlaveWrite, Cleared
  <2>2. armed' = "tx" /\ txpos' < txlen'
    <3>1. ToSend \in 1 .. Size /\ HandOut(ToSend)
      BY <1>4, SendsSome DEF SlaveWrite
    <3>2. armed' = "tx" /\ txpos' = 0 /\ txlen' = ToSend
      BY <3>1, HandsOut
    <3> QED
      BY <3>1, <3>2, TargetAssumption
  <2>3. xf.dir = "read" /\ (~ByteMode => sts = {})
    BY <1>1, <1>2, <2>1 DEF Situation, Situated, PacketSituation, ByteSituation,
       Receives, Addressed, Sends, EventDue, Due, InHand, Between, ByteReceives,
       ByteWrite, ByteRead, ByteStopped
  <2>4. Sends'
    BY <1>1, <2>1, <2>2, <2>3 DEF Sends
  <2>5. MatchDue'
    BY <1>1, <2>3 DEF Situation, MatchDue
  <2> QED
    BY <1>1, <2>4, <2>5 DEF Situation, Situated, PacketSituation, ByteSituation
<1> QED
  BY <1>3, <1>4

(* The interrupt handler of the older driver runs.                         *)
LEMMA SituationIrq ==
  ASSUME TargetTypes, Situation, Handling, ~missed, ~Overtaken, ~broken', SlaveIrq
  PROVE  Situation'
<1>1. /\ on /\ on' /\ Legacy /\ pc = "poll" /\ pc' = "poll" /\ ~broken /\ sts' = {}
      /\ sts # {} /\ UNCHANGED <<conf, xf, match>>
      /\ ByteMode' = ByteMode
      /\ seen \in {{}, sts} /\ (ByteMode => seen = {})
  <2>1. /\ UNCHANGED <<conf, on, master, pc, broken>> /\ Legacy /\ on /\ sts' = {}
        /\ (seen # {} \/ sts # {})
    BY SlaveIrqShape
  <2>2. seen \in {{}, sts} /\ (ByteMode => seen = {})
    BY <2>1, ReadAsItWas
  <2> QED
    BY <2>1, <2>2 DEF TargetTypes, ByteMode, master
<1>2. Free => xf.dir = "none"
  BY DEF Free, NoXfer
<1>3. CASE Expired
  <2>1. armed' = "rx"
    <3>1. ~Addressed /\ ~EventDue
      BY <1>3, RowsHaveNoMark, RowsOfEvents DEF Expired, Addressed, EventDue, Due
    <3>2. seen = {}
      BY <1>1, <3>1 DEF Handling, Reading
    <3> QED
      BY <1>3, <3>2 DEF SlaveIrq, IrqTimeout, Expired
  <2>2. Receives' /\ ByteReceives'
    BY <1>1, <1>3, <2>1 DEF Receives, ByteReceives, Expired
  <2>3. ~match
    BY <1>1, <1>3 DEF Situation, MatchDue, Expired
  <2> QED
    BY <1>1, <2>2, <2>3 DEF Situation, Situated, PacketSituation, ByteSituation,
       MatchDue
<1>4. CASE ~ByteMode /\ ~Expired
  <2>1. Addressed \/ EventDue
    BY <1>1, <1>4 DEF Situation, Situated, PacketSituation, Receives, Sends,
       InHand, Between
  <2>2. CASE Addressed
    <3>1. armed' = armed
      <4>1. Reason = {"MATCH"} /\ {"MATCH"} \in Sw /\ PacketAddress
        BY <1>1, <2>2, AddressRow, IrqOfPacket
      <4> QED
        BY <4>1 DEF PacketAddress, NotArming
    <3>2. Receives' /\ ~match
      BY <1>1, <2>2, <3>1 DEF Receives, Addressed
    <3> QED
      BY <1>1, <1>4, <3>2 DEF Situation, Situated, PacketSituation, MatchDue
  <2>3. CASE EventDue
    <3>1. PICK r \in AsksToSend \cup AsksToReceive \cup Stops : Due(r)
      BY <2>3 DEF EventDue
    <3>2. sts = {"PKT_DONE"} \cup r /\ armed = "none" /\ r \in Rows \ Sw
      BY <3>1, RowsOfEvents DEF Due
    <3>3. Reason = r /\ ~match
      BY <1>1, <3>2, IrqOfPacket DEF Situation, MatchDue
    <3>4. CASE r \in AsksToSend
      <4>1. xf.dir = "read"
        BY <1>2, <3>1, <3>4, RowsToSend, RowsWithData DEF Due
      <4>2. armed' = "tx" /\ txpos' < txlen'
        <5>1. CASE r \in DataThenRead
          <6>1. Send(<<mem[0]>>)
            BY <1>1, <3>2, <5>1, IrqOfPacket DEF PacketTurned
          <6> QED
            BY <6>1 DEF Send
        <5>2. CASE r \in FirstRead \cup NextRead
          <6>1. HandOut(1) /\ 1 \in 1 .. Size
            BY <1>1, <3>2, <5>2, IrqOfPacket, TargetAssumption DEF PacketRead
          <6>2. armed' = "tx" /\ txpos' = 0 /\ txlen' = 1
            BY <6>1, HandsOut
          <6> QED
            BY <6>2
        <5> QED
          BY <3>4, <5>1, <5>2 DEF AsksToSend
      <4>3. Sends'
        BY <1>1, <4>1, <4>2 DEF Sends
      <4> QED
        BY <1>1, <1>4, <3>3, <4>3 DEF Situation, Situated, PacketSituation, MatchDue
    <3>5. CASE r \in AsksToReceive \cup Stops
      <4>1. xf.dir # "read" /\ r \in SwData \cup Data \cup SwStop \cup Stop
        BY <1>2, <3>1, <3>5, RowsToSend, RowsWithData, RowsOfEvents DEF Due
      <4>2. armed' = "rx"
        BY <1>1, <3>2, <3>3, <4>1, IrqOfPacket
        DEF PacketAddress, PacketData, PacketStop, ArmReceive
      <4>3. Receives'
        BY <1>1, <4>1, <4>2 DEF Receives
      <4> QED
        BY <1>1, <1>4, <3>3, <4>3 DEF Situation, Situated, PacketSituation, MatchDue
    <3> QED
      BY <3>4, <3>5
  <2> QED
    BY <2>1, <2>2, <2>3
<1>5. CASE ByteMode /\ ~Expired
  <2>1. ByteWrite \/ ByteRead \/ ByteStopped
    BY <1>1, <1>5 DEF Situation, Situated, ByteSituation, ByteReceives,
       Receives, Sends
  <2>2. /\ sts \in {ByteAddress, ByteData} \cup ByteStopAddress \cup ByteReads
                     \cup ByteStop
        /\ "PKT_DONE" \notin sts /\ "INACTIVE_TO" \notin sts
    <3>1. sts \in {ByteAddress, ByteData} \cup ByteStopAddress \cup ByteReads
                    \cup ByteStop
      BY <2>1 DEF ByteWrite, ByteRead, ByteStopped, ByteStop
    <3> QED
      BY <3>1, ByteRows
  <2>3. ~match
    BY <1>1, <1>5 DEF Situation, MatchDue
  <2>4. CASE ByteRead
    <3>4. sts \in ByteReads
      BY <2>4 DEF ByteRead
    <3>5. HandOut(1)
      BY <1>1, <1>5, <2>2, <3>4, IrqOfByte
    <3>1. HandOut(1) /\ 1 \in 1 .. Size
      BY <3>5, TargetAssumption
    <3>2. armed' = "tx" /\ txpos' = 0 /\ txlen' = 1
      BY <3>1, HandsOut
    <3>3. Sends'
      BY <1>1, <2>4, <3>2 DEF Sends, ByteRead
    <3> QED
      BY <1>1, <1>5, <2>3, <3>3 DEF Situation, Situated, ByteSituation, MatchDue
  <2>5. CASE ByteWrite \/ ByteStopped
    <3>1. /\ sts \in {ByteAddress, ByteData} \cup ByteStopAddress \cup ByteStop
          /\ xf.dir # "read"
      BY <1>2, <2>5 DEF ByteWrite, ByteStopped, ByteStop
    <3>2. armed' = "rx"
      BY <1>1, <1>5, <2>2, <3>1, IrqOfByte
    <3>3. ByteReceives'
      BY <1>1, <3>1, <3>2 DEF ByteReceives, Receives
    <3> QED
      BY <1>1, <1>5, <2>3, <3>3 DEF Situation, Situated, ByteSituation, MatchDue
  <2> QED
    BY <2>1, <2>4, <2>5
<1> QED
  BY <1>3, <1>4, <1>5

(* A target that has missed an event stays where it is until a time-out,   *)
(* or until it is switched on anew.                                        *)
LEMMA StuckStep ==
  ASSUME TargetTypes, Situation, Handling, missed, ~broken, ~broken', [Next]_vars
  PROVE  Situation' /\ Stuck'
<1>1. IF on THEN Stranded ELSE armed = "none"
  BY DEF Handling, Stuck
<1>2. seen = {}
  BY DEF Handling, Reading, TargetTypes
<1>3. CASE External
  <2>1. on /\ on' /\ conf' = conf /\ ByteMode' = ByteMode /\ Legacy' = Legacy
        /\ pc' = pc /\ Stranded
    BY <1>1, <1>3, ExternalMeetsOn
  <2>2. Inactive
    BY <1>3, <2>1 DEF External, StartWrite, StartRead, ReportMatch, WriteByte,
       BufferFull, WriteStop, Restart, ReadByte, BusError, Stranded
  <2>3. /\ ~Core /\ conf.mode # "Buff" /\ ~Free /\ missed' = missed
    BY <2>2 DEF Inactive, handler
  <2>4. Legacy
    BY <2>3 DEF Core, Legacy, TargetTypes
  <2>5. sts' = {"INACTIVE_TO"} /\ xf' = NoXfer /\ ~match' /\ armed' = "none"
    BY <2>1, <2>2, <2>3 DEF Inactive, Raise, Stranded
  <2>6. Stranded'
    BY <2>1, <2>3, <2>4, <2>5 DEF Stranded, Free
  <2>7. missed' /\ MatchDue'
    BY <2>3, <2>5 DEF MatchDue
  <2> QED
    BY <2>1, <2>6, <2>7 DEF Situation, Situated, Stuck
<1>4. CASE SlaveIrq
  <2>1. Stranded /\ Legacy /\ on
    BY <1>1, <1>4, SlaveIrqShape
  <2>2. sts = {"INACTIVE_TO"} /\ conf.mode # "Buff" /\ Free /\ ~match /\ ~ByteMode
        /\ pc = "poll"
    BY <1>2, <1>4, <2>1, SlaveIrqShape DEF Stranded
  <2>3. IrqTimeout
    BY <1>2, <1>4, <2>2 DEF SlaveIrq
  <2>4. sts' = {} /\ armed' = "rx" /\ missed' = FALSE
    BY <2>2, <2>3 DEF IrqTimeout
  <2>5. UNCHANGED <<conf, on, xf, match, pc>>
    BY <1>4, SlaveIrqShape DEF master
  <2>6. Receives' /\ ~ByteMode' /\ ~match'
    BY <2>2, <2>4, <2>5 DEF Receives, Free, NoXfer, ByteMode
  <2> QED
    BY <2>4, <2>6 DEF Situation, Situated, PacketSituation, MatchDue, Stuck
<1>5. CASE Poll
  <2>1. on /\ Core /\ sts # {}
    BY <1>2, <1>5, PollKeeps
  <2> QED
    BY <1>1, <2>1 DEF Stranded, Core, Legacy
<1>6. CASE ReadStatus
  BY <1>1, <1>6 DEF ReadStatus, Stranded
<1>7. CASE SlaveRead \/ SlaveWrite
  BY <1>1, <1>7 DEF SlaveRead, SlaveWrite, Stranded, TargetTypes
<1>8. CASE SwitchOn
  <2>1. /\ on' /\ sts' = {} /\ armed' = "rx" /\ xf' = NoXfer /\ pc' = "poll" /\ ~match'
        /\ conf' = conf /\ missed' = FALSE
    BY <1>8 DEF SwitchOn, ArmReceive, TargetTypes, Free, master, app
  <2>2. Receives' /\ ByteReceives'
    BY <2>1 DEF Receives, ByteReceives, NoXfer
  <2> QED
    BY <2>1, <2>2 DEF Situation, Situated, MatchDue, PacketSituation, ByteSituation,
       Stuck
<1>9. CASE SwitchOff
  BY <1>1, <1>9 DEF SwitchOff, Situation, Situated, MatchDue, Stuck, Stranded
<1>10. CASE EnableSlave
  BY <1>1, <1>10 DEF EnableSlave
<1>11. CASE UNCHANGED vars
  <2>1. UNCHANGED <<conf, on, armed, sts, xf, match, pc, broken, missed>>
    BY <1>11 DEF vars, driver, master, app, marks, handler
  <2> QED
    BY <1>1, <2>1 DEF Situation, Situated, MatchDue, ByteMode, Stuck, Stranded, Legacy,
       Free
<1> QED
  BY <1>3, <1>4, <1>5, <1>6, <1>7, <1>8, <1>9, <1>10, <1>11 DEF Next

(* Every step keeps to the situations.                                     *)
LEMMA SituationStep ==
  ASSUME TargetTypes, Situation, Handling, [Next]_vars
  PROVE  Situation'
<1>1. CASE broken'
  BY <1>1 DEF Situation, Situated, MatchDue
<1>7. CASE missed /\ ~broken'
  BY <1>7, StuckStep, MarksStay
<1>2. CASE ~missed /\ ~broken' /\ External
  BY <1>2, SituationStarts, SituationReceives, SituationEnds, SituationSends,
     SituationBreaks DEF External
<1>3. CASE SwitchOn
  <2>1. /\ on' /\ sts' = {} /\ armed' = "rx" /\ xf' = NoXfer /\ pc' = "poll" /\ ~match'
        /\ conf' = conf
    BY <1>3 DEF SwitchOn, ArmReceive, TargetTypes, Free, master, app
  <2>2. Receives' /\ ByteReceives'
    BY <2>1 DEF Receives, ByteReceives, NoXfer
  <2> QED
    BY <2>1, <2>2 DEF Situation, Situated, MatchDue, PacketSituation, ByteSituation
<1>4. CASE SwitchOff
  BY <1>4 DEF SwitchOff, Situation, Situated, MatchDue
<1>5. CASE EnableSlave /\ ~broken'
  <2>1. /\ on' /\ sts' = {} /\ xf' = NoXfer /\ pc' = "poll" /\ ~match'
        /\ UNCHANGED <<armed, conf>>
    BY <1>5 DEF EnableSlave, TargetTypes, Free, master, app, driver
  <2>2. armed' = "rx"
    <3>1. ~(broken \/ armed # "rx")
      BY <1>5 DEF EnableSlave
    <3> QED
      BY <2>1, <3>1
  <2>3. Receives' /\ ByteReceives'
    BY <2>1, <2>2 DEF Receives, ByteReceives, NoXfer
  <2> QED
    BY <2>1, <2>3 DEF Situation, Situated, MatchDue, PacketSituation, ByteSituation
<1>6. CASE UNCHANGED vars \/ ReadStatus
  <2>1. UNCHANGED <<conf, on, armed, rxlen, txpos, txlen, sts, xf, match, pc, broken,
                    missed>>
    BY <1>6 DEF vars, driver, master, app, marks, handler, ReadStatus
  <2> QED
    BY <2>1 DEF Situation, Situated, MatchDue, PacketSituation, ByteSituation,
       ByteMode, Receives, Addressed, Sends, EventDue, Due, InHand, Between, Expired,
       ByteReceives, ByteWrite, ByteRead, ByteStopped, Free, Legacy
<1>8. CASE Overtaken /\ ~missed /\ ~broken' /\ (Poll \/ SlaveIrq)
  <2>1. on /\ ~broken /\ seen # {}
    BY <1>8, PollKeeps, SlaveIrqShape, MarksStay DEF Overtaken
  <2>2. ~ByteMode
    BY <2>1 DEF Handling, Reading
  <2>3. missed' = TRUE /\ ~match /\ match' = match
    BY <1>8, <2>1, <2>2, OvertakenAddress
  <2> QED
    BY <2>3 DEF Situation, Situated, MatchDue
<1>9. CASE ~Overtaken /\ ~missed /\ ~broken' /\ (Poll \/ SlaveIrq)
  BY <1>9, SituationPoll, SituationIrq
<1>10. CASE ~missed /\ ~broken' /\ (SlaveRead \/ SlaveWrite)
  BY <1>10, SituationApplication
<1> QED
  BY <1>1, <1>2, <1>3, <1>4, <1>5, <1>6, <1>7, <1>8, <1>9, <1>10 DEF Next

(* What comes up while a handler has read a status and not cleared it: an  *)
(* event over the bare address, and nothing over any other.                *)
LEMMA ReadingExternal ==
  ASSUME TargetTypes, Situation, Reading, External, ~broken'
  PROVE  Reading'
<1>0. /\ seen' = seen /\ missed' = missed /\ pc' = pc /\ on /\ on' /\ ~broken
      /\ ByteMode' = ByteMode
  BY ExternalKeeps, ExternalMeetsOn, MarksStay DEF Next
<1>1. CASE seen = {}
  BY <1>0, <1>1 DEF Reading
<1>2. CASE seen # {}
  <2>1. /\ ~ByteMode /\ ~missed /\ (seen = sts \/ Overtaken) /\ pc = "poll"
        /\ Addressed \/ EventDue
    BY <1>0, <1>2 DEF Reading, TargetTypes
  <2>2. ~BusError /\ ~Inactive
    <3>1. BusError => broken'
      BY DEF BusError
    <3>2. Inactive => broken'
      BY <1>2 DEF Inactive
    <3> QED
      BY <3>1, <3>2
  <2>3. CASE EventDue
    <3>1. armed = "none" /\ sts # {}
      BY <2>3 DEF EventDue, Due
    <3> QED
      BY <2>1, <2>2, <3>1 DEF External, StartWrite, StartRead, ReportMatch, WriteByte,
         BufferFull, WriteStop, Restart, ReadByte
  <2>4. CASE Addressed
    <3>1. /\ sts = {"PKT_DONE", "MATCH"} /\ armed = "rx" /\ xf.dir = "write" /\ ~match
      BY <2>4 DEF Addressed
    <3>2. seen = {"PKT_DONE", "MATCH"}
      BY <2>1, <3>1 DEF Overtaken
    <3>3. WriteByte \/ BufferFull \/ WriteStop \/ Restart
      BY <2>1, <2>2, <3>1 DEF External, StartWrite, StartRead, ReportMatch, ReadByte,
         Free, NoXfer
    <3>4. Situation'
      BY <2>1, <3>3, SituationReceives, SituationEnds
    <3>5. CASE WriteByte
      <4>1. UNCHANGED <<sts, armed, match>> /\ xf' = [xf EXCEPT !.n = @ + 1]
        BY <2>1, <3>5 DEF WriteByte
      <4>2. xf'.dir = "write"
        BY <3>1, <4>1 DEF TargetTypes
      <4>3. Addressed'
        BY <1>0, <2>1, <3>1, <4>1, <4>2 DEF Addressed
      <4> QED
        BY <1>0, <2>1, <3>1, <3>2, <4>1, <4>3 DEF Reading
    <3>6. CASE BufferFull \/ WriteStop \/ Restart
      <4>1. armed' = "none" /\ sts' # {} /\ "INACTIVE_TO" \notin sts'
        <5>1. CASE BufferFull
          BY <3>1, <5>1 DEF BufferFull, Raise, Matched
        <5>2. CASE Restart
          BY <2>1, <3>1, <5>2 DEF Restart, Raise, Matched
        <5>3. CASE WriteStop
          <6>1. PICK more \in {{}, {"RX_DONE_NAK"}, {"WAIT_RX"}} :
                  Raise(Packet \cup Matched \cup RxDone \cup more \cup {"STOP"})
            BY <5>3 DEF WriteStop
          <6>2. armed' = "none"
            BY <2>1, <5>3 DEF WriteStop
          <6> QED
            BY <2>1, <3>1, <6>1, <6>2 DEF Raise, Packet, Matched, RxDone
        <5> QED
          BY <3>6, <5>1, <5>2, <5>3
      <4>2. PacketSituation'
        BY <1>0, <2>1, <3>4 DEF Situation, Situated
      <4>3. EventDue'
        BY <4>1, <4>2 DEF PacketSituation, Receives, Addressed, Sends, InHand, Between,
           Expired
      <4> QED
        BY <1>0, <2>1, <3>2, <4>3 DEF Reading, Overtaken
    <3> QED
      BY <3>3, <3>5, <3>6
  <2> QED
    BY <2>1, <2>3, <2>4
<1> QED
  BY <1>1, <1>2

(* Every step keeps to this.                                               *)
LEMMA HandlingStep ==
  ASSUME TargetTypes, Situation, Handling, [Next]_vars
  PROVE  Handling'
<1> SUFFICES ASSUME ~broken' PROVE Handling'
  BY DEF Handling, Reading, Stuck
<1>0. ~broken
  BY MarksStay
<1>1. CASE External
  <2>1. missed' = missed
    BY <1>1, ExternalKeeps
  <2>2. ~missed' => Stuck'
    BY DEF Stuck
  <2>3. Reading'
    BY <1>1, ReadingExternal DEF Handling
  <2> QED
    BY <1>0, <2>1, <2>2, <2>3, StuckStep DEF Handling
<1>2. CASE ReadStatus
  <2>1. /\ on /\ pc = "poll" /\ "PKT_DONE" \in sts /\ seen' = sts
        /\ UNCHANGED <<conf, on, armed, rxlen, txpos, txlen, sts, xf, match, pc, broken,
                       missed>>
        /\ Legacy => "INACTIVE_TO" \notin sts
    BY <1>2 DEF ReadStatus, driver, master, app, marks, Core, Legacy
  <2>2. ~missed
    BY <1>0, <2>1 DEF Handling, Stuck, Stranded
  <2>3. ~ByteMode
    <3>1. SUFFICES ASSUME ByteMode PROVE FALSE
      OBVIOUS
    <3>2. ByteSituation
      BY <1>0, <2>1, <2>2, <3>1 DEF Situation, Situated
    <3>3. "PKT_DONE" \notin sts \/ Expired
      <4>1. sts = {} \/ Expired \/ sts \in {ByteAddress, ByteData} \cup ByteStopAddress
              \cup ByteReads \cup ByteStop
        BY <3>2 DEF ByteSituation, ByteReceives, Receives, Sends, ByteWrite, ByteRead,
           ByteStopped, ByteStop
      <4> QED
        BY <4>1, ByteRows
    <3> QED
      BY <2>1, <3>3 DEF Expired
  <2>4. Addressed \/ EventDue
    <3>1. PacketSituation
      BY <1>0, <2>1, <2>2, <2>3 DEF Situation, Situated
    <3> QED
      BY <2>1, <3>1 DEF PacketSituation, Receives, Sends, InHand, Between, Expired
  <2>5. (Addressed \/ EventDue)' /\ ~ByteMode'
    BY <2>1, <2>3, <2>4 DEF Addressed, EventDue, Due, Free, ByteMode
  <2> QED
    BY <2>1, <2>2, <2>5 DEF Handling, Reading, Stuck
<1>3. CASE Poll \/ SlaveIrq
  <2>1. seen' = {} /\ on
    BY <1>3, PollKeeps, SlaveIrqShape
  <2>2. CASE missed
    BY <1>0, <2>1, <2>2, StuckStep DEF Handling, Reading
  <2>3. CASE ~missed /\ Overtaken
    <3>1. ~ByteMode
      BY <1>0, <2>1, <2>3 DEF Handling, Reading, Overtaken
    <3>2. /\ sts' = {} /\ armed = "none" /\ ~match /\ pc = "poll"
          /\ UNCHANGED <<armed, match, pc, conf, on>>
      BY <1>0, <1>3, <2>1, <2>3, <3>1, OvertakenAddress
    <3>3. Stranded' /\ on'
      BY <2>1, <3>1, <3>2 DEF Stranded, ByteMode
    <3> QED
      BY <2>1, <3>3 DEF Handling, Reading, Stuck
  <2>4. CASE ~missed /\ ~Overtaken
    <3>1. seen \in {{}, sts}
      BY <1>0, <2>1, <2>4, ReadAsItWas
    <3>2. missed' = FALSE
      <4>1. CASE seen = {}
        <5>1. missed' = missed \/ missed' = FALSE
          BY <1>3, <4>1 DEF Poll, SlaveIrq, IrqByte, IrqTimeout, handler
        <5> QED
          BY <2>4, <5>1 DEF TargetTypes
      <4>2. CASE seen # {}
        <5>1. ClearPacket /\ sts = seen
          BY <1>3, <3>1, <4>2 DEF Poll, SlaveIrq, PollPacket, IrqPacket
        <5> QED
          BY <2>4, <5>1 DEF ClearPacket
      <4> QED
        BY <4>1, <4>2
    <3> QED
      BY <2>1, <3>2 DEF Handling, Reading, Stuck
  <2> QED
    BY <2>2, <2>3, <2>4
<1>4. CASE SlaveRead \/ SlaveWrite
  <2>1. pc # "poll" /\ UNCHANGED <<seen, missed>>
    BY <1>4 DEF SlaveRead, SlaveWrite, handler
  <2>2. seen = {} /\ on
    BY <2>1 DEF TargetTypes
  <2>3. ~missed
    BY <1>0, <2>1, <2>2 DEF Handling, Stuck, Stranded
  <2> QED
    BY <2>1, <2>2, <2>3 DEF Handling, Reading, Stuck
<1>5. CASE SwitchOn \/ SwitchOff \/ EnableSlave
  <2>1. seen' = {}
    BY <1>5 DEF SwitchOn, SwitchOff, EnableSlave, handler, TargetTypes
  <2>2. Reading'
    BY <2>1 DEF Reading
  <2>3. CASE missed
    BY <1>0, <2>2, <2>3, StuckStep DEF Handling
  <2>4. CASE ~missed
    <3>1. ~missed'
      BY <1>5, <2>4 DEF SwitchOn, SwitchOff, EnableSlave, handler
    <3> QED
      BY <2>2, <3>1 DEF Handling, Stuck
  <2> QED
    BY <2>3, <2>4
<1>6. CASE UNCHANGED vars
  <2>1. UNCHANGED <<conf, on, armed, rxlen, txpos, txlen, sts, xf, match, pc, broken,
                    missed, seen>>
    BY <1>6 DEF vars, driver, master, app, marks, handler
  <2> QED
    BY <2>1 DEF Handling, Reading, Stuck, Stranded, Overtaken, Addressed, EventDue, Due,
       Free, ByteMode, Legacy
<1> QED
  BY <1>1, <1>2, <1>3, <1>4, <1>5, <1>6 DEF Next

(* The types and the situations, always.                                   *)
LEMMA TargetSituation == Spec => [](TargetTypes /\ Situation /\ Handling)
<1>1. Init => TargetTypes /\ Situation /\ Handling
  <2>1. Init => Situation /\ Handling
    BY DEF Init, Situation, Situated, MatchDue, Handling, Reading, Stuck
  <2> QED
    BY <2>1, TargetTypesInit
<1>2. TargetTypes /\ Situation /\ Handling /\ [Next]_vars
        => (TargetTypes /\ Situation /\ Handling)'
  BY TargetTypesStep, SituationStep, HandlingStep
<1> QED
  BY <1>1, <1>2, PTL DEF Spec

(* For every buffer size, mode, length and number of transfers: a target   *)
(* that has taken every event is armed for what the bus wants next.        *)
(* Excused, as in Attentive: an event the driver has no answer to, and one *)
(* it has cleared unseen since it was last set up.                         *)
THEOREM TargetAttentive == Spec => []Attentive
<1>1. TargetTypes /\ Situation => Attentive
  <2> SUFFICES ASSUME TargetTypes, Situation, AtRest, ~broken, ~missed
               PROVE  armed = IF xf.dir = "read" THEN "tx" ELSE "rx"
    BY DEF Attentive, ArmedForBus
  <2>1. Receives \/ Sends
    BY DEF AtRest, Situation, Situated, PacketSituation, ByteSituation, Addressed,
       EventDue, Due, InHand, Between, Expired, ByteReceives, ByteWrite, ByteRead,
       ByteStopped, ByteAddress, ByteStopAddress, ByteData, ByteReads
  <2> QED
    BY <2>1 DEF Receives, Sends
<1> QED
  BY <1>1, TargetSituation, PTL

(* And for all of them: only over the bare report of an address does a     *)
(* driver clear an event it has not seen.                                  *)
THEOREM TargetMissedOverAddress == Spec => MissedOverAddress
<1>1. TargetTypes /\ Situation /\ Handling /\ [Next]_vars
        => [~missed /\ missed' => broken \/ Reason \in Sw]_vars
  <2> SUFFICES ASSUME TargetTypes, Situation, Handling, [Next]_vars, ~missed, missed',
                      ~broken
               PROVE  Reason \in Sw
    OBVIOUS
  <2>1. Poll \/ SlaveIrq
    BY ExternalKeeps DEF Next, ReadStatus, SlaveRead, SlaveWrite, SwitchOn, SwitchOff,
       EnableSlave, handler, vars
  <2>2. seen # {} /\ sts # seen /\ on
    <3>1. CASE Poll
      BY <3>1 DEF Poll, PollPacket, ClearPacket, handler
    <3>2. CASE SlaveIrq
      BY <3>2 DEF SlaveIrq, IrqPacket, IrqTimeout, IrqByte, ClearPacket, handler
    <3> QED
      BY <2>1, <3>1, <3>2
  <2>3. Overtaken
    BY <2>2 DEF Handling, Reading
  <2> QED
    BY <2>3 DEF Overtaken, Reason, Sw
<1> QED
  BY <1>1, TargetSituation, PTL DEF Spec, MissedOverAddress

-----------------------------------------------------------------------------
(* What the engine acknowledged, and what the application was given        *)

(* Nothing received is nothing to fetch.                                   *)
LEMMA NothingToFetch ==
  /\ rxlen = 0 => Bytes(rxlen) = <<>>
  /\ rxlen' = 0 => Bytes(rxlen)' = <<>>
BY DEF Bytes

(* The rows that come with nothing received.                               *)
LEMMA RowsWithout ==
  ASSUME NEW s,
         s \ {"PKT_DONE", "PKT_ERROR"} \in SwStop \cup Stop \cup FirstRead \cup NextRead
  PROVE  "RX_DONE" \notin s /\ ("STOP" \in s \/ "WAIT_TX" \in s)
<1> DEFINE r == s \ {"PKT_DONE", "PKT_ERROR"}
<1>1. "RX_DONE" \notin r /\ ("STOP" \in r \/ "WAIT_TX" \in r)
  BY RowsToSend, RowsOfAddress DEF AsksToSend
<1> QED
  BY <1>1

(* The account is kept where nothing was received and nothing is,          *)
LEMMA AccountIdle ==
  ASSUME TargetTypes, Account, ~broken, ~lossy, rxlen = 0, rxlen' = 0,
         UNCHANGED <<conf, wrote, heard>>, "INACTIVE_TO" \notin sts',
         told' => on' /\ (~Free' \/ "STOP" \in sts')
  PROVE  Account'
<1>1. Fetched'
  BY DEF Fetched
<1>2. Bytes(rxlen)' = Bytes(rxlen)
  BY NothingToFetch
<1> QED
  BY <1>1, <1>2 DEF Account, Legacy

(* where it stays in the buffer,                                           *)
LEMMA AccountWaits ==
  ASSUME Account, ~broken, ~lossy, UNCHANGED <<conf, mem, rxlen, wrote, heard>>,
         Fetched', "INACTIVE_TO" \notin sts',
         told' => on' /\ (~Free' \/ "STOP" \in sts')
  PROVE  Account'
<1>1. Bytes(rxlen)' = Bytes(rxlen)
  BY DEF Bytes
<1> QED
  BY <1>1 DEF Account, Legacy

(* and where it is delivered.                                              *)
LEMMA AccountFetches ==
  ASSUME TargetTypes, Account, ~broken, ~lossy, UNCHANGED <<conf, wrote>>,
         rxlen' = 0, "INACTIVE_TO" \notin sts',
         ~(Legacy /\ conf.mode = "Buff") => heard' = heard \o Bytes(rxlen),
         told' => on' /\ (~Free' \/ "STOP" \in sts')
  PROVE  Account'
<1>1. Fetched'
  BY DEF Fetched
<1>2. /\ Bytes(rxlen)' = <<>> /\ heard \in Seq(Octets) /\ Bytes(rxlen) \in Seq(Octets)
  BY NothingToFetch, FetchedBytes DEF TargetTypes
<1>3. ASSUME ~(Legacy /\ conf.mode = "Buff")
      PROVE  wrote' = heard' \o Bytes(rxlen)'
  <2>1. wrote = heard \o Bytes(rxlen) /\ heard' = heard \o Bytes(rxlen)
    BY <1>3 DEF Account
  <2>2. heard \o Bytes(rxlen) \in Seq(Octets)
    BY <1>2, ConcatProperties
  <2>3. (heard \o Bytes(rxlen)) \o <<>> = heard \o Bytes(rxlen)
    BY <2>2, ConcatEmptySeq
  <2> QED
    BY <1>2, <2>1, <2>3
<1> QED
  BY <1>1, <1>3 DEF Account, Legacy

(* A transfer begins with everything fetched.                              *)
LEMMA AccountStarts ==
  ASSUME TargetTypes, Account, ~broken, ~lossy, StartWrite \/ StartRead
  PROVE  Account'
<1>1. on /\ Free /\ ~Holding /\ (ByteMode \/ armed = "rx")
  BY DEF StartWrite, StartRead
<1>2. rxlen = 0
  <2>1. ByteMode => sts # ByteData
    BY <1>1 DEF Holding, ByteData
  <2> QED
    BY <1>1, <2>1 DEF Account, Fetched
<1>3. /\ rxlen' = 0 /\ UNCHANGED <<conf, wrote, heard>> /\ on'
      /\ xf'.dir \in {"write", "read"}
  <2>1. xf'.dir \in {"write", "read"}
    BY DEF StartWrite, StartRead
  <2>2. CASE StartWrite
    BY <1>1, <2>1, <2>2 DEF StartWrite
  <2>3. CASE StartRead
    BY <1>1, <1>2, <2>1, <2>3 DEF StartRead
  <2> QED
    BY <2>2, <2>3
<1>4. "INACTIVE_TO" \notin sts'
  <2>1. "INACTIVE_TO" \notin sts
    BY DEF Account
  <2>2. sts' = sts \/ sts' = sts \cup {"MATCH", "RX_DONE", "WAIT_RX"}
          \/ sts' = sts \cup (Packet \cup {"MATCH", "WAIT_TX"}
                      \cup (IF ByteMode THEN {"RX_DONE"} ELSE {}))
    BY DEF StartWrite, StartRead, Raise
  <2> QED
    BY <2>1, <2>2 DEF Packet
<1>5. ~Free'
  BY <1>3 DEF Free, NoXfer
<1> QED
  BY <1>2, <1>3, <1>4, <1>5, AccountIdle

(* A byte more in the buffer is a byte more to fetch.                      *)
LEMMA OneMoreByte ==
  ASSUME TargetTypes, WriteByte
  PROVE  Bytes(rxlen)' = Append(Bytes(rxlen), <<xfers, xf.n>>)
<1>1. /\ rxlen \in Nat /\ rxlen < Size /\ Size \in Nat
      /\ mem \in [0 .. Size - 1 -> Octets] /\ rxlen' = rxlen + 1
      /\ mem' = [mem EXCEPT ![rxlen] = <<xfers, xf.n>>]
  <2>1. rxlen \in Nat /\ Size \in Nat \ {0} /\ mem \in [0 .. Size - 1 -> Octets]
    BY TargetAssumption DEF TargetTypes
  <2>2. rxlen < Capacity /\ Capacity <= Size
    BY <2>1 DEF WriteByte, Capacity
  <2> QED
    BY <2>1, <2>2 DEF WriteByte, Capacity
<1>2. Bytes(rxlen) \in Seq(Octets) /\ Len(Bytes(rxlen)) = rxlen
  BY FetchedBytes
<1>3. Bytes(rxlen)' = [i \in 1 .. rxlen + 1 |-> mem'[i - 1]]
  BY <1>1 DEF Bytes
<1>4. Append(Bytes(rxlen), <<xfers, xf.n>>) =
        [i \in 1 .. rxlen + 1 |-> IF i = rxlen + 1 THEN <<xfers, xf.n>>
                                  ELSE Bytes(rxlen)[i]]
  BY <1>1, <1>2
<1>5. ASSUME NEW i \in 1 .. rxlen + 1
      PROVE  mem'[i - 1] = IF i = rxlen + 1 THEN <<xfers, xf.n>> ELSE Bytes(rxlen)[i]
  BY <1>1, <1>5 DEF Bytes
<1> QED
  BY <1>3, <1>4, <1>5

(* The engine acknowledges a byte.                                         *)
LEMMA AccountReceives ==
  ASSUME TargetTypes, Situation, Account, ~missed, ~broken, ~lossy, WriteByte
  PROVE  Account'
<1>1. /\ on /\ on' /\ conf' = conf /\ pc' = pc /\ ByteMode' = ByteMode
      /\ Legacy' = Legacy
  BY ExternalMeetsOn DEF External
<1>2. /\ xf.dir = "write" /\ armed = "rx" /\ xf'.dir = "write"
      /\ wrote' = Append(wrote, <<xfers, xf.n>>) /\ heard' = heard /\ told' = told
  BY DEF WriteByte, app, TargetTypes
<1>3. ~Free'
  BY <1>2 DEF Free, NoXfer
<1>4. sts = {} \/ (sts = {"PKT_DONE", "MATCH"} /\ ~ByteMode)
  BY <1>1, <1>2 DEF Situation, Situated, PacketSituation, ByteSituation, Receives,
     Addressed, Sends, EventDue, Due, InHand, Between, Expired, ByteReceives,
     ByteWrite, ByteRead, ByteStopped, Free, NoXfer
<1>5. IF ByteMode THEN sts' = ByteData ELSE sts' = sts
  BY <1>4 DEF WriteByte, Raise, ByteData
<1>6. "INACTIVE_TO" \notin sts' /\ "STOP" \notin sts' /\ "WAIT_TX" \notin sts'
  BY <1>4, <1>5 DEF ByteData
<1>7. pc # "write"
  BY <1>1, <1>2 DEF Situation, Situated, PacketSituation, ByteSituation, Receives,
     Addressed, Sends, EventDue, Due, InHand, Between, Expired, ByteReceives,
     ByteWrite, ByteRead, ByteStopped, Free, NoXfer, Legacy, TargetTypes
<1>8. Row' \notin SwStop \cup Stop \cup FirstRead \cup NextRead
  BY <1>6, RowsWithout DEF Row
<1>9. Fetched'
  BY <1>1, <1>2, <1>3, <1>5, <1>7, <1>8 DEF Fetched
<1>10. ASSUME ~(Legacy /\ conf.mode = "Buff")
       PROVE  wrote' = heard' \o Bytes(rxlen)'
  <2>1. wrote = heard \o Bytes(rxlen)
    BY <1>10 DEF Account
  <2>2. <<xfers, xf.n>> \in Octets /\ heard \in Seq(Octets)
    BY DEF TargetTypes, Octets
  <2>3. Bytes(rxlen) \in Seq(Octets)
    BY FetchedBytes
  <2>4. Append(heard \o Bytes(rxlen), <<xfers, xf.n>>)
          = heard \o Append(Bytes(rxlen), <<xfers, xf.n>>)
    <3> DEFINE fetched == Bytes(rxlen)
               byte == <<xfers, xf.n>>
    <3>1. fetched \in Seq(Octets) /\ byte \in Octets
      BY <2>2, <2>3
    <3> HIDE DEF fetched, byte
    <3>2. Append(fetched, byte) = fetched \o <<byte>>
      BY <3>1, AppendIsConcat
    <3>3. heard \o fetched \in Seq(Octets) /\ <<byte>> \in Seq(Octets)
      BY <2>2, <3>1, ConcatProperties
    <3>4. Append(heard \o fetched, byte) = (heard \o fetched) \o <<byte>>
      BY <3>1, <3>3, AppendIsConcat
    <3>5. (heard \o fetched) \o <<byte>> = heard \o (fetched \o <<byte>>)
      BY <2>2, <3>1, <3>3, ConcatAssociative
    <3>6. Append(heard \o fetched, byte) = heard \o Append(fetched, byte)
      BY <3>2, <3>4, <3>5
    <3> QED
      BY <3>6 DEF fetched, byte
  <2> QED
    BY <1>2, <2>1, <2>4, OneMoreByte
<1> QED
  BY <1>1, <1>3, <1>6, <1>9, <1>10 DEF Account

(* Nothing is received after the buffer was fetched, while there is an     *)
(* address or a byte of a read to report.                                  *)
LEMMA NothingWaits ==
  ASSUME Account, ~broken, ~lossy, on
  PROVE  /\ ByteMode /\ sts # ByteData => rxlen = 0
         /\ ~ByteMode /\ xf.dir = "read" /\ armed # "none" => rxlen = 0
         /\ ~ByteMode /\ pc = "write" => rxlen = 0
BY DEF Account, Fetched

(* The engine reports what it received, or has sent a byte.                *)
LEMMA AccountReports ==
  ASSUME TargetTypes, Situation, Account, ~missed, ~broken, ~lossy,
         ReportMatch \/ BufferFull \/ WriteStop \/ Restart \/ ReadByte
  PROVE  Account'
<1>1. /\ on /\ on' /\ conf' = conf /\ pc' = pc /\ ByteMode' = ByteMode
  BY ExternalMeetsOn DEF External
<1>2. UNCHANGED <<mem, rxlen, wrote, heard, told>>
  BY DEF ReportMatch, BufferFull, WriteStop, Restart, ReadByte, app
<1>3. "INACTIVE_TO" \notin sts /\ rxlen \in Nat
  BY DEF Account, TargetTypes
<1>4. "INACTIVE_TO" \notin sts'
  <2>1. CASE ReportMatch
    BY <1>3, <2>1 DEF ReportMatch, Raise
  <2>2. CASE BufferFull
    BY <1>3, <2>2 DEF BufferFull, Raise, Matched
  <2>3. CASE WriteStop
    BY <1>3, <2>3 DEF WriteStop, Raise, Matched, Packet, RxDone
  <2>4. CASE Restart
    BY <1>3, <2>4 DEF Restart, Raise, Matched
  <2>5. CASE ReadByte
    BY <1>3, <2>5 DEF ReadByte, Raise, Packet
  <2> QED
    BY <2>1, <2>2, <2>3, <2>4, <2>5
<1>5. told' => on' /\ (~Free' \/ "STOP" \in sts')
  <2>1. CASE ReportMatch \/ BufferFull
    <3>1. xf.dir = "write" /\ xf' = xf
      BY <1>1, <2>1 DEF ReportMatch, BufferFull, Situation, MatchDue
    <3> QED
      BY <1>1, <3>1 DEF Free, NoXfer
  <2>2. CASE WriteStop
    BY <1>1, <2>2 DEF WriteStop, Raise
  <2>3. CASE Restart
    BY <1>1, <2>3 DEF Restart, Free, NoXfer
  <2>4. CASE ReadByte
    <3>1. (xf.dir = "read" /\ xf'.dir = "read") \/ "STOP" \in sts'
      BY <2>4 DEF ReadByte, Raise, TargetTypes
    <3> QED
      BY <1>1, <3>1 DEF Free, NoXfer
  <2> QED
    BY <2>1, <2>2, <2>3, <2>4
<1>6. CASE rxlen = 0
  BY <1>1, <1>2, <1>3, <1>4, <1>5, <1>6, AccountIdle
<1>7. CASE rxlen # 0
  <2>1. ~ReportMatch
    BY <1>7 DEF ReportMatch
  <2>2. ByteMode => sts = ByteData /\ armed = "none"
    <3>1. ByteMode => sts = ByteData
      BY <1>1, <1>7, NothingWaits
    <3>2. ByteMode => armed = "none"
      BY <1>1, <3>1 DEF Situation, Situated, ByteSituation, ByteReceives, Receives,
         Sends, ByteWrite, ByteRead, ByteStopped, Expired, ByteData
    <3> QED
      BY <3>1, <3>2
  <2>3. ~ByteMode
    BY <2>1, <2>2 DEF BufferFull, WriteStop, Restart, ReadByte
  <2>4. ~ReadByte
    BY <1>1, <1>7, <2>3, NothingWaits DEF ReadByte
  <2>5. armed' = "none" /\ "RX_DONE" \in sts'
    <3>1. CASE BufferFull
      BY <3>1 DEF BufferFull, Raise
    <3>2. CASE WriteStop
      BY <1>3, <1>7, <2>3, <3>2 DEF WriteStop, Raise, RxDone
    <3>3. CASE Restart
      BY <2>3, <3>3 DEF Restart, Raise
    <3> QED
      BY <2>1, <2>4, <3>1, <3>2, <3>3
  <2>6. pc # "write"
    BY <1>1, <1>7, <2>3, NothingWaits
  <2>7. Row' \notin SwStop \cup Stop \cup FirstRead \cup NextRead
    BY <2>5, RowsWithout DEF Row
  <2>8. Fetched'
    BY <1>1, <2>3, <2>5, <2>6, <2>7 DEF Fetched
  <2> QED
    BY <1>1, <1>2, <1>4, <1>5, <2>8, AccountWaits
<1> QED
  BY <1>6, <1>7

(* Nothing was received where the row says so.                             *)
LEMMA RowsNothing ==
  ASSUME Account, ~broken, ~lossy, on, ~ByteMode,
         NEW r \in SwStop \cup Stop \cup FirstRead \cup NextRead,
         sts = {"PKT_DONE"} \cup r
  PROVE  rxlen = 0
<1>1. Row = r
  BY ReasonIsRow DEF Rows
<1> QED
  BY <1>1 DEF Account, Fetched

(* Without a status there is no row.                                       *)
LEMMA NoRow == Row' \in SwStop \cup Stop \cup FirstRead \cup NextRead => sts' # {}
BY RowsWithout DEF Row

(* A driver that gives nothing up has read the status as it is.            *)
LEMMA NothingGivenUp ==
  ASSUME TargetTypes, Situation, Handling, ~broken, ~lossy, ~lossy', Poll \/ SlaveIrq
  PROVE  /\ ~missed /\ ~Overtaken /\ sts # {} /\ seen \in {{}, sts}
         /\ ByteMode => seen = {}
<1>1. ~missed /\ on /\ (seen # {} \/ sts # {})
  BY PollKeeps, SlaveIrqShape DEF TargetTypes
<1>2. ~Overtaken
  <2>1. SUFFICES ASSUME Overtaken PROVE FALSE
    OBVIOUS
  <2>2. ~ByteMode
    BY <1>1, <2>1 DEF Handling, Reading, Overtaken
  <2>3. lossy' = TRUE
    BY <1>1, <2>1, <2>2, OvertakenAddress
  <2> QED
    BY <2>3
<1> QED
  BY <1>1, <1>2, ReadAsItWas

(* The application polls.                                                  *)
LEMMA AccountPoll ==
  ASSUME TargetTypes, Situation, Handling, Account, ~broken, ~lossy, ~lossy', Poll
  PROVE  Account'
<1>1. /\ on /\ on' /\ Core /\ pc = "poll" /\ sts # {} /\ ~told /\ ~told'
      /\ UNCHANGED <<conf, xf, mem, wrote, heard>> /\ ByteMode' = ByteMode
      /\ ~missed /\ seen \in {{}, sts} /\ (ByteMode => seen = {})
  <2>1. /\ on /\ on' /\ Core /\ pc = "poll" /\ ~told /\ ~told'
        /\ UNCHANGED <<conf, xf, mem, wrote, heard>> /\ ByteMode' = ByteMode
    BY PollKeeps DEF master, ByteMode, TargetTypes
  <2> QED
    BY <2>1, NothingGivenUp
<1>2. ~Legacy /\ ~Expired
  BY <1>1 DEF Core, Legacy, Expired
<1>3. CASE ~ByteMode
  <2>1. Addressed \/ EventDue
    BY <1>1, <1>2, <1>3 DEF Situation, Situated, PacketSituation, Receives, Sends,
       InHand, Between
  <2>2. CASE Addressed
    <3>1. sts' = {} /\ UNCHANGED <<armed, rxlen, pc>>
      BY <1>1, <2>2, AddressRow, PollOfPacket
    <3>2. xf'.dir = "write" /\ ~Free'
      BY <1>1, <2>2 DEF Addressed, Free, NoXfer
    <3>3. Fetched'
      BY <1>1, <1>3, <3>1, <3>2, NoRow DEF Fetched
    <3> QED
      BY <1>1, <3>1, <3>3, AccountWaits
  <2>3. CASE EventDue
    <3>1. PICK r \in AsksToSend \cup AsksToReceive \cup Stops : Due(r)
      BY <2>3 DEF EventDue
    <3>2. sts = {"PKT_DONE"} \cup r /\ armed = "none" /\ r \in Rows \ Sw
      BY <3>1, RowsOfEvents DEF Due
    <3>3. r \notin SwData /\ sts' = {}
      BY <1>1, <3>2, PollOfPacket
    <3>4. CASE r \in SwStop \cup Stop \cup FirstRead \cup NextRead
      <4>1. rxlen = 0
        BY <1>1, <1>3, <3>2, <3>4, RowsNothing
      <4>2. rxlen' = 0
        BY <1>1, <3>2, <3>4, <4>1, PollOfPacket
      <4> QED
        BY <1>1, <3>3, <4>1, <4>2, AccountIdle
    <3>5. CASE r \in Data \cup DataThenRead
      <4>1. UNCHANGED <<armed, rxlen>> /\ pc' \in {"read", "readwrite"}
        BY <1>1, <3>2, <3>5, PollOfPacket
      <4>2. Fetched'
        BY <1>1, <1>3, <3>2, <3>3, <4>1, NoRow DEF Fetched
      <4> QED
        BY <1>1, <3>3, <4>1, <4>2, AccountWaits
    <3> QED
      BY <3>2, <3>3, <3>4, <3>5 DEF Rows
  <2> QED
    BY <2>1, <2>2, <2>3
<1>4. CASE ByteMode
  <2>1. ByteWrite \/ ByteRead \/ ByteStopped
    BY <1>1, <1>2, <1>4 DEF Situation, Situated, ByteSituation, ByteReceives,
       Receives, Sends
  <2>2. sts \in {ByteAddress, ByteData} \cup ByteStopAddress \cup ByteReads
                  \cup ByteStop
    BY <2>1 DEF ByteWrite, ByteRead, ByteStopped, ByteStop
  <2>3. /\ "PKT_DONE" \notin sts /\ "PKT_ERROR" \notin sts /\ "INACTIVE_TO" \notin sts
    BY <2>2, ByteRows
  <2>4. sts' \in {sts, {}} /\ (rxlen' = rxlen \/ rxlen' = 0)
    BY <1>1, <1>4, <2>2, <2>3, PollOfByte
  <2>5. "INACTIVE_TO" \notin sts'
    BY <2>3, <2>4
  <2>6. CASE sts = ByteData
    <3>1. UNCHANGED <<sts, rxlen>>
      BY <1>1, <1>4, <2>3, <2>6, PollOfByte
    <3>2. Fetched'
      BY <1>1, <1>4, <2>6, <3>1 DEF Fetched, ByteData
    <3> QED
      BY <1>1, <2>5, <3>1, <3>2, AccountWaits
  <2>7. CASE sts # ByteData
    <3>1. rxlen = 0
      BY <1>1, <1>4, <2>7, NothingWaits
    <3> QED
      BY <1>1, <2>4, <2>5, <3>1, AccountIdle
  <2> QED
    BY <2>6, <2>7
<1> QED
  BY <1>3, <1>4

(* The application fetches what was received, or answers.                  *)
LEMMA AccountApplication ==
  ASSUME TargetTypes, Situation, Account, ~missed, ~broken, ~lossy, SlaveRead \/ SlaveWrite
  PROVE  Account'
<1>1. /\ on /\ on' /\ Core /\ pc # "poll" /\ ~told /\ ~told'
      /\ UNCHANGED <<conf, xf, wrote>>
  BY DEF SlaveRead, SlaveWrite, master, TargetTypes
<1>2. "INACTIVE_TO" \notin sts /\ sts' \in {sts, {}}
  BY DEF Account, SlaveRead, SlaveWrite, Cleared
<1>3. "INACTIVE_TO" \notin sts'
  BY <1>2
<1>4. CASE SlaveRead
  <2>1. rxlen' = 0 /\ heard' = heard \o Bytes(rxlen)
    BY <1>4 DEF SlaveRead, ArmReceive
  <2> QED
    BY <1>1, <1>3, <2>1, AccountFetches
<1>5. CASE SlaveWrite
  <2>1. pc = "write" /\ UNCHANGED <<rxlen, heard>>
    BY <1>5 DEF SlaveWrite
  <2>2. ~Legacy /\ ~Expired
    BY <1>1 DEF Core, Legacy, Expired
  <2>3. ByteMode => sts # ByteData
    BY <1>1, <2>1, <2>2 DEF Situation, Situated, ByteSituation, ByteReceives,
       Receives, Sends, ByteWrite, ByteRead, ByteStopped, ByteReads, ByteData
  <2>4. rxlen = 0
    BY <1>1, <2>1, <2>3, NothingWaits
  <2> QED
    BY <1>1, <1>3, <2>1, <2>4, AccountIdle
<1> QED
  BY <1>4, <1>5

(* The interrupt handler delivers byte by byte: what the situation tells.  *)
LEMMA AccountIrqByte ==
  ASSUME TargetTypes, Situation, Handling, Account, ~broken, ~lossy, ~lossy',
         SlaveIrq, ByteMode
  PROVE  Account'
<1>1. /\ on /\ on' /\ Legacy /\ pc = "poll" /\ sts # {} /\ sts' = {}
      /\ UNCHANGED <<conf, xf, wrote>> /\ "INACTIVE_TO" \notin sts
      /\ ~missed /\ seen = {}
  <2>1. sts # {} /\ ~missed /\ seen = {}
    BY NothingGivenUp
  <2> QED
    BY <2>1, SlaveIrqShape DEF master, TargetTypes, Account
<1>2. ~Expired
  BY <1>1 DEF Expired
<1>3. ByteWrite \/ ByteRead \/ ByteStopped
  BY <1>1, <1>2 DEF Situation, Situated, ByteSituation, ByteReceives,
     Receives, Sends
<1>4. sts \in {ByteAddress, ByteData} \cup ByteStopAddress \cup ByteReads
                \cup ByteStop
  BY <1>3 DEF ByteWrite, ByteRead, ByteStopped, ByteStop
<1>5. "PKT_DONE" \notin sts
  BY <1>4, ByteRows
<1>6. xf.dir \in {"write", "read"} => ~Free'
  BY <1>1 DEF Free, NoXfer
<1>7. CASE sts = ByteData
  <2>1. /\ heard' = heard \o Bytes(rxlen) /\ rxlen' = 0
    BY <1>1, <1>5, <1>7, IrqOfByte
  <2>2. ~Free'
    BY <1>3, <1>6, <1>7, ByteRows DEF ByteWrite, ByteRead, ByteStopped, ByteData
  <2> QED
    BY <1>1, <2>1, <2>2, AccountFetches
<1>8. CASE sts # ByteData
  <2>1. rxlen = 0
    BY <1>1, <1>8, NothingWaits
  <2>2. heard' = heard /\ rxlen' = 0 /\ (told' => ~Free')
    <3>1. CASE ByteWrite
      <4>1. sts \in {ByteAddress} \cup ByteStopAddress
        BY <1>8, <3>1 DEF ByteWrite
      <4> QED
        BY <1>1, <1>5, <1>6, <3>1, <4>1, IrqOfByte DEF ByteWrite
    <3>2. CASE ByteRead
      BY <1>1, <1>5, <1>6, <2>1, <3>2, IrqOfByte DEF ByteRead
    <3>3. CASE ByteStopped
      <4>1. sts \in ByteStop
        BY <3>3 DEF ByteStopped, ByteStop
      <4> QED
        BY <1>1, <1>5, <4>1, IrqOfByte
    <3> QED
      BY <1>3, <3>1, <3>2, <3>3
  <2> QED
    BY <1>1, <2>1, <2>2, AccountIdle
<1> QED
  BY <1>7, <1>8

(* And with packets.                                                       *)
LEMMA AccountIrqPacket ==
  ASSUME TargetTypes, Situation, Handling, Account, ~broken, ~lossy, ~lossy',
         SlaveIrq, ~ByteMode
  PROVE  Account'
<1>1. /\ on /\ on' /\ Legacy /\ pc = "poll" /\ pc' = "poll" /\ sts # {} /\ sts' = {}
      /\ UNCHANGED <<conf, xf, wrote>> /\ "INACTIVE_TO" \notin sts
      /\ ByteMode' = ByteMode
      /\ ~missed /\ seen \in {{}, sts}
  <2>1. sts # {} /\ ~missed /\ seen \in {{}, sts}
    BY NothingGivenUp
  <2> QED
    BY <2>1, SlaveIrqShape DEF master, TargetTypes, Account, ByteMode
<1>2. ~Expired
  BY <1>1 DEF Expired
<1>3. Addressed \/ EventDue
  BY <1>1, <1>2 DEF Situation, Situated, PacketSituation, Receives, Sends,
     InHand, Between
<1>4. xf.dir \in {"write", "read"} => ~Free'
  BY <1>1 DEF Free, NoXfer
<1>5. ~(Legacy /\ conf.mode = "Buff") => conf.mode = "Dma"
  BY <1>1 DEF TargetTypes, ByteMode
<1>6. CASE Addressed
  <2>1. Reason = {"MATCH"} /\ {"MATCH"} \in Sw /\ PacketAddress
    BY <1>1, <1>6, AddressRow, IrqOfPacket
  <2>2. UNCHANGED <<armed, mem, rxlen, heard>>
    BY <2>1 DEF PacketAddress, NotArming
  <2>3. xf'.dir = "write" /\ ~Free'
    BY <1>1, <1>4, <1>6 DEF Addressed
  <2>4. Fetched'
    BY <1>1, <2>2, <2>3, NoRow DEF Fetched
  <2> QED
    BY <1>1, <2>2, <2>3, <2>4, AccountWaits
<1>7. CASE EventDue
  <2>1. PICK r \in AsksToSend \cup AsksToReceive \cup Stops : Due(r)
    BY <1>7 DEF EventDue
  <2>2. sts = {"PKT_DONE"} \cup r /\ armed = "none" /\ r \in Rows \ Sw
    BY <2>1, RowsOfEvents DEF Due
  <2>3. Reason = r
    BY <1>1, <2>2, IrqOfPacket
  <2>4. CASE r \in SwData
    <3>1. PacketAddress /\ Reason \notin Sw
      BY <1>1, <2>2, <2>3, <2>4, IrqOfPacket
    <3>2. rxlen' = 0 /\ (conf.mode = "Dma" => heard' = heard \o Bytes(rxlen))
      BY <3>1 DEF PacketAddress, ArmReceive, Deliver
    <3>3. xf.dir = "write"
      BY <2>1, <2>4, RowsToSend, RowsOfAddress, RowsWithData DEF Due
    <3> QED
      BY <1>1, <1>4, <1>5, <3>2, <3>3, AccountFetches
  <2>5. CASE r \in Data
    <3>1. PacketData
      BY <1>1, <2>2, <2>5, IrqOfPacket
    <3>2. rxlen' = 0 /\ (conf.mode = "Dma" => heard' = heard \o Bytes(rxlen))
      BY <3>1 DEF PacketData, ArmReceive, Deliver
    <3>3. "STOP" \in r => told' = FALSE
      BY <2>3, <3>1 DEF PacketData
    <3>4. "STOP" \notin r => xf.dir = "write"
      BY <2>1, <2>5, RowsToSend, RowsWithData DEF Due
    <3> QED
      BY <1>1, <1>4, <1>5, <3>2, <3>3, <3>4, AccountFetches
  <2>6. CASE r \in DataThenRead
    <3>1. PacketTurned
      BY <1>1, <2>2, <2>6, IrqOfPacket
    <3>2. rxlen' = 0 /\ (conf.mode = "Dma" => heard' = heard \o Bytes(rxlen))
      BY <3>1 DEF PacketTurned, Deliver
    <3>3. xf.dir = "read"
      BY <2>1, <2>6, RowsToSend, RowsWithData DEF Due, AsksToSend
    <3> QED
      BY <1>1, <1>4, <1>5, <3>2, <3>3, AccountFetches
  <2>7. CASE r \in FirstRead \cup NextRead
    <3>1. rxlen = 0
      BY <1>1, <2>2, <2>7, RowsNothing
    <3>2. UNCHANGED <<heard, told, rxlen>>
      BY <1>1, <2>2, <2>7, IrqOfPacket DEF PacketRead
    <3>3. xf.dir = "read"
      BY <2>1, <2>7, RowsToSend, RowsWithData DEF Due, AsksToSend
    <3> QED
      BY <1>1, <1>4, <3>1, <3>2, <3>3, AccountIdle
  <2>8. CASE r \in SwStop \cup Stop
    <3>1. rxlen = 0
      BY <1>1, <2>2, <2>8, RowsNothing
    <3>2. told' = FALSE /\ rxlen' = 0 /\ heard' = heard
      BY <1>1, <2>2, <2>8, IrqOfPacket DEF PacketStop, ArmReceive
    <3> QED
      BY <1>1, <3>1, <3>2, AccountIdle
  <2> QED
    BY <2>2, <2>4, <2>5, <2>6, <2>7, <2>8 DEF Rows
<1> QED
  BY <1>3, <1>6, <1>7

(* The target is switched on or off.                                       *)
LEMMA AccountSwitch ==
  ASSUME TargetTypes, Situation, Account, ~missed, ~broken, ~lossy, ~lossy',
         SwitchOn \/ SwitchOff \/ EnableSlave
  PROVE  Account'
<1>1. CASE SwitchOn
  <2>1. rxlen = 0 /\ ~told
    BY <1>1 DEF SwitchOn, Account, Fetched
  <2>2. /\ rxlen' = 0 /\ ~told' /\ sts' = {} /\ UNCHANGED <<conf, wrote, heard>>
    BY <1>1, <2>1 DEF SwitchOn, ArmReceive, master, app
  <2> QED
    BY <2>1, <2>2, AccountIdle
<1>2. CASE SwitchOff
  <2>1. on /\ Free /\ sts = {} /\ pc = "poll"
    <3>1. ~(lossy \/ ~Free \/ sts # {})
      BY <1>2 DEF SwitchOff
    <3> QED
      BY <1>2, <3>1 DEF SwitchOff
  <2>2. CASE ByteMode
    <3>1. rxlen = 0
      BY <2>1, <2>2, NothingWaits DEF ByteData
    <3> QED
      BY <1>2, <3>1, AccountIdle DEF SwitchOff
  <2>3. CASE ~ByteMode
    <3>1. armed = "rx"
      BY <2>1, <2>3 DEF Situation, Situated, PacketSituation, Receives, Addressed,
         Sends, EventDue, Due, InHand, Between, Expired, Free, NoXfer
    <3>2. rxlen = 0
      BY <2>1, <2>3, <3>1 DEF Account, Fetched
    <3> QED
      BY <1>2, <3>2, AccountIdle DEF SwitchOff
  <2> QED
    BY <2>2, <2>3
<1>3. CASE EnableSlave
  <2>1. rxlen = 0 /\ ~told /\ "INACTIVE_TO" \notin sts
    BY <1>3 DEF EnableSlave, Account, Fetched
  <2>2. UNCHANGED <<rxlen, sts, told, conf, wrote, heard>>
    BY <1>3 DEF EnableSlave, driver, master, app
  <2> QED
    BY <2>1, <2>2, AccountIdle
<1> QED
  BY <1>1, <1>2, <1>3

(* Every step keeps the account.                                           *)
LEMMA AccountStep ==
  ASSUME TargetTypes, Situation, Handling, Account, [Next]_vars
  PROVE  Account'
<1>1. CASE broken' \/ lossy'
  BY <1>1 DEF Account
<1>2. CASE ~broken' /\ ~lossy' /\ External
  <2>1. ~broken /\ ~lossy /\ ~missed
    BY <1>2, MarksStay DEF TargetTypes
  <2>2. ~BusError /\ ~Inactive
    BY <1>2 DEF BusError, Inactive
  <2> QED
    BY <1>2, <2>1, <2>2, AccountStarts, AccountReceives, AccountReports DEF External
<1>3. CASE ~broken' /\ ~lossy' /\ ~External
  <2>1. ~broken /\ ~lossy /\ ~missed
    BY <1>3, MarksStay DEF TargetTypes
  <2>2. CASE UNCHANGED vars \/ ReadStatus
    <3>1. UNCHANGED <<conf, on, armed, mem, rxlen, sts, xf, pc, wrote, heard, told>>
      BY <2>2 DEF vars, driver, master, app, ReadStatus
    <3>2. Fetched' = Fetched
      BY <3>1 DEF Fetched, ByteMode, Free, Row
    <3>3. Fetched' /\ "INACTIVE_TO" \notin sts'
          /\ (told' => on' /\ (~Free' \/ "STOP" \in sts'))
      BY <2>1, <3>1, <3>2 DEF Account, Free
    <3> QED
      BY <2>1, <3>1, <3>3, AccountWaits
  <2> QED
    BY <1>3, <2>1, <2>2, AccountPoll, AccountApplication, AccountIrqByte,
       AccountIrqPacket, AccountSwitch DEF Next
<1> QED
  BY <1>1, <1>2, <1>3

(* The account of what was received, always.                               *)
LEMMA TargetAccount == Spec => []Account
<1>1. Init => Account
  <2> SUFFICES ASSUME Init PROVE Account
    OBVIOUS
  <2>1. /\ rxlen = 0 /\ sts = {} /\ ~told /\ wrote = <<>> /\ heard = <<>>
    BY DEF Init
  <2>2. Bytes(rxlen) = <<>>
    BY <2>1, NothingToFetch
  <2> QED
    BY <2>1, <2>2 DEF Account, Fetched
<1>2. TargetTypes /\ Situation /\ Handling /\ Account /\ [Next]_vars => Account'
  BY AccountStep
<1> QED
  BY <1>1, <1>2, TargetSituation, PTL DEF Spec

(* For every buffer size, mode, length and number of transfers: between    *)
(* transfers the application has been given every byte the engine          *)
(* acknowledged, once and in order, and the stop. Excused as in Delivered: *)
(* what has no answer (broken) and bytes given up or cleared unseen.       *)
THEOREM TargetDelivered == Spec => []Delivered
<1>1. TargetTypes /\ Situation /\ Account => Delivered
  <2> SUFFICES ASSUME TargetTypes, Situation, Account, AtRest, Free, ~broken, ~lossy,
                      ~(Legacy /\ conf.mode = "Buff")
               PROVE  heard = wrote /\ ~told
    BY DEF Delivered
  <2>1. on /\ sts = {} /\ pc = "poll" /\ ~missed
    BY DEF AtRest, TargetTypes
  <2>2. rxlen = 0
    <3>1. CASE ByteMode
      BY <2>1, <3>1, NothingWaits DEF ByteData
    <3>2. CASE ~ByteMode
      <4>1. armed = "rx"
        BY <2>1, <3>2 DEF Situation, Situated, PacketSituation, Receives, Addressed,
           Sends, EventDue, Due, InHand, Between, Expired, Free, NoXfer
      <4> QED
        BY <2>1, <3>2, <4>1 DEF Account, Fetched
    <3> QED
      BY <3>1, <3>2
  <2>3. wrote = heard \o <<>> /\ heard \in Seq(Octets)
    BY <2>2, NothingToFetch DEF Account, TargetTypes
  <2>4. wrote = heard
    BY <2>3, ConcatEmptySeq
  <2>5. ~told
    BY <2>1 DEF Account
  <2> QED
    BY <2>4, <2>5
<1> QED
  BY <1>1, TargetSituation, TargetAccount, PTL

-----------------------------------------------------------------------------
(* What was handed out, and what the external master has read              *)

(* No more is received than the external master has written.               *)
LEMMA WithinStep ==
  ASSUME TargetTypes, Within, [Next]_vars
  PROVE  Within'
<1>1. rxlen \in Nat /\ xf.n \in Nat /\ NoXfer.dir = "none"
  BY TargetAssumption DEF TargetTypes, NoXfer
<1>2. CASE StartWrite
  <2>1. rxlen' = 0 /\ xf'.n = 0
    BY <1>2 DEF StartWrite
  <2> QED
    BY <2>1 DEF Within
<1>3. CASE WriteByte
  <2>1. xf' = [xf EXCEPT !.n = @ + 1] /\ rxlen' = rxlen + 1 /\ xf.dir = "write"
    BY <1>3 DEF WriteByte
  <2>2. xf'.n = xf.n + 1
    BY <2>1 DEF TargetTypes
  <2> QED
    BY <1>1, <2>1, <2>2 DEF Within
<1>4. CASE StartRead \/ WriteStop \/ Restart \/ ReadByte \/ BusError \/ Inactive
             \/ SwitchOff
  <2>1. xf'.dir # "write"
    <3>1. CASE ReadByte
      BY <1>1, <3>1 DEF ReadByte, TargetTypes
    <3>2. CASE ~ReadByte
      BY <1>1, <1>4, <3>2
      DEF StartRead, WriteStop, Restart, BusError, Inactive, SwitchOff
    <3> QED
      BY <3>1, <3>2
  <2> QED
    BY <2>1 DEF Within
<1>5. ASSUME xf' = xf, rxlen' = rxlen \/ rxlen' = 0
      PROVE  Within'
  BY <1>1, <1>5 DEF Within
<1>6. CASE ReportMatch \/ BufferFull
  <2>1. xf' = xf /\ rxlen' = rxlen
    BY <1>6 DEF ReportMatch, BufferFull
  <2> QED
    BY <1>5, <2>1
<1>7. CASE Poll
  <2>1. xf' = xf /\ (rxlen' = rxlen \/ rxlen' = 0)
    BY <1>7, PollKeeps DEF master
  <2> QED
    BY <1>5, <2>1
<1>8. CASE SlaveRead \/ SlaveWrite \/ SwitchOn \/ EnableSlave
  <2>1. xf' = xf /\ (rxlen' = rxlen \/ rxlen' = 0)
    BY <1>8 DEF SlaveRead, SlaveWrite, SwitchOn, EnableSlave, ArmReceive, master, driver
  <2> QED
    BY <1>5, <2>1
<1>9. CASE SlaveIrq
  <2>1. xf' = xf /\ (rxlen' = rxlen \/ rxlen' = 0)
    BY <1>9, SlaveIrqShape DEF master, NotArming
  <2> QED
    BY <1>5, <2>1
<1>10. CASE UNCHANGED vars \/ ReadStatus
  <2>1. xf' = xf /\ rxlen' = rxlen
    BY <1>10 DEF vars, master, driver, ReadStatus
  <2> QED
    BY <1>5, <2>1
<1> QED
  BY <1>2, <1>3, <1>4, <1>6, <1>7, <1>8, <1>9, <1>10 DEF Next, External

(* A write that turned into a read is told by its data.                    *)
LEMMA TurnRows ==
  ASSUME NEW s, s \ {"PKT_DONE", "PKT_ERROR"} \in DataThenRead
  PROVE  "RX_DONE" \in s /\ "WAIT_TX" \in s /\ "INACTIVE_TO" \notin s
<1> DEFINE r == s \ {"PKT_DONE", "PKT_ERROR"}
<1>1. "RX_DONE" \in r /\ "WAIT_TX" \in r /\ "INACTIVE_TO" \notin r
  BY RowsToSend, RowsHaveNoMark DEF AsksToSend, Rows
<1> QED
  BY <1>1

(* What the situations say of the status, with packets.                    *)
LEMMA PacketStatus ==
  ASSUME TargetTypes, Situation, Handling, on, ~broken, ~ByteMode
  PROVE  /\ armed = "rx" /\ xf.dir # "read" => sts \in {{}, {"PKT_DONE", "MATCH"}}
         /\ armed = "tx" => sts = {} /\ pc = "poll"
         /\ pc = "write" => sts = {} /\ armed # "tx" /\ xf.dir = "read"
<1>1. CASE missed
  BY <1>1 DEF Handling, Stuck, Stranded
<1>2. CASE ~missed
  BY <1>2 DEF TargetTypes, Legacy, Situation, Situated, PacketSituation, Receives,
     Addressed, Sends, EventDue, Due, InHand, Between, Expired
<1> QED
  BY <1>1, <1>2

(* And byte by byte.                                                       *)
LEMMA ByteStatus ==
  ASSUME TargetTypes, Situation, Handling, on, ~broken, ByteMode
  PROVE  /\ armed = "tx" => sts = {} /\ pc = "poll"
         /\ pc = "write" => armed # "tx" /\ xf.dir = "read"
<1>1. ~missed
  BY DEF Handling, Stuck, Stranded
<1> QED
  BY <1>1 DEF TargetTypes, Legacy, Situation, Situated, ByteSituation, ByteReceives,
     Receives, Sends, ByteWrite, ByteRead, ByteStopped, Expired

(* A driver that handles a status finds it as it was, has been overtaken   *)
(* and leaves all as it is, or takes the time-out that ends a stuck bus.   *)
LEMMA DriverFinds ==
  ASSUME TargetTypes, Situation, Handling, ~broken, Poll \/ SlaveIrq
  PROVE  /\ on /\ armed # "tx"
         /\ \/ /\ ~missed /\ ~Overtaken /\ sts # {} /\ seen \in {{}, sts}
               /\ ByteMode => seen = {}
            \/ /\ sts' = {}
               /\ UNCHANGED <<armed, mem, txpos, txlen, read, handed, given, xf, conf>>
            \/ sts' = {} /\ NothingHanded /\ Free /\ SlaveIrq
<1>1. on /\ (seen # {} \/ sts # {})
  BY PollKeeps, SlaveIrqShape
<1>2. CASE missed
  <2>1. seen = {} /\ Stranded
    BY <1>1, <1>2 DEF Handling, Reading, Stuck
  <2>2. sts = {"INACTIVE_TO"} /\ Legacy /\ Free /\ armed = "none"
    BY <1>1, <2>1 DEF Stranded
  <2>3. SlaveIrq
    BY <2>2, PollKeeps DEF Core, Legacy
  <2>4. IrqTimeout
    BY <2>1, <2>2, <2>3 DEF SlaveIrq
  <2> QED
    BY <1>1, <2>2, <2>3, <2>4 DEF IrqTimeout
<1>3. CASE ~missed /\ Overtaken
  <2>1. ~ByteMode
    BY <1>1, <1>3 DEF Handling, Reading, Overtaken
  <2>2. /\ sts' = {} /\ armed = "none"
        /\ UNCHANGED <<armed, mem, txpos, txlen, read, handed, given, xf, conf>>
    BY <1>1, <1>3, <2>1, OvertakenAddress
  <2> QED
    BY <1>1, <2>2
<1>4. CASE ~missed /\ ~Overtaken
  <2>1. seen \in {{}, sts} /\ (ByteMode => seen = {})
    BY <1>1, <1>4, ReadAsItWas
  <2>2. sts # {}
    BY <1>1, <2>1
  <2>3. armed # "tx"
    BY <1>1, <2>2, PacketStatus, ByteStatus
  <2> QED
    BY <1>1, <1>4, <2>1, <2>2, <2>3
<1> QED
  BY <1>2, <1>3, <1>4

(* A write turns into a read only when it has brought data.                *)
LEMMA TurnedStep ==
  ASSUME TargetTypes, Situation, Handling, Within, Turned, [Next]_vars, ~broken'
  PROVE  Turned'
<1> SUFFICES ASSUME on', ~ByteMode', Row' \in DataThenRead
             PROVE  xf'.then > 0
  BY DEF Turned
<1>1. /\ "RX_DONE" \in sts' /\ "WAIT_TX" \in sts' /\ "INACTIVE_TO" \notin sts'
      /\ ~broken
  BY TurnRows, MarksStay DEF Row
<1>2. conf' = conf /\ ~ByteMode
  <2>1. conf' = conf
    <3>1. CASE External
      BY <3>1, ExternalMeetsOn
    <3>2. CASE Poll \/ SlaveIrq
      BY <3>2, PollKeeps, SlaveIrqShape
    <3>3. CASE ~External /\ ~Poll /\ ~SlaveIrq
      BY <3>3 DEF Next, vars, ReadStatus, SlaveRead, SlaveWrite, SwitchOn, SwitchOff,
         EnableSlave
    <3> QED
      BY <3>1, <3>2, <3>3
  <2> QED
    BY <2>1 DEF ByteMode
<1>3. CASE External
  <2>1. on
    BY <1>3, ExternalMeetsOn
  <2>2. ~StartWrite
    <3>1. StartWrite => armed = "rx" /\ xf.dir = "none" /\ sts' = sts
      BY <1>2 DEF StartWrite, Free, NoXfer
    <3> QED
      BY <1>1, <1>2, <2>1, <3>1, PacketStatus
  <2>3. ~StartRead
    <3>1. StartRead => sts' = sts \cup (Packet \cup {"MATCH", "WAIT_TX"}) /\ sts = {}
      <4>1. ASSUME StartRead PROVE ~(broken \/ sts # {})
        BY <4>1 DEF StartRead
      <4> QED
        BY <1>2, <4>1 DEF StartRead, Raise
    <3> QED
      BY <1>1, <3>1 DEF Packet
  <2>4. ~ReportMatch /\ ~WriteByte /\ ~BufferFull /\ ~WriteStop
    <3>1. CASE ReportMatch
      BY <1>1, <3>1 DEF ReportMatch, Raise
    <3>2. CASE WriteByte
      <4>1. armed = "rx" /\ xf.dir = "write" /\ sts' = sts
        BY <1>2, <3>2 DEF WriteByte
      <4> QED
        BY <1>1, <1>2, <2>1, <4>1, PacketStatus
    <3>3. CASE BufferFull
      <4>1. armed = "rx" /\ xf.dir = "write" /\ "WAIT_TX" \in sts
        BY <1>1, <3>3 DEF BufferFull, Raise, Matched
      <4> QED
        BY <1>1, <1>2, <2>1, <4>1, PacketStatus
    <3>4. CASE WriteStop
      <4>1. armed = "rx" /\ xf.dir = "write" /\ "WAIT_TX" \in sts
        BY <1>1, <3>4 DEF WriteStop, Raise, Matched, Packet, RxDone
      <4> QED
        BY <1>1, <1>2, <2>1, <4>1, PacketStatus
    <3> QED
      BY <3>1, <3>2, <3>3, <3>4
  <2>5. ~ReadByte
    <3>1. CASE ReadByte
      <4>1. armed = "tx" /\ "RX_DONE" \in sts
        BY <1>1, <3>1 DEF ReadByte, Raise, Packet
      <4> QED
        BY <1>1, <1>2, <2>1, <4>1, PacketStatus
    <3> QED
      BY <3>1
  <2>6. ~BusError /\ ~Inactive
    BY <1>1 DEF BusError, Inactive, Raise
  <2>7. CASE Restart
    <3>1. /\ xf'.then = xf.len /\ xf.n = xf.len /\ xf.dir = "write" /\ rxlen > 0
      BY <1>2, <2>7 DEF Restart
    <3> QED
      BY <3>1, TargetAssumption DEF Within, TargetTypes
  <2> QED
    BY <1>3, <2>2, <2>3, <2>4, <2>5, <2>6, <2>7 DEF External
<1>4. CASE Poll
  <2>1. /\ on /\ Core /\ pc = "poll" /\ sts' # {}
    BY <1>1, <1>4, PollKeeps
  <2>2. ~missed /\ sts # {} /\ seen \in {{}, sts}
    BY <1>1, <1>4, <2>1, DriverFinds
  <2>3. Addressed \/ EventDue
    BY <1>1, <1>2, <2>1, <2>2 DEF Situation, Situated, PacketSituation, Receives, Sends,
       InHand, Between, Expired, Core, Legacy
  <2>4. PICK r \in Rows : sts = {"PKT_DONE"} \cup r
    BY <2>3, AddressRow, RowsOfEvents DEF EventDue, Due
  <2>5. sts' = {}
    BY <1>4, <2>2, <2>4, PollOfPacket
  <2> QED
    BY <2>1, <2>5
<1>5. CASE SlaveRead
  <2>1. ~(broken \/ (~ByteMode /\ sts # {})) /\ sts' = sts
    BY <1>2, <1>5 DEF SlaveRead, Cleared
  <2> QED
    BY <1>1, <1>2, <2>1
<1>6. CASE SlaveWrite
  <2>1. on /\ pc = "write" /\ sts' = sts
    BY <1>2, <1>6 DEF SlaveWrite, Cleared, TargetTypes
  <2> QED
    BY <1>1, <1>2, <2>1, PacketStatus
<1>7. CASE SlaveIrq
  BY <1>1, <1>7, SlaveIrqShape
<1>8. CASE SwitchOn \/ SwitchOff \/ EnableSlave
  BY <1>1, <1>8 DEF SwitchOn, SwitchOff, EnableSlave, driver, TargetTypes
<1>9. CASE UNCHANGED vars \/ ReadStatus
  <2>1. UNCHANGED <<on, broken, conf, sts, xf>>
    BY <1>9 DEF vars, driver, master, marks, ReadStatus
  <2>2. on /\ Row \in DataThenRead
    BY <2>1 DEF Row
  <2> QED
    BY <1>1, <1>2, <2>1, <2>2 DEF Turned
<1> QED
  BY <1>3, <1>4, <1>5, <1>6, <1>7, <1>8, <1>9 DEF Next

(* While the external master writes, nothing is handed out.                *)
LEMMA NoneHandedStep ==
  ASSUME TargetTypes, Situation, Handling, NoneHanded, [Next]_vars, ~broken'
  PROVE  NoneHanded'
<1> SUFFICES ASSUME xf'.dir = "write"
             PROVE  read' = <<>> /\ handed' = <<>>
  BY DEF NoneHanded
<1>1. ~broken
  BY MarksStay
<1>2. ASSUME xf.dir = "write", UNCHANGED <<read, handed>>
      PROVE  read' = <<>> /\ handed' = <<>>
  BY <1>1, <1>2 DEF NoneHanded
<1>3. CASE External
  <2>1. CASE StartWrite \/ StartRead
    BY <2>1 DEF StartWrite, StartRead
  <2>2. CASE ReportMatch \/ WriteByte \/ BufferFull
    <3>1. UNCHANGED <<read, handed>>
      BY <2>2 DEF ReportMatch, WriteByte, BufferFull, app
    <3>2. xf.dir = "write"
      BY <1>1, <1>3, <2>2, ExternalMeetsOn
      DEF ReportMatch, WriteByte, BufferFull, Situation, MatchDue
    <3> QED
      BY <1>2, <3>1, <3>2
  <2>3. xf'.dir # "write" \/ StartWrite \/ StartRead \/ ReportMatch \/ WriteByte
          \/ BufferFull
    BY <1>3 DEF External, WriteStop, Restart, ReadByte, BusError, Inactive, NoXfer,
       TargetTypes
  <2> QED
    BY <2>1, <2>2, <2>3
<1>4. CASE Poll
  BY <1>2, <1>4, PollKeeps DEF master
<1>5. CASE SlaveRead \/ SwitchOn \/ EnableSlave
  <2>1. UNCHANGED <<xf, read, handed>>
    BY <1>5 DEF SlaveRead, SwitchOn, EnableSlave, master, app
  <2> QED
    BY <1>2, <2>1
<1>6. CASE SlaveWrite
  <2>1. on /\ pc = "write" /\ xf' = xf
    BY <1>6 DEF SlaveWrite, master, TargetTypes
  <2>2. xf.dir = "read"
    BY <1>1, <2>1, PacketStatus, ByteStatus
  <2> QED
    BY <2>1, <2>2
<1>7. CASE SlaveIrq
  <2>1. /\ xf' = xf /\ read' = read /\ on /\ Legacy /\ pc = "poll"
    BY <1>7, SlaveIrqShape DEF master, TargetTypes
  <2>2. CASE UNCHANGED handed
    BY <1>2, <2>1, <2>2
  <2>3. CASE /\ ~missed /\ ~Overtaken /\ sts # {} /\ seen \in {{}, sts}
             /\ ByteMode => seen = {}
    <3>1. CASE "INACTIVE_TO" \in sts
      <4>1. ~Addressed /\ ~EventDue
        BY <3>1, RowsHaveNoMark, RowsOfEvents DEF Addressed, EventDue, Due
      <4>2. seen = {}
        BY <1>1, <2>1, <4>1 DEF Handling, Reading
      <4>3. IrqTimeout
        BY <1>7, <3>1, <4>2 DEF SlaveIrq
      <4> QED
        BY <1>2, <2>1, <4>3 DEF IrqTimeout, NothingHanded
    <3>2. CASE "INACTIVE_TO" \notin sts /\ ~ByteMode
      <4>1. Addressed \/ EventDue
        BY <1>1, <2>1, <2>3, <3>2 DEF Situation, Situated, PacketSituation,
           Receives, Sends, InHand, Between, Expired
      <4>2. CASE Addressed
        <5>1. PacketAddress
          BY <1>7, <2>3, <4>2, AddressRow, IrqOfPacket
        <5> QED
          BY <1>2, <2>1, <5>1 DEF PacketAddress, NothingHanded
      <4>3. CASE EventDue
        <5>1. PICK r \in AsksToSend \cup AsksToReceive \cup Stops : Due(r)
          BY <4>3 DEF EventDue
        <5>2. sts = {"PKT_DONE"} \cup r /\ r \in Rows
          BY <5>1, RowsOfEvents DEF Due
        <5>3. r \in SwData \cup Data \cup SwStop \cup Stop
          BY <2>1, <5>1, RowsToSend, RowsWithData, RowsOfEvents DEF Due, Free, NoXfer
        <5>4. PacketAddress \/ PacketData \/ PacketStop
          BY <1>7, <2>3, <5>2, <5>3, IrqOfPacket
        <5> QED
          BY <1>2, <2>1, <5>4 DEF PacketAddress, PacketData, PacketStop, NothingHanded
      <4> QED
        BY <4>1, <4>2, <4>3
    <3>3. CASE "INACTIVE_TO" \notin sts /\ ByteMode
      <4>1. ByteWrite
        BY <1>1, <2>1, <2>3, <3>3 DEF Situation, Situated, ByteSituation,
           ByteReceives, Receives, Sends, ByteRead, ByteStopped, Expired, Free, NoXfer
      <4>2. sts \in {ByteAddress, ByteData} \cup ByteStopAddress
        BY <4>1 DEF ByteWrite
      <4>3. "PKT_DONE" \notin sts
        BY <4>2, ByteRows
      <4>4. NothingHanded
        BY <1>7, <2>3, <3>3, <4>2, <4>3, IrqOfByte
      <4> QED
        BY <1>2, <2>1, <4>4 DEF NothingHanded
    <3> QED
      BY <3>1, <3>2, <3>3
  <2>4. CASE NothingHanded
    BY <1>2, <2>1, <2>4 DEF NothingHanded
  <2> QED
    BY <1>1, <1>7, <2>2, <2>3, <2>4, DriverFinds
<1>8. CASE SwitchOff
  BY <1>8 DEF SwitchOff, NoXfer
<1>9. CASE UNCHANGED vars \/ ReadStatus
  BY <1>2, <1>9 DEF vars, master, app, ReadStatus
<1> QED
  BY <1>3, <1>4, <1>5, <1>6, <1>7, <1>8, <1>9 DEF Next

(* A byte that is sent is one less to send.                                *)
LEMMA OneByteSent ==
  ASSUME TargetTypes, ReadByte
  PROVE  /\ read \o Unsent = read' \o Unsent'
         /\ txpos' = txlen => read \o Unsent = read'
<1>1. /\ txpos \in Nat /\ txlen \in Nat /\ txlen <= Size /\ txpos < txlen /\ Size \in Nat
      /\ mem \in [0 .. Size - 1 -> Octets] /\ read \in Seq(Octets)
      /\ read' = Append(read, mem[txpos]) /\ txpos' = txpos + 1
      /\ mem' = mem /\ txlen' = txlen
  BY TargetAssumption DEF ReadByte, TargetTypes
<1> DEFINE left == txlen - txpos
<1>2. left \in Nat \ {0} /\ txlen' - txpos' = left - 1 /\ mem[txpos] \in Octets
  BY <1>1
<1>3. /\ Unsent \in Seq(Octets) /\ Len(Unsent) = left
      /\ \A i \in 1 .. left : Unsent[i] = mem[txpos + i - 1]
  <2>1. Unsent \in [1 .. left -> Octets]
    BY <1>1 DEF Unsent
  <2> QED
    BY <1>2, <2>1 DEF Unsent
<1>4. /\ Unsent' \in Seq(Octets) /\ Len(Unsent') = left - 1
      /\ \A i \in 1 .. left - 1 : Unsent'[i] = mem[txpos + i]
  <2>1. Unsent' = [i \in 1 .. left - 1 |-> mem[txpos + 1 + i - 1]]
    BY <1>1, <1>2 DEF Unsent
  <2>2. \A i \in 1 .. left - 1 : /\ mem[txpos + 1 + i - 1] \in Octets
                                 /\ txpos + 1 + i - 1 = txpos + i
    BY <1>1
  <2>3. Unsent' \in [1 .. left - 1 -> Octets]
    BY <2>1, <2>2
  <2> QED
    BY <1>2, <2>1, <2>2, <2>3
<1>5. read \o Unsent = read' \o Unsent'
  <2> DEFINE before == Unsent
             after == Unsent'
             next == mem[txpos]
             done == Len(read)
  <2>0. next = mem[txpos + 1 - 1] /\ done \in Nat
    BY <1>1
  <2>1. /\ before \in Seq(Octets) /\ Len(before) = left /\ before[1] = next
        /\ after \in Seq(Octets) /\ Len(after) = left - 1 /\ next \in Octets
        /\ \A i \in 1 .. left - 1 : before[i + 1] = after[i]
    <3>1. before[1] = next
      BY <1>2, <1>3, <2>0
    <3>2. ASSUME NEW i \in 1 .. left - 1
          PROVE  before[i + 1] = after[i]
      <4>1. i + 1 \in 1 .. left /\ txpos + (i + 1) - 1 = txpos + i
        BY <1>1, <1>2
      <4> QED
        BY <1>3, <1>4, <4>1
    <3> QED
      BY <1>2, <1>3, <1>4, <3>1, <3>2
  <2> HIDE DEF before, after, next, left
  <2>2. before = <<next>> \o after
    <3>1. <<next>> \o after \in Seq(Octets) /\ Len(<<next>> \o after) = left
      BY <1>2, <2>1
    <3>2. ASSUME NEW i \in 1 .. left
          PROVE  before[i] = (<<next>> \o after)[i]
      <4>1. CASE i = 1
        BY <2>1, <4>1
      <4>2. CASE i # 1
        <5>1. i - 1 \in 1 .. left - 1 /\ (i - 1) + 1 = i
          BY <1>2, <4>2
        <5>2. (<<next>> \o after)[i] = after[i - 1]
          BY <2>1, <4>2, <5>1
        <5> QED
          BY <2>1, <5>1, <5>2
      <4> QED
        BY <4>1, <4>2
    <3> QED
      BY <1>2, <2>1, <3>1, <3>2, SeqEqual
  <2>3. read' = read \o <<next>>
    <3>1. read' = Append(read, next)
      BY <1>1 DEF next
    <3> QED
      BY <1>1, <2>1, <3>1, AppendIsConcat
  <2>4. <<next>> \in Seq(Octets)
    BY <2>1
  <2>5. read' \o after = read \o (<<next>> \o after)
    <3>1. read \in Seq(Octets) /\ after \in Seq(Octets)
      BY <1>1, <2>1
    <3>2. (read \o <<next>>) \o after = read \o (<<next>> \o after)
      BY <2>4, <3>1, ConcatAssociative
    <3> QED
      BY <2>3, <3>2
  <2>6. read \o before = read' \o after
    BY <2>2, <2>5
  <2> QED
    BY <2>6 DEF before, after
<1>6. ASSUME txpos' = txlen PROVE read' \o Unsent' = read'
  <2>1. left = 1
    BY <1>1, <1>6
  <2>2. Unsent' = <<>>
    BY <1>4, <2>1, EmptySeq
  <2>3. read' \in Seq(Octets)
    BY <1>1, <1>2
  <2> QED
    BY <2>2, <2>3, ConcatEmptySeq
<1> QED
  BY <1>5, <1>6

(* What is handed out is what there is to send.                            *)
LEMMA AnswerIsUnsent ==
  ASSUME TargetTypes, NEW n \in 1 .. Size, HandOut(n)
  PROVE  Unsent' = Answer(n)
<1>1. /\ txpos' = 0 /\ txlen' = n /\ n \in Nat
      /\ \A i \in 1 .. n : mem'[i - 1] = Answer(n)[i]
  BY HandsOut
<1>2. Unsent' = [i \in 1 .. n |-> mem'[i - 1]]
  <2>1. /\ txlen' - txpos' = n
        /\ \A i \in 1 .. n : txpos' + i - 1 = i - 1
    BY <1>1
  <2> QED
    BY <2>1 DEF Unsent
<1> QED
  BY <1>1, <1>2 DEF Answer

(* Everything handed out for a read was sent, or is there to send.         *)
LEMMA AllHandedStep ==
  ASSUME TargetTypes, Situation, Handling, NoneHanded, AllHanded, Turned, [Next]_vars,
         ~broken'
  PROVE  AllHanded'
<1> SUFFICES ASSUME on', xf'.dir = "read", ~Echo(xf)'
             PROVE  handed' = IF armed' = "tx" THEN read' \o Unsent' ELSE read'
  BY DEF AllHanded
<1>1. ~broken
  BY MarksStay
<1>2. ASSUME on, UNCHANGED <<conf, xf>>
      PROVE  handed = IF armed = "tx" THEN read \o Unsent ELSE read
  BY <1>1, <1>2 DEF AllHanded, Echo, Legacy, ByteMode
<1>3. CASE External
  <2>1. on /\ conf' = conf
    BY <1>3, ExternalMeetsOn
  <2>2. CASE StartRead
    BY <2>2 DEF StartRead
  <2>3. CASE Restart
    <3>1. xf.dir = "write" /\ armed' = "none" /\ UNCHANGED <<read, handed>>
      BY <2>3 DEF Restart, app
    <3> QED
      BY <1>1, <3>1 DEF NoneHanded
  <2>4. CASE ReadByte
    <3>1. xf' # NoXfer
      BY DEF NoXfer
    <3>2. /\ xf' = [xf EXCEPT !.n = @ + 1] /\ xf.dir = "read" /\ armed = "tx"
          /\ IF txpos' = txlen THEN armed' = "none" ELSE armed' = armed
          /\ handed' = handed
      BY <2>4, <3>1 DEF ReadByte, app
    <3>3. xf'.then = xf.then
      BY <3>2 DEF TargetTypes
    <3>4. ~Echo(xf)
      BY <2>1, <3>2, <3>3 DEF Echo, Legacy, ByteMode
    <3>5. handed = read \o Unsent
      BY <1>1, <2>1, <3>2, <3>4 DEF AllHanded
    <3> QED
      BY <2>4, <3>2, <3>5, OneByteSent
  <2>5. xf'.dir # "read" \/ StartRead \/ Restart \/ ReadByte
    <3>1. CASE ReportMatch \/ BufferFull \/ WriteByte
      <4>1. xf.dir = "write"
        BY <1>1, <3>1 DEF ReportMatch, BufferFull, WriteByte, Situation, MatchDue
      <4>2. xf' = xf \/ xf' = [xf EXCEPT !.n = @ + 1]
        BY <3>1 DEF ReportMatch, BufferFull, WriteByte
      <4> QED
        BY <4>1, <4>2 DEF TargetTypes
    <3>2. CASE StartWrite \/ WriteStop \/ BusError \/ Inactive
      <4>1. xf'.dir = "write" \/ xf' = NoXfer
        <5>1. CASE StartWrite
          BY <5>1 DEF StartWrite
        <5>2. CASE WriteStop \/ BusError \/ Inactive
          BY <5>2 DEF WriteStop, BusError, Inactive
        <5> QED
          BY <3>2, <5>1, <5>2
      <4> QED
        BY <4>1 DEF NoXfer
    <3> QED
      BY <1>3, <3>1, <3>2 DEF External
  <2> QED
    BY <2>2, <2>3, <2>4, <2>5
<1>4. CASE Poll \/ SlaveRead
  <2>1. /\ on /\ UNCHANGED <<conf, xf, read, handed>> /\ armed' \in {armed, "rx"}
        /\ Core /\ (SlaveRead => pc # "poll")
    BY <1>4, PollKeeps DEF SlaveRead, ArmReceive, master, TargetTypes
  <2>2. armed # "tx"
    <3>1. CASE Poll
      BY <1>1, <3>1, DriverFinds
    <3>2. CASE SlaveRead
      BY <1>1, <2>1, <3>2, PacketStatus, ByteStatus
    <3> QED
      BY <1>4, <3>1, <3>2
  <2> QED
    BY <1>2, <2>1, <2>2
<1>5. CASE SlaveWrite
  <2>1. /\ on /\ UNCHANGED <<conf, xf, read>> /\ pc = "write" /\ HandOut(ToSend)
    BY <1>5 DEF SlaveWrite, master, TargetTypes
  <2>2. armed # "tx"
    BY <1>1, <2>1, PacketStatus, ByteStatus
  <2>3. /\ handed' = handed \o Answer(ToSend) /\ armed' = "tx"
        /\ Unsent' = Answer(ToSend)
    BY <2>1, SendsSome, HandsOut, AnswerIsUnsent
  <2> QED
    BY <1>2, <2>1, <2>2, <2>3
<1>6. CASE SlaveIrq
  <2>1. /\ on /\ UNCHANGED <<conf, xf, read>> /\ xf.dir = "read" /\ ~Free
        /\ Legacy /\ pc = "poll"
    <3>1. on /\ Legacy /\ UNCHANGED <<conf, master>>
      BY <1>6, SlaveIrqShape
    <3>2. UNCHANGED <<xf, read>> /\ pc = "poll"
      BY <3>1 DEF master, TargetTypes
    <3>3. xf.dir = "read" /\ ~Free
      BY <3>2 DEF Free, NoXfer
    <3> QED
      BY <3>1, <3>2, <3>3
  <2>2. armed # "tx" /\ ~Expired
    BY <1>1, <1>6, <2>1, DriverFinds DEF Expired
  <2>5. CASE UNCHANGED <<armed, handed>>
    BY <1>2, <2>1, <2>2, <2>5
  <2>3. ASSUME ~missed, ~Overtaken, sts # {}, seen \in {{}, sts}, ByteMode => seen = {}
        PROVE  HandOut(1)
    <3>1. CASE ~ByteMode
      <4>1. EventDue
        BY <1>1, <2>1, <2>2, <2>3, <3>1 DEF Situation, Situated, PacketSituation,
           Receives, Addressed, Sends, InHand, Between
      <4>2. PICK r \in AsksToSend \cup AsksToReceive \cup Stops : Due(r)
        BY <4>1 DEF EventDue
      <4>3. sts = {"PKT_DONE"} \cup r /\ r \in Rows
        BY <4>2, RowsOfEvents DEF Due
      <4>4. r \in AsksToSend
        BY <2>1, <4>2, RowsToSend, RowsWithData DEF Due, Free, NoXfer
      <4>5. r \notin DataThenRead
        <5>1. ASSUME r \in DataThenRead PROVE FALSE
          <6>1. Row \in DataThenRead
            BY <4>3, <5>1, ReasonIsRow
          <6>2. xf.then > 0
            BY <1>1, <2>1, <3>1, <6>1 DEF Turned
          <6> QED
            BY <2>1, <3>1, <6>2 DEF Echo, Legacy, ByteMode
        <5> QED
          BY <5>1
      <4>6. PacketRead
        BY <1>6, <2>3, <4>3, <4>4, <4>5, IrqOfPacket DEF AsksToSend
      <4> QED
        BY <4>6 DEF PacketRead
    <3>2. CASE ByteMode
      <4>1. sts \in ByteReads
        BY <1>1, <2>1, <2>2, <2>3, <3>2 DEF Situation, Situated, ByteSituation,
           ByteReceives, Receives, Sends, ByteWrite, ByteRead, ByteStopped,
           Free, NoXfer
      <4> QED
        BY <1>6, <2>3, <3>2, <4>1, ByteRows, IrqOfByte
    <3> QED
      BY <3>1, <3>2
  <2>4. CASE HandOut(1)
    <3>1. 1 \in 1 .. Size
      BY TargetAssumption
    <3>2. /\ handed' = handed \o Answer(1) /\ armed' = "tx" /\ Unsent' = Answer(1)
      BY <2>4, <3>1, HandsOut, AnswerIsUnsent
    <3> QED
      BY <1>2, <2>1, <2>2, <3>2
  <2> QED
    BY <1>1, <1>6, <2>1, <2>3, <2>4, <2>5, DriverFinds
<1>7. CASE SwitchOn \/ SwitchOff \/ EnableSlave
  <2>1. xf' = NoXfer
    BY <1>7 DEF SwitchOn, SwitchOff, EnableSlave, TargetTypes, Free, master
  <2> QED
    BY <2>1 DEF NoXfer
<1>8. CASE UNCHANGED vars \/ ReadStatus
  <2>1. UNCHANGED <<conf, on, xf, armed, read, handed, mem, txpos, txlen>>
    BY <1>8 DEF vars, driver, master, app, ReadStatus
  <2>2. Unsent' = Unsent
    BY <2>1 DEF Unsent
  <2> QED
    BY <1>2, <2>1, <2>2
<1> QED
  BY <1>3, <1>4, <1>5, <1>6, <1>7, <1>8 DEF Next

(* What was handed out, always.                                            *)
LEMMA TargetSending == Spec => [](Within /\ Sending)
<1>1. Init => Within /\ Sending
  BY DEF Init, Within, Sending, NoneHanded, AllHanded, Turned, NoXfer
<1>2. TargetTypes /\ Situation /\ Handling /\ Within /\ Sending /\ [Next]_vars
        => (Within /\ Sending)'
  <2> SUFFICES ASSUME TargetTypes, Situation, Handling, Within, Sending, [Next]_vars
               PROVE  Within' /\ Sending'
    OBVIOUS
  <2>1. Within'
    BY WithinStep
  <2>2. CASE broken'
    BY <2>1, <2>2 DEF Sending, NoneHanded, AllHanded, Turned
  <2>3. CASE ~broken'
    BY <2>1, <2>3, NoneHandedStep, AllHandedStep, TurnedStep DEF Sending
  <2> QED
    BY <2>2, <2>3
<1> QED
  BY <1>1, <1>2, TargetSituation, PTL DEF Spec

(* For every buffer size, mode, length and number of transfers: what an    *)
(* external master has read in a transfer is what the application handed   *)
(* out for this transfer, in that order. Excused, as in Answered: events   *)
(* without an answer, and the older driver's read that follows a write.    *)
THEOREM TargetAnswered == Spec => []Answered
<1>1. TargetTypes /\ Sending => Answered
  <2> SUFFICES ASSUME TargetTypes, Sending, on, xf.dir = "read", ~broken, ~Echo(xf)
               PROVE  /\ Len(read) <= Len(handed)
                      /\ \A i \in DOMAIN read : read[i] = handed[i]
    BY DEF Answered
  <2>1. read \in Seq(Octets)
    BY DEF TargetTypes
  <2>2. CASE armed # "tx"
    BY <2>1, <2>2 DEF Sending, AllHanded
  <2>3. CASE armed = "tx"
    <3>1. handed = read \o Unsent
      BY <2>3 DEF Sending, AllHanded
    <3>2. Unsent \in Seq(Octets)
      <4>1. CASE txpos <= txlen
        <5>1. /\ txlen - txpos \in Nat
              /\ \A i \in 1 .. txlen - txpos : mem[txpos + i - 1] \in Octets
          BY <4>1, TargetAssumption DEF TargetTypes
        <5>2. Unsent \in [1 .. txlen - txpos -> Octets]
          BY <5>1 DEF Unsent
        <5> QED
          BY <5>1, <5>2
      <4>2. CASE txpos > txlen
        <5>1. 1 .. txlen - txpos = {}
          BY <4>2 DEF TargetTypes
        <5>2. Unsent = <<>>
          BY <5>1 DEF Unsent
        <5> QED
          BY <5>2
      <4> QED
        BY <4>1, <4>2, TargetAssumption DEF TargetTypes
    <3> HIDE DEF Unsent
    <3> QED
      BY <2>1, <3>1, <3>2
  <2> QED
    BY <2>2, <2>3
<1> QED
  BY <1>1, TargetSituation, TargetSending, PTL

-----------------------------------------------------------------------------
(* Clocks of the buses: division.                                          *)

(* A quotient between two bounds.                                          *)
LEMMA Quotient ==
  ASSUME NEW a \in Nat, NEW b \in Nat \ {0}
  PROVE  /\ a \div b \in Nat /\ a % b \in 0 .. b - 1
         /\ b * (a \div b) <= a /\ a < b * ((a \div b) + 1)
         /\ a = b * (a \div b) + (a % b)
OBVIOUS

LEMMA QuotientAtLeast ==
  ASSUME NEW a \in Nat, NEW b \in Nat \ {0}, NEW n \in Nat, b * n <= a
  PROVE  a \div b >= n
<1> DEFINE q == a \div b
<1>1. q \in Nat /\ a < b * (q + 1)
  BY Quotient
<1> HIDE DEF q
<1>2. ASSUME q < n PROVE FALSE
  <2>1. PICK e \in Nat : n = q + 1 + e
    BY <1>1, <1>2
  <2>2. b * n = b * (q + 1) + b * e /\ b * e \in Nat
    BY <1>1, <2>1
  <2> QED
    BY <1>1, <2>2
<1> QED
  BY <1>1, <1>2 DEF q

LEMMA QuotientAtMost ==
  ASSUME NEW a \in Nat, NEW b \in Nat \ {0}, NEW n \in Nat, a < b * (n + 1)
  PROVE  a \div b <= n
<1> DEFINE q == a \div b
<1>1. q \in Nat /\ b * q <= a
  BY Quotient
<1> HIDE DEF q
<1>2. ASSUME n < q PROVE FALSE
  <2>1. PICK e \in Nat : q = n + 1 + e
    BY <1>1, <1>2
  <2>2. b * q = b * (n + 1) + b * e /\ b * e \in Nat
    BY <1>1, <2>1
  <2> QED
    BY <1>1, <2>2
<1> QED
  BY <1>1, <1>2 DEF q

(* Rounding up is the least multiple that is large enough.                 *)
LEMMA CeilFacts ==
  ASSUME NEW n \in Nat, NEW d \in Nat \ {0}
  PROVE  /\ CeilDiv(n, d) \in Nat
         /\ d * CeilDiv(n, d) >= n /\ d * CeilDiv(n, d) < n + d
         /\ CeilDiv(n, d) = (n \div d) + (IF n % d = 0 THEN 0 ELSE 1)
<1> DEFINE x == n + d - 1
           q == x \div d
           r == n % d
           p == n \div d
<1>1. x \in Nat /\ CeilDiv(n, d) = q
  BY DEF CeilDiv
<1>2. q \in Nat /\ d * q <= x /\ x < d * (q + 1)
  BY <1>1, Quotient
<1>3. p \in Nat /\ r \in 0 .. d - 1 /\ n = d * p + r
  BY Quotient
<1>4. d * (q + 1) = d * q + d /\ d * q \in Nat
  BY <1>2
<1>5. d * q >= n /\ d * q < n + d
  BY <1>2, <1>4
<1>6. q = p + (IF r = 0 THEN 0 ELSE 1)
  <2> HIDE DEF q, p, r
  <2>1. CASE r = 0
    <3>1. d * p <= x /\ x < d * (p + 1)
      BY <1>3, <2>1
    <3> QED
      BY <1>1, <1>3, <2>1, <3>1, QuotientAtLeast, QuotientAtMost, SMTT(60) DEF q
  <2>2. CASE r # 0
    <3>1. d * (p + 1) <= x /\ x < d * (p + 1 + 1)
      BY <1>3, <2>2
    <3>2. p + 1 \in Nat /\ x \in Nat
      BY <1>1, <1>3
    <3>3. q >= p + 1 /\ q <= p + 1
      BY <3>1, <3>2, QuotientAtLeast, QuotientAtMost DEF q
    <3> QED
      BY <1>2, <1>3, <2>2, <3>3
  <2> QED
    BY <2>1, <2>2
<1> QED
  BY <1>1, <1>2, <1>5, <1>6

(* A set of numbers that is not empty has a least element.                 *)
LEMMA LeastIs ==
  ASSUME NEW S, S \subseteq Nat, S # {}
  PROVE  Least(S) \in S /\ \A x \in S : Least(S) <= x
<1>1. \A x, y \in Nat : x < y => <<x, y>> \in OpToRel(<, Nat)
  BY Zenon DEF OpToRel
<1>2. PICK R : IsWellFoundedOn(R, Nat)
               /\ \A x, y \in Nat : x < y => <<x, y>> \in R
  BY <1>1, NatLessThanWellFounded, Zenon
<1>3. IsWellFoundedOn(R, Nat) /\ S \subseteq Nat /\ S # {}
  BY <1>2
<1>4. PICK d \in S : \A e \in S : ~(<<e, d>> \in R)
  BY ONLY <1>3, WFMin, Zenon
<1>5. ASSUME NEW e \in S PROVE d <= e
  <2>1. e \in Nat /\ d \in Nat /\ ~(e < d)
    BY <1>2, <1>4
  <2> QED
    BY <2>1
<1>6. \E x \in S : \A y \in S : x <= y
  BY <1>5
<1> QED
  BY <1>6 DEF Least

-----------------------------------------------------------------------------
(* The core driver finds a ratio that is fast enough and not too fast.     *)

(* The divider field holds this many powers of two.                        *)
LEMMA Powers ==
  /\ DOMAIN Power = 1 .. 12
  /\ \A n \in 1 .. 12 : Power[n] \in Nat \ {0}
  /\ Power[1] = 1
BY DEF Power

(* A ratio of r cycles: no faster than asked, and one less is too fast.    *)
LEMMA RoundUpRate ==
  ASSUME NEW clk \in Nat, NEW s \in Nat \ {0}, clk \div s <= MaxRatio,
         clk \div s = MaxRatio => clk % s = 0
  PROVE  LET r == RoundUp(clk, s)
         IN  /\ r \in 1 .. MaxRatio /\ clk \div r <= s
             /\ r > 1 => clk \div (r - 1) >= s
<1> DEFINE q == clk \div s
           r == RoundUp(clk, s)
<1>1. q \in Nat /\ s * q <= clk /\ clk < s * (q + 1) /\ clk = s * q + (clk % s)
  BY Quotient
<1>2. r = IF q = 0 THEN 1 ELSE IF clk \div q > s THEN q + 1 ELSE q
  BY DEF RoundUp
<1>3. q <= 32 /\ (q = 32 => clk % s = 0)
  BY DEF MaxRatio
<1> HIDE DEF q, r
<1>4. CASE q = 0
  <2>1. r = 1 /\ clk < 1 * (s + 1) /\ clk \div 1 <= s
    BY <1>1, <1>2, <1>4
  <2> QED
    BY <2>1 DEF r, MaxRatio
<1>5. CASE q # 0 /\ clk \div q > s
  <2>1. r = q + 1 /\ q \in Nat \ {0}
    BY <1>1, <1>2, <1>5
  <2>2. q # 32
    <3>1. ASSUME q = 32 PROVE FALSE
      <4>1. clk = s * 32 /\ clk < 32 * (s + 1)
        BY <1>1, <1>3, <3>1
      <4>2. clk \div 32 <= s
        BY <4>1, QuotientAtMost
      <4>3. clk \div 32 \in Nat
        BY Quotient
      <4> QED
        BY <1>5, <3>1, <4>2, <4>3
    <3> QED
      BY <3>1
  <2>3. clk \div (q + 1) <= s
    <3>1. s * (q + 1) = (q + 1) * s /\ (q + 1) * (s + 1) = (q + 1) * s + (q + 1)
      BY <2>1
    <3>2. clk < (q + 1) * (s + 1) /\ q + 1 \in Nat \ {0}
      BY <1>1, <2>1, <3>1
    <3> QED
      BY <3>2, QuotientAtMost
  <2>4. clk \div q >= s
    <3>1. q * s <= clk
      BY <1>1, <2>1
    <3> QED
      BY <2>1, <3>1, QuotientAtLeast
  <2>5. r \in 1 .. 32 /\ r - 1 = q
    BY <1>3, <2>1, <2>2
  <2> QED
    BY <2>1, <2>3, <2>4, <2>5 DEF r, MaxRatio
<1>6. CASE q # 0 /\ ~(clk \div q > s)
  <2>1. r = q /\ q \in Nat \ {0} /\ clk \div q \in Nat
    BY <1>1, <1>2, <1>6, Quotient
  <2>2. ASSUME q > 1 PROVE clk \div (q - 1) >= s
    <3>1. (q - 1) * s = s * q - s /\ q - 1 \in Nat \ {0}
      BY <1>1, <2>2
    <3>2. (q - 1) * s <= clk
      BY <1>1, <3>1
    <3> QED
      BY <3>1, <3>2, QuotientAtLeast
  <2>3. r \in 1 .. 32 /\ clk \div r <= s
    BY <1>3, <1>6, <2>1
  <2> QED
    BY <2>1, <2>2, <2>3 DEF r, MaxRatio
<1> QED
  BY <1>4, <1>5, <1>6 DEF r

(* Low and high time and the two edges are the ratio.                      *)
LEMMA CyclesAreRatio ==
  ASSUME NEW r \in 1 .. MaxRatio
  PROVE  LET low == SclLow(r) IN low + SclHigh(r, low) + 2 = IF r = 1 THEN 2 ELSE r
<1>1. r \in 1 .. 32
  BY DEF MaxRatio
<1> DEFINE x == (r * 9) \div 16
<1>2. x \in Nat /\ 16 * x <= 9 * r /\ 9 * r < 16 * (x + 1)
  BY <1>1
<1> HIDE DEF x
<1>3. SclLow(r) = IF x = 0 THEN 0 ELSE IF x - 1 <= 15 THEN x - 1 ELSE 15
  BY <1>2 DEF SclLow, Sat, AtMost, AtLeast, x
<1> DEFINE l == SclLow(r)
<1>4. SclHigh(r, l) = IF r - l - 2 < 0 THEN 0 ELSE IF r - l - 2 <= 15 THEN r - l - 2 ELSE 15
  BY <1>1, <1>2, <1>3 DEF SclHigh, Sat, AtMost, AtLeast
<1> QED
  BY <1>1, <1>2, <1>3, <1>4

(* A clock that is halved: the ratio fits, and the bus is not too fast.    *)
QuotientLimit == 65536
LEMMA HalvedFits ==
  ASSUME NEW q \in Nat, q <= QuotientLimit
  PROVE  /\ Halvings(q) \in 1 .. 12
         /\ CeilDiv(q, Power[Halvings(q)]) \in 0 .. MaxRatio
<1> DEFINE S == {n \in DOMAIN Power : CeilDiv(q, Power[n]) <= MaxRatio}
<1>1. 12 \in S
  <2>1. 2048 * CeilDiv(q, 2048) < q + 2048 /\ CeilDiv(q, 2048) \in Nat
    BY CeilFacts
  <2>2. CeilDiv(q, 2048) <= 32
    BY <2>1, SMT DEF QuotientLimit
  <2>3. Power[12] = 2048 /\ 12 \in DOMAIN Power
    BY DEF Power
  <2> QED
    BY <2>2, <2>3 DEF MaxRatio
<1>2. S \subseteq Nat
  BY Powers
<1>3. Halvings(q) \in S
  BY <1>1, <1>2, LeastIs DEF Halvings
<1>4. Halvings(q) \in 1 .. 12 /\ CeilDiv(q, Power[Halvings(q)]) <= MaxRatio
  BY <1>3, Powers
<1> DEFINE p == Power[Halvings(q)]
<1>5. p \in Nat \ {0}
  BY <1>4, Powers
<1> HIDE DEF p
<1>6. CeilDiv(q, p) \in Nat
  BY <1>5, CeilFacts
<1> QED
  BY <1>4, <1>6 DEF p, MaxRatio

LEMMA Times ==
  ASSUME NEW x \in Nat, NEW y \in Nat, x <= y, NEW j \in Nat
  PROVE  j * x \in Nat /\ j * y \in Nat /\ j * x <= j * y
<1>1. PICK e \in Nat : y = x + e
  OBVIOUS
<1>2. j * (x + e) = j * x + j * e /\ j * e \in Nat /\ j * x \in Nat
  OBVIOUS
<1> QED
  BY <1>1, <1>2

(* What stays below a product can be divided by its factors in turn.       *)
LEMMA DivideTwice ==
  ASSUME NEW a \in Nat, NEW p \in Nat \ {0}, NEW r \in Nat \ {0}, NEW s \in Nat,
         a < p * (r * (s + 1))
  PROVE  (a \div p) \div r <= s
<1> DEFINE x == a \div p
           m == r * (s + 1)
<1>1. x \in Nat /\ p * x <= a
  BY Quotient
<1>2. m \in Nat
  OBVIOUS
<1>3. a < p * m
  OBVIOUS
<1> HIDE DEF x, m
<1>4. ASSUME m <= x PROVE FALSE
  BY <1>1, <1>2, <1>3, <1>4, Times
<1>5. x < m
  BY <1>1, <1>2, <1>4
<1>6. x < r * (s + 1)
  BY <1>5 DEF m
<1> QED
  BY <1>1, <1>6, QuotientAtMost DEF x

(* The ratio of a halved clock, from the quotient q and the power p.       *)
SlowRatio(clk, s, r) ==
  IF r = 0 THEN 1 ELSE IF clk \div r > s /\ r < 32 THEN r + 1 ELSE r
LEMMA SlowRatioRate ==
  ASSUME NEW clk \in Nat, NEW s \in Nat \ {0}, NEW q \in Nat, NEW p \in Nat \ {0},
         NEW r \in Nat, r <= 32, s * q <= clk, clk < s * (q + 1),
         p * r >= q, p * r < q + p, q = 32 * p => clk = s * q,
         NEW j \in Nat, j = SlowRatio(clk, s, r)
  PROVE  /\ j \in 1 .. 32 /\ (clk \div p) \div j <= s
         /\ p = 1 /\ r = q /\ j > 1 => clk \div (j - 1) >= s
         /\ j > 2 => (clk \div p) \div (j - 2) >= s
<1>1. j \in 1 .. 32
  BY DEF SlowRatio
<1> DEFINE m == p * j
           top == p * (j * (s + 1))
<1>2. m \in Nat \ {0}
  BY <1>1
<1>3. top = s * m + m /\ s * m \in Nat
  BY <1>1
<1>4. (r = 0 => j = 1 /\ m = p) /\ p * r \in Nat
       /\ (j = r + 1 => m = p * r + p) /\ (j = r => m = p * r)
  BY <1>1 DEF SlowRatio
<1> HIDE DEF m, top
<1>5. ASSUME m >= q + 1 PROVE clk < top
  <2>1. q + 1 <= m /\ q + 1 \in Nat /\ m \in Nat
    BY <1>2, <1>5
  <2>2. s * (q + 1) <= s * m /\ s * m \in Nat /\ s * (q + 1) \in Nat
    BY <2>1, Times
  <2> QED
    BY <1>2, <1>3, <2>2
<1>6. clk < top
  <2>1. CASE r = 0
    <3>1. q = 0
      BY <2>1
    <3> QED
      BY <1>2, <1>5, <3>1
  <2>2. CASE r # 0 /\ j = r + 1
    <3> QED
      BY <1>5, <2>2, <1>4
  <2>3. CASE r # 0 /\ ~(clk \div r > s)
    <3>1. j = r /\ r \in Nat \ {0}
      BY <2>3 DEF SlowRatio
    <3>2. clk \div r \in Nat /\ clk < r * ((clk \div r) + 1)
      BY <3>1, Quotient
    <3> DEFINE x == (clk \div r) + 1
    <3>3. x \in Nat /\ x <= s + 1
      BY <2>3, <3>2
    <3>4. clk < r * x
      BY <3>2
    <3> HIDE DEF x
    <3>5. r * x <= r * (s + 1) /\ r * (s + 1) \in Nat /\ r * x \in Nat
      BY <3>3, Times
    <3> DEFINE n == r * (s + 1)
    <3>6. clk < n /\ n \in Nat
      BY <3>4, <3>5
    <3>7. top = p * n
      BY <3>1 DEF top
    <3> HIDE DEF n
    <3>8. n * 1 <= n * p /\ n * p = p * n /\ n * p \in Nat
      BY <3>6, Times
    <3> QED
      BY <3>6, <3>7, <3>8
  <2>4. CASE r = 32 /\ j = 32
    <3>1. m = 32 * p /\ m >= q
      BY <2>4, <1>4
    <3>2. CASE q = m
      <4>1. clk = s * m
        BY <3>1, <3>2
      <4> QED
        BY <1>2, <1>3, <4>1
    <3>3. CASE q # m
      BY <1>2, <1>5, <3>1, <3>3
    <3> QED
      BY <3>2, <3>3
  <2> QED
    BY <2>1, <2>2, <2>3, <2>4 DEF SlowRatio
<1>7. clk < p * (j * (s + 1))
  BY <1>6 DEF top
<1>8. (clk \div p) \div j <= s
  <2>1. j \in Nat \ {0} /\ s \in Nat
    BY <1>1
  <2> QED
    BY <1>7, <2>1, DivideTwice
<1>9. ASSUME p = 1, r = q, j > 1 PROVE clk \div (j - 1) >= s
  <2>1. j - 1 \in Nat \ {0} /\ j - 1 <= q
    BY <1>1, <1>9 DEF SlowRatio
  <2>2. s * (j - 1) <= s * q /\ s * (j - 1) \in Nat /\ s * q \in Nat
    BY <2>1, Times
  <2>3. (j - 1) * s <= clk
    BY <2>1, <2>2
  <2> QED
    BY <2>1, <2>3, QuotientAtLeast
<1>10. ASSUME j > 2 PROVE (clk \div p) \div (j - 2) >= s
  <2>1. PICK x \in Nat \ {0} : x = j - 2
    BY <1>10
  <2>2. x + 1 <= r
    BY <1>10, <2>1 DEF SlowRatio
  <2>3. p * (x + 1) <= p * r /\ p * (x + 1) = p * x + p /\ p * x \in Nat
        /\ p * r \in Nat
    <3>1. p * (x + 1) <= p * r /\ p * r \in Nat
      BY <2>1, <2>2, Times
    <3>2. p * (x + 1) = p * x + p /\ p * x \in Nat
      BY <2>1
    <3> QED
      BY <3>1, <3>2
  <2> DEFINE y == p * x
  <2>4. y \in Nat /\ y <= q
    BY <2>3
  <2> HIDE DEF y
  <2>5. s * y <= s * q /\ s * y \in Nat /\ s * q \in Nat
    BY <2>4, Times
  <2> DEFINE z == x * s
  <2>6. p * z = s * y /\ z \in Nat
    BY <2>1 DEF y
  <2> HIDE DEF z
  <2>7. p * z <= clk
    BY <2>5, <2>6
  <2>8. clk \div p >= z
    BY <2>6, <2>7, QuotientAtLeast
  <2>9. clk \div p \in Nat /\ x * s <= clk \div p
    <3>1. clk \div p \in Nat
      BY Quotient
    <3> QED
      BY <2>8, <3>1 DEF z
  <2> QED
    BY <2>1, <2>9, QuotientAtLeast
<1> QED
  BY <1>1, <1>8, <1>9, <1>10

(* What the loop leaves: after n - 1 halvings the rest fits.               *)
LEMMA SlowDividerIs ==
  ASSUME NEW clk \in Nat, NEW s \in Nat \ {0},
         NEW q \in Nat, q = clk \div s, q <= QuotientLimit,
         NEW n, n = Halvings(q), NEW r, r = CeilDiv(q, Power[n])
  PROVE  /\ n \in 1 .. 12 /\ r \in 0 .. 32
         /\ SlowDivider(clk, s) = [div |-> 3 + n, ratio |-> SlowRatio(clk, s, r)]
<1>1. n \in 1 .. 12 /\ r \in 0 .. 32
  BY HalvedFits DEF MaxRatio
<1>2. SlowDivider(clk, s) =
        [div |-> (3 + n) % 16,
         ratio |-> AtLeast(AtMost(IF r > 0 /\ clk \div r > s THEN r + 1 ELSE r,
                                  MaxRatio), 1)]
  BY Zenon DEF SlowDivider
<1>3. (3 + n) % 16 = 3 + n
  BY <1>1
<1>4. AtLeast(AtMost(IF r > 0 /\ clk \div r > s THEN r + 1 ELSE r, MaxRatio), 1)
        = SlowRatio(clk, s, r)
  BY <1>1 DEF AtLeast, AtMost, MaxRatio, SlowRatio
<1> QED
  BY <1>1, <1>2, <1>3, <1>4, Zenon

(* Nothing is left over that the ratio cannot express.                     *)
NothingOver(clk, s) ==
  clk % s # 0 => \A n \in DOMAIN Power : clk \div s # MaxRatio * Power[n]
LEMMA SlowRate ==
  ASSUME NEW clk \in Nat, NEW s \in Nat \ {0}, NEW q \in Nat, q = clk \div s,
         q <= QuotientLimit, NothingOver(clk, s), NEW d, d = SlowDivider(clk, s)
  PROVE  /\ d.div \in 4 .. 15 /\ d.ratio \in 1 .. MaxRatio
         /\ (clk \div Power[d.div - 3]) \div d.ratio <= s
         /\ d.div = 4 /\ d.ratio > 1 => clk \div (d.ratio - 1) >= s
         /\ d.ratio > 2 => (clk \div Power[d.div - 3]) \div (d.ratio - 2) >= s
<1> DEFINE n == Halvings(q)
           p == Power[n]
           r == CeilDiv(q, p)
           j == SlowRatio(clk, s, r)
<1>1. /\ n \in 1 .. 12 /\ r \in 0 .. 32
      /\ d = [div |-> 3 + n, ratio |-> j]
  BY SlowDividerIs
<1> HIDE DEF n, j
<1>2. p \in Nat \ {0} /\ n \in DOMAIN Power /\ (n = 1 => p = 1)
  BY <1>1, Powers
<1> HIDE DEF p
<1>3. p * r >= q /\ p * r < q + p
  BY <1>2, CeilFacts
<1>4. ASSUME clk % s # 0, q = 32 * p PROVE FALSE
  BY <1>2, <1>4 DEF MaxRatio, NothingOver, p
<1> HIDE DEF r
<1>5. s * q <= clk /\ clk < s * (q + 1) /\ clk = s * q + (clk % s) /\ clk % s \in Nat
      /\ s * q \in Nat
  BY Quotient
<1>6. q = 32 * p => clk = s * q
  BY <1>4, <1>5
<1>7. j \in Nat /\ r \in Nat /\ r <= 32
  BY <1>1 DEF j, SlowRatio
<1>8. j = SlowRatio(clk, s, r)
  BY DEF j
<1>9. /\ j \in 1 .. 32 /\ (clk \div p) \div j <= s
      /\ p = 1 /\ r = q /\ j > 1 => clk \div (j - 1) >= s
      /\ j > 2 => (clk \div p) \div (j - 2) >= s
  BY <1>2, <1>3, <1>5, <1>6, <1>7, <1>8, SlowRatioRate, Zenon
<1>10. d.div = 3 + n /\ d.ratio = j /\ d.div - 3 = n
  BY <1>1
<1>11. d.div = 4 => p = 1 /\ r = q
  <2>1. ASSUME d.div = 4 PROVE p = 1
    BY <1>1, <1>2, <1>10, <2>1
  <2> QED
    BY <1>3, <1>7, <2>1
<1> QED
  BY <1>1, <1>9, <1>10, <1>11 DEF MaxRatio, p

-----------------------------------------------------------------------------
(* The rate of a bus that the core driver set up.                          *)

(* The registers say the divider and the ratio that were found.            *)
LEMMA FieldsPeriod ==
  ASSUME NEW c, NEW s, NEW tout,
         NEW d, d = CalculateDivider(c, s), d.ratio \in 1 .. MaxRatio
  PROVE  LET r == CoreFields(c, s, tout)
         IN  r.div = d.div /\ Period(r) = IF d.ratio = 1 THEN 2 ELSE d.ratio
<1> DEFINE low == SclLow(d.ratio)
           r == CoreFields(c, s, tout)
<1>1. r.div = d.div /\ r.low = low /\ r.high = SclHigh(d.ratio, low)
  BY DEF CoreFields
<1> HIDE DEF r
<1> QED
  BY <1>1, CyclesAreRatio DEF Period, r

(* A period that counts its ratio has the rate of the ratio.               *)
LEMMA PeriodRate ==
  ASSUME NEW clk \in Nat, NEW s \in Nat, NEW j \in 1 .. MaxRatio, clk \div j <= s
  PROVE  LET p == IF j = 1 THEN 2 ELSE j IN clk \div p <= s
<1>1. CASE j = 1
  <2>1. clk \div 1 = clk /\ clk < 2 * (clk + 1)
    OBVIOUS
  <2>2. clk \div 2 <= clk /\ clk \div 2 \in Nat
    BY <2>1
  <2> QED
    BY <1>1, <2>1, <2>2
<1>2. CASE j # 1
  BY <1>2
<1> QED
  BY <1>1, <1>2

(* For every set of clocks: no faster than asked for, and one cycle less   *)
(* would be too fast.                                                      *)
LEMMA CoreFieldsRate ==
  ASSUME NEW c \in [0 .. 4 -> Nat], NEW s \in Nat \ {0},
         NEW q \in Nat, q = c[4] \div s, q <= QuotientLimit,
         ~SomethingOver(c, s), NEW tout, NEW r, r = CoreFields(c, s, tout)
  PROVE  /\ r.div \in 0 .. 15 /\ ClockAt(c, r.div) \in Nat
         /\ ClockAt(c, r.div) \div Period(r) <= s
         /\ Period(r) > 2 =>
              ClockAt(c, r.div) \div (Period(r) - 1 - Spare(r.div)) >= s
<1> DEFINE d == CalculateDivider(c, s)
<1>1. CASE Fits(c, s) # {}
  <2>1. PICK j \in Fits(c, s) : j = Least(Fits(c, s))
    <3>1. Fits(c, s) \subseteq Nat
      BY DEF Fits
    <3> QED
      BY <1>1, <3>1, LeastIs
  <2>2. j \in 0 .. 3 /\ c[j] \div s <= MaxRatio /\ c[j] \in Nat
    BY DEF Fits
  <2>3. d = [div |-> j, ratio |-> RoundUp(c[j], s)]
    BY <1>1, <2>1, Zenon DEF CalculateDivider
  <2>4. c[j] \div s = MaxRatio => c[j] % s = 0
    <3>1. ASSUME c[j] \div s = MaxRatio, c[j] % s # 0 PROVE FALSE
      <4>1. 1 \in DOMAIN Power /\ c[j] \div s = MaxRatio * Power[1]
        BY <3>1, Powers DEF MaxRatio
      <4>2. c[IF Fits(c, s) # {} THEN Least(Fits(c, s)) ELSE 4] = c[j]
        BY <1>1, <2>1
      <4> QED
        BY <3>1, <4>1, <4>2, Zenon DEF SomethingOver
    <3> QED
      BY <3>1
  <2> DEFINE x == RoundUp(c[j], s)
  <2>5. /\ x \in 1 .. MaxRatio /\ c[j] \div x <= s
        /\ x > 1 => c[j] \div (x - 1) >= s
    BY <2>2, <2>4, RoundUpRate
  <2> HIDE DEF x
  <2>6. d.div = j /\ d.ratio = x
    BY <2>3 DEF x
  <2> HIDE DEF d
  <2>7. r.div = j /\ Period(r) = IF x = 1 THEN 2 ELSE x
    BY <2>5, <2>6, FieldsPeriod DEF d
  <2>8. ClockAt(c, j) = c[j]
    BY <2>2 DEF ClockAt
  <2>9. c[j] \div (IF x = 1 THEN 2 ELSE x) <= s
    BY <2>2, <2>5, PeriodRate
  <2>10. x \in Nat
    BY <2>5 DEF MaxRatio
  <2>11. Spare(r.div) = 0 /\ (x > 1 => x - 1 - Spare(r.div) = x - 1)
    BY <2>2, <2>7, <2>10 DEF Spare
  <2> QED
    BY <2>2, <2>5, <2>7, <2>8, <2>9, <2>10, <2>11
<1>2. CASE Fits(c, s) = {}
  <2>1. d = SlowDivider(c[4], s)
    BY <1>2, Zenon DEF CalculateDivider
  <2>2. c[4] \in Nat
    OBVIOUS
  <2>3. NothingOver(c[4], s)
    <3>1. c[IF Fits(c, s) # {} THEN Least(Fits(c, s)) ELSE 4] = c[4]
      BY <1>2
    <3> QED
      BY <3>1, Zenon DEF NothingOver, SomethingOver
  <2> HIDE DEF d
  <2>4. /\ d.div \in 4 .. 15 /\ d.ratio \in 1 .. MaxRatio
        /\ (c[4] \div Power[d.div - 3]) \div d.ratio <= s
        /\ d.div = 4 /\ d.ratio > 1 => c[4] \div (d.ratio - 1) >= s
        /\ d.ratio > 2 => (c[4] \div Power[d.div - 3]) \div (d.ratio - 2) >= s
    BY <2>1, <2>2, <2>3, SlowRate, Zenon
  <2>5. r.div = d.div /\ Period(r) = IF d.ratio = 1 THEN 2 ELSE d.ratio
    BY <2>4, FieldsPeriod DEF d
  <2> DEFINE j == d.div
             x == d.ratio
             y == c[4] \div Power[j - 3]
  <2>6. j \in 4 .. 15 /\ x \in 1 .. MaxRatio
    BY <2>4
  <2>7. j - 3 \in 1 .. 12
    BY <2>6
  <2>8. Power[j - 3] \in Nat \ {0} /\ (j = 4 => Power[j - 3] = 1)
    BY <2>7, Powers
  <2>9. y \in Nat
    BY <2>2, <2>8, Quotient
  <2>10. j = 4 => y = c[4]
    BY <2>2, <2>8
  <2>11. /\ y \div x <= s
         /\ j = 4 /\ x > 1 => c[4] \div (x - 1) >= s
         /\ x > 2 => y \div (x - 2) >= s
    BY <2>4
  <2>12. ClockAt(c, j) = y
    BY <2>6, <2>10 DEF ClockAt
  <2> HIDE DEF j, x, y
  <2>13. y \div (IF x = 1 THEN 2 ELSE x) <= s
    BY <2>6, <2>9, <2>11, PeriodRate
  <2>14. r.div = j /\ Period(r) = IF x = 1 THEN 2 ELSE x
    BY <2>5 DEF j, x
  <2>15. x \in 1 .. 32
    BY <2>6 DEF MaxRatio
  <2>16. ASSUME Period(r) > 2
         PROVE  y \div (Period(r) - 1 - Spare(r.div)) >= s
    <3>1. Period(r) = x /\ x > 2
      BY <2>14, <2>15, <2>16
    <3>2. CASE j = 4
      <4>1. Period(r) - 1 - Spare(r.div) = x - 1
        BY <2>14, <2>15, <3>1, <3>2 DEF Spare
      <4>2. x > 1
        BY <2>15, <3>1
      <4>3. y \div (x - 1) >= s
        BY <2>10, <2>11, <3>2, <4>2
      <4> QED
        BY <4>1, <4>3, Zenon
    <3>3. CASE j # 4
      <4>1. Period(r) - 1 - Spare(r.div) = x - 2
        BY <2>6, <2>14, <2>15, <3>1, <3>3 DEF Spare
      <4> QED
        BY <2>11, <3>1, <4>1, Zenon
    <3> QED
      BY <3>2, <3>3
  <2> QED
    BY <2>6, <2>9, <2>12, <2>13, <2>14, <2>16
<1> QED
  BY <1>1, <1>2

(* The base clocks of the hardware run, and none is too fast for the       *)
(* divider.                                                                *)
Divs == [1 .. 4 -> 0 .. 255]
I2cSpeeds == {100000, 400000, 1000000}
LEMMA ApbRange ==
  ASSUME NEW sel \in 1 .. 15
  PROVE  Apb(sel) \in Nat /\ Apb(sel) >= 31250000 /\ Apb(sel) <= 250000000
<1>1. sel + 1 \in 2 .. 16 /\ (sel + 1) * 2 \in 4 .. 32
  BY SMT
<1>2. PICK n \in 4 .. 32 : n = (sel + 1) * 2
  BY <1>1, SMT
<1>3. 1000000000 \div n >= 31250000 /\ 1000000000 \div n <= 250000000 /\ 1000000000 \div n \in Nat
  BY SMTT(60)
<1> QED
  BY <1>2, <1>3, SMT DEF Apb

LEMMA HardwareClocks ==
  ASSUME NEW sel \in 1 .. 15, NEW d \in Divs, NEW c, c = FromHardware(sel, d)
  PROVE  /\ c \in [0 .. 4 -> Nat] /\ \A j \in 0 .. 4 : c[j] # 0
         /\ \A s \in I2cSpeeds : c[4] \div s \in Nat /\ c[4] \div s <= QuotientLimit
<1> DEFINE a == Apb(sel)
<1>1. a \in Nat /\ a >= 31250000 /\ a <= 250000000
  BY ApbRange, SMT
<1>2. \A j \in 0 .. 4 : c[j] = IF j = 0 THEN a ELSE (a * 2) \div (d[j] + 2)
  BY SMT DEF FromHardware
<1>3. c = [j \in 0 .. 4 |-> c[j]]
  BY SMT DEF FromHardware
<1> HIDE DEF a
<1>4. ASSUME NEW j \in 1 .. 4
      PROVE  c[j] \in Nat /\ c[j] # 0 /\ c[j] <= a
  <2>1. PICK n \in Nat \ {0} : n = d[j] + 2 /\ n >= 2 /\ n <= 257
    BY SMT DEF Divs
  <2>2. c[j] = (a * 2) \div n
    BY <1>2, <2>1, SMT
  <2>3. a * 2 \in Nat /\ n * 1 <= a * 2
    BY <1>1, <2>1, SMT
  <2>4. (a * 2) \div n >= 1
    BY <2>1, <2>3, QuotientAtLeast, SMT
  <2>5. a * 2 < n * (a + 1)
    <3>1. 2 * (a + 1) <= n * (a + 1)
      BY <1>1, <2>1, SMT
    <3> QED
      BY <1>1, <2>1, <3>1, SMT
  <2>6. (a * 2) \div n <= a /\ (a * 2) \div n \in Nat
    <3> DEFINE m == a * 2
    <3>1. m \in Nat /\ m < n * (a + 1) /\ a \in Nat
      BY <1>1, <2>3, <2>5, SMT
    <3> HIDE DEF m
    <3>2. m \div n \in Nat
      BY <3>1, Quotient, SMT
    <3>3. m \div n <= a
      BY <3>1, QuotientAtMost, SMT
    <3> QED
      BY <3>2, <3>3, Zenon DEF m
  <2> QED
    BY <2>2, <2>4, <2>6, SMT
<1>5. \A j \in 0 .. 4 : c[j] \in Nat /\ c[j] # 0
  <2>1. c[0] = a
    BY <1>2, SMT
  <2> QED
    BY <1>1, <1>4, <2>1, SMT
<1>6. c \in [0 .. 4 -> Nat]
  BY <1>3, <1>5, SMT
<1>7. \A s \in I2cSpeeds : c[4] \div s \in Nat /\ c[4] \div s <= QuotientLimit
  <2>1. c[4] \in Nat /\ c[4] <= 250000000
    BY <1>1, <1>4, SMT
  <2> QED
    BY <2>1, SMT DEF I2cSpeeds, QuotientLimit
<1> QED
  BY <1>5, <1>6, <1>7, Zenon

(* The default clocks are those of the hardware with the driver's dividers *)
(* and an APB clock of 50 MHz, but for clock 3, which the default rounds.  *)
LEMMA DefaultClocks ==
  /\ Ast1060Default \in [0 .. 4 -> Nat]
  /\ \A s \in I2cSpeeds : /\ Ast1060Default[4] \div s \in Nat
                          /\ Ast1060Default[4] \div s <= QuotientLimit
  /\ \A j \in 0 .. 4 : j # 3 => FromHardware(9, GlobalDividers)[j] = Ast1060Default[j]
  /\ FromHardware(9, GlobalDividers)[3] = 2777777 /\ Ast1060Default[3] = 2770000
  /\ Ast1060Default[2] = 10000000 /\ Ast1060Default[1] = 20000000
<1> DEFINE c == Ast1060Default
           h == FromHardware(9, GlobalDividers)
<1>1. /\ c[0] = 50000000 /\ c[1] = 20000000 /\ c[2] = 10000000
      /\ c[3] = 2770000 /\ c[4] = 1000000
  BY SMT DEF Ast1060Default
<1>2. c = [j \in 0 .. 4 |-> c[j]]
  BY SMT DEF Ast1060Default
<1>3. Apb(9) = 50000000
  BY SMT DEF Apb
<1>4. /\ h[0] = Apb(9)
      /\ \A j \in 1 .. 4 : h[j] = (Apb(9) * 2) \div (GlobalDividers[j] + 2)
  BY SMT DEF FromHardware
<1>5. /\ GlobalDividers[1] = 3 /\ GlobalDividers[2] = 8
      /\ GlobalDividers[3] = 34 /\ GlobalDividers[4] = 98
  BY SMT DEF GlobalDividers
<1>6. h[1] = 20000000 /\ h[2] = 10000000 /\ h[3] = 2777777 /\ h[4] = 1000000
  BY <1>3, <1>4, <1>5, SMT
<1>7. \A j \in 0 .. 4 : c[j] \in Nat
  BY <1>1, SMT
<1>8. c \in [0 .. 4 -> Nat]
  BY <1>2, <1>7, SMT
<1>9. \A s \in I2cSpeeds : c[4] \div s \in Nat /\ c[4] \div s <= QuotientLimit
  BY <1>1, SMT DEF I2cSpeeds, QuotientLimit
<1>10. \A j \in 0 .. 4 : j # 3 => h[j] = c[j]
  BY <1>1, <1>3, <1>4, <1>6, SMT
<1> HIDE DEF c, h
<1> QED
  BY <1>1, <1>6, <1>8, <1>9, <1>10, SMT DEF c, h

LEMMA DefaultAtThree ==
  ASSUME NEW s \in I2cSpeeds, NEW d, d = CalculateDivider(Ast1060Default, s), d.div = 3
  PROVE  s = 100000 /\ d.ratio = 28
<1> DEFINE c == Ast1060Default
<1>1. c[1] = 20000000 /\ c[2] = 10000000 /\ c[3] = 2770000
  BY DefaultClocks, SMT
<1> HIDE DEF c
<1>2. \A j \in 0 .. 3 : j \in Fits(c, s) <=> c[j] # 0 /\ c[j] \div s <= 32
  BY SMT DEF Fits, MaxRatio
<1>3. 3 \in Fits(c, s)
  BY <1>1, <1>2, SMT DEF I2cSpeeds
<1>4. Fits(c, s) \subseteq 0 .. 3 /\ Fits(c, s) # {}
  BY <1>3, SMT DEF Fits
<1>5. d.div = Least(Fits(c, s)) /\ d.ratio = RoundUp(c[Least(Fits(c, s))], s)
  BY <1>4, SMT DEF CalculateDivider, c
<1>6. \A j \in Fits(c, s) : 3 <= j
  BY <1>4, <1>5, LeastIs, SMT
<1>7. s = 100000
  <2>1. 1 \notin Fits(c, s) /\ 2 \notin Fits(c, s)
    BY <1>6, SMT
  <2> QED
    BY <1>1, <1>2, <2>1, SMT DEF I2cSpeeds
<1>8. RoundUp(2770000, 100000) = 28
  BY SMT DEF RoundUp
<1> QED
  BY <1>1, <1>5, <1>7, <1>8, SMT

-----------------------------------------------------------------------------
(* What the registers hold is what some configuration makes of the clocks. *)

CoreBus(x) ==
  x.by = "core" /\ x.ret = "ok" =>
    /\ x.used \in [0 .. 4 -> Nat] /\ x.speed \in Speeds
    /\ \E tout \in BOOLEAN : x.reg = CoreFields(x.used, x.speed, tout)
Panics(x) ==
  LET t == LegacyTimes(x.manual, LegacyDivider(x.used, x.speed).ratio)
  IN  t.unwritten \/ t.high = 0
LegacyBus(x) ==
  x.by = "legacy" =>
    /\ \E sel \in ApbSels, d \in Divs : x.used = FromHardware(sel, d)
    /\ x.speed \in Speeds
    /\ x.ret = IF Panics(x) THEN "panic" ELSE "ok"
    /\ \E tout \in BOOLEAN :
         x.meant = IF Panics(x) THEN Reset ELSE MeantBy(x.used, x.speed, x.manual, tout)

TimingInv ==
  /\ apb \in ApbSels /\ base \in Divs /\ clocks \in [0 .. 4 -> Nat]
  /\ bus = [b \in Buses |-> bus[b]]
  /\ \A b \in Buses : CoreBus(bus[b]) /\ LegacyBus(bus[b])
  /\ i3c.ret = "ok" => \E c \in I3cConfs : c.core # 0 /\ c.i2c # 0 /\ i3c = I3cClock(c)

LEMMA TimingAssumed ==
  /\ ApbSels \subseteq 1 .. 15 /\ Dividers \subseteq Divs
  /\ OwnClocks \subseteq [0 .. 4 -> Nat] /\ Speeds \subseteq I2cSpeeds
BY TimingAssumption, SMT DEF TimingAssumption, Divs, I2cSpeeds

(* Clocks that a configuration may hold.                                   *)
LEMMA ClocksTyped ==
  ASSUME apb \in ApbSels, base \in Divs,
         NEW c \in {FromHardware(apb, base), Ast1060Default} \cup OwnClocks
  PROVE  c \in [0 .. 4 -> Nat]
<1>1. FromHardware(apb, base) \in [0 .. 4 -> Nat]
  BY TimingAssumed, HardwareClocks, SMT
<1>2. Ast1060Default \in [0 .. 4 -> Nat]
  BY DefaultClocks, SMT
<1>3. OwnClocks \subseteq [0 .. 4 -> Nat]
  BY TimingAssumed
<1> QED
  BY <1>1, <1>2, <1>3, Zenon

LEMMA UnusedBus == CoreBus(Unused) /\ LegacyBus(Unused)
BY SMT DEF CoreBus, LegacyBus, Unused

LEMMA GlobalDivs == GlobalDividers \in Divs
BY SMT DEF GlobalDividers, Divs

LEMMA TimingInvInit == TimingInit => TimingInv
<1> SUFFICES ASSUME TimingInit PROVE TimingInv
  OBVIOUS
<1>1. apb \in ApbSels /\ base \in Divs
  BY TimingAssumed, Zenon DEF TimingInit
<1>2. clocks \in [0 .. 4 -> Nat]
  BY <1>1, ClocksTyped, Zenon DEF TimingInit
<1>3. bus = [b \in Buses |-> Unused]
  BY DEF TimingInit
<1>4. \A b \in Buses : CoreBus(bus[b]) /\ LegacyBus(bus[b])
  BY <1>3, UnusedBus, Zenon
<1>5. bus = [b \in Buses |-> bus[b]]
  BY <1>3, SMT
<1>6. i3c.ret # "ok"
  BY SMT DEF TimingInit, I3cUnused
<1> QED
  BY <1>1, <1>2, <1>4, <1>5, <1>6 DEF TimingInv

LEMMA TimingInvStep == TimingInv /\ [TimingNext]_timingVars => TimingInv'
<1> SUFFICES ASSUME TimingInv, [TimingNext]_timingVars PROVE TimingInv'
  OBVIOUS
<1> USE DEF TimingInv
<1>1. CASE InitI2cGlobal
  <2>1. bus' = [b \in Buses |-> Unused] /\ base' \in Divs
    BY <1>1, GlobalDivs, Zenon DEF InitI2cGlobal, SetUpGlobal
  <2>2. \A b \in Buses : CoreBus(bus'[b]) /\ LegacyBus(bus'[b])
    BY <2>1, UnusedBus, SMT
  <2>3. UNCHANGED <<apb, clocks, i3c>>
    BY <1>1 DEF InitI2cGlobal
  <2>4. bus' = [b \in Buses |-> bus'[b]]
    BY <2>1, SMT
  <2> QED
    BY <2>1, <2>2, <2>3, <2>4, Zenon
<1>2. CASE MakeConfig
  <2>1. clocks' \in [0 .. 4 -> Nat]
    BY <1>2, ClocksTyped, Zenon DEF MakeConfig
  <2>2. UNCHANGED <<apb, base, bus, i3c>>
    BY <1>2 DEF MakeConfig
  <2> QED
    BY <2>1, <2>2, Zenon
<1>3. ASSUME NEW b \in Buses, NEW speed \in Speeds, NEW timeout \in BOOLEAN,
             InitHardware(b, speed, timeout)
      PROVE  TimingInv'
  <2> DEFINE x == bus'[b]
  <2>1. x = IF Unachievable(clocks, speed)
            THEN [Unused EXCEPT !.by = "core", !.ret = "Invalid", !.reg = bus[b].reg]
            ELSE [Unused EXCEPT !.by = "core", !.ret = "ok", !.speed = speed,
                           !.used = clocks, !.reg = CoreFields(clocks, speed, timeout)]
    BY <1>3, SMT DEF InitHardware
  <2>2. x.by = "core"
    BY <2>1, SMT DEF Unused
  <2>3. x.ret = "ok" =>
          x.used = clocks /\ x.speed = speed /\ x.reg = CoreFields(clocks, speed, timeout)
    BY <2>1, SMT DEF Unused
  <2>4. \A e \in Buses : e # b => bus'[e] = bus[e]
    BY <1>3, SMT DEF InitHardware
  <2>5. bus' = [e \in Buses |-> bus'[e]]
    BY <1>3, SMT DEF InitHardware
  <2>6. UNCHANGED <<apb, base, clocks, i3c>>
    BY <1>3 DEF InitHardware
  <2> HIDE DEF x
  <2>7. CoreBus(x) /\ LegacyBus(x)
    BY <2>2, <2>3, SMT DEF CoreBus, LegacyBus
  <2>8. \A e \in Buses : CoreBus(bus'[e]) /\ LegacyBus(bus'[e])
    BY <2>4, <2>7, Zenon DEF x
  <2> QED
    BY <2>5, <2>6, <2>8, Zenon
<1>4. ASSUME NEW b \in Buses, NEW speed \in Speeds, NEW timeout \in BOOLEAN,
             NEW m \in Manuals, InitLegacy(b, speed, m, timeout)
      PROVE  TimingInv'
  <2> DEFINE now == IF inited THEN base ELSE GlobalDividers
             c == FromHardware(apb, now)
             f == MeantBy(c, speed, m, timeout)
             t == LegacyTimes(m, LegacyDivider(c, speed).ratio)
             panics == t.unwritten \/ t.high = 0
             others == IF inited THEN bus ELSE [e \in Buses |-> Unused]
             reg == IF t.unwritten THEN others[b].reg
                    ELSE IF panics THEN Reset ELSE LastWrite(f, m, timeout)
             x == bus'[b]
  <2>1. /\ base' = now
        /\ bus' = [others EXCEPT ![b] =
             [by |-> "legacy", ret |-> IF panics THEN "panic" ELSE "ok", speed |-> speed,
              used |-> c, meant |-> IF panics THEN Reset ELSE f, manual |-> m, reg |-> reg]]
        /\ UNCHANGED <<apb, clocks, i3c>>
    BY <1>4, Zenon DEF InitLegacy
  <2>2. now \in Divs
    BY GlobalDivs, Zenon
  <2>3. others = [e \in Buses |-> others[e]]
        /\ \A e \in Buses : CoreBus(others[e]) /\ LegacyBus(others[e])
    BY UnusedBus, SMT
  <2> HIDE DEF others, reg, c, f, panics, now
  <2>4. bus' = [e \in Buses |-> bus'[e]] /\ \A e \in Buses : e # b => bus'[e] = others[e]
    BY <2>1, <2>3, SMT
  <2>5. x = [by |-> "legacy", ret |-> IF panics THEN "panic" ELSE "ok", speed |-> speed,
             used |-> c, meant |-> IF panics THEN Reset ELSE f, manual |-> m, reg |-> reg]
    BY <2>1, <2>3, SMT
  <2> HIDE DEF x
  <2>6. /\ x.by = "legacy" /\ x.speed = speed /\ x.used = c /\ x.manual = m
        /\ x.ret = IF panics THEN "panic" ELSE "ok"
        /\ x.meant = IF panics THEN Reset ELSE f
    BY <2>5, SMT
  <2>7. Panics(x) = panics
    BY <2>6, Zenon DEF Panics, panics
  <2>8. LegacyBus(x)
    <3>1. c = FromHardware(apb, now)
      BY DEF c
    <3>2. f = MeantBy(x.used, x.speed, x.manual, timeout)
      BY <2>6, Zenon DEF f
    <3> QED
      BY <2>2, <2>6, <2>7, <3>1, <3>2, Zenon DEF LegacyBus
  <2>9. CoreBus(x)
    BY <2>6, SMT DEF CoreBus
  <2>10. \A e \in Buses : CoreBus(bus'[e]) /\ LegacyBus(bus'[e])
    BY <2>3, <2>4, <2>8, <2>9, Zenon DEF x
  <2> QED
    BY <2>1, <2>2, <2>4, <2>10, Zenon
<1>5. ASSUME NEW c \in I3cConfs, InitClock(c)
      PROVE  TimingInv'
  <2>1. UNCHANGED <<apb, base, clocks, bus>>
    BY <1>5 DEF InitClock
  <2>2. i3c' = IF c.core = None \/ c.i2c = 0
               THEN [i3c EXCEPT !.conf = c, !.ret = "panic"] ELSE I3cClock(c)
    BY <1>5 DEF InitClock
  <2>3. CASE c.core = None \/ c.i2c = 0
    <3>1. i3c'.ret # "ok"
      <4>1. i3c' = [i3c EXCEPT !.conf = c, !.ret = "panic"]
        BY <2>2, <2>3
      <4> QED
        BY <4>1
    <3> QED
      BY <2>1, <3>1, Zenon
  <2>4. CASE ~(c.core = None \/ c.i2c = 0)
    <3>1. i3c' = I3cClock(c) /\ c.core # 0 /\ c.i2c # 0
      BY <2>2, <2>4, SMT DEF None
    <3> QED
      BY <2>1, <3>1, Zenon
  <2> QED
    BY <2>3, <2>4
<1>6. CASE UNCHANGED timingVars
  BY <1>6, Zenon DEF timingVars
<1> QED
  BY <1>1, <1>2, <1>3, <1>4, <1>5, <1>6, Zenon DEF TimingNext

LEMMA TimingInvariant == TimingSpec => []TimingInv
<1>1. TimingInit => TimingInv
  BY TimingInvInit
<1>2. TimingInv /\ [TimingNext]_timingVars => TimingInv'
  BY TimingInvStep
<1> QED
  BY <1>1, <1>2, PTL DEF TimingSpec

(* The rate on the hardware as it is, if the configuration told the truth. *)
LEMMA TrueRate ==
  ASSUME NEW s \in I2cSpeeds, NEW c \in [0 .. 4 -> Nat], NEW h \in [0 .. 4 -> Nat],
         \A t \in I2cSpeeds : c[4] \div t \in Nat /\ c[4] \div t <= QuotientLimit,
         c = h \/ (c = Ast1060Default /\ h = FromHardware(9, GlobalDividers)),
         ~SomethingOver(c, s), NEW tout, NEW r, r = CoreFields(c, s, tout)
  PROVE  /\ ClockAt(h, r.div) \div Period(r) <= s
         /\ Period(r) > 2 =>
              ClockAt(h, r.div) \div (Period(r) - 1 - Spare(r.div)) >= s
<1>1. s \in Nat \ {0}
  BY SMT DEF I2cSpeeds
<1>2. PICK q \in Nat : q = c[4] \div s /\ q <= QuotientLimit
  OBVIOUS
<1>3. /\ r.div \in 0 .. 15
      /\ ClockAt(c, r.div) \div Period(r) <= s
      /\ Period(r) > 2 =>
           ClockAt(c, r.div) \div (Period(r) - 1 - Spare(r.div)) >= s
  BY <1>1, <1>2, CoreFieldsRate, Zenon
<1>4. CASE c = h
  BY <1>3, <1>4
<1>5. CASE c = Ast1060Default /\ h = FromHardware(9, GlobalDividers)
  <2>1. \A j \in 0 .. 4 : j # 3 => h[j] = c[j]
    BY <1>5, DefaultClocks, SMT
  <2>2. CASE r.div # 3
    <3>1. ClockAt(h, r.div) = ClockAt(c, r.div)
      BY <1>3, <2>1, <2>2, SMT DEF ClockAt
    <3> QED
      BY <1>3, <3>1
  <2>3. CASE r.div = 3
    <3> DEFINE d == CalculateDivider(c, s)
    <3>1. r.div = d.div
      BY DEF CoreFields
    <3>2. s = 100000 /\ d.ratio = 28
      BY <1>5, <2>3, <3>1, DefaultAtThree, SMT
    <3> HIDE DEF d
    <3>3. Period(r) = 28
      BY <3>2, FieldsPeriod, SMT DEF d, MaxRatio
    <3>4. ClockAt(h, r.div) = 2777777 /\ Spare(r.div) = 0
      BY <1>5, <2>3, DefaultClocks, SMT DEF ClockAt, Spare
    <3> QED
      BY <3>2, <3>3, <3>4, SMT
  <2> QED
    BY <2>2, <2>3
<1> QED
  BY <1>4, <1>5

(* For every number of controllers, every setting of the dividers and      *)
(* every order of set-ups: the core driver's buses have the rate asked     *)
(* for, and at most a cycle more than they need where the clock is halved. *)
THEOREM TimingCoreRate == TimingSpec => []CoreRate
<1>1. TimingInv => CoreRate
  <2> SUFFICES ASSUME TimingInv, NEW b \in Buses,
                      bus[b].by = "core", bus[b].ret = "ok", TrueClocks(b),
                      ~SomethingOver(bus[b].used, bus[b].speed)
               PROVE  LET r == bus[b].reg
                          clk == ClockAt(Here.clocks, r.div)
                      IN  /\ clk \div Period(r) <= bus[b].speed
                          /\ Period(r) > 2 =>
                               clk \div (Period(r) - 1 - Spare(r.div))
                                 >= bus[b].speed
    BY Zenon DEF CoreRate
  <2> DEFINE c == bus[b].used
             s == bus[b].speed
             h == FromHardware(apb, base)
  <2>1. /\ c \in [0 .. 4 -> Nat] /\ s \in Speeds
        /\ \E tout \in BOOLEAN : bus[b].reg = CoreFields(c, s, tout)
    BY Zenon DEF TimingInv, CoreBus
  <2>2. PICK tout \in BOOLEAN : bus[b].reg = CoreFields(c, s, tout)
    BY <2>1
  <2>3. s \in I2cSpeeds
    BY <2>1, TimingAssumed, Zenon
  <2>4. /\ h \in [0 .. 4 -> Nat]
        /\ \A t \in I2cSpeeds : h[4] \div t \in Nat /\ h[4] \div t <= QuotientLimit
    BY TimingAssumed, HardwareClocks, Zenon DEF TimingInv
  <2>5. Here.clocks = h
    BY DEF Here
  <2>6. c = h \/ (c = Ast1060Default /\ h = FromHardware(9, GlobalDividers))
    <3>1. c = h \/ (c = Ast1060Default /\ apb = 9 /\ base = GlobalDividers)
      BY <2>5 DEF TrueClocks
    <3>2. CASE apb = 9 /\ base = GlobalDividers
      BY <3>1, <3>2
    <3> QED
      BY <3>1, <3>2
  <2>7. \A t \in I2cSpeeds : c[4] \div t \in Nat /\ c[4] \div t <= QuotientLimit
    <3>1. \A t \in I2cSpeeds : /\ Ast1060Default[4] \div t \in Nat
                               /\ Ast1060Default[4] \div t <= QuotientLimit
      BY DefaultClocks, SMT
    <3> QED
      BY <2>4, <2>6, <3>1, Zenon
  <2>8. ~SomethingOver(c, s)
    OBVIOUS
  <2> HIDE DEF c, s, h
  <2> DEFINE r == bus[b].reg
  <2>9. r = CoreFields(c, s, tout)
    BY <2>2
  <2> HIDE DEF r
  <2>10. /\ ClockAt(h, r.div) \div Period(r) <= s
         /\ Period(r) > 2 =>
              ClockAt(h, r.div) \div (Period(r) - 1 - Spare(r.div)) >= s
    BY <2>1, <2>3, <2>4, <2>6, <2>7, <2>8, <2>9, TrueRate, Zenon
  <2> QED
    BY <2>5, <2>10, Zenon DEF s, r
<1> QED
  BY <1>1, TimingInvariant, PTL


-----------------------------------------------------------------------------
(* Halving round by round, with a lost bit, is dividing and rounding up.   *)

LEMMA TwiceTheDivisor ==
  ASSUME NEW r \in Nat, NEW p \in Nat \ {0}
  PROVE  r % (2 * p) # 0 <=> r % p # 0 \/ (r \div p) % 2 = 1
<1> DEFINE q == r \div p
           e == r % p
           h == q \div 2
           o == q % 2
<1>1. q \in Nat /\ e \in 0 .. p - 1 /\ r = p * q + e
  BY Quotient
<1>2. h \in Nat /\ o \in 0 .. 1 /\ q = 2 * h + o
  BY <1>1, Quotient
<1> HIDE DEF q, e, h, o
<1>3. r = (2 * p) * h + (p * o + e) /\ p * o + e \in 0 .. 2 * p - 1
  <2>1. p * (2 * h + o) = (2 * p) * h + p * o
    BY <1>2
  <2>2. CASE o = 0
    BY <1>1, <1>2, <2>1, <2>2
  <2>3. CASE o = 1
    BY <1>1, <1>2, <2>1, <2>3
  <2> QED
    BY <1>2, <2>2, <2>3
<1>4. r % (2 * p) = p * o + e
  <2> DEFINE b == 2 * p
             z == p * o + e
             g == r \div b
             y == r % b
  <2>1. b \in Nat \ {0} /\ z \in 0 .. b - 1 /\ r = b * h + z
    BY <1>3
  <2>2. g \in Nat /\ y \in 0 .. b - 1 /\ r = b * g + y
    BY <2>1, Quotient
  <2> HIDE DEF b, z, g, y
  <2>3. b * (h + 1) = b * h + b /\ b * h <= r
    BY <1>2, <2>1
  <2>4. r < b * (h + 1)
    BY <1>2, <2>1, <2>3
  <2>5. g = h
    BY <1>2, <2>1, <2>2, <2>3, <2>4, QuotientAtLeast, QuotientAtMost DEF g
  <2>6. y = z
    BY <1>2, <2>1, <2>2, <2>5
  <2> QED
    BY <2>6 DEF b, y, z
<1>5. p * o + e # 0 <=> e # 0 \/ o = 1
  <2>1. CASE o = 0
    BY <1>1, <2>1
  <2>2. CASE o = 1
    BY <1>1, <2>2
  <2> QED
    BY <1>2, <2>1, <2>2
<1> QED
  BY <1>4, <1>5 DEF e, o, q

LEMMA NextPower ==
  \A n \in 1 .. 11 : n + 1 \in 1 .. 12 /\ Power[n + 1] = 2 * Power[n]
BY DEF Power

LEMMA LostBits ==
  ASSUME NEW r \in Nat, NEW n \in 1 .. 12
  PROVE  Lost(r, n) <=> r % Power[n] # 0
<1> DEFINE S == {m \in 1 .. 12 : ~(Lost(r, m) <=> r % Power[m] # 0)}
<1>1. ASSUME S # {} PROVE FALSE
  <2>1. PICK m \in S : \A x \in S : m <= x
    BY <1>1, LeastIs
  <2>2. CASE m = 1
    <3>1. ~Lost(r, 1)
      BY DEF Lost
    <3>2. r % 1 = 0
      OBVIOUS
    <3> QED
      BY <2>2, <3>1, <3>2, Powers
  <2>3. CASE m # 1
    <3>1. PICK j \in 1 .. 11 : m = j + 1
      <4>1. m - 1 \in 1 .. 11 /\ m = (m - 1) + 1
        BY <2>3
      <4> QED
        BY <4>1
    <3>2. Lost(r, j) <=> r % Power[j] # 0
      <4>1. j \in 1 .. 12 /\ ~(m <= j)
        BY <3>1
      <4>2. j \notin S
        BY <2>1, <4>1
      <4> QED
        BY <4>1, <4>2
    <3>3. Lost(r, m) <=> Lost(r, j) \/ (r \div Power[j]) % 2 = 1
      <4>1. 1 .. m - 1 = (1 .. j - 1) \cup {j}
        BY <3>1
      <4> QED
        BY <4>1, Zenon DEF Lost
    <3>4. r % Power[m] # 0 <=> r % Power[j] # 0 \/ (r \div Power[j]) % 2 = 1
      <4> DEFINE p == Power[j]
      <4>1. p \in Nat \ {0} /\ Power[m] = 2 * p
        BY <3>1, NextPower, Powers
      <4> HIDE DEF p
      <4>2. r % (2 * p) # 0 <=> r % p # 0 \/ (r \div p) % 2 = 1
        BY <4>1, TwiceTheDivisor
      <4> QED
        BY <4>1, <4>2, Zenon DEF p
    <3> QED
      BY <3>2, <3>3, <3>4, Zenon
  <2> QED
    BY <2>2, <2>3
<1> QED
  BY <1>1

LEMMA HalvedIs ==
  ASSUME NEW r \in Nat
  PROVE  /\ \A n \in 1 .. 12 : Halved(r, n) = CeilDiv(r, Power[n])
         /\ Rounds(r) = Halvings(r)
<1>1. ASSUME NEW n \in 1 .. 12 PROVE Halved(r, n) = CeilDiv(r, Power[n])
  <2> DEFINE p == Power[n]
  <2>1. p \in Nat \ {0} /\ (Lost(r, n) <=> r % p # 0)
    BY Powers, LostBits
  <2>2. Halved(r, n) = (r \div p) + (IF Lost(r, n) THEN 1 ELSE 0)
    BY DEF Halved
  <2> HIDE DEF p
  <2>3. CeilDiv(r, p) = (r \div p) + (IF r % p = 0 THEN 0 ELSE 1)
    BY <2>1, CeilFacts
  <2>4. Halved(r, n) = CeilDiv(r, p)
    <3>1. CASE Lost(r, n)
      BY <2>1, <2>2, <2>3, <3>1
    <3>2. CASE ~Lost(r, n)
      BY <2>1, <2>2, <2>3, <3>2
    <3> QED
      BY <3>1, <3>2
  <2> QED
    BY <2>4 DEF p
<1>2. {n \in DOMAIN Power : Halved(r, n) <= MaxRatio}
        = {n \in DOMAIN Power : CeilDiv(r, Power[n]) <= MaxRatio}
  <2>1. \A n \in DOMAIN Power : Halved(r, n) = CeilDiv(r, Power[n])
    BY <1>1, Powers
  <2> QED
    BY <2>1
<1> QED
  BY <1>1, <1>2, Zenon DEF Rounds, Halvings

-----------------------------------------------------------------------------
(* The two drivers, from the same clocks.                                  *)

LEMMA SameDivider ==
  ASSUME NEW c \in [0 .. 4 -> Nat], \A j \in 0 .. 4 : c[j] # 0,
         NEW s \in Nat \ {0}, NEW q \in Nat, q = c[4] \div s, q <= QuotientLimit,
         NEW l, l = LegacyDivider(c, s), NEW d, d = CalculateDivider(c, s)
  PROVE  /\ l.div = d.div /\ d.ratio \in Nat \ {0}
         /\ (l.ratio = d.ratio \/ (l.ratio = 0 /\ d.ratio = 1))
<1> DEFINE F == {j \in 0 .. 3 : c[j] \div s <= MaxRatio}
           first == Least(F)
           n == Rounds(q)
           slow == Halved(q, n)
<1>1. F = Fits(c, s)
  BY DEF Fits
<1>2. l = IF F # {}
          THEN IF c[first] \div s = 0 THEN [div |-> first, ratio |-> 0]
               ELSE [div |-> first,
                     ratio |-> IF c[first] \div (c[first] \div s) > s
                               THEN (c[first] \div s) + 1 ELSE c[first] \div s]
          ELSE [div |-> (3 + n) % 16,
                ratio |-> IF slow = 0 THEN 0
                          ELSE AtMost(IF c[4] \div slow > s THEN slow + 1 ELSE slow,
                                      MaxRatio)]
  BY Zenon DEF LegacyDivider
<1>3. CASE F # {}
  <2>1. PICK j \in F : j = first
    BY <1>3, LeastIs
  <2> DEFINE clk == c[j]
             r == clk \div s
  <2>2. clk \in Nat /\ r \in Nat
    <3>1. j \in 0 .. 4
      BY <2>1
    <3>2. clk \in Nat
      BY <3>1
    <3> HIDE DEF clk
    <3> QED
      BY <3>2, Quotient
  <2>3. d = [div |-> j, ratio |-> RoundUp(clk, s)]
    BY <1>1, <1>3, <2>1, Zenon DEF CalculateDivider
  <2>4. l = IF r = 0 THEN [div |-> j, ratio |-> 0]
            ELSE [div |-> j, ratio |-> IF clk \div r > s THEN r + 1 ELSE r]
    BY <1>2, <1>3, <2>1, Zenon
  <2>5. RoundUp(clk, s) = IF r = 0 THEN 1 ELSE IF clk \div r > s THEN r + 1 ELSE r
    BY DEF RoundUp
  <2> HIDE DEF clk, r, F
  <2> QED
    BY <2>2, <2>3, <2>4, <2>5
<1>4. CASE F = {}
  <2> DEFINE r == CeilDiv(q, Power[n])
             clk == c[4]
             up == IF clk \div r > s THEN r + 1 ELSE r
  <2>1. n = Halvings(q)
    BY HalvedIs
  <2>2. n \in 1 .. 12 /\ r \in 0 .. 32
    BY <2>1, HalvedFits DEF MaxRatio
  <2>3. slow = r
    BY <2>2, HalvedIs
  <2>4. d = [div |-> (3 + n) % 16,
             ratio |-> AtLeast(AtMost(IF r > 0 /\ clk \div r > s THEN r + 1 ELSE r,
                                      MaxRatio), 1)]
    BY <1>1, <1>4, <2>1, Zenon DEF CalculateDivider, SlowDivider
  <2>5. l = [div |-> (3 + n) % 16,
             ratio |-> IF r = 0 THEN 0 ELSE AtMost(up, MaxRatio)]
    BY <1>2, <1>4, <2>3, Zenon
  <2> HIDE DEF r, n, clk, F, slow, first
  <2>6. l.div = d.div
    BY <2>4, <2>5
  <2>7. CASE r = 0
    <3>1. d.ratio = 1 /\ l.ratio = 0
      BY <2>4, <2>5, <2>7 DEF AtLeast, AtMost, MaxRatio
    <3> QED
      BY <2>6, <3>1
  <2>8. CASE r # 0
    <3>1. up \in 1 .. 33 /\ r > 0
      BY <2>2, <2>8
    <3>2. d.ratio = AtLeast(AtMost(up, MaxRatio), 1) /\ l.ratio = AtMost(up, MaxRatio)
      BY <2>4, <2>5, <2>8, <3>1
    <3> HIDE DEF up
    <3> QED
      BY <2>6, <3>1, <3>2 DEF AtLeast, AtMost, MaxRatio
  <2> QED
    BY <2>7, <2>8
<1> QED
  BY <1>3, <1>4

(* The times of the legacy driver without manual ones.                     *)
LEMMA LegacyTimesAre ==
  ASSUME NEW m, m.low = 0, m.high = 0, NEW r \in Nat, NEW t, t = LegacyTimes(m, r)
  PROVE  /\ t.low = (r * 9) \div 16 - 1 /\ t.high = r - t.low - 2
         /\ t.unwritten \/ t.high = 0 <=> r < 3
<1> DEFINE x == (r * 9) \div 16
<1>1. x \in Nat /\ 16 * x <= 9 * r /\ 9 * r < 16 * (x + 1)
  OBVIOUS
<1>2. ManualLow(m, r) = x - 1
  BY DEF ManualLow
<1>3. \A y : ManualHigh(m, r, y) = r - y - 2
  <2>1. \A n \in 1 .. 8 : (0 \div Power[n]) % 2 # 1
    <3>1. \A p \in Nat \ {0} : (0 \div p) % 2 # 1
      <4> TAKE p \in Nat \ {0}
      <4>1. 0 \div p >= 0 /\ 0 \div p <= 0
        BY QuotientAtLeast, QuotientAtMost
      <4>2. 0 \div p = 0
        BY <4>1, Quotient
      <4> QED
        BY <4>2
    <3> QED
      BY <3>1, Powers
  <2> QED
    BY <2>1 DEF ManualHigh, Shared
<1> HIDE DEF x
<1>4. /\ t.low = x - 1 /\ t.high = r - (x - 1) - 2
      /\ t.unwritten = (r = 0 \/ t.low < 0 \/ t.high < 0)
  BY <1>2, <1>3 DEF LegacyTimes
<1>5. (r = 0 \/ t.low < 0 \/ t.high < 0) \/ t.high = 0 <=> r < 3
  BY <1>1, <1>4
<1> QED
  BY <1>4, <1>5 DEF x

LEMMA SameTimes ==
  ASSUME NEW r \in 3 .. 30, NEW l, l = (r * 9) \div 16 - 1, NEW h, h = r - l - 2
  PROVE  /\ SclLow(r) = AtMost(l, 15) /\ SclHigh(r, SclLow(r)) = AtMost(h, 15)
         /\ Sat(AtMost(h, 15) - 1) = AtMost(h, 15) - 1
<1> DEFINE x == (r * 9) \div 16
<1>1. x \in Nat /\ 16 * x <= 9 * r /\ 9 * r < 16 * (x + 1) /\ l = x - 1
  OBVIOUS
<1> HIDE DEF x
<1>2. l \in 0 .. 15 /\ h \in 1 .. 15
  BY <1>1
<1>3. SclLow(r) = l
  BY <1>1, <1>2 DEF SclLow, Sat, AtMost, AtLeast, x
<1>4. SclHigh(r, l) = h
  BY <1>2 DEF SclHigh, Sat, AtMost, AtLeast
<1> QED
  BY <1>2, <1>3, <1>4 DEF Sat, AtMost, AtLeast

(* For every controller and every clock of the hardware, the two drivers   *)
(* agree on divider and times, and the legacy driver panics on the ratios  *)
(* too small for it, and on no others.                                     *)
THEOREM TimingDriversAgree == TimingSpec => []DriversAgree
<1>1. TimingInv => DriversAgree
  <2> SUFFICES ASSUME TimingInv, NEW b \in Buses, NEW x, x = bus[b],
                      x.by = "legacy", x.manual.low = 0, x.manual.high = 0,
                      NEW d, d = CalculateDivider(x.used, x.speed)
               PROVE  /\ (x.ret = "panic") <=> d.ratio < 3
                      /\ d.ratio \in 3 .. 30 =>
                           [x.meant EXCEPT !.hold = 0]
                             = CoreFields(x.used, x.speed, x.meant.tout)
    BY Zenon DEF DriversAgree
  <2> DEFINE c == x.used
             s == x.speed
             m == x.manual
             l == LegacyDivider(c, s)
             t == LegacyTimes(m, l.ratio)
  <2>1. LegacyBus(x)
    BY DEF TimingInv
  <2>2. /\ \E sel \in ApbSels, e \in Divs : c = FromHardware(sel, e)
        /\ s \in Speeds
    BY <2>1 DEF LegacyBus
  <2>3. x.ret = (IF Panics(x) THEN "panic" ELSE "ok")
    BY <2>1 DEF LegacyBus
  <2>4. /\ c \in [0 .. 4 -> Nat] /\ \A j \in 0 .. 4 : c[j] # 0
        /\ s \in I2cSpeeds /\ c[4] \div s \in Nat /\ c[4] \div s <= QuotientLimit
    BY <2>2, TimingAssumed, HardwareClocks, Zenon
  <2>5. s \in Nat \ {0}
    BY <2>4, SMT DEF I2cSpeeds
  <2>6. /\ l.div = d.div /\ d.ratio \in Nat \ {0}
        /\ l.ratio = d.ratio \/ (l.ratio = 0 /\ d.ratio = 1)
    <3>1. PICK q \in Nat : q = c[4] \div s /\ q <= QuotientLimit
      BY <2>4
    <3> HIDE DEF c, s, l
    <3>2. l = LegacyDivider(c, s) /\ d = CalculateDivider(c, s)
      BY DEF l, c, s
    <3> QED
      BY ONLY <2>4, <2>5, <3>1, <3>2, SameDivider, SMTT(30)
  <2>7. l.ratio \in Nat
    BY <2>6
  <2>8. /\ t.low = (l.ratio * 9) \div 16 - 1 /\ t.high = l.ratio - t.low - 2
        /\ t.unwritten \/ t.high = 0 <=> l.ratio < 3
    <3>1. m.low = 0 /\ m.high = 0 /\ t = LegacyTimes(m, l.ratio)
      OBVIOUS
    <3> HIDE DEF m, t, l
    <3> QED
      BY ONLY <2>7, <3>1, LegacyTimesAre, SMTT(30)
  <2>9. Panics(x) <=> t.unwritten \/ t.high = 0
    BY DEF Panics
  <2>10. Panics(x) <=> d.ratio < 3
    <3> HIDE DEF t, l, c, s, m
    <3> QED
      BY <2>6, <2>8, <2>9
  <2>11. ASSUME d.ratio \in 3 .. 30
         PROVE  [x.meant EXCEPT !.hold = 0] = CoreFields(c, s, x.meant.tout)
    <3>1. ~Panics(x)
      BY <2>10, <2>11
    <3>2. PICK tout \in BOOLEAN : x.meant = MeantBy(c, s, m, tout)
      BY <2>1, <3>1, Zenon DEF LegacyBus
    <3>3. l.ratio = d.ratio
      BY <2>6, <2>11
    <3> DEFINE r == d.ratio
               hold == IF m.hold < 4 THEN m.hold ELSE 0
    <3>4. x.meant = [div |-> d.div, low |-> AtMost(t.low, 15),
                     high |-> AtMost(t.high, 15), hmin |-> AtMost(t.high, 15) - 1,
                     tout |-> tout, hold |-> hold]
      BY <2>6, <3>2, Zenon DEF MeantBy
    <3>5. CoreFields(c, s, tout)
            = [div |-> d.div, low |-> SclLow(r), high |-> SclHigh(r, SclLow(r)),
               hmin |-> Sat(SclHigh(r, SclLow(r)) - 1), tout |-> tout, hold |-> 0]
      BY Zenon DEF CoreFields
    <3>6. /\ SclLow(r) = AtMost(t.low, 15)
          /\ SclHigh(r, SclLow(r)) = AtMost(t.high, 15)
          /\ Sat(AtMost(t.high, 15) - 1) = AtMost(t.high, 15) - 1
      <4> DEFINE low == t.low
                 high == t.high
      <4>1. /\ r \in 3 .. 30 /\ low = (r * 9) \div 16 - 1
            /\ high = r - low - 2
        BY <2>8, <2>11, <3>3
      <4> HIDE DEF low, high, r
      <4> QED
        BY <4>1, SameTimes DEF low, high
    <3> HIDE DEF t, hold, r
    <3>7. x.meant.tout = tout
      BY <3>4
    <3>8. [x.meant EXCEPT !.hold = 0]
            = [div |-> d.div, low |-> AtMost(t.low, 15),
               high |-> AtMost(t.high, 15), hmin |-> AtMost(t.high, 15) - 1,
               tout |-> tout, hold |-> 0]
      BY <3>4
    <3>9. Sat(SclHigh(r, SclLow(r)) - 1) = AtMost(t.high, 15) - 1
      BY <3>6
    <3> QED
      BY <3>5, <3>6, <3>7, <3>8, <3>9
  <2> QED
    BY <2>3, <2>10, <2>11
<1> QED
  BY <1>1, TimingInvariant, PTL

-----------------------------------------------------------------------------
(* The clock of the I3C controller: what rounding up keeps.                *)

LEMMA CeilAtLeast ==
  ASSUME NEW n \in Nat, NEW d \in Nat \ {0}, NEW m \in Nat, d * m < n
  PROVE  CeilDiv(n, d) \in Nat /\ CeilDiv(n, d) > m
<1> DEFINE q == CeilDiv(n, d)
<1>1. q \in Nat /\ d * q >= n
  BY CeilFacts
<1> HIDE DEF q
<1>2. ASSUME q <= m PROVE FALSE
  <2>1. d * q <= d * m /\ d * q \in Nat /\ d * m \in Nat
    BY <1>1, <1>2, Times
  <2> QED
    BY <1>1, <2>1
<1> QED
  BY <1>1, <1>2 DEF q

LEMMA CeilAtMost ==
  ASSUME NEW n \in Nat, NEW d \in Nat \ {0}, NEW m \in Nat, n <= d * m
  PROVE  CeilDiv(n, d) \in Nat /\ CeilDiv(n, d) <= m
<1> DEFINE q == CeilDiv(n, d)
<1>1. q \in Nat /\ d * q < n + d
  BY CeilFacts
<1> HIDE DEF q
<1>2. ASSUME m + 1 <= q PROVE FALSE
  <2>1. d * (m + 1) <= d * q /\ d * (m + 1) = d * m + d /\ d * q \in Nat /\ d * m \in Nat
    BY <1>1, <1>2, Times
  <2> QED
    BY <1>1, <2>1
<1> QED
  BY <1>1, <1>2 DEF q

(* A core clock that validate_clock accepts, and that divides a second     *)
(* into whole nanoseconds, has a cycle of at least four: a third of a      *)
(* gigahertz is no whole number of hertz.                                  *)
MaxCore == 400000000
LEMMA CycleIs ==
  ASSUME NEW core \in Nat \ {0}, core <= MaxCore, Nsec % core = 0
  PROVE  CeilDiv(Nsec, core) \in Nat /\ CeilDiv(Nsec, core) >= 4
<1> DEFINE n == Nsec
           y == CeilDiv(n, core)
           z == n \div core
<1>1. n \in Nat
  BY SMT DEF Nsec
<1>2. y \in Nat /\ y = z + (IF n % core = 0 THEN 0 ELSE 1)
  BY <1>1, CeilFacts, Zenon
<1>3. z \in Nat /\ n = core * z + (n % core)
  BY <1>1, Quotient, Zenon
<1>4. n % core = 0
  OBVIOUS
<1> HIDE DEF n, y, z
<1>5. y = z /\ n = core * z
  <2>1. core * z \in Nat
    BY <1>1, <1>3, SMT
  <2> QED
    BY <1>2, <1>3, <1>4, <2>1, SMT
<1>6. z # 0 /\ z # 1 /\ z # 2 /\ z # 3
  BY <1>5, SMT DEF MaxCore, n, Nsec
<1> QED
  BY <1>2, <1>3, <1>5, <1>6, SMT DEF y, n

(* The period of a bus rate, in nanoseconds.                               *)
LEMMA BusPeriod ==
  ASSUME NEW hz \in Nat, BusRate(hz), NEW p, p = CeilDiv(Nsec, hz)
  PROVE  /\ p \in Nat /\ p >= 1000 /\ p <= 500000
         /\ hz <= 400000 => p >= 2500
         /\ hz <= 384615 => p >= 2600
         /\ hz <= 100000 => p >= 10000
<1> DEFINE n == Nsec
<1>1. hz \in Nat \ {0} /\ n \in Nat
  BY SMT DEF BusRate, Nsec
<1>2. hz >= 2000 /\ hz <= 1000000 /\ n = 1000000000
  BY SMT DEF BusRate, Nsec
<1>3. \A m \in Nat : hz * m < n => p > m
  BY <1>1, CeilAtLeast, Zenon
<1>4. \A m \in Nat : n <= hz * m => p <= m
  BY <1>1, CeilAtMost, Zenon
<1>5. p \in Nat
  BY <1>1, CeilFacts, Zenon
<1> HIDE DEF n
<1>6. p > 999
  <2>1. hz * 999 < n
    BY <1>1, <1>2, SMT
  <2> QED
    BY <1>3, <2>1, SMT
<1>7. p <= 500000
  <2>1. n <= hz * 500000
    BY <1>1, <1>2, SMT
  <2> QED
    BY <1>4, <2>1, SMT
<1>8. ASSUME hz <= 400000 PROVE p > 2499
  <2>1. hz * 2499 < n
    BY <1>1, <1>2, <1>8, SMT
  <2> QED
    BY <1>3, <2>1, SMT
<1>9. ASSUME hz <= 384615 PROVE p > 2599
  <2>1. hz * 2599 < n
    BY <1>1, <1>2, <1>9, SMT
  <2> QED
    BY <1>3, <2>1, SMT
<1>10. ASSUME hz <= 100000 PROVE p > 9999
  <2>1. hz * 9999 < n
    BY <1>1, <1>2, <1>10, SMT
  <2> QED
    BY <1>3, <2>1, SMT
<1> QED
  BY <1>5, <1>6, <1>7, <1>8, <1>9, <1>10, SMT

(* The minima come to one each, and the period is halved.                  *)
LEMMA HalfPeriods ==
  ASSUME NEW hz \in Nat, BusRate(hz), NEW p, p = CeilDiv(Nsec, hz)
  PROVE  CalcI2cClk(hz) = [low |-> p \div 2, high |-> p - p \div 2]
<1>1. p \in Nat /\ p >= 1000
  BY BusPeriod, SMT
<1> DEFINE t == TimesFor(hz)
           l == t.low + t.fall
           h == t.high + t.rise
<1>2. l \in 1 .. p /\ h \in 1 .. p
  <2>1. CASE hz <= 100000
    <3>1. p >= 10000
      BY <2>1, BusPeriod, SMT
    <3>2. l = 5000 /\ h = 5000
      BY <2>1, SMT DEF TimesFor
    <3> HIDE DEF l, h
    <3> QED
      BY <1>1, <3>1, <3>2, SMT
  <2>2. CASE hz > 100000 /\ hz <= 400000
    <3>1. p >= 2500
      BY <2>2, BusPeriod, SMT
    <3>2. t = FmTimes
      <4>1. ~(hz <= 100000)
        BY <2>2, SMT
      <4> QED
        BY <2>2, <4>1, SMT DEF TimesFor
    <3>3. l = 1600 /\ h = 900
      BY <3>2, SMT DEF FmTimes
    <3> HIDE DEF l, h
    <3> QED
      BY <1>1, <3>1, <3>3, SMT
  <2>3. CASE hz > 400000
    <3>1. t = [low |-> 500, high |-> 260, fall |-> 120, rise |-> 120]
      <4>1. ~(hz <= 100000) /\ ~(hz <= 400000)
        BY <2>3, SMT
      <4> QED
        BY <2>3, <4>1, SMT DEF TimesFor
    <3>2. l = 620 /\ h = 380
      BY <3>1, SMT
    <3> HIDE DEF l, h
    <3> QED
      BY <1>1, <3>2, SMT
  <2> QED
    BY <2>1, <2>2, <2>3, SMT
<1> HIDE DEF l, h
<1>3. \A x \in 1 .. p : CeilDiv(x, p) = 1
  <2> TAKE x \in 1 .. p
  <2>1. x \in Nat /\ p \in Nat \ {0} /\ p * 0 < x /\ x <= p * 1
    BY <1>1, SMT
  <2>2. CeilDiv(x, p) > 0 /\ CeilDiv(x, p) <= 1 /\ CeilDiv(x, p) \in Nat
    BY <2>1, CeilAtLeast, CeilAtMost, SMT
  <2> QED
    BY <2>2, SMT
<1>4. CeilDiv(l, p) = 1 /\ CeilDiv(h, p) = 1
  BY <1>2, <1>3, Zenon
<1> DEFINE low == 1 + Sat(p - (1 + 1)) \div 2
<1>5. CalcI2cClk(hz) = [low |-> low, high |-> AtLeast(Sat(p - low), 1)]
  BY <1>4, SMT DEF CalcI2cClk, l, h
<1>6. low = p \div 2
  BY <1>1, SMT DEF Sat, AtLeast
<1>7. AtLeast(Sat(p - p \div 2), 1) = p - p \div 2
  BY <1>1, SMT DEF Sat, AtLeast
<1> QED
  BY <1>5, <1>6, <1>7, Zenon

(* Counts that fit their registers last as long as the times they count.   *)
LEMMA CountsLast ==
  ASSUME NEW t \in [low : Nat, high : Nat], NEW y \in Nat, y >= 4,
         NEW a \in Nat, t.low <= 4 * a, NEW b \in Nat, t.high <= 4 * b,
         NEW n, n = Counts(t, y, a, b)
  PROVE  /\ n.low = CeilDiv(t.low, y) /\ n.high = CeilDiv(t.high, y)
         /\ n.low * y \in Nat /\ n.low * y >= t.low
         /\ n.high * y \in Nat /\ n.high * y >= t.high
         /\ (n.low + n.high) * y >= t.low + t.high
<1>1. y \in Nat \ {0}
  OBVIOUS
<1>2. ASSUME NEW x \in Nat, NEW max \in Nat, x <= 4 * max
      PROVE  /\ CeilDiv(x, y) \in Nat /\ AtMost(CeilDiv(x, y), max) = CeilDiv(x, y)
             /\ CeilDiv(x, y) * y >= x
  <2> DEFINE q == CeilDiv(x, y)
  <2>1. max * 4 <= max * y /\ max * y \in Nat
    BY Times
  <2>2. x <= y * max
    BY <1>2, <2>1
  <2>3. q \in Nat /\ q <= max
    BY <1>1, <2>2, CeilAtMost
  <2>4. y * q >= x
    BY <1>1, CeilFacts
  <2> HIDE DEF q
  <2>5. q * y = y * q
    BY <2>3
  <2> QED
    BY <2>3, <2>4, <2>5 DEF AtMost, q
<1>3. /\ n.low = AtMost(CeilDiv(t.low, y), a) /\ n.high = AtMost(CeilDiv(t.high, y), b)
  BY DEF Counts
<1>4. t.low \in Nat /\ t.high \in Nat
  OBVIOUS
<1> DEFINE l == n.low
           h == n.high
<1>5. /\ l = CeilDiv(t.low, y) /\ l \in Nat /\ l * y >= t.low
      /\ h = CeilDiv(t.high, y) /\ h \in Nat /\ h * y >= t.high
  BY <1>2, <1>3, <1>4
<1> HIDE DEF l, h
<1>6. (l + h) * y = l * y + h * y /\ l * y \in Nat /\ h * y \in Nat
  BY <1>5
<1> QED
  BY <1>4, <1>5, <1>6 DEF l, h

LEMMA TwoHalves ==
  ASSUME NEW p \in Nat
  PROVE  LET a == p \div 2
             b == p - p \div 2
         IN  a \in Nat /\ b \in Nat /\ a + b = p /\ a <= b /\ b <= a + 1
OBVIOUS

(* Each clock of the I3C controller, for a cycle of at least four.         *)
LEMMA FastModeKept ==
  ASSUME NEW hz \in Nat, BusRate(hz), NEW y \in Nat, y >= 4,
         NEW n, n = Counts(CalcI2cClk(hz), y, 65535, 65535)
  PROVE  /\ LongEnough(n, y, IF hz > 384615 /\ hz <= 400000
                             THEN [TimesFor(hz) EXCEPT !.low = 1250] ELSE TimesFor(hz))
         /\ (n.low + n.high) * y >= CeilDiv(Nsec, hz)
<1> DEFINE p == CeilDiv(Nsec, hz)
           t == [low |-> p \div 2, high |-> p - p \div 2]
           l == n.low * y
           h == n.high * y
<1>1. /\ p \in Nat /\ p >= 1000 /\ p <= 500000
      /\ hz <= 400000 => p >= 2500
      /\ hz <= 384615 => p >= 2600
      /\ hz <= 100000 => p >= 10000
  BY BusPeriod, SMT
<1>2. CalcI2cClk(hz) = t
  BY HalfPeriods, SMT
<1> DEFINE a == p \div 2
           b == p - p \div 2
<1>3. /\ a \in Nat /\ a >= 500 /\ a <= 250000
      /\ b \in Nat /\ b >= 500 /\ b <= 250000 /\ a + b = p
      /\ hz <= 400000 => a >= 1250 /\ b >= 1250
      /\ hz <= 384615 => a >= 1300
      /\ hz <= 100000 => a >= 5000 /\ b >= 5000
  <2>1. p \in Nat
    BY <1>1
  <2> HIDE DEF p
  <2>2. a \in Nat /\ b \in Nat /\ a + b = p /\ a <= b /\ b <= a + 1
    BY <2>1, TwoHalves, SMT
  <2> HIDE DEF a, b
  <2> QED
    BY <1>1, <2>2, SMT
<1>4. t.low = a /\ t.high = b
  BY SMT
<1> HIDE DEF p, a, b
<1>5. t \in [low : Nat, high : Nat] /\ t.low \in Nat /\ t.high \in Nat
  BY <1>3, SMT
<1> HIDE DEF t
<1>6. 65535 \in Nat /\ t.low <= 4 * 65535 /\ t.high <= 4 * 65535
  BY <1>3, <1>4, SMT
<1>7. /\ l \in Nat /\ h \in Nat /\ l >= t.low /\ h >= t.high
      /\ (n.low + n.high) * y >= t.low + t.high
  BY <1>2, <1>5, <1>6, CountsLast, SMT
<1> HIDE DEF l, h
<1>8. l >= a /\ h >= b
  BY <1>4, <1>7, SMT
<1>9. LongEnough(n, y, IF hz > 384615 /\ hz <= 400000
                       THEN [TimesFor(hz) EXCEPT !.low = 1250] ELSE TimesFor(hz))
  <2> DEFINE x == IF hz > 384615 /\ hz <= 400000
                  THEN [TimesFor(hz) EXCEPT !.low = 1250] ELSE TimesFor(hz)
             xl == x.low
             xh == x.high
  <2>1. CASE hz <= 100000
    <3>1. xl = 4700 /\ xh = 4000
      BY <2>1, SMT DEF TimesFor
    <3> HIDE DEF x, xl, xh
    <3>2. l >= xl /\ h >= xh
      BY <1>3, <1>7, <1>8, <2>1, <3>1, SMT
    <3> QED
      BY <3>2, SMT DEF LongEnough, l, h, x, xl, xh
  <2>2. CASE hz > 100000 /\ hz <= 400000
    <3>1. TimesFor(hz) = FmTimes
      <4>1. ~(hz <= 100000)
        BY <2>2, SMT
      <4> QED
        BY <2>2, <4>1, SMT DEF TimesFor
    <3>2. xl = (IF hz > 384615 THEN 1250 ELSE 1300) /\ xh = 600
      BY <2>2, <3>1, SMT DEF FmTimes
    <3> HIDE DEF x, xl, xh
    <3>3. l >= xl /\ h >= xh
      BY <1>3, <1>7, <1>8, <2>2, <3>2, SMT
    <3> QED
      BY <3>3, SMT DEF LongEnough, l, h, x, xl, xh
  <2>3. CASE hz > 400000
    <3>1. TimesFor(hz) = [low |-> 500, high |-> 260, fall |-> 120, rise |-> 120]
      <4>1. ~(hz <= 100000) /\ ~(hz <= 400000)
        BY <2>3, SMT
      <4> QED
        BY <2>3, <4>1, SMT DEF TimesFor
    <3>2. xl = 500 /\ xh = 260
      BY <2>3, <3>1, SMT
    <3> HIDE DEF x, xl, xh
    <3>3. l >= xl /\ h >= xh
      BY <1>3, <1>7, <1>8, <3>2, SMT
    <3> QED
      BY <3>3, SMT DEF LongEnough, l, h, x, xl, xh
  <2> QED
    BY <2>1, <2>2, <2>3, SMT
<1>10. (n.low + n.high) * y >= p
  BY <1>3, <1>4, <1>7, SMT
<1> QED
  BY <1>9, <1>10, SMT DEF p

(* Fast mode plus, whose counts fit the open-drain register too.           *)
LEMMA FastModePlusKept ==
  ASSUME NEW y \in Nat, y >= 4, NEW n, n = Counts(CalcI2cClk(1000000), y, 65535, 255)
  PROVE  /\ LongEnough(n, y, TimesFor(1000000))
         /\ (n.low + n.high) * y >= CeilDiv(Nsec, 1000000)
         /\ Counts(CalcI2cClk(1000000), y, 255, 255) = n
<1> DEFINE t == [low |-> 500, high |-> 500]
<1>1. CeilDiv(Nsec, 1000000) = 1000
  BY SMT DEF CeilDiv, Nsec
<1>2. BusRate(1000000) /\ 1000000 \in Nat
  BY SMT DEF BusRate
<1>3. CalcI2cClk(1000000) = t
  <2>1. CalcI2cClk(1000000) = [low |-> 1000 \div 2, high |-> 1000 - 1000 \div 2]
    BY <1>1, <1>2, HalfPeriods, SMT
  <2> QED
    BY <2>1, SMT
<1> DEFINE l == n.low * y
           h == n.high * y
<1>4. /\ t \in [low : Nat, high : Nat] /\ t.low \in Nat /\ t.high \in Nat
      /\ t.low = 500 /\ t.high = 500
  BY SMT
<1> HIDE DEF t
<1>5. /\ 65535 \in Nat /\ 255 \in Nat /\ t.low <= 4 * 65535 /\ t.low <= 4 * 255
      /\ t.high <= 4 * 255
  BY <1>4, SMT
<1>6. /\ n.low = CeilDiv(t.low, y) /\ n.high = CeilDiv(t.high, y)
      /\ l \in Nat /\ h \in Nat /\ l >= t.low /\ h >= t.high
      /\ (n.low + n.high) * y >= t.low + t.high
  BY <1>3, <1>4, <1>5, CountsLast, SMT
<1> HIDE DEF l, h
<1>7. n = [low |-> CeilDiv(t.low, y), high |-> CeilDiv(t.high, y)]
  BY <1>3, <1>6, SMT DEF Counts
<1>8. Counts(t, y, 255, 255) = n
  <2> DEFINE m == Counts(t, y, 255, 255)
  <2>1. m.low = CeilDiv(t.low, y) /\ m.high = CeilDiv(t.high, y)
    BY <1>4, <1>5, CountsLast, SMTT(60)
  <2>2. m = [low |-> m.low, high |-> m.high]
    BY SMT DEF Counts
  <2> QED
    BY <1>7, <2>1, <2>2, SMT
<1>9. TimesFor(1000000).low = 500 /\ TimesFor(1000000).high = 260
  <2>1. ~(1000000 <= 100000) /\ ~(1000000 <= 400000) /\ 1000000 > 400000
    BY SMT
  <2> QED
    BY <2>1, SMT DEF TimesFor
<1>10. LongEnough(n, y, TimesFor(1000000))
  <2>1. l >= 500 /\ h >= 260
    BY <1>4, <1>6, SMT
  <2> QED
    BY <1>9, <2>1, SMT DEF LongEnough, l, h
<1>11. (n.low + n.high) * y >= 1000
  BY <1>4, <1>6, SMT
<1> QED
  BY <1>1, <1>3, <1>8, <1>10, <1>11, SMT

(* Push-pull: a high time of 41 ns or less, the rest of the period low.    *)
LEMMA PushPullKept ==
  ASSUME NEW hz \in Nat, hz >= 1000000, NEW y \in Nat, y >= 4,
         NEW n, n = Counts(PushPull(hz), y, 255, 255)
  PROVE  (n.low + n.high) * y >= CeilDiv(Nsec, hz)
<1> DEFINE p == CeilDiv(Nsec, hz)
           t == PushPull(hz)
<1>1. p \in Nat /\ p <= 1000 /\ p > 0
  <2>1. Nsec \in Nat /\ Nsec <= hz * 1000 /\ hz \in Nat \ {0} /\ hz * 0 < Nsec
    BY SMT DEF Nsec
  <2>2. 1000 \in Nat /\ 0 \in Nat
    BY SMT
  <2>3. p <= 1000 /\ p \in Nat
    BY <2>1, <2>2, CeilAtMost, SMT
  <2>4. p > 0
    BY <2>1, <2>2, CeilAtLeast, SMT
  <2> QED
    BY <2>3, <2>4
<1>2. AtLeast(hz, 1) = hz
  BY SMT DEF AtLeast
<1>3. t = [high |-> AtMost(41, Sat(p - 1)),
           low |-> AtLeast(Sat(p - AtMost(41, Sat(p - 1))), 1)]
  BY <1>2, SMT DEF PushPull
<1> HIDE DEF p, t
<1>4. /\ t \in [low : Nat, high : Nat] /\ t.low <= 4 * 255 /\ t.high <= 4 * 255
      /\ t.low + t.high = p /\ 255 \in Nat
  <2> DEFINE h == AtMost(41, Sat(p - 1))
  <2>1. h \in 0 .. 41 /\ h <= p - 1
    BY <1>1, SMT DEF AtMost, Sat, AtLeast
  <2> HIDE DEF h
  <2>2. AtLeast(Sat(p - h), 1) = p - h
    BY <1>1, <2>1, SMT DEF Sat, AtLeast
  <2>3. t = [high |-> h, low |-> p - h]
    BY <1>3, <2>2, SMT DEF h
  <2> QED
    BY <1>1, <2>1, <2>3, SMT
<1>5. n = Counts(t, y, 255, 255)
  BY DEF t
<1>6. (n.low + n.high) * y >= t.low + t.high
  BY <1>4, <1>5, CountsLast, SMT
<1> QED
  BY <1>4, <1>6, SMT DEF p

LEMMA ConfsTyped ==
  \A c \in I3cConfs : c.core \in Nat /\ c.i2c \in Nat /\ c.i3c \in Nat
BY TimingAssumption, SMT DEF TimingAssumption

(* For every configuration that validate_clock accepts, with a core clock  *)
(* that divides a second: the I3C controller keeps the minima of I2C and   *)
(* never shortens a period.                                                *)
THEOREM TimingI3cMinima == TimingSpec => []I3cMinimaMet
<1>1. TimingInv => I3cMinimaMet
  <2> SUFFICES ASSUME TimingInv, NEW c, c = i3c.conf, i3c.ret = "ok",
                      ValidClock(c), BusRate(c.i2c), Nsec % c.core = 0,
                      NEW y, y = CeilDiv(Nsec, c.core)
               PROVE  /\ LongEnough(i3c.fm, y,
                           IF c.i2c > 384615 /\ c.i2c <= 400000
                           THEN [TimesFor(c.i2c) EXCEPT !.low = 1250] ELSE TimesFor(c.i2c))
                      /\ (i3c.fm.low + i3c.fm.high) * y >= CeilDiv(Nsec, c.i2c)
                      /\ LongEnough(i3c.fmp, y, TimesFor(1000000))
                      /\ (i3c.fmp.low + i3c.fmp.high) * y >= CeilDiv(Nsec, 1000000)
                      /\ ~Given(c.od) => i3c.od = i3c.fmp
                      /\ ~Given(c.pp) /\ c.i3c >= 1000000
                           => (i3c.pp.low + i3c.pp.high) * y >= CeilDiv(Nsec, c.i3c)
    BY SMT DEF I3cMinimaMet
  <2>1. PICK d \in I3cConfs : d.core # 0 /\ d.i2c # 0 /\ i3c = I3cClock(d)
    BY Zenon DEF TimingInv
  <2>2. c = d
    BY <2>1, SMT DEF I3cClock
  <2>3. c.core \in Nat \ {0} /\ c.i2c \in Nat /\ c.i3c \in Nat
    <3>1. d.core \in Nat /\ d.i2c \in Nat /\ d.i3c \in Nat
      BY <2>1, ConfsTyped, SMT
    <3> QED
      BY <2>1, <2>2, <3>1, SMT
  <2>4. y \in Nat /\ y >= 4
    <3>1. c.core <= MaxCore
      BY <2>3, SMT DEF ValidClock, None, MaxCore
    <3> QED
      BY <2>3, <3>1, CycleIs, SMT
  <2> DEFINE fmp == CalcI2cClk(1000000)
             od == IF Given(c.od) THEN c.od ELSE fmp
             pp == IF Given(c.pp) THEN c.pp ELSE PushPull(c.i3c)
  <2>5. /\ i3c.fm = Counts(CalcI2cClk(c.i2c), y, 65535, 65535)
        /\ i3c.fmp = Counts(fmp, y, 65535, 255)
        /\ i3c.od = Counts(od, y, 255, 255)
        /\ i3c.pp = Counts(pp, y, 255, 255)
    <3>1. i3c = I3cClock(c)
      BY <2>1, <2>2
    <3> QED
      BY <3>1, SMT DEF I3cClock
  <2>6. /\ LongEnough(i3c.fm, y,
             IF c.i2c > 384615 /\ c.i2c <= 400000
             THEN [TimesFor(c.i2c) EXCEPT !.low = 1250] ELSE TimesFor(c.i2c))
        /\ (i3c.fm.low + i3c.fm.high) * y >= CeilDiv(Nsec, c.i2c)
    BY <2>3, <2>4, <2>5, FastModeKept, SMT
  <2>7. /\ LongEnough(i3c.fmp, y, TimesFor(1000000))
        /\ (i3c.fmp.low + i3c.fmp.high) * y >= CeilDiv(Nsec, 1000000)
        /\ Counts(fmp, y, 255, 255) = i3c.fmp
    BY <2>4, <2>5, FastModePlusKept, SMT
  <2> HIDE DEF fmp
  <2>8. ~Given(c.od) => i3c.od = i3c.fmp
    BY <2>5, <2>7, SMT
  <2>9. ASSUME ~Given(c.pp), c.i3c >= 1000000
        PROVE  (i3c.pp.low + i3c.pp.high) * y >= CeilDiv(Nsec, c.i3c)
    <3>1. i3c.pp = Counts(PushPull(c.i3c), y, 255, 255)
      BY <2>5, <2>9, SMT
    <3> QED
      BY <2>3, <2>4, <2>9, <3>1, PushPullKept, SMT
  <2> QED
    BY <2>6, <2>7, <2>8, <2>9, SMT
<1> QED
  BY <1>1, TimingInvariant, PTL
=============================================================================
