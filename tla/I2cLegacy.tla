----------------------------- MODULE I2cLegacy -----------------------------
(***************************************************************************)
(* The older I2C driver as a master (src/src/i2c/ast1060_i2c.rs), with the *)
(* attachment of a target, which shares the controller: a transfer that    *)
(* fails resets the controller under the target, and arms it again.        *)
(*                                                                         *)
(* A call is a program of transfers. Each loads the message, starts a      *)
(* command and polls: the handler, called from the poll, takes the status  *)
(* bits, counts what was moved and starts the next command of the message. *)
(* Byte i of transfer k of call n is <<n, k, i>>, written or read. Sizes   *)
(* are scaled: Word stands for 4 bytes, Pool for 32; lengths stay within   *)
(* the message buffer of 256 and the DMA buffer of 4096 bytes.             *)
(***************************************************************************)
EXTENDS Integers, Sequences

CONSTANTS
  XferModes,  \* subset of {"Dma", "Buff", "Byte"}
  Lens,       \* lengths of messages
  BufLen,     \* bytes of the buffer that holds a message
  Word,       \* bytes of a word of the buffer pool
  Pool,       \* I2C_BUF_SIZE
  TargetAddrs, \* addresses a target may register
  BusErrors,  \* status bits of aspeed_i2c_is_irq_error that may come up
  MaxCalls,   \* bound on calls
  MaxTaken    \* bound on what a device takes in one call

ASSUME LegacyAssumption ==
  /\ XferModes \subseteq {"Dma", "Buff", "Byte"}
  /\ BufLen \in Nat /\ Lens \subseteq 1 .. BufLen
  /\ Word \in Nat \ {0} /\ Pool \in Nat \ {0} /\ Pool % Word = 0
  /\ BusErrors \subseteq {"ARBIT_LOSS", "SDA_DL_TO", "SCL_LOW_TO", "ABNORMAL"}
  /\ MaxCalls \in Nat /\ MaxTaken \in Nat

VARIABLES
  cfg,         \* xfer_mode, multi_master
  at,          \* where the thread is
  prog, k,     \* transfers of the call, and the one under way
  msg,         \* i2c_data.msg: flags, length, stop
  completion,  \* i2c_data.completion
  cnt,         \* i2c_data.master_xfer_cnt
  buf,         \* message buffer, or the DMA buffer
  ret,         \* result of the call
  ncalls,
  eng,         \* I2CM18: the command that runs
  xlen,        \* the byte count the handler reads after a command
  pool,        \* what the controller received last
  status,      \* I2CM14: status bits
  wire,        \* "free", "held" by this master, or "stuck": SDA is low
  taken,       \* what the device took in this call
  got,         \* what reads of this call gave the caller
  failed,      \* history: a transfer of this call failed on the bus
  slipped,     \* history: a command ended between the two reads after a failed
               \* wait, in this call or in one whose leavings are still there
  lost,        \* history: the target was switched off under it
  attached,    \* i2c_data.slave_attached
  slaveAddr,   \* i2c_data.slave_target_addr
  slaveFn,     \* I2CC00: the slave function is enabled
  slaveCmd     \* I2CS28: what the target is armed with

thread == <<cfg, at, prog, k, ret, ncalls, got>>
message == <<msg, completion, cnt, buf>>
target == <<lost, attached, slaveAddr, slaveFn, slaveCmd>>
engine == <<eng, xlen, pool, status, wire, taken, failed, slipped>>
legacyVars == <<thread, message, engine, target>>

NoCmd == [dir |-> "none"]
Recover == [dir |-> "recover"]
NoMsg == [dir |-> "none", len |-> 0, stop |-> FALSE]
Blank == <<>>
Byte(i) == <<ncalls, k, i>>
Idle == eng = NoCmd
Armed == [Dma |-> "RX_DMA", Buff |-> "RX_BUFF", Byte |-> "ACTIVE"]

-----------------------------------------------------------------------------
(* Calls *)

Write(n, stop) == [dir |-> "write", len |-> n, stop |-> stop]
Read(n) == [dir |-> "read", len |-> n, stop |-> TRUE]
Ops == {Write(n, TRUE) : n \in Lens} \cup {Read(n) : n \in Lens}

(* transaction runs an operation when it meets the next one.               *)
Executed(ops) == SubSeq(ops, 1, Len(ops) - 1)

Recovered == {"BUS_RECOVER", "BUS_RECOVER_FAIL"}
Transferring == eng.dir \in {"write", "read"}
LeftQuietly == ~Transferring /\ status \subseteq Recovered

Begin(program) ==
  /\ at = "idle" /\ ncalls < MaxCalls
  /\ slipped' = (slipped /\ ~LeftQuietly)
  /\ ncalls' = ncalls + 1
  /\ prog' = program /\ k' = 1
  /\ at' = IF program = <<>> THEN "done" ELSE "prepare"
  /\ ret' = IF program = <<>> THEN "Ok" ELSE "none"
  /\ taken' = <<>> /\ got' = <<>> /\ failed' = FALSE
  /\ UNCHANGED <<cfg, message, eng, xlen, pool, status, wire, target>>
CallWrite == \E n \in Lens : Begin(<<Write(n, TRUE)>>)
CallRead == \E n \in Lens : Begin(<<Read(n)>>)
CallWriteRead ==
  \E n, m \in Lens : Begin(<<Write(n, FALSE), Read(m)>>)
CallTransaction ==
  \E a, b \in Ops : Begin(Executed(<<a, b>>))

Finish ==
  /\ at = "done" /\ at' = "idle"
  /\ prog' = <<>> /\ k' = 1 /\ ret' = "none"
  /\ taken' = <<>> /\ got' = <<>> /\ failed' = FALSE
  /\ UNCHANGED <<cfg, ncalls, slipped, message, eng, xlen, pool, status, wire,
                 target>>

Leave(r) == at' = "done" /\ ret' = r
ToNext ==
  IF k < Len(prog) THEN at' = "prepare" /\ k' = k + 1 /\ ret' = ret
  ELSE Leave("Ok") /\ k' = k

(* prepare_write and prepare_read.                                         *)
Prepare ==
  /\ at = "prepare" /\ at' = "start"
  /\ msg' = prog[k] /\ completion' = FALSE /\ cnt' = 0
  /\ buf' = [i \in DOMAIN buf |->
               IF prog[k].dir = "write" /\ i < prog[k].len
               THEN Byte(i) ELSE buf[i]]
  /\ UNCHANGED <<cfg, prog, k, ret, ncalls, got, engine, target>>

-----------------------------------------------------------------------------
(* Commands *)

Left(c) == msg.len - c
ChunkLen(c) ==
  CASE cfg.mode = "Byte" -> 1
    [] cfg.mode = "Buff" /\ Left(c) > Pool -> Pool
    [] OTHER -> Left(c)
IsLast(c) ==
  CASE cfg.mode = "Byte" -> c + 1 = msg.len
    [] cfg.mode = "Buff" -> Left(c) <= Pool
    [] OTHER -> TRUE

(* aspeed_i2c_write, aspeed_i2c_read: the command for what follows the     *)
(* first c bytes. A DMA starts at the beginning of its buffer.             *)
From(c) == IF cfg.mode = "Dma" THEN 0 ELSE c
Command(c, start) ==
  [dir |-> msg.dir, start |-> start, n |-> ChunkLen(c),
   stop |-> IsLast(c) /\ (msg.dir = "read" \/ msg.stop),
   data |-> IF msg.dir = "read" THEN <<>>
            ELSE [i \in 1 .. ChunkLen(c) |-> buf[From(c) + i - 1]]]
Issued(c, start) == eng' = Command(c, start)

(* The master function off and on again: what ran is dropped, the bus      *)
(* released.                                                               *)
MasterReset ==
  /\ eng' = NoCmd /\ status' = {}
  /\ wire' = IF wire = "held" THEN "free" ELSE wire

(* i2c_aspeed_transfer to the wait: on a busy bus a single master recovers *)
(* first, also in the middle of its own write_read.                        *)
MustRecover == ~cfg.multi /\ wire # "free"

(* What a command counts that is started over the leavings of another one, *)
(* is not modelled: the next status it takes is not its own.               *)
Start ==
  /\ at = "start" /\ ~MustRecover /\ (slipped => LeftQuietly)
  /\ Issued(cnt, TRUE) /\ at' = "wait"
  /\ UNCHANGED <<cfg, prog, k, ret, ncalls, got, slipped, message, xlen, pool,
                 status, wire, taken, failed, target>>

(* recover_bus: it turns the slave function off with the master's, and     *)
(* only the master's on again.                                             *)
RecoverBus ==
  /\ at = "start" /\ MustRecover
  /\ slaveFn' = FALSE /\ lost' = (lost \/ slaveFn)
  /\ IF wire = "stuck"
     THEN /\ eng' = Recover /\ status' = {} /\ wire' = wire
          /\ at' = "recover" /\ ret' = ret
     ELSE MasterReset /\ Leave("Bus")
  /\ slaveCmd' = "off"
  /\ UNCHANGED <<cfg, prog, k, ncalls, got, slipped, message, xlen, pool, taken,
                 failed, attached, slaveAddr>>

-----------------------------------------------------------------------------
(* aspeed_i2c_master_irq, polled by i2c_wait_completion *)

(* do_i2cm_tx: the count of the pool is read as it was written, one less   *)
(* than the bytes.                                                         *)
Moved ==
  CASE cfg.mode = "Byte" -> 1
    [] cfg.mode = "Buff" /\ msg.dir = "write" -> xlen - 1
    [] OTHER -> xlen
MutCounted(moved) ==
  /\ cnt' = cnt + moved
  /\ IF cnt' >= msg.len - 1 THEN completion' = TRUE /\ eng' = eng
     ELSE Issued(cnt', FALSE) /\ UNCHANGED completion
Counted(moved) ==
  /\ cnt' = cnt + moved
  /\ IF cnt' = msg.len THEN completion' = TRUE /\ eng' = eng
     ELSE Issued(cnt', FALSE) /\ UNCHANGED completion

(* copy_from_buff: every word of the pool goes to the place of the first.  *)
LastWord(n) == ((n - 1) \div Word) * Word
FromPool ==
  [i \in DOMAIN buf |->
     IF i \in cnt .. cnt + Word - 1
     THEN LET j == LastWord(xlen) + i - cnt
          IN IF j < xlen THEN pool[j + 1] ELSE Blank
     ELSE buf[i]]
Received ==
  CASE cfg.mode = "Buff" -> FromPool
    [] cfg.mode = "Byte" -> [buf EXCEPT ![cnt] = pool[1]]
    [] OTHER -> [i \in DOMAIN buf |->
                   IF i < xlen THEN pool[i + 1] ELSE buf[i]]

(* The wait returns an error: of a transfer, or of a recovery.             *)
WaitFails ==
  IF at = "wait" THEN at' = "failed" /\ ret' = ret ELSE Leave("Bus")

Stopped(bits) == bits \cup {"NORMAL_STOP"}
Is(bits, s) == s \in {bits, Stopped(bits)}

(* aspeed_i2c_master_package_irq. A bit pattern it does not know is        *)
(* ignored; the bits were cleared before.                                  *)
PackageIrq(s) ==
  CASE Is({"PKT_ERROR", "TX_NAK"}, s) ->
         completion' = TRUE /\ WaitFails /\ UNCHANGED <<cnt, buf, eng>>
    [] s = {"NORMAL_STOP"} ->
         completion' = TRUE /\ UNCHANGED <<at, ret, cnt, buf, eng>>
    [] Is({"TX_ACK"}, s) -> Counted(Moved) /\ UNCHANGED <<at, ret, buf>>
    [] Is({"RX_DONE"}, s) ->
         Counted(Moved) /\ buf' = Received /\ UNCHANGED <<at, ret>>
    [] OTHER -> UNCHANGED <<at, ret, cnt, buf, eng, completion>>

(* One round of the poll: a finished recovery is acknowledged by the wrong *)
(* bit and ends the handler; everything else is cleared by a modify. The   *)
(* read and the modify are one step: an engine that reports has stopped,   *)
(* so nothing comes up between the two.                                    *)
MasterIrq ==
  /\ at \in {"wait", "recover"} /\ ~completion /\ status # {}
  /\ CASE "BUS_RECOVER_FAIL" \in status ->
            /\ status' = {} /\ WaitFails
            /\ UNCHANGED <<completion, cnt, buf, eng>>
       [] status \cap Recovered = {"BUS_RECOVER"} ->
            status' = status \ {"BUS_RECOVER_FAIL"}
            /\ UNCHANGED <<at, ret, completion, cnt, buf, eng>>
       [] status \cap Recovered = {} /\ status \cap BusErrors # {} ->
            /\ status' = {} /\ completion' = TRUE /\ WaitFails
            /\ UNCHANGED <<cnt, buf, eng>>
       [] status \cap (Recovered \cup BusErrors) = {}
          /\ "PKT_DONE" \in status ->
            status' = {} /\ PackageIrq(status \ {"PKT_DONE"})
       [] OTHER ->
            status' = {} /\ UNCHANGED <<at, ret, completion, cnt, buf, eng>>
  /\ UNCHANGED <<cfg, prog, k, ncalls, got, msg, xlen, pool, wire, taken,
                 failed, slipped, target>>

(* The wait is given up.                                                   *)
TimeOut ==
  /\ at \in {"wait", "recover"} /\ ~completion
  /\ WaitFails
  /\ UNCHANGED <<cfg, prog, k, ncalls, got, message, engine, target>>

(* Completed, or failed in a way that left no trace in the registers: the  *)
(* transfer is over. read_processed.                                       *)
Handed == [i \in 1 .. msg.len |-> buf[i - 1]]
Over ==
  /\ ToNext
  /\ got' = IF msg.dir = "read" THEN got \o Handed ELSE got
Completed ==
  /\ at = "wait" /\ completion /\ Over
  /\ UNCHANGED <<cfg, prog, ncalls, message, engine, target>>

(* After a failed wait the controller is reset if it has a status or, read *)
(* after that, a direction: a command under way shows in the direction, a  *)
(* bus held between commands may. With neither, the transfer passes for a  *)
(* success; a command that ended between the two reads is left behind.     *)
MutFailedStatus ==
  /\ at = "failed" /\ at' = "look"
  /\ UNCHANGED <<cfg, prog, k, ret, ncalls, got, message, engine, target>>
FailedStatus ==
  /\ at = "failed" /\ at' = IF status # {} THEN "reset" ELSE "look"
  /\ UNCHANGED <<cfg, prog, k, ret, ncalls, got, message, engine, target>>
Direction ==
  IF ~Idle THEN {TRUE} ELSE IF wire = "held" THEN BOOLEAN ELSE {FALSE}
FailedDirection ==
  /\ at = "look"
  /\ \/ /\ TRUE \in Direction /\ at' = "reset"
        /\ UNCHANGED <<k, ret, got>>
     \/ FALSE \in Direction /\ Over
  /\ UNCHANGED <<cfg, prog, ncalls, message, engine, target>>

(* The reset, after which a target that was on is armed again.             *)
MutRearmed == IF slaveFn THEN "RX_DMA" ELSE "off"
Rearmed == IF slaveFn THEN Armed[cfg.mode] ELSE "off"
FailedReset ==
  /\ at = "reset" /\ MasterReset /\ Leave("Timeout")
  /\ slaveCmd' = Rearmed /\ slipped' = FALSE
  /\ UNCHANGED <<cfg, prog, k, ncalls, got, message, xlen, pool, taken,
                 failed, lost, attached, slaveAddr, slaveFn>>

-----------------------------------------------------------------------------
(* The target of the same controller *)

(* init, the first or a later one, puts the whole controller to its reset; *)
(* a target that is attached is left without its function.                 *)
Initialise ==
  /\ at \in {"off", "idle"} /\ at' = "idle"
  /\ cfg' \in [mode : XferModes, multi : BOOLEAN]
  /\ MasterReset
  /\ slaveFn' = FALSE /\ slaveCmd' = "off" /\ lost' = (lost \/ slaveFn)
  /\ UNCHANGED <<prog, k, ret, ncalls, got, slipped, message, xlen, pool, taken,
                 failed, attached, slaveAddr>>

(* i2c_aspeed_slave_register: the address must differ from the last one,   *)
(* which unregistering sets to 0.                                          *)
Register ==
  /\ at = "idle" /\ ~attached /\ ~slaveFn
  /\ \E a \in TargetAddrs \ {slaveAddr} : slaveAddr' = a
  /\ attached' = TRUE /\ slaveFn' = TRUE /\ slaveCmd' = Armed[cfg.mode]
  /\ lost' = FALSE
  /\ UNCHANGED <<thread, message, engine>>
(* i2c_aspeed_slave_unregister.                                            *)
Unregister ==
  /\ at = "idle" /\ attached
  /\ attached' = FALSE /\ slaveAddr' = 0
  /\ slaveFn' = FALSE /\ slaveCmd' = "off"
  /\ UNCHANGED <<thread, message, engine, lost>>

-----------------------------------------------------------------------------
(* The engine and the bus *)

Connected(c) == IF c.start THEN wire # "stuck" ELSE wire = "held"
Slips == slipped' = (slipped \/ at = "look")
EngineDone ==
  /\ Transferring /\ Connected(eng)
  /\ Len(taken) + Len(eng.data) <= MaxTaken
  /\ taken' = taken \o eng.data
  /\ pool' = IF eng.dir = "read"
             THEN [i \in 1 .. eng.n |-> Byte(cnt + i - 1)] ELSE pool
  /\ xlen' = eng.n /\ eng' = NoCmd
  /\ status' = status \cup {"PKT_DONE"}
              \cup (IF eng.dir = "write" THEN {"TX_ACK"} ELSE {"RX_DONE"})
              \cup (IF eng.stop THEN {"NORMAL_STOP"} ELSE {})
  /\ wire' = IF eng.stop THEN "free" ELSE "held"
  /\ Slips
  /\ UNCHANGED <<thread, message, failed, target>>

(* The device does not acknowledge the address or a byte, or the transfer  *)
(* breaks off.                                                             *)
EngineFails ==
  /\ Transferring /\ failed' = TRUE /\ eng' = NoCmd
  /\ \E j \in 0 .. Len(eng.data) :
       /\ taken' = IF Connected(eng) THEN taken \o SubSeq(eng.data, 1, j)
                   ELSE taken
       /\ \/ /\ Connected(eng)
             /\ \E bits \in {{}, {"NORMAL_STOP"}} :
                  status' = status \cup bits
                              \cup {"PKT_DONE", "PKT_ERROR", "TX_NAK"}
             /\ wire' = IF "NORMAL_STOP" \in status' THEN "free" ELSE "held"
          \/ /\ \E e \in BusErrors :
                  status' = status \cup {"PKT_DONE", "PKT_ERROR", e}
             /\ wire' \in {"free", "stuck"}
  /\ Slips
  /\ UNCHANGED <<thread, message, xlen, pool, target>>

EngineRecovers ==
  /\ eng = Recover /\ eng' = NoCmd
  /\ \/ status' = status \cup {"BUS_RECOVER"} /\ wire' = "free"
     \/ status' = status \cup {"BUS_RECOVER_FAIL"} /\ wire' = wire
  /\ UNCHANGED <<thread, message, xlen, pool, taken, failed, slipped, target>>

-----------------------------------------------------------------------------
LegacyInit ==
  /\ cfg = [mode |-> "Byte", multi |-> FALSE]
  /\ at = "off" /\ prog = <<>> /\ k = 1 /\ ret = "none" /\ ncalls = 0
  /\ msg = NoMsg /\ completion = FALSE /\ cnt = 0
  /\ buf = [i \in 0 .. BufLen + Word |-> Blank]
  /\ eng = NoCmd /\ xlen = 0 /\ pool = <<>> /\ status = {} /\ wire = "free"
  /\ taken = <<>> /\ got = <<>> /\ failed = FALSE /\ slipped = FALSE
  /\ lost = FALSE /\ attached = FALSE /\ slaveAddr = 0
  /\ slaveFn = FALSE /\ slaveCmd = "off"

Call == CallWrite \/ CallRead \/ CallWriteRead \/ CallTransaction
Driver ==
  \/ Prepare \/ Start \/ RecoverBus \/ MasterIrq \/ TimeOut
  \/ Completed \/ FailedStatus \/ FailedDirection \/ FailedReset \/ Finish
LegacyNext ==
  \/ Initialise \/ Call \/ Driver \/ Register \/ Unregister
  \/ EngineDone \/ EngineFails \/ EngineRecovers

LegacySpec == LegacyInit /\ [][LegacyNext]_legacyVars

-----------------------------------------------------------------------------
(* What the transfers the call runs, two at most, ask for, in the order    *)
(* they ask it.                                                            *)
Asked(dir, j) ==
  IF j \in DOMAIN prog /\ prog[j].dir = dir
  THEN [i \in 1 .. prog[j].len |-> <<ncalls, j, i - 1>>]
  ELSE <<>>
Sent(dir) == Asked(dir, 1) \o Asked(dir, 2)

(* A call of the driver that returns Ok has moved what its transfers ask   *)
(* for: every byte written reached the device once and in order, every     *)
(* byte read is where the caller looks. Excused: a transfer that failed on *)
(* the bus, whatever came of it, for the driver reports one that leaves    *)
(* neither status nor direction as Ok; a call after `slipped`; and reads   *)
(* in buffer mode. A write in buffer mode never returns Ok but in these    *)
(* ways: the count it reads back is one less than the bytes.               *)
OkMeansMoved ==
  at = "done" /\ ret = "Ok" /\ ~failed /\ ~slipped =>
    /\ taken = Sent("write")
    /\ cfg.mode # "Buff" => got = Sent("read")

(* Between calls the engine is left without a command, but for a recovery  *)
(* the driver gave up waiting for, and without a status that the next call *)
(* would take for its own, but for the one a recovery leaves; unless a     *)
(* command ended between the two reads of FailedStatus and FailedDirection,*)
(* and until what that left is gone.                                       *)
LeftQuiet ==
  at = "idle" /\ ~slipped =>
    /\ eng \in {NoCmd, Recover}
    /\ status \subseteq {"BUS_RECOVER", "BUS_RECOVER_FAIL"}

(* A target stays attached over transfers of the same controller that fail *)
(* and reset it: as long as its function is on, it is armed with the       *)
(* buffer of its mode, and only recover_bus and init leave it switched off.*)
TargetStaysArmed ==
  attached => IF slaveFn THEN slaveCmd = Armed[cfg.mode] ELSE lost

(* "timeout, do controller reset to recover" (i2c_aspeed_transfer): a wait *)
(* that is given up leaves the engine to the next call as it found it.     *)
LeftQuietAlways ==
  at = "idle" =>
    /\ eng \in {NoCmd, Recover}
    /\ status \subseteq {"BUS_RECOVER", "BUS_RECOVER_FAIL"}

(* "move data from i2c mapped buff to message buffer" (copy_from_buff): a  *)
(* read in buffer mode gives the caller what the device sent.              *)
BufferReadMoves ==
  at = "done" /\ ret = "Ok" /\ ~failed /\ ~slipped /\ cfg.mode = "Buff" =>
    got = Sent("read")
=============================================================================
