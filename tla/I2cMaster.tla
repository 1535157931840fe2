----------------------------- MODULE I2cMaster -----------------------------
(***************************************************************************)
(* The I2C master (src/src/i2c_core/master.rs, controller.rs, recovery.rs, *)
(* transfer.rs, hal_impl.rs): write, read, write_read and transaction in   *)
(* byte, buffer and DMA mode, the wait for each command, its time-out, and *)
(* the recovery of the bus.                                                *)
(*                                                                         *)
(* The driver and the bus engine share the status register i2cm14, the     *)
(* command register i2cm18 and a buffer: the byte register i2cc08, the     *)
(* 32-byte hardware buffer or the DMA memory, by mode. The driver polls;   *)
(* the engine runs beside it and answers when it likes, after the driver   *)
(* has given up too. A byte is named after the call, the operation of the  *)
(* call and the place in the message it belongs to.                        *)
(***************************************************************************)
EXTENDS Integers, Sequences

CONSTANTS
  Lengths,         \* lengths a message may have
  BufferModeSize,  \* BUFFER_MODE_SIZE
  DmaModeMaxSize,  \* DMA_MODE_MAX_SIZE
  DmaLengths,      \* lengths of the caller's DMA buffer, 0 for none
  Patience,        \* polls of a wait: DEFAULT_TIMEOUT_US
  MaxCalls         \* bound on the calls made

ASSUME MasterAssumption ==
  /\ Lengths \subseteq Nat
  /\ BufferModeSize \in Nat \ {0}
  /\ DmaModeMaxSize \in Nat \ {0}
  /\ DmaLengths \subseteq Nat
  /\ Patience \in Nat \ {0}
  /\ MaxCalls \in Nat

I2cXferMode == {"ByteMode", "BufferMode", "DmaMode"}

(* An Operation of a transaction; write_read is a write and then a read.   *)
Operation == [dir : {"write", "read"}, len : Lengths]
Programs == [{1} -> Operation] \cup [{1, 2} -> Operation]

(* Bits of i2cm14, and those that describe the outcome of one packet:      *)
(* clearing PKT_DONE clears these together (aspeed_i2c_master_package_irq  *)
(* relies on it, comparing the rest of the status with exact values).      *)
PacketStatus ==
  {"TX_ACK", "TX_NAK", "RX_DONE", "ARBIT_LOSS", "NORMAL_STOP", "ABNORMAL",
   "SDA_DL_TO", "PKT_DONE", "PKT_ERROR"}
Status == PacketStatus \cup {"SCL_LOW_TO", "BUS_RECOVER", "BUS_RECOVER_FAIL"}

I2cError ==
  {"NoAcknowledge", "Timeout", "BusRecoveryFailed", "Bus", "Invalid",
   "Abnormal", "ArbitrationLoss"}

Byte == [call : 1 .. MaxCalls, op : {1, 2}, off : Nat]
Command ==
  [call : 1 .. MaxCalls, op : {1, 2}, dir : {"write", "read"}, off : Nat,
   len : Nat, start : BOOLEAN, stop : BOOLEAN]
NoCmd == [dir |-> "none"]
RecoverCmd == [dir |-> "recover"]

VARIABLES
  mode, dma,  \* the driver's xfer_mode and the length of dma_buf
  ncalls,     \* calls begun
  prog,       \* the operations of the call
  cur,        \* the operation being executed
  off,        \* its local offset: current_xfer_cnt
  pc,         \* where the driver is
  left,       \* what is left of a wait
  result,     \* result of the last call
  sts,        \* i2cm14
  eng,        \* the command the engine runs
  fifo,       \* the buffer
  bus,        \* who holds the bus
  fresh,      \* history: was the engine idle when the call began? Of a
              \* call that found it busy nothing is claimed or recorded
  log,        \* history: the bytes moved over the bus for each operation
  got,        \* history: the bytes copied to the caller for each operation
  fault       \* history: the error that a command of the call ended with

driverVars == <<mode, dma, ncalls, prog, cur, off, pc, left, result>>
vars == <<driverVars, sts, eng, fifo, bus, log, got, fresh, fault>>

-----------------------------------------------------------------------------
(* The driver *)

MinOf(a, b) == IF a < b THEN a ELSE b

(* n bytes of message i of call c, from place o on.                        *)
Bytes(c, i, o, n) ==
  [j \in 1 .. n |-> [call |-> c, op |-> i, off |-> o + j - 1]]

(* How much of a message one command moves.                                *)
ChunkMax ==
  IF mode = "ByteMode" THEN 1
  ELSE IF mode = "BufferMode" THEN BufferModeSize ELSE DmaModeMaxSize
ChunkLen == MinOf(ChunkMax, prog[cur].len - off)
IsLast == off + ChunkLen >= prog[cur].len

(* The call or the recovery is over, and its local variables with it.      *)
Return(r) ==
  pc' = "idle" /\ result' = r /\ cur' = 1 /\ off' = 0 /\ left' = 0
Proceed(p) == pc' = p /\ UNCHANGED <<result, cur, off>>

(* write, read, write_read or transaction is called, on a driver of any    *)
(* mode: from_initialized makes one for each operation.                    *)
Begin ==
  /\ pc = "idle" /\ ncalls < MaxCalls
  /\ mode' \in I2cXferMode /\ dma' \in DmaLengths /\ prog' \in Programs
  /\ ncalls' = ncalls + 1
  /\ cur' = 1 /\ off' = 0 /\ pc' = "op" /\ left' = 0
  /\ log' = [i \in DOMAIN prog' |-> <<>>] /\ got' = log'
  /\ fresh' = (eng = NoCmd) /\ fault' = "none"
  /\ UNCHANGED <<result, sts, eng, fifo, bus>>

(* The next operation starts, an empty one is skipped; byte mode clears    *)
(* the status here and not before each command.                            *)
StartOp ==
  /\ pc = "op" /\ cur \in DOMAIN prog
  /\ IF prog[cur].len = 0
     THEN cur' = cur + 1 /\ UNCHANGED <<pc, sts>>
     ELSE /\ cur' = cur /\ pc' = "stage"
          /\ sts' = IF mode = "ByteMode" THEN {} ELSE sts
  /\ UNCHANGED <<mode, dma, ncalls, prog, off, left, result, eng, fifo, bus,
                 log, got, fresh, fault>>

Done ==
  /\ pc = "op" /\ cur \notin DOMAIN prog
  /\ Return("Ok")
  /\ UNCHANGED <<mode, dma, ncalls, prog, sts, eng, fifo, bus, log, got, fresh,
                 fault>>

(* Mutant: the status is not cleared before a command.                     *)
MutKeepsStatus == sts

(* The status as it is when a command is about to be issued.               *)
ClearedForCommand == IF mode = "ByteMode" THEN sts ELSE {}

(* A chunk is put in the buffer; a DMA buffer too small for it is refused. *)
Stage ==
  /\ pc = "stage"
  /\ IF mode = "DmaMode" /\ dma < ChunkLen
     THEN Return("Invalid") /\ UNCHANGED <<fifo, sts>>
     ELSE /\ Proceed("issue") /\ UNCHANGED left
          /\ fifo' = IF prog[cur].dir = "write"
                     THEN Bytes(ncalls, cur, off, ChunkLen) ELSE fifo
          /\ sts' = ClearedForCommand
  /\ UNCHANGED <<mode, dma, ncalls, prog, eng, bus, log, got, fresh, fault>>

(* Mutant: every chunk ends with STOP.                                     *)
MutStopAlways ==
  [call |-> ncalls, op |-> cur, dir |-> prog[cur].dir, off |-> off,
   len |-> ChunkLen, start |-> off = 0, stop |-> TRUE]

(* START with the first chunk only, STOP with the last only.               *)
NextCommand ==
  [call |-> ncalls, op |-> cur, dir |-> prog[cur].dir, off |-> off,
   len |-> ChunkLen, start |-> off = 0, stop |-> IsLast]

(* A command written while one runs is lost or takes its place.            *)
Accept(c) == eng' = c \/ (eng # NoCmd /\ eng' = eng)

Issue ==
  /\ pc = "issue"
  /\ Accept(NextCommand)
  /\ Proceed("poll") /\ left' = Patience
  /\ UNCHANGED <<mode, dma, ncalls, prog, sts, fifo, bus, log, got, fresh,
                 fault>>

(* handle_interrupt: whether it sets completion, what it returns and what  *)
(* it clears.                                                              *)
PacketError ==
  IF "PKT_ERROR" \notin sts THEN "Ok"
  ELSE IF "TX_NAK" \in sts THEN "NoAcknowledge"
  ELSE IF "ARBIT_LOSS" \in sts THEN "ArbitrationLoss"
  ELSE IF "ABNORMAL" \in sts THEN "Abnormal" ELSE "Bus"

BareError ==
  IF "TX_NAK" \in sts THEN "NoAcknowledge"
  ELSE IF "ABNORMAL" \in sts THEN "Abnormal"
  ELSE IF "ARBIT_LOSS" \in sts THEN "ArbitrationLoss"
  ELSE IF "SCL_LOW_TO" \in sts THEN "Timeout" ELSE "Ok"

(* Mutant: the status is cleared before it is looked at for errors.        *)
MutClearFirst ==
  IF sts \cap {"PKT_DONE", "TX_ACK", "RX_DONE"} # {}
  THEN [completion |-> TRUE, error |-> "Ok", rest |-> {}]
  ELSE [completion |-> FALSE, error |-> BareError,
        rest |-> IF BareError = "Ok" THEN sts ELSE {}]

HandleInterrupt ==
  IF "PKT_DONE" \in sts
  THEN [completion |-> TRUE, error |-> PacketError, rest |-> sts \ PacketStatus]
  ELSE IF sts \cap {"TX_ACK", "RX_DONE"} # {}
  THEN [completion |-> TRUE, error |-> "Ok", rest |-> {}]
  ELSE [completion |-> FALSE, error |-> BareError,
        rest |-> IF BareError = "Ok" THEN sts ELSE {}]

(* The loop goes on until its time is up.                                  *)
AgainUntil(p) ==
  IF left = 1 THEN Return("Timeout") ELSE Proceed(p) /\ left' = left - 1

(* One round of wait_completion.                                           *)
Poll ==
  /\ pc = "poll"
  /\ sts' = HandleInterrupt.rest
  /\ IF HandleInterrupt.error # "Ok" THEN Return(HandleInterrupt.error)
     ELSE IF HandleInterrupt.completion THEN Proceed("check") /\ left' = 0
     ELSE AgainUntil("poll")
  /\ UNCHANGED <<mode, dma, ncalls, prog, eng, fifo, bus, log, got, fresh,
                 fault>>

(* The status is read again after the wait.                                *)
CheckError ==
  IF mode # "ByteMode" /\ "PKT_ERROR" \notin sts THEN "Ok"
  ELSE IF "TX_NAK" \in sts THEN "NoAcknowledge"
  ELSE IF mode = "ByteMode" THEN "Ok" ELSE "Abnormal"

(* Byte mode takes the byte before it looks at the status.                 *)
Copies == prog[cur].dir = "read" /\ (mode = "ByteMode" \/ CheckError = "Ok")

Check ==
  /\ pc = "check"
  /\ got' = IF Copies /\ fresh THEN [got EXCEPT ![cur] = @ \o fifo] ELSE got
  /\ IF CheckError # "Ok"
     THEN Return(CheckError)
     ELSE /\ IF IsLast THEN pc' = "op" /\ cur' = cur + 1 /\ off' = 0
                       ELSE pc' = "stage" /\ cur' = cur /\ off' = off + ChunkLen
          /\ UNCHANGED <<result, left>>
  /\ UNCHANGED <<mode, dma, ncalls, prog, sts, eng, fifo, bus, log, fresh,
                 fault>>

-----------------------------------------------------------------------------
(* Recovery of the bus *)

(* recover_bus switches the master off and on, which aborts its command,   *)
(* clears the status and looks at the lines. The result is from here on    *)
(* that of the recovery.                                                   *)
RecoverBus ==
  /\ pc = "idle" /\ ncalls > 0
  /\ sts' = {}
  /\ bus' = IF bus = "ours" THEN "free" ELSE bus
  /\ \/ Return("BusRecoveryFailed") /\ eng' = NoCmd
     \/ Proceed("recover") /\ left' = Patience /\ eng' = RecoverCmd
  /\ fresh' = FALSE
  /\ UNCHANGED <<mode, dma, ncalls, prog, fifo, log, got, fault>>

RecoverPoll ==
  /\ pc = "recover"
  /\ IF "BUS_RECOVER" \in sts
     THEN /\ sts' = sts \ {"BUS_RECOVER"}
          /\ Return(IF "BUS_RECOVER_FAIL" \in sts
                    THEN "BusRecoveryFailed" ELSE "Ok")
     ELSE UNCHANGED sts /\ AgainUntil("recover")
  /\ UNCHANGED <<mode, dma, ncalls, prog, eng, fifo, bus, log, got, fresh,
                 fault>>

-----------------------------------------------------------------------------
(* The engine and the other masters, from what the driver expects of them *)

Runs == eng.dir \in {"write", "read"}
Recorded == fresh /\ eng.call = ncalls

(* A command needs the bus: the one with START may take it.                *)
HasBus == bus = "ours" \/ (bus = "free" /\ eng.start)

EngineAcks ==
  /\ Runs /\ HasBus
  /\ eng' = NoCmd
  /\ sts' = sts \cup {"PKT_DONE", IF eng.dir = "write" THEN "TX_ACK" ELSE "RX_DONE"}
                \cup (IF eng.stop THEN {"NORMAL_STOP"} ELSE {})
  /\ bus' = IF eng.stop THEN "free" ELSE "ours"
  /\ fifo' = IF eng.dir = "write" THEN fifo
             ELSE Bytes(eng.call, eng.op, eng.off, eng.len)
  /\ log' = IF Recorded THEN [log EXCEPT ![eng.op] = @ \o fifo'] ELSE log
  /\ UNCHANGED <<driverVars, got, fresh, fault>>

Failure ==
  { [sts |-> {"PKT_DONE", "PKT_ERROR", "TX_NAK", "NORMAL_STOP"},
     error |-> "NoAcknowledge"],
    [sts |-> {"PKT_DONE", "PKT_ERROR", "ARBIT_LOSS"},
     error |-> "ArbitrationLoss"],
    [sts |-> {"PKT_DONE", "PKT_ERROR", "ABNORMAL"}, error |-> "Abnormal"],
    [sts |-> {"PKT_DONE", "PKT_ERROR", "SDA_DL_TO"}, error |-> "Bus"],
    [sts |-> {"SCL_LOW_TO"}, error |-> "Timeout"] }

EngineFails ==
  /\ Runs
  /\ \E f \in Failure :
       /\ f.error = "NoAcknowledge" => HasBus
       /\ sts' = sts \cup f.sts
       /\ bus' = IF f.error = "ArbitrationLoss" \/ bus = "other"
                 THEN "other" ELSE "free"
       /\ fault' = IF Recorded /\ pc # "idle" THEN f.error ELSE fault
  /\ eng' = NoCmd
  /\ UNCHANGED <<driverVars, fifo, log, got, fresh>>

EngineRecovers ==
  /\ eng = RecoverCmd
  /\ eng' = NoCmd
  /\ \/ sts' = sts \cup {"BUS_RECOVER"}
     \/ sts' = sts \cup {"BUS_RECOVER", "BUS_RECOVER_FAIL"}
  /\ UNCHANGED <<driverVars, fifo, bus, log, got, fresh, fault>>

OtherTakes ==
  /\ bus = "free" /\ bus' = "other"
  /\ UNCHANGED <<driverVars, sts, eng, fifo, log, got, fresh, fault>>

OtherReleases ==
  /\ bus = "other" /\ bus' = "free"
  /\ UNCHANGED <<driverVars, sts, eng, fifo, log, got, fresh, fault>>

-----------------------------------------------------------------------------
Init ==
  /\ mode \in I2cXferMode /\ dma \in DmaLengths
  /\ ncalls = 0 /\ prog = <<>> /\ cur = 1 /\ off = 0
  /\ pc = "idle" /\ left = 0 /\ result = "Ok"
  /\ sts = {} /\ eng = NoCmd /\ fifo = <<>> /\ bus = "free"
  /\ log = <<>> /\ got = <<>> /\ fresh = TRUE /\ fault = "none"

Driver ==
  StartOp \/ Done \/ Stage \/ Issue \/ Poll \/ Check \/ RecoverPoll

Engine == EngineAcks \/ EngineFails \/ EngineRecovers

Next == Begin \/ RecoverBus \/ Driver \/ Engine \/ OtherTakes \/ OtherReleases

Spec == Init /\ [][Next]_vars

-----------------------------------------------------------------------------
(* Properties *)

(* Types of the registers, the driver's state and the histories.           *)
TypeOK ==
  /\ mode \in I2cXferMode /\ dma \in DmaLengths
  /\ ncalls \in 0 .. MaxCalls
  /\ prog \in Programs \cup {<<>>}
  /\ cur \in 1 .. 3 /\ off \in Nat
  /\ pc \in {"idle", "op", "stage", "issue", "poll", "check", "recover"}
  /\ left \in 0 .. Patience
  /\ result \in I2cError \cup {"Ok"}
  /\ sts \subseteq Status
  /\ eng \in Command \cup {NoCmd, RecoverCmd}
  /\ fifo \in Seq(Byte)
  /\ bus \in {"free", "ours", "other"}
  /\ DOMAIN log = DOMAIN prog /\ DOMAIN got = DOMAIN prog
  /\ \A i \in DOMAIN prog : log[i] \in Seq(Byte) /\ got[i] \in Seq(Byte)
  /\ fresh \in BOOLEAN /\ fault \in I2cError \cup {"none"}

Message(i) == Bytes(ncalls, i, 0, prog[i].len)

(* A call that found the engine idle returns Ok only when every byte of    *)
(* every operation went over the bus, in order and once, and every read    *)
(* gave the caller those bytes: no completion left over from an earlier    *)
(* call is taken for one of this call.                                     *)
OkMeansDelivered ==
  pc = "idle" /\ fresh /\ ncalls > 0 /\ result = "Ok" =>
    \A i \in DOMAIN prog :
      /\ log[i] = Message(i)
      /\ got[i] = IF prog[i].dir = "read" THEN Message(i) ELSE <<>>

(* An error a command of such a call ends with is what the call returns:   *)
(* clearing the status before looking at it loses none.                    *)
ErrorsSurface ==
  pc = "idle" /\ fresh /\ fault # "none" => result = fault

(* Between the chunks of one operation the bus stays ours, as only the     *)
(* last chunk carries STOP: no other master comes between the bytes.       *)
HeldWithinOp ==
  fresh /\ pc \in {"stage", "issue"} /\ off > 0 => bus = "ours"

(* "The bus is held between operations" (hal_impl.rs, transaction).        *)
HeldBetweenOps ==
  fresh /\ pc = "op" /\ cur \in DOMAIN prog
        /\ (\E i \in DOMAIN prog : i < cur /\ prog[i].len > 0)
    => bus = "ours"

=============================================================================
