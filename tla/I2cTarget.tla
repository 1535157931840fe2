----------------------------- MODULE I2cTarget -----------------------------
(***************************************************************************)
(* The two I2C drivers as a target: src/src/i2c_core/slave.rs ("Core"),    *)
(* which hands events to an application that polls it and then calls       *)
(* slave_read and slave_write, and the second half of                      *)
(* src/src/i2c/ast1060_i2c.rs ("Legacy"), whose interrupt handler calls an *)
(* I2CTarget itself. The external master and the engine are the            *)
(* environment: the engine moves bytes while it is armed, raises status    *)
(* bits, and refuses writes or holds the clock while it is not.            *)
(*                                                                         *)
(* The polling application is the event loop of                            *)
(* tests-hw/src/i2c_master_slave_test.rs. Byte i of transfer t is <<t, i>>;*)
(* the j-th byte the application has ever handed out is <<"app", j>>. The  *)
(* address byte the core driver has the engine save is left out.           *)
(***************************************************************************)
EXTENDS Integers, Sequences

CONSTANTS
  Drivers,   \* subset of {"Core", "Legacy"}
  Modes,     \* subset of {"Dma", "Buff", "Byte"}
  Size,      \* bytes of the receive buffer: 32, 256 or 4096
  WriteLens, \* lengths of the external master's writes
  ReadLens,  \* lengths of its reads
  AppLen,    \* bytes the polling application answers with
  MaxXfers   \* bound on transfers

ASSUME TargetAssumption ==
  /\ Drivers \subseteq {"Core", "Legacy"} /\ Modes \subseteq {"Dma", "Buff", "Byte"}
  /\ Size \in Nat \ {0} /\ AppLen \in Nat \ {0}
  /\ WriteLens \subseteq Nat /\ ReadLens \subseteq Nat \ {0}
  /\ MaxXfers \in Nat

VARIABLES
  conf,    \* driver and xfer_mode
  on,      \* the slave function is enabled
  armed,   \* I2CS28: "none", "rx", "tx", or "wrong" for an engine not in use
  mem,     \* the buffer the engine receives into and sends from
  rxlen,   \* the receive count: I2CS4C or I2CC0C
  txpos, txlen,
  sts,     \* I2CS24
  xf,      \* the external master's transfer
  match,   \* an address match the engine has not reported
  xfers,   \* transfers so far
  wrote,   \* history: bytes the engine acknowledged
  read,    \* history: bytes the external master has read in this transfer
  pc,      \* the polling application: "poll", or the call it makes next
  seen,    \* the status a handler has read and not cleared yet, else {}
  heard,   \* history: bytes the application was given
  handed,  \* history: bytes it has handed out for this transfer
  given,   \* how many it has ever handed out
  told,    \* the application is within a transfer: started, not stopped
  broken,  \* history: an event the driver has no answer to
  lossy,   \* history: bytes nobody fetched were given up or written over
  missed   \* history: an event was cleared unseen, and no set-up since

driver == <<armed, mem, rxlen, txpos, txlen, sts>>
master == <<xf, match, xfers, wrote, read>>
app == <<pc, heard, handed, given, told>>
marks == <<broken, lossy>>
handler == <<seen, missed>>
vars == <<conf, on, driver, master, app, marks, handler>>

Core == conf.drv = "Core"
Legacy == conf.drv = "Legacy"
ByteMode == conf.mode = "Byte"
Capacity == IF ByteMode THEN 1 ELSE Size
NoXfer == [dir |-> "none", n |-> 0, len |-> 0, then |-> 0]
Free == xf = NoXfer

-----------------------------------------------------------------------------
(* The external master and the engine *)

Raise(bits) == sts' = sts \cup bits
Matched == IF match THEN {"MATCH"} ELSE {}
Packet == IF ByteMode THEN {} ELSE {"PKT_DONE"}
Holding == sts \cap {"WAIT_RX", "WAIT_TX"} # {}

(* In byte mode the address is a byte of its own and always taken, also    *)
(* over the STOP of a transfer the driver has not heard of yet. Otherwise  *)
(* a target that is not armed refuses.                                     *)
StartWrite ==
  /\ on /\ Free /\ xfers < MaxXfers /\ ~Holding
  /\ \E n \in WriteLens, m \in ReadLens \cup {0} :
       xf' = [dir |-> "write", n |-> 0, len |-> n, then |-> m]
  /\ IF ByteMode
     THEN /\ Raise({"MATCH", "RX_DONE", "WAIT_RX"}) /\ armed' = "none"
          /\ match' = FALSE /\ rxlen' = 0
     ELSE /\ armed = "rx" /\ match' = TRUE /\ rxlen' = 0
          /\ UNCHANGED <<sts, armed>>
  /\ xfers' = xfers + 1 /\ read' = <<>> /\ handed' = <<>>
  /\ UNCHANGED <<conf, on, mem, txpos, txlen, wrote, pc, heard, given, told,
                 marks, handler>>

(* A read over a STOP the driver has not taken is a pattern of byte mode   *)
(* that neither driver knows.                                              *)
StartRead ==
  /\ on /\ Free /\ xfers < MaxXfers /\ ~Holding
  /\ ByteMode \/ armed = "rx"
  /\ \E m \in ReadLens : xf' = [dir |-> "read", n |-> 0, len |-> m, then |-> 0]
  /\ Raise(Packet \cup {"MATCH", "WAIT_TX"}
             \cup (IF ByteMode THEN {"RX_DONE"} ELSE {}))
  /\ broken' = (broken \/ sts # {})
  /\ armed' = "none" /\ xfers' = xfers + 1 /\ read' = <<>> /\ handed' = <<>>
  /\ UNCHANGED <<conf, on, mem, rxlen, txpos, txlen, match, wrote, pc, heard,
                 given, told, lossy, handler>>

(* The engine may report the address before data.                          *)
ReportMatch ==
  /\ match /\ rxlen = 0 /\ sts = {} /\ ~ByteMode
  /\ Raise({"PKT_DONE", "MATCH"}) /\ match' = FALSE
  /\ UNCHANGED <<conf, on, armed, mem, rxlen, txpos, txlen, xf, xfers, wrote,
                 read, app, marks, handler>>

WriteByte ==
  /\ xf.dir = "write" /\ xf.n < xf.len /\ armed = "rx" /\ rxlen < Capacity
  /\ mem' = [mem EXCEPT ![rxlen] = <<xfers, xf.n>>]
  /\ rxlen' = rxlen + 1 /\ xf' = [xf EXCEPT !.n = @ + 1]
  /\ wrote' = Append(wrote, <<xfers, xf.n>>)
  /\ IF ByteMode THEN Raise({"RX_DONE", "WAIT_RX"}) /\ armed' = "none"
     ELSE UNCHANGED <<sts, armed>>
  /\ UNCHANGED <<conf, on, txpos, txlen, match, xfers, read, app, marks,
                 handler>>

BufferFull ==
  /\ xf.dir = "write" /\ armed = "rx" /\ rxlen = Capacity /\ ~ByteMode
  /\ Raise({"PKT_DONE", "RX_DONE", "WAIT_RX"} \cup Matched)
  /\ match' = FALSE /\ armed' = "none"
  /\ UNCHANGED <<conf, on, mem, rxlen, txpos, txlen, xf, xfers, wrote, read, app,
                 marks, handler>>

RxDone == IF rxlen > 0 /\ ~ByteMode THEN {"RX_DONE"} ELSE {}
WriteStop ==
  /\ xf.dir = "write" /\ xf.n = xf.len /\ xf.then = 0 /\ armed = "rx"
  /\ \E more \in {{}, {"RX_DONE_NAK"}, {"WAIT_RX"}} :
       /\ more # {} => rxlen = Capacity /\ ~ByteMode
       /\ Raise(Packet \cup Matched \cup RxDone \cup more \cup {"STOP"})
  /\ match' = FALSE /\ xf' = NoXfer
  /\ armed' = IF ByteMode THEN armed ELSE "none"
  /\ UNCHANGED <<conf, on, mem, rxlen, txpos, txlen, xfers, wrote, read, app,
                 marks, handler>>

Restart ==
  /\ xf.dir = "write" /\ xf.n = xf.len /\ xf.then > 0 /\ armed = "rx"
  /\ ByteMode \/ rxlen > 0
  /\ xf' = [dir |-> "read", n |-> 0, len |-> xf.then, then |-> xf.len]
  /\ Raise(IF ByteMode THEN {"MATCH", "RX_DONE", "WAIT_TX"}
           ELSE {"PKT_DONE", "RX_DONE", "WAIT_TX"} \cup Matched)
  /\ match' = FALSE /\ armed' = "none"
  /\ UNCHANGED <<conf, on, mem, rxlen, txpos, txlen, xfers, wrote, read, app,
                 marks, handler>>

ReadByte ==
  /\ xf.dir = "read" /\ armed = "tx" /\ txpos < txlen
  /\ read' = Append(read, mem[txpos]) /\ txpos' = txpos + 1
  /\ IF xf.n + 1 = xf.len
     THEN /\ Raise(Packet \cup {"TX_NAK", "STOP"})
          /\ xf' = NoXfer /\ armed' = "none"
     ELSE /\ xf' = [xf EXCEPT !.n = @ + 1]
          /\ IF txpos' = txlen
             THEN /\ Raise(Packet \cup {"WAIT_TX"}
                             \cup (IF ByteMode THEN {"TX_ACK"} ELSE {}))
                  /\ armed' = "none"
             ELSE UNCHANGED <<sts, armed>>
  /\ UNCHANGED <<conf, on, mem, rxlen, txlen, match, xfers, wrote, app, marks,
                 handler>>

(* The transfer breaks off, or the bus is quiet for too long within it.    *)
(* Only the time-out of the older driver has an answer, in buffer mode it  *)
(* arms the DMA, and a handler that has read the status clears it unseen.  *)
BusError ==
  /\ ~Free /\ ~ByteMode /\ pc = "poll"
  /\ sts' = {"PKT_DONE", "PKT_ERROR"} /\ broken' = TRUE
  /\ xf' = NoXfer /\ match' = FALSE /\ armed' = "none"
  /\ UNCHANGED <<conf, on, mem, rxlen, txpos, txlen, xfers, wrote, read, app,
                 lossy, handler>>
Inactive ==
  /\ ~Free /\ pc = "poll"
  /\ Raise({"INACTIVE_TO"}) /\ xf' = NoXfer /\ match' = FALSE
  /\ armed' = "none"
  /\ broken' = (broken \/ Core \/ conf.mode = "Buff" \/ seen # {})
  /\ lossy' = TRUE
  /\ UNCHANGED <<conf, on, mem, rxlen, txpos, txlen, xfers, wrote, read, app,
                 handler>>

-----------------------------------------------------------------------------
(* What the drivers make of the status bits: both have the same table.     *)

Sw == {{"MATCH"}, {"MATCH", "RX_DONE"}}
SwData == {{"MATCH", "WAIT_RX"}, {"MATCH", "RX_DONE", "WAIT_RX"}}
SwStop == {{"MATCH", "STOP"}}
MutData ==
  {{"RX_DONE", "STOP"}, {"RX_DONE", "WAIT_RX", "STOP"},
   {"MATCH", "RX_DONE", "STOP"}, {"MATCH", "RX_DONE", "WAIT_RX", "STOP"}}
Data ==
  {{"RX_DONE", "STOP"}, {"RX_DONE", "WAIT_RX"}, {"RX_DONE", "WAIT_RX", "STOP"},
   {"RX_DONE_NAK", "RX_DONE", "STOP"}, {"MATCH", "RX_DONE", "STOP"},
   {"MATCH", "RX_DONE", "WAIT_RX", "STOP"},
   {"MATCH", "RX_DONE_NAK", "RX_DONE", "STOP"}}
DataThenRead == {{"RX_DONE", "WAIT_TX"}, {"MATCH", "RX_DONE", "WAIT_TX"}}
FirstRead == {{"MATCH", "WAIT_TX"}}
NextRead == {{"WAIT_TX"}}
MutStop == {{"STOP"}}
Stop == {{"TX_NAK", "STOP"}, {"STOP"}}

ByteAddress == {"MATCH", "RX_DONE", "WAIT_RX"}
ByteStopAddress ==
  {ByteAddress \cup {"STOP"}, ByteAddress \cup {"STOP", "TX_NAK"}}
ByteData == {"RX_DONE", "WAIT_RX"}
ByteReads == {{"MATCH", "RX_DONE", "WAIT_TX"}, {"TX_ACK", "WAIT_TX"}}
ByteStop ==
  {{"STOP"}, {"STOP", "TX_NAK"}, {"MATCH", "STOP", "TX_NAK"},
   {"MATCH", "WAIT_RX", "STOP", "TX_NAK"}}

Reason == seen \ {"PKT_DONE", "PKT_ERROR"}

(* The command that receives, and the engine set to the beginning.         *)
ArmReceive == armed' = "rx" /\ rxlen' = 0
Arming == UNCHANGED <<mem, txpos, txlen>>
NotArming == UNCHANGED <<armed, mem, rxlen, txpos, txlen>>
Bytes(n) == [i \in 1 .. n |-> mem[i - 1]]

(* bytes is what the engine is to send.                                    *)
MutSend(bytes) ==
  /\ mem' = [i \in DOMAIN mem |->
               IF i < Len(bytes) THEN bytes[i + 1] ELSE mem[i]]
  /\ txlen' = Len(bytes) /\ armed' = "tx"
  /\ txpos' = IF txpos < Len(bytes) THEN txpos ELSE 0
Send(bytes) ==
  /\ mem' = [i \in DOMAIN mem |->
               IF i < Len(bytes) THEN bytes[i + 1] ELSE mem[i]]
  /\ txpos' = 0 /\ txlen' = Len(bytes)
  /\ armed' = "tx"
Answer(n) == [j \in 1 .. n |-> <<"app", given + j>>]
HandOut(n) ==
  /\ handed' = handed \o Answer(n) /\ given' = given + n
  /\ Send(Answer(n))
NothingHanded == UNCHANGED <<handed, given>>

(* A handler reads the status of a packet and clears it in two accesses:   *)
(* what clears PKT_DONE clears every event of a packet, those raised in    *)
(* between as well. The application and its handler do not overlap.        *)
MutReadStatus == \* arms the engine before it has cleared the status
  /\ on /\ pc = "poll" /\ seen = {} /\ "PKT_DONE" \in sts
  /\ IF Core THEN "PKT_ERROR" \notin sts ELSE "INACTIVE_TO" \notin sts
  /\ seen' = sts /\ ArmReceive /\ Arming
  /\ UNCHANGED <<conf, on, sts, master, app, marks, missed>>
ReadStatus ==
  /\ on /\ pc = "poll" /\ seen = {} /\ "PKT_DONE" \in sts
  /\ IF Core THEN "PKT_ERROR" \notin sts ELSE "INACTIVE_TO" \notin sts
  /\ seen' = sts
  /\ UNCHANGED <<conf, on, driver, master, app, marks, missed>>

ClearPacket ==
  /\ seen' = {} /\ sts' = IF Core THEN sts \cap {"INACTIVE_TO"} ELSE {}
  /\ missed' = (missed \/ sts # seen)

-----------------------------------------------------------------------------
(* handle_slave_interrupt of the core driver, polled: an event the         *)
(* application must follow up leaves the engine as it is.                  *)

PollPacket ==
  LET r == Reason IN
  /\ ClearPacket
  /\ lossy' = (lossy \/ sts # seen \/ r \in SwData)
  /\ CASE r \in SwData -> ArmReceive /\ Arming /\ pc' = "read"
       [] r \in SwStop \cup Stop -> ArmReceive /\ Arming /\ UNCHANGED pc
       [] r \in Data -> NotArming /\ pc' = "read"
       [] r \in DataThenRead -> NotArming /\ pc' = "readwrite"
       [] r \in FirstRead \cup NextRead -> NotArming /\ pc' = "write"
       [] OTHER -> NotArming /\ UNCHANGED pc

PollByte ==
  /\ CASE sts \in {ByteAddress} \cup ByteStopAddress \cup ByteStop ->
            /\ sts' = {} /\ ArmReceive /\ Arming /\ UNCHANGED pc
       [] sts = ByteData -> pc' = "read" /\ NotArming /\ UNCHANGED sts
       [] sts \in ByteReads -> pc' = "write" /\ NotArming /\ UNCHANGED sts
       [] OTHER -> UNCHANGED <<sts, pc>> /\ NotArming

Poll ==
  /\ Core /\ on /\ pc = "poll"
  /\ \/ seen # {} /\ PollPacket
     \/ /\ seen = {} /\ "PKT_ERROR" \in sts /\ sts' = {}
        /\ NotArming /\ UNCHANGED <<pc, lossy, handler>>
     \/ /\ seen = {} /\ sts # {} /\ sts \cap {"PKT_ERROR", "PKT_DONE"} = {}
        /\ PollByte /\ UNCHANGED <<lossy, handler>>
  /\ UNCHANGED <<conf, on, master, heard, handed, given, told, broken>>

(* slave_read, slave_write. In byte mode they clear the status. A read may *)
(* arm the buffer over an event nobody has taken: the next one mixes in.   *)
Cleared == sts' = IF ByteMode THEN {} ELSE sts
SlaveRead ==
  /\ Core /\ pc \in {"read", "readwrite"}
  /\ heard' = heard \o Bytes(rxlen)
  /\ ArmReceive /\ Arming /\ Cleared
  /\ pc' = IF pc = "read" THEN "poll" ELSE "write"
  /\ broken' = (broken \/ (~ByteMode /\ sts # {}))
  /\ UNCHANGED <<conf, on, master, handed, given, told, lossy, handler>>

ToSend == IF conf.mode # "Dma" THEN 1 ELSE IF AppLen < Size THEN AppLen ELSE Size
SlaveWrite ==
  /\ Core /\ pc = "write" /\ pc' = "poll"
  /\ HandOut(ToSend) /\ Cleared
  /\ UNCHANGED <<conf, on, master, rxlen, heard, told, marks, handler>>

-----------------------------------------------------------------------------
(* aspeed_i2c_slave_irq of the older driver.                               *)

(* SlaveWrRecvd, byte by byte. In buffer mode copy_from_buff has left only *)
(* the last word of the pool, at the front of the message buffer.          *)
Stale == [i \in 1 .. rxlen |-> <<"stale">>]
Deliver == heard' = heard \o (IF conf.mode = "Dma" THEN Bytes(rxlen) ELSE Stale)

(* Written: the order is kept, the address, the data, the stop.            *)
PacketAddress ==
  /\ told' = TRUE /\ NothingHanded
  /\ IF Reason \in Sw THEN NotArming /\ UNCHANGED heard
     ELSE /\ ArmReceive /\ Arming
          /\ IF conf.mode = "Dma" THEN Deliver ELSE UNCHANGED heard

PacketData ==
  /\ Deliver /\ ArmReceive /\ Arming /\ NothingHanded
  /\ told' = IF "STOP" \in Reason THEN FALSE ELSE told \/ "MATCH" \in Reason

(* A write turned into a read answers with what it received.               *)
PacketTurned ==
  /\ Deliver /\ Send(<<mem[0]>>) /\ NothingHanded
  /\ told' = TRUE /\ rxlen' = 0

PacketRead == HandOut(1) /\ UNCHANGED <<heard, told, rxlen>>

PacketStop ==
  /\ told' = FALSE /\ ArmReceive /\ Arming /\ NothingHanded
  /\ UNCHANGED heard

IrqPacket ==
  LET r == Reason IN
  /\ ClearPacket /\ lossy' = (lossy \/ sts # seen)
  /\ CASE r \in Sw \cup SwData -> PacketAddress
       [] r \in Data -> PacketData
       [] r \in DataThenRead -> PacketTurned
       [] r \in FirstRead \cup NextRead -> PacketRead
       [] r \in SwStop \cup Stop -> PacketStop
       [] OTHER -> NotArming /\ NothingHanded /\ UNCHANGED <<heard, told>>

IrqByte ==
  /\ sts' = {} /\ UNCHANGED <<lossy, handler>>
  /\ CASE sts \in {ByteAddress} \cup ByteStopAddress ->
            /\ told' = TRUE /\ ArmReceive /\ Arming /\ NothingHanded
            /\ UNCHANGED heard
       [] sts = ByteData ->
            /\ heard' = heard \o Bytes(rxlen)
            /\ ArmReceive /\ Arming /\ NothingHanded /\ UNCHANGED told
       [] sts \in ByteReads ->
            /\ HandOut(1) /\ UNCHANGED <<heard, told, rxlen>>
       [] OTHER ->
            /\ told' = (told /\ sts \notin ByteStop)
            /\ ArmReceive /\ Arming /\ NothingHanded /\ UNCHANGED heard

(* aspeed_i2c_slave_timeout, which switches the function off and on.       *)
IrqTimeout ==
  /\ sts' = {} /\ rxlen' = 0 /\ Arming /\ told' = FALSE
  /\ armed' = IF conf.mode = "Buff" THEN "wrong" ELSE "rx"
  /\ NothingHanded /\ missed' = FALSE /\ UNCHANGED <<heard, lossy, seen>>

SlaveIrq ==
  /\ Legacy /\ on
  /\ \/ seen # {} /\ IrqPacket
     \/ seen = {} /\ "INACTIVE_TO" \in sts /\ IrqTimeout
     \/ /\ seen = {} /\ sts # {} /\ sts \cap {"INACTIVE_TO", "PKT_DONE"} = {}
        /\ ByteMode /\ IrqByte
  /\ UNCHANGED <<conf, on, master, pc, broken>>

-----------------------------------------------------------------------------
(* Switching the target on and off *)

(* configure_slave, i2c_aspeed_slave_register.                             *)
SwitchOn ==
  /\ ~on /\ on' = TRUE /\ ArmReceive /\ Arming /\ sts' = {} /\ missed' = FALSE
  /\ UNCHANGED <<conf, master, app, marks, seen>>
(* disable_slave drops what is pending; i2c_aspeed_slave_unregister. The   *)
(* external master finds nobody.                                           *)
SwitchOff ==
  /\ on /\ pc = "poll" /\ seen = {} /\ on' = FALSE
  /\ sts' = {} /\ xf' = NoXfer /\ match' = FALSE
  /\ told' = FALSE /\ lossy' = (lossy \/ ~Free \/ sts # {})
  /\ UNCHANGED <<conf, armed, mem, rxlen, txpos, txlen, xfers, wrote, read, pc,
                 heard, handed, given, broken, handler>>
(* enable_slave counts on the engine being armed still.                    *)
EnableSlave ==
  /\ Core /\ ~on /\ xfers > 0 /\ on' = TRUE
  /\ broken' = (broken \/ armed # "rx")
  /\ UNCHANGED <<conf, driver, master, app, lossy, handler>>

-----------------------------------------------------------------------------
Init ==
  /\ conf \in [drv : Drivers, mode : Modes]
  /\ on = FALSE /\ armed = "none" /\ rxlen = 0 /\ txpos = 0 /\ txlen = 0
  /\ mem = [i \in 0 .. Size - 1 |-> <<"stale">>] /\ sts = {}
  /\ xf = NoXfer /\ match = FALSE /\ xfers = 0 /\ wrote = <<>> /\ read = <<>>
  /\ pc = "poll" /\ heard = <<>> /\ handed = <<>> /\ given = 0
  /\ told = FALSE /\ broken = FALSE /\ lossy = FALSE
  /\ seen = {} /\ missed = FALSE

External ==
  \/ StartWrite \/ StartRead \/ ReportMatch \/ WriteByte \/ BufferFull
  \/ WriteStop \/ Restart \/ ReadByte \/ BusError \/ Inactive
Next ==
  \/ External \/ ReadStatus \/ Poll \/ SlaveRead \/ SlaveWrite \/ SlaveIrq
  \/ SwitchOn \/ SwitchOff \/ EnableSlave
Spec == Init /\ [][Next]_vars

-----------------------------------------------------------------------------
AtRest == on /\ sts = {} /\ pc = "poll"

(* A target that has taken every event is armed for what the bus wants     *)
(* next: to send if a master is reading from it, otherwise to receive. It  *)
(* never goes deaf, and never leaves a master waiting on a held clock.     *)
(* Excused: an event the driver has no answer to (broken), and one it has  *)
(* cleared unseen (missed), until the target is set up again.              *)
ArmedForBus == armed = IF xf.dir = "read" THEN "tx" ELSE "rx"
Attentive == AtRest /\ ~broken /\ ~missed => ArmedForBus

(* Refuted by I2cMissed.cfg: nor does an event raised between the read and *)
(* the clearing of the status leave it deaf.                               *)
AttentiveAlways == AtRest /\ ~broken => ArmedForBus

(* Only the bare report of an address, over which the engine stays armed,  *)
(* lets a driver clear an event unseen: each other event it reads finds    *)
(* the engine at rest until the driver has cleared it and answers.         *)
MissedOverAddress ==
  [][~missed /\ missed' => broken \/ Reason \in Sw]_vars

(* Between transfers the application has been given every byte the engine  *)
(* acknowledged, once and in order, and the older driver has told it of    *)
(* the stop. Excused: buffer mode of the older driver, an event without an *)
(* answer, and bytes given up (lossy): a transfer that broke off, a first  *)
(* buffer the core driver armed again unread, an event cleared unseen.     *)
Delivered ==
  AtRest /\ Free /\ ~broken /\ ~lossy /\ ~(Legacy /\ conf.mode = "Buff") =>
    heard = wrote /\ ~told

(* What a master has read in a transfer is what the application handed out *)
(* for this transfer, in that order. Excused: the byte the older driver    *)
(* sends after a write, which it takes from the receive buffer.            *)
Echo(x) == Legacy /\ ~ByteMode /\ x.dir = "read" /\ x.then > 0
Answered ==
  on /\ xf.dir = "read" /\ ~broken /\ ~Echo(xf) =>
    /\ Len(read) <= Len(handed)
    /\ \A i \in DOMAIN read : read[i] = handed[i]
=============================================================================
