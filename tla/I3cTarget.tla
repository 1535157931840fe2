----------------------------- MODULE I3cTarget -----------------------------
(***************************************************************************)
(* The AST1060 I3C controller as a target (secondary role) on somebody     *)
(* else's bus: target_pending_read_notify, which offers the master an      *)
(* in-band interrupt and the data behind it, the secondary branch of       *)
(* i3c_aspeed_isr, and the dynamic address the master assigns              *)
(* (src/src/i3c/hardware.rs, hal_impl.rs).                                 *)
(*                                                                         *)
(* The thread offers one request at a time: it fills the TX FIFO and the   *)
(* command queue one write after another, raises SIR, and spins on two     *)
(* completions. The handler may run between any two of these writes, and   *)
(* resets every queue when a response reports an error. The master may     *)
(* act at any moment; its events other than the ones that serve a request  *)
(* are bounded by MaxBus.                                                  *)
(***************************************************************************)
EXTENDS Naturals, Sequences

CONSTANTS
  MaxCalls,   \* bound on the number of requests the application makes
  MaxBus,     \* bound on assignments, CCCs and private writes by the master
  Addr,       \* dynamic addresses the master assigns
  NoAddr,     \* target_config.addr is None
  ZeroAddr,   \* what i3cd004 reads while there is no dynamic address
  QueueCap    \* capacity of the work queue that carries the notifications

ASSUME TargetAssumption ==
  /\ MaxCalls \in Nat \ {0}
  /\ MaxBus \in Nat
  /\ QueueCap \in Nat \ {0}
  /\ NoAddr \notin Addr /\ ZeroAddr \notin Addr /\ NoAddr # ZeroAddr

Call == 1 .. MaxCalls

(* Commands name the request they were queued for and carry a TID.         *)
Tid == {"ibi", "rd_data", "master_wr"}
Idle   == [call |-> 0, tid |-> "master_wr"]

(* What a request puts in the TX FIFO; "rest" is a piece of a chunk whose  *)
(* head went out with another command.                                     *)
Chunk == [call : Call, kind : {"ibi", "data", "rest"}]

VARIABLES
  pc,         \* where the thread is in target_pending_read_notify
  id,         \* the number of the current (or the last) request
  res,        \* its result
  allowed,    \* config.sir_allowed_by_sw
  addr,       \* config.target_config.addr
  ibi_done,   \* config.target_ibi_done
  data_done,  \* config.target_data_done
  daq,        \* TargetDaAssignment items in the work queue
  isr,        \* where the handler is
  status,     \* its local: the interrupt status it read
  nresp,      \* its local: responses left to read
  cmdq, txq, respq, inflight,      \* the hardware's queues
  sir_req,    \* i3cd08c.sir: an in-band interrupt is requested
  sir_en,     \* i3cd038.SIR_EN: the master accepts them
  hwaddr,     \* i3cd004.dev_dynamic_addr
  pending,    \* latched bits of the interrupt status, RESP_READY apart
  halted,     \* cmtfrstatus is TARGET_HALT
  enabled,    \* i3cd000.enbl_i3cctrl
  nbus,       \* events of the master so far, up to MaxBus
  ibiTaken,   \* history: requests whose own IBI payload the master took
  dataRead,   \* history: requests whose own data the master read
  stray,      \* history: queues were reset while a command was on the bus
  given,      \* history: the last assignment, by its number among the events
  taken,      \* history: the last whose address the handler has read
  noticed,    \* history: the last the application knows the address of
  swallowed   \* history: the last acknowledged with its address not read

cfgVars    == <<allowed, addr, daq>>
doneVars   == <<ibi_done, data_done>>
threadVars == <<pc, id, res>>
isrVars    == <<isr, status, nresp>>
queueVars  == <<cmdq, txq, respq, inflight>>
lineVars   == <<sir_req, sir_en, hwaddr, enabled>>
daVars     == <<given, taken, noticed, swallowed>>
ghostVars  == <<ibiTaken, dataRead, stray, daVars>>
vars == <<threadVars, cfgVars, doneVars, isrVars, queueVars, lineVars,
          pending, halted, nbus, ghostVars>>

RespReady  == respq # << >>
IrqPending == pending # {} \/ RespReady
ThreadRuns == isr = "off" /\ ~IrqPending

-----------------------------------------------------------------------------
(* The thread: get_ibi_payload and target_pending_read_notify.             *)

(* Without an address, or before the master and the application have both  *)
(* allowed interrupts, nothing is sent.                                    *)
MayNotify == addr # NoAddr /\ allowed /\ sir_en

Notify ==
  /\ ThreadRuns /\ pc = "idle" /\ id < MaxCalls
  /\ id' = id + 1
  /\ IF MayNotify
       THEN pc' = "payload" /\ UNCHANGED res
       ELSE pc' = "idle" /\ res' = "refused"
  /\ UNCHANGED <<cfgVars, doneVars, isrVars, queueVars, lineVars, pending,
                 halted, nbus, ghostVars>>

(* Two writes of one kind: a chunk to the TX FIFO, a word to the command   *)
(* queue.                                                                  *)
WriteTx(from, to, kind) ==
  /\ ThreadRuns /\ pc = from
  /\ txq' = Append(txq, [call |-> id, kind |-> kind])
  /\ pc' = to
  /\ UNCHANGED <<id, res, cfgVars, doneVars, isrVars, cmdq, respq, inflight,
                 lineVars, pending, halted, nbus, ghostVars>>

WriteCmd(from, to, tid) ==
  /\ ThreadRuns /\ pc = from
  /\ cmdq' = Append(cmdq, [call |-> id, tid |-> tid])
  /\ pc' = to
  /\ UNCHANGED <<id, res, cfgVars, doneVars, isrVars, txq, respq, inflight,
                 lineVars, pending, halted, nbus, ghostVars>>

ResetIbiDone ==
  /\ ThreadRuns /\ pc = "ibi_reset"
  /\ ibi_done' = FALSE
  /\ pc' = "data"
  /\ UNCHANGED <<id, res, cfgVars, data_done, isrVars, queueVars, lineVars,
                 pending, halted, nbus, ghostVars>>

(* Mutant: the completion of the previous request is left standing.        *)
MutKeepDataDone ==
  /\ ThreadRuns /\ pc = "data_reset"
  /\ pc' = "sir"
  /\ UNCHANGED <<id, res, cfgVars, doneVars, isrVars, queueVars, lineVars,
                 pending, halted, nbus, ghostVars>>

ResetDataDone ==
  /\ ThreadRuns /\ pc = "data_reset"
  /\ data_done' = FALSE
  /\ pc' = "sir"
  /\ UNCHANGED <<id, res, cfgVars, ibi_done, isrVars, queueVars, lineVars,
                 pending, halted, nbus, ghostVars>>

RaiseSir ==
  /\ ThreadRuns /\ pc = "sir"
  /\ sir_req' = TRUE
  /\ pc' = "wait_ibi"
  /\ UNCHANGED <<id, res, cfgVars, doneVars, isrVars, queueVars, sir_en,
                 hwaddr, enabled, pending, halted, nbus, ghostVars>>

Goto(from, to, r) ==
  /\ ThreadRuns /\ pc = from
  /\ pc' = to
  /\ res' = r
  /\ UNCHANGED <<id, cfgVars, doneVars, isrVars, queueVars, lineVars, pending,
                 halted, nbus, ghostVars>>

(* Mutant: the wait for the master has no time-out.                        *)
MutWaitForEver == ibi_done /\ Goto("wait_ibi", "wait_data", res)

WaitIbi  == \/ ibi_done /\ Goto("wait_ibi", "wait_data", res)
            \/ ~ibi_done /\ Goto("wait_ibi", "halt", "io_error")
WaitData == \/ data_done /\ Goto("wait_data", "idle", "ok")
            \/ ~data_done /\ Goto("wait_data", "disable", "timeout")

(* enter_halt(false) only polls: the time-out of the IBI does not halt the *)
(* controller, so the poll usually expires.                                *)
Halt == Goto("halt", "flush", res)

(* reset_ctrl(RESET_CTRL_QUEUES). A command on the bus may survive it.     *)
FlushQueues ==
  /\ cmdq' = << >> /\ txq' = << >> /\ respq' = << >>

FlushBus ==
  /\ FlushQueues
  /\ inflight' \in {inflight, Idle}
  /\ stray' = (stray \/ inflight # Idle)

Flush(from, to) ==
  /\ ThreadRuns /\ pc = from
  /\ FlushBus
  /\ pc' = to
  /\ UNCHANGED <<id, res, cfgVars, doneVars, isrVars, lineVars, pending,
                 halted, nbus, ibiTaken, dataRead, daVars>>

Resume ==
  /\ ThreadRuns /\ pc = "resume"
  /\ halted' = FALSE
  /\ pc' = "idle"
  /\ UNCHANGED <<id, res, cfgVars, doneVars, isrVars, queueVars, lineVars,
                 pending, nbus, ghostVars>>

(* i3c_disable takes the pins away from the controller and ends what is on *)
(* the bus.                                                                *)
Disable ==
  /\ ThreadRuns /\ pc = "disable"
  /\ enabled' = FALSE
  /\ inflight' = Idle
  /\ pc' = "reset"
  /\ UNCHANGED <<id, res, cfgVars, doneVars, isrVars, cmdq, txq, respq,
                 sir_req, sir_en, hwaddr, pending, halted, nbus, ghostVars>>

(* i3c_enable writes 0 over the event register first; whether that clears  *)
(* the master's permission is up to the hardware.                          *)
Enable ==
  /\ ThreadRuns /\ pc = "enable"
  /\ enabled' = TRUE
  /\ sir_en' \in {sir_en, FALSE}
  /\ pc' = "idle"
  /\ UNCHANGED <<id, res, cfgVars, doneVars, isrVars, queueVars, sir_req,
                 hwaddr, pending, halted, nbus, ghostVars>>

(* The application takes a TargetDaAssignment item off the work queue and  *)
(* calls on_dynamic_address_assigned. The item names no address: what it   *)
(* finds is what the handler has read last.                                *)
NoticeAddress ==
  /\ ThreadRuns /\ pc = "idle" /\ daq > 0
  /\ daq' = daq - 1
  /\ allowed' = TRUE
  /\ noticed' = taken
  /\ UNCHANGED <<threadVars, addr, doneVars, isrVars, queueVars, lineVars,
                 pending, halted, nbus, ibiTaken, dataRead, stray, given,
                 taken, swallowed>>

-----------------------------------------------------------------------------
(* i3c_aspeed_isr, secondary branch.                                       *)

IsrEnter ==
  /\ isr = "off" /\ IrqPending
  /\ status' = pending \cup (IF RespReady THEN {"resp"} ELSE {})
  /\ isr' = "da"
  /\ UNCHANGED <<threadVars, cfgVars, doneVars, nresp, queueVars, lineVars,
                 pending, halted, nbus, ghostVars>>

Enqueued(n) == IF n < QueueCap THEN n + 1 ELSE n

(* The new address is read and a notification queued, or lost when the     *)
(* queue is full.                                                          *)
IsrDa ==
  /\ isr = "da"
  /\ IF "da" \in status
       THEN addr' = hwaddr /\ daq' = Enqueued(daq) /\ taken' = given
       ELSE UNCHANGED <<addr, daq, taken>>
  /\ isr' = "count"
  /\ UNCHANGED <<threadVars, allowed, doneVars, status, nresp, queueVars,
                 lineVars, pending, halted, nbus, ibiTaken, dataRead, stray,
                 given, noticed, swallowed>>

IsrCount ==
  /\ isr = "count"
  /\ nresp' = IF "resp" \in status THEN Len(respq) ELSE 0
  /\ isr' = "resp"
  /\ UNCHANGED <<threadVars, cfgVars, doneVars, status, queueVars, lineVars,
                 pending, halted, nbus, ghostVars>>

(* One turn of the response loop. Reading an empty queue (after a reset    *)
(* inside the loop) gives a word of zeroes: no error and no known TID.     *)
NextResp == IF respq = << >> THEN [tid |-> "master_wr", err |-> FALSE]
                             ELSE Head(respq)

IsrResp ==
  /\ isr = "resp" /\ nresp > 0
  /\ nresp' = nresp - 1
  /\ respq' = IF respq = << >> THEN respq ELSE Tail(respq)
  /\ isr' = IF NextResp.err THEN "halt" ELSE "resp"
  /\ ibi_done' = (ibi_done \/ (~NextResp.err /\ NextResp.tid = "ibi"))
  /\ data_done' = (data_done \/ (~NextResp.err /\ NextResp.tid = "rd_data"))
  /\ UNCHANGED <<threadVars, cfgVars, status, cmdq, txq, inflight, lineVars,
                 pending, halted, nbus, ghostVars>>

IsrRespDone ==
  /\ isr = "resp" /\ nresp = 0
  /\ isr' = "ccc"
  /\ UNCHANGED <<threadVars, cfgVars, doneVars, status, nresp, queueVars,
                 lineVars, pending, halted, nbus, ghostVars>>

(* The error path: poll for the halt, reset the queues, resume. Nothing is *)
(* completed: the thread finds out by its time-out.                        *)
IsrFlush ==
  /\ isr = "halt"
  /\ FlushBus
  /\ isr' = "resume"
  /\ UNCHANGED <<threadVars, cfgVars, doneVars, status, nresp, lineVars,
                 pending, halted, nbus, ibiTaken, dataRead, daVars>>

IsrResume ==
  /\ isr = "resume"
  /\ halted' = FALSE
  /\ isr' = "resp"
  /\ UNCHANGED <<threadVars, cfgVars, doneVars, status, nresp, queueVars,
                 lineVars, pending, nbus, ghostVars>>

(* target_handle_ccc_update: the event bits are written back (the master's *)
(* permissions are read-only to it), and a controller halted by the CCC is *)
(* resumed.                                                                *)
IsrCcc ==
  /\ isr = "ccc"
  /\ halted' = (halted /\ "ccc" \notin status)
  /\ isr' = "ack"
  /\ UNCHANGED <<threadVars, cfgVars, doneVars, status, nresp, queueVars,
                 lineVars, pending, nbus, ghostVars>>

(* The status bits read on entry are written back, those alone.            *)
(* Mutant: every latched bit is cleared, the ones set since included.      *)
MutAckAll(s) == {}

Unacknowledged(s) == pending \ s

IsrAck ==
  /\ isr = "ack"
  /\ pending' = Unacknowledged(status)
  /\ status' = {}
  /\ isr' = "off"
  /\ swallowed' = IF "da" \in status /\ taken # given THEN given ELSE swallowed
  /\ UNCHANGED <<threadVars, cfgVars, doneVars, nresp, queueVars, lineVars,
                 halted, nbus, ibiTaken, dataRead, stray, given, taken, noticed>>

-----------------------------------------------------------------------------
(* The hardware and the master (external).                                 *)

OnBus == enabled /\ ~halted /\ inflight = Idle /\ hwaddr # ZeroAddr

(* The master accepts the in-band interrupt, or reads: the command at the  *)
(* head of the queue is served, in the order of the queue.                 *)
HwServe ==
  /\ OnBus /\ cmdq # << >>
  /\ Head(cmdq).tid = "ibi" => sir_req /\ sir_en
  /\ inflight' = Head(cmdq)
  /\ cmdq' = Tail(cmdq)
  /\ sir_req' = (sir_req /\ Head(cmdq).tid # "ibi")
  /\ UNCHANGED <<threadVars, cfgVars, doneVars, isrVars, txq, respq, sir_en,
                 hwaddr, enabled, pending, halted, nbus, ghostVars>>

Answer(tid, err) ==
  /\ respq' = Append(respq, [tid |-> tid, err |-> err])
  /\ halted' = (halted \/ err)
  /\ pending' = IF err THEN pending \cup {"xfer_err"} ELSE pending

(* What the command on the bus takes from the TX FIFO: an IBI takes the    *)
(* head of whatever is first, a read needs its data whole.                 *)
Underflow == txq = << >> \/ (inflight.tid = "rd_data" /\ Head(txq).kind # "data")

LeftInTx ==
  IF txq = << >> THEN {<< >>}
  ELSE {Tail(txq)} \cup
       (IF inflight.tid = "ibi" /\ Head(txq).kind = "data"
        THEN {<<[Head(txq) EXCEPT !.kind = "rest"]>> \o Tail(txq)} ELSE {})

Sent(kind) == txq # << >> /\ Head(txq) = [call |-> inflight.call, kind |-> kind]

HwDone(err) ==
  /\ inflight # Idle
  /\ Underflow => err
  /\ Answer(inflight.tid, err)
  /\ txq' \in LeftInTx
  /\ inflight' = Idle
  /\ ibiTaken' = IF ~err /\ inflight.tid = "ibi" /\ Sent("ibi")
                 THEN ibiTaken \cup {inflight.call} ELSE ibiTaken
  /\ dataRead' = IF ~err /\ inflight.tid = "rd_data" /\ Sent("data")
                 THEN dataRead \cup {inflight.call} ELSE dataRead
  /\ UNCHANGED <<threadVars, cfgVars, doneVars, isrVars, cmdq, lineVars, nbus,
                 stray, daVars>>

BusEvent == enabled /\ nbus < MaxBus /\ nbus' = nbus + 1

(* A private write of the master, received or in error; of 256 bytes at    *)
(* most, beyond which the handler panics on the slice of its buffer.       *)
HwWritten(err) ==
  /\ BusEvent /\ OnBus
  /\ Answer("master_wr", err)
  /\ UNCHANGED <<threadVars, cfgVars, doneVars, isrVars, cmdq, txq, inflight,
                 lineVars, ghostVars>>

(* ENTDAA, SETDASA or SETNEWDA gives the target an address.                *)
HwAssign(a) ==
  /\ BusEvent
  /\ hwaddr' = a
  /\ pending' = pending \cup {"da"}
  /\ given' = nbus'
  /\ UNCHANGED <<threadVars, cfgVars, doneVars, isrVars, queueVars, sir_req,
                 sir_en, enabled, halted, ibiTaken, dataRead, stray, taken,
                 noticed, swallowed>>

(* RSTDAA takes it back; no interrupt is enabled for that.                 *)
HwForget ==
  /\ BusEvent /\ hwaddr # ZeroAddr
  /\ hwaddr' = ZeroAddr
  /\ UNCHANGED <<threadVars, cfgVars, doneVars, isrVars, queueVars, sir_req,
                 sir_en, enabled, pending, halted, ghostVars>>

(* ENEC or DISEC; the controller may halt on the CCC.                      *)
HwEvents(v) ==
  /\ BusEvent
  /\ sir_en' = v
  /\ pending' = pending \cup {"ccc"}
  /\ halted' \in {halted, TRUE}
  /\ UNCHANGED <<threadVars, cfgVars, doneVars, isrVars, queueVars, sir_req,
                 hwaddr, enabled, ghostVars>>

-----------------------------------------------------------------------------
Init ==
  /\ pc = "idle" /\ id = 0 /\ res = "none"
  /\ allowed = FALSE /\ addr \in {NoAddr, ZeroAddr} /\ daq = 0
  /\ ibi_done = FALSE /\ data_done = FALSE
  /\ isr = "off" /\ status = {} /\ nresp = 0
  /\ cmdq = << >> /\ txq = << >> /\ respq = << >> /\ inflight = Idle
  /\ sir_req = FALSE /\ sir_en = FALSE /\ hwaddr = ZeroAddr /\ enabled = TRUE
  /\ pending = {} /\ halted = FALSE /\ nbus = 0
  /\ ibiTaken = {} /\ dataRead = {} /\ stray = FALSE
  /\ given = 0 /\ taken = 0 /\ noticed = 0 /\ swallowed = 0

NotifyStep ==
  \/ WriteTx("payload", "ibi_cmd", "ibi")
  \/ WriteCmd("ibi_cmd", "ibi_reset", "ibi")
  \/ ResetIbiDone
  \/ WriteTx("data", "data_cmd", "data")
  \/ WriteCmd("data_cmd", "data_reset", "rd_data")
  \/ ResetDataDone
  \/ RaiseSir
  \/ WaitIbi \/ WaitData
  \/ Halt \/ Flush("flush", "resume") \/ Resume
  \/ Disable \/ Flush("reset", "enable") \/ Enable

IsrStep ==
  \/ IsrEnter \/ IsrDa \/ IsrCount \/ IsrResp \/ IsrRespDone
  \/ IsrFlush \/ IsrResume \/ IsrCcc \/ IsrAck

HwStep ==
  \/ HwServe
  \/ \E err \in BOOLEAN : HwDone(err) \/ HwWritten(err)
  \/ \E a \in Addr : HwAssign(a)
  \/ HwForget
  \/ \E v \in BOOLEAN : HwEvents(v)

(* The bounds are used up and the target waits for a master.               *)
Stopped ==
  /\ pc = "idle" /\ id = MaxCalls /\ ThreadRuns
  /\ UNCHANGED vars

Next == Notify \/ NoticeAddress \/ NotifyStep \/ IsrStep \/ HwStep \/ Stopped

(* The thread's waits are counted loops, the handler runs to its end, and  *)
(* the application serves its work queue whenever it is not in a call. The *)
(* master owes nothing.                                                    *)
Fairness ==
  /\ WF_vars(NotifyStep)
  /\ WF_vars(IsrStep)
  /\ WF_vars(NoticeAddress)

Spec == Init /\ [][Next]_vars /\ Fairness

-----------------------------------------------------------------------------
(* Properties.                                                             *)

(* target_pending_read_notify returns Ok only when the master has taken    *)
(* this request's interrupt payload and read this request's data, although *)
(* the handler may have reset the TX FIFO under the thread, and although   *)
(* an earlier request may have timed out with its SIR still raised. The    *)
(* exception is a queue reset that hits a command on the bus.              *)
OkDeliversOwn ==
  (pc = "idle" /\ res = "ok" /\ ~stray) =>
    id \in ibiTaken /\ id \in dataRead

(* Every request returns, whatever the master does.                        *)
NotifyReturns == (pc # "idle") ~> (pc = "idle")

(* Every assignment of an address reaches the application, which learns    *)
(* that address or a later one, although the handler may be anywhere in    *)
(* its run, the work queue may be full and an earlier item be under way.   *)
(* The exception is an assignment that comes after the handler has read    *)
(* the address of another and before it acknowledges that (i3c_aspeed_isr, *)
(* i3c_ibi_work_enqueue_target_da_assignment).                             *)
DaNoticed ==
  \A n \in 1 .. MaxBus : (given >= n) ~> (noticed >= n \/ swallowed >= n)

(* config.target_config.addr is the dynamic address assigned by the        *)
(* controller once the handler has nothing left to do. It fails when a     *)
(* second assignment arrives between the handler's read of the address and *)
(* its acknowledgement.                                                    *)
TargetAddrCurrent ==
  (isr = "off" /\ ~IrqPending /\ hwaddr # ZeroAddr) => addr = hwaddr

=============================================================================
