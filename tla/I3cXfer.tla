------------------------------ MODULE I3cXfer ------------------------------
(***************************************************************************)
(* Blocking transfers of the AST1060 I3C controller in its primary role    *)
(* (src/src/i3c/hardware.rs): do_ccc, do_entdaa and priv_xfer, the         *)
(* interrupt handler that answers them, and the time-out path that takes a *)
(* transfer back from the interrupt handler.                               *)
(*                                                                         *)
(* Three parties share the state.                                          *)
(*   - The thread runs one call at a time (the methods take &mut self). It *)
(*     publishes the address of a descriptor on its own stack in           *)
(*     config.curr_xfer and spins on the descriptor's Completion.          *)
(*   - i3c_aspeed_isr runs on the same core: while it is pending or        *)
(*     running the thread takes no step, and nothing else calls end_xfer.  *)
(*   - The hardware fetches commands, answers them and halts; it runs      *)
(*     beside both, and only its register interface is modelled.           *)
(*                                                                         *)
(* A call is a number and its descriptor is the record xfer: curr_xfer     *)
(* holds the number of the call whose descriptor it points at, or NoCall   *)
(* for the null pointer.                                                   *)
(***************************************************************************)
EXTENDS Naturals, Sequences

CONSTANTS
  MaxCalls,     \* bound on the number of calls
  MaxCmds,      \* bound on the commands of one transfer (MAX_CMDS in the code)
  TidCount,     \* number of transaction ids: the TID field has 4 bits
  HaltMayFail   \* may the controller miss the deadline of a halt poll?

ASSUME XferAssumption ==
  /\ MaxCalls \in Nat \ {0}
  /\ MaxCmds  \in Nat \ {0}
  /\ TidCount \in Nat \ {0}
  /\ HaltMayFail \in BOOLEAN

Kind == {"ccc", "entdaa", "priv"}
Cmd  == 0 .. MaxCmds - 1
Call == 1 .. MaxCalls

NoCall == 0

(* RESPONSE_ERROR_*: success, the broadcast-address NACK do_ccc forgives,  *)
(* the abort code, and one value for every other error.                    *)
RespErr == {"ok", "iba_nack", "abort", "err"}

(* A word of the RX FIFO is named after the read that fetched it; NoWord   *)
(* is what a buffer holds before, or an empty FIFO returns.                *)
Word   == [call : {NoCall} \cup Call, cmd : Cmd]
NoWord == [call |-> NoCall, cmd |-> 0]

(* I3cCmd: what the response wrote back, and the receive buffer.           *)
CmdState == [ret : RespErr, rx_len : 0 .. 1, data : Word]

(* I3cXfer and the locals of the call that owns it. ret "unset" is the -1  *)
(* that start_xfer writes.                                                 *)
Xfer == [id   : {NoCall} \cup Call,
         kind : Kind,
         n    : 1 .. MaxCmds,
         rd   : [Cmd -> BOOLEAN],
         cmds : [Cmd -> CmdState],
         ret  : RespErr \cup {"unset"},
         done : BOOLEAN]

(* An entry of the command queue and of the response queue.                *)
QCmd  == [call : Call, cmd : Cmd, rd : BOOLEAN]
QResp == [call : Call, cmd : Cmd, err : RespErr, len : 0 .. 1]
Idle  == [call |-> NoCall, cmd |-> 0, rd |-> FALSE]

VARIABLES
  pc,         \* where the thread is in its call
  xfer,       \* the descriptor of the current (or the last) call
  pushed,     \* commands written to the command queue so far
  curr_xfer,  \* config.curr_xfer: the call whose descriptor the ISR may use
  res,        \* result of the last call that returned
  isr,        \* where the interrupt handler is
  nresp,      \* its local: responses counted on entry to end_xfer
  iter,       \* its local: loop variable
  isr_ret,    \* its local: the result it accumulates
  seen_err,   \* its local: TRANSFER_ERR in the status it read
  cmdq,       \* command queue
  inflight,   \* the command on the bus, or Idle
  respq,      \* response queue
  rxq,        \* RX FIFO
  thld,       \* response_buffer_threshold_value
  err_stat,   \* latched TRANSFER_ERR status
  aborting,   \* i3cabort is set and the controller has not reacted yet
  halted,     \* cmtfrstatus is MASTER_HALT
  got,        \* history: the bus's answer to each command of this call
  tainted     \* history: a halt poll expired, or a command was queued after
              \* its transfer had already been answered

threadVars == <<pc, xfer, pushed, curr_xfer, res>>
isrVars    == <<isr, nresp, iter, isr_ret, seen_err>>
queueVars  == <<cmdq, respq, rxq>>
hwVars     == <<queueVars, inflight, thld, err_stat, aborting, halted>>
ghostVars  == <<got, tainted>>
vars       == <<threadVars, isrVars, hwVars, ghostVars>>

ThreadPc == {"idle", "publish", "arm", "push", "wait", "abort", "halt",
             "flush", "resume", "unpublish", "result"}
IsrPc    == {"off", "end_xfer", "collect", "scan", "halt", "flush",
             "resume", "complete", "ack", "panic"}

-----------------------------------------------------------------------------
(* Interrupts. RESP_READY follows the response count, TRANSFER_ERR is      *)
(* latched until it is written back. The handler runs as soon as its line  *)
(* is asserted, so the thread moves only while neither holds.              *)

RespReady  == Len(respq) > thld
IrqPending == RespReady \/ err_stat

ThreadRuns == isr = "off" /\ ~IrqPending

-----------------------------------------------------------------------------
(* The thread.                                                             *)

FreshCmd(rd) == [ret |-> "ok", rx_len |-> IF rd THEN 1 ELSE 0, data |-> NoWord]

(* Everything do_ccc, do_entdaa and priv_xfer do up to start_xfer: one     *)
(* command for a CCC (a read or a write) and for ENTDAA (no data), one for *)
(* each message of a private transfer.                                     *)
CallShape(k, n, rd) ==
  /\ k \in {"ccc", "entdaa"} => n = 1
  /\ k = "entdaa" => rd = [c \in Cmd |-> FALSE]
  /\ \A c \in Cmd : c >= n => ~rd[c]

Begin(k, n, rd) ==
  /\ ThreadRuns /\ pc = "idle" /\ xfer.id < MaxCalls
  /\ CallShape(k, n, rd)
  /\ xfer' = [id |-> xfer.id + 1, kind |-> k, n |-> n, rd |-> rd,
              cmds |-> [c \in Cmd |-> FreshCmd(rd[c])],
              ret |-> "ok", done |-> FALSE]
  /\ pc' = "publish"
  /\ pushed' = 0
  /\ got' = [c \in Cmd |-> "none"]
  /\ res' = "none"
  /\ UNCHANGED <<curr_xfer, isrVars, hwVars, tainted>>

(* The argument checks of do_ccc and priv_xfer refuse a call (no such      *)
(* target, empty buffer) before any hardware is touched.                   *)
Refuse(k) ==
  /\ ThreadRuns /\ pc = "idle" /\ xfer.id < MaxCalls
  /\ k \in {"ccc", "priv"}
  /\ xfer' = [xfer EXCEPT !.id = @ + 1, !.kind = k, !.n = 1,
                          !.rd = [c \in Cmd |-> FALSE]]
  /\ got' = [c \in Cmd |-> "none"]
  /\ res' = "error"
  /\ UNCHANGED <<pc, pushed, curr_xfer, isrVars, hwVars, tainted>>

(* start_xfer hands the descriptor to the interrupt handler first ...      *)
Publish ==
  /\ ThreadRuns /\ pc = "publish"
  /\ curr_xfer' = xfer.id
  /\ pc' = "arm"
  /\ UNCHANGED <<xfer, pushed, res, isrVars, hwVars, ghostVars>>

(* ... then resets the result and the completion, and sets the threshold.  *)
ArmTo(t) ==
  /\ ThreadRuns /\ pc = "arm"
  /\ xfer' = [xfer EXCEPT !.ret = "unset", !.done = FALSE]
  /\ thld' = t
  /\ pc' = "push"
  /\ UNCHANGED <<pushed, curr_xfer, res, isrVars, queueVars, inflight,
                 err_stat, aborting, halted, ghostVars>>

(* A mutant of Arm: the threshold always asks for one response.            *)
MutArmOne == ArmTo(0)

Arm == ArmTo(xfer.n - 1)

(* One iteration of the loop that writes the commands. The hardware starts *)
(* on the first one while the rest are still being written.                *)
Push ==
  /\ ThreadRuns /\ pc = "push"
  /\ cmdq' = Append(cmdq, [call |-> xfer.id, cmd |-> pushed,
                           rd |-> xfer.rd[pushed]])
  /\ pushed' = pushed + 1
  /\ pc' = IF pushed + 1 = xfer.n THEN "wait" ELSE "push"
  /\ tainted' = (tainted \/ curr_xfer = NoCall)
  /\ UNCHANGED <<xfer, curr_xfer, res, isrVars, respq, rxq, inflight, thld,
                 err_stat, aborting, halted, got>>

(* wait_for_us returns true: the interrupt handler has answered.           *)
Answered ==
  /\ ThreadRuns /\ pc = "wait" /\ xfer.done
  /\ pc' = "result"
  /\ UNCHANGED <<xfer, pushed, curr_xfer, res, isrVars, hwVars, ghostVars>>

(* wait_for_us returns false: the counted wait ran out first.              *)
TimedOut ==
  /\ ThreadRuns /\ pc = "wait" /\ ~xfer.done
  /\ pc' = "abort"
  /\ UNCHANGED <<xfer, pushed, curr_xfer, res, isrVars, hwVars, ghostVars>>

(* enter_halt(true): ask the controller to abort ...                       *)
Abort ==
  /\ ThreadRuns /\ pc = "abort"
  /\ aborting' = ~halted
  /\ pc' = "halt"
  /\ UNCHANGED <<xfer, pushed, curr_xfer, res, isrVars, queueVars, inflight,
                 thld, err_stat, halted, ghostVars>>

(* ... and poll for the halt, a bounded number of times. The poll expires  *)
(* when the controller misses the deadline, or when the interrupt handler  *)
(* has resumed it in the meantime and no request is left to wait for.      *)
HaltPollEnds == halted \/ ~aborting \/ HaltMayFail

Halt ==
  /\ ThreadRuns /\ pc = "halt" /\ HaltPollEnds
  /\ tainted' = (tainted \/ (~halted /\ aborting))
  /\ pc' = "flush"
  /\ UNCHANGED <<xfer, pushed, curr_xfer, res, isrVars, hwVars, got>>

(* reset_ctrl(RESET_CTRL_XFER_QUEUES). Mutants: a reset mask without the   *)
(* response queue, or without the RX FIFO.                                 *)
MutFlushKeepsResponses == cmdq' = << >> /\ rxq' = << >> /\ UNCHANGED respq
MutFlushKeepsData == cmdq' = << >> /\ respq' = << >> /\ UNCHANGED rxq

FlushQueues ==
  /\ cmdq' = << >>
  /\ respq' = << >>
  /\ rxq' = << >>

Flush ==
  /\ ThreadRuns /\ pc = "flush"
  /\ FlushQueues
  /\ pc' = "resume"
  /\ UNCHANGED <<xfer, pushed, curr_xfer, res, isrVars, inflight, thld,
                 err_stat, aborting, halted, ghostVars>>

(* exit_halt: nothing to do unless the controller is halted.               *)
Resume ==
  /\ ThreadRuns /\ pc = "resume"
  /\ halted' = FALSE
  /\ pc' = "unpublish"
  /\ UNCHANGED <<xfer, pushed, curr_xfer, res, isrVars, queueVars, inflight,
                 thld, err_stat, aborting, ghostVars>>

(* Mutant of Unpublish: the time-out path returns with the pointer set.    *)
MutUnpublishKeepsPointer ==
  /\ ThreadRuns /\ pc = "unpublish"
  /\ IF xfer.kind = "ccc"
       THEN pc' = "result" /\ UNCHANGED res
       ELSE pc' = "idle" /\ res' = "error"
  /\ UNCHANGED <<xfer, pushed, curr_xfer, isrVars, hwVars, ghostVars>>

(* The last statement of the time-out path: take the pointer back. do_ccc  *)
(* goes on to read the result, the other two return an error.              *)
Unpublish ==
  /\ ThreadRuns /\ pc = "unpublish"
  /\ curr_xfer' = NoCall
  /\ IF xfer.kind = "ccc"
       THEN pc' = "result" /\ UNCHANGED res
       ELSE pc' = "idle" /\ res' = "error"
  /\ UNCHANGED <<xfer, pushed, isrVars, hwVars, ghostVars>>

(* The result of a call: do_ccc takes a NACK of the broadcast address for  *)
(* success.                                                                *)
Outcome(x) ==
  IF x.ret = "ok" \/ (x.kind = "ccc" /\ x.ret = "iba_nack")
    THEN "ok" ELSE "error"

Return ==
  /\ ThreadRuns /\ pc = "result"
  /\ res' = Outcome(xfer)
  /\ pc' = "idle"
  /\ UNCHANGED <<xfer, pushed, curr_xfer, isrVars, hwVars, ghostVars>>

-----------------------------------------------------------------------------
(* The interrupt handler.                                                  *)

(* i3c_aspeed_isr masks the line and reads the status; with RESP_READY or  *)
(* TRANSFER_ERR set it calls end_xfer.                                     *)
IsrEnter ==
  /\ isr = "off" /\ IrqPending
  /\ isr' = "end_xfer" /\ seen_err' = err_stat
  /\ UNCHANGED <<nresp, iter, isr_ret, threadVars, hwVars, ghostVars>>

(* Mutant of EndXferStray: no drain when there is no transfer.             *)
MutStrayNoDrain ==
  /\ isr = "end_xfer" /\ curr_xfer = NoCall
  /\ isr' = "ack"
  /\ UNCHANGED <<nresp, iter, isr_ret, seen_err, threadVars, hwVars,
                 ghostVars>>

(* end_xfer without a transfer: read the responses away, leave the RX FIFO *)
(* as it is.                                                               *)
EndXferStray ==
  /\ isr = "end_xfer" /\ curr_xfer = NoCall
  /\ respq' = << >>
  /\ isr' = "ack"
  /\ UNCHANGED <<nresp, iter, isr_ret, seen_err, threadVars, cmdq, rxq,
                 inflight, thld,
                 err_stat, aborting, halted, ghostVars>>

(* Mutant of EndXferTake: a load of the pointer where the code swaps it.   *)
MutTakeLoads ==
  /\ isr = "end_xfer" /\ curr_xfer # NoCall
  /\ nresp' = Len(respq)
  /\ iter' = 0
  /\ isr' = "collect"
  /\ UNCHANGED <<isr_ret, seen_err, threadVars, hwVars, ghostVars>>

(* end_xfer takes the pointer and counts the responses.                    *)
EndXferTake ==
  /\ isr = "end_xfer" /\ curr_xfer # NoCall
  /\ curr_xfer' = NoCall
  /\ nresp' = Len(respq)
  /\ iter' = 0
  /\ isr' = "collect"
  /\ UNCHANGED <<isr_ret, seen_err, pc, xfer, pushed, res, hwVars, ghostVars>>

TidOf(c) == c % TidCount

(* The RX words a response takes out of the FIFO, wherever they go.        *)
FirstWord == IF rxq = << >> THEN NoWord ELSE Head(rxq)
RxAfter(len) == IF len = 0 \/ rxq = << >> THEN rxq ELSE Tail(rxq)

(* The effect of response r on the command its transaction id names: a     *)
(* read without error fills the buffer, every other payload is drained.    *)
Answer(r, c) ==
  [c EXCEPT !.ret = r.err, !.rx_len = r.len,
            !.data = IF r.len = 1 /\ r.err = "ok" /\ xfer.rd[TidOf(r.cmd)]
                       THEN FirstWord ELSE @]

(* One response of the loop over nresp.                                    *)
EndXferCollect ==
  /\ isr = "collect" /\ iter < nresp
  /\ respq # << >>
  /\ LET r == Head(respq)
         t == TidOf(r.cmd)
     IN  /\ xfer' = IF t < xfer.n
                      THEN [xfer EXCEPT !.cmds[t] = Answer(r, @)]
                      ELSE xfer
         /\ rxq' = RxAfter(r.len)
  /\ respq' = Tail(respq)
  /\ iter' = iter + 1
  /\ UNCHANGED <<isr, nresp, isr_ret, seen_err, pc, pushed, curr_xfer, res,
                 cmdq,
                 inflight, thld, err_stat, aborting, halted, ghostVars>>

(* The loop ends; the second loop visits the commands by number, as many   *)
(* as there were responses.                                                *)
EndXferCollected ==
  /\ isr = "collect" /\ iter = nresp
  /\ iter' = 0
  /\ isr_ret' = "ok"
  /\ isr' = "scan"
  /\ UNCHANGED <<nresp, seen_err, threadVars, hwVars, ghostVars>>

(* xfer.cmds[i] panics when there were more responses than commands.       *)
EndXferScan ==
  /\ isr = "scan" /\ iter < nresp
  /\ IF iter < xfer.n
       THEN /\ isr_ret' = IF xfer.cmds[iter].ret # "ok"
                            THEN xfer.cmds[iter].ret ELSE isr_ret
            /\ iter' = iter + 1
            /\ UNCHANGED isr
       ELSE /\ isr' = "panic"
            /\ UNCHANGED <<isr_ret, iter>>
  /\ UNCHANGED <<nresp, seen_err, threadVars, hwVars, ghostVars>>

EndXferScanned ==
  /\ isr = "scan" /\ iter = nresp
  /\ isr' = IF isr_ret = "ok" THEN "complete" ELSE "halt"
  /\ UNCHANGED <<nresp, iter, isr_ret, seen_err, threadVars, hwVars,
                 ghostVars>>

(* After an error: enter_halt(false), reset_ctrl(RESET_CTRL_QUEUES),       *)
(* exit_halt.                                                              *)
IsrHalt ==
  /\ isr = "halt" /\ HaltPollEnds
  /\ tainted' = (tainted \/ ~halted)
  /\ isr' = "flush"
  /\ UNCHANGED <<nresp, iter, isr_ret, seen_err, threadVars, hwVars, got>>

IsrFlush ==
  /\ isr = "flush"
  /\ FlushQueues
  /\ isr' = "resume"
  /\ UNCHANGED <<nresp, iter, isr_ret, seen_err, threadVars, inflight, thld,
                 err_stat,
                 aborting, halted, ghostVars>>

IsrResume ==
  /\ isr = "resume"
  /\ halted' = FALSE
  /\ isr' = "complete"
  /\ UNCHANGED <<nresp, iter, isr_ret, seen_err, threadVars, queueVars,
                 inflight, thld,
                 err_stat, aborting, ghostVars>>

(* xfer.ret = ret; xfer.done.complete().                                   *)
IsrComplete ==
  /\ isr = "complete"
  /\ xfer' = [xfer EXCEPT !.ret = isr_ret, !.done = TRUE]
  /\ isr' = "ack"
  /\ UNCHANGED <<nresp, iter, isr_ret, seen_err, pc, pushed, curr_xfer, res,
                 hwVars,
                 ghostVars>>

(* Write the status back, the bits that were read alone, and unmask the    *)
(* line.                                                                   *)
IsrAck ==
  /\ isr = "ack"
  /\ err_stat' = (err_stat /\ ~seen_err)
  /\ isr' = "off" /\ seen_err' = FALSE
  /\ UNCHANGED <<nresp, iter, isr_ret, threadVars, queueVars, inflight, thld,
                 aborting, halted, ghostVars>>

-----------------------------------------------------------------------------
(* The controller hardware, as far as the driver's use of it shows.        *)

HwFetch ==
  /\ ~halted /\ inflight = Idle /\ cmdq # << >>
  /\ inflight' = Head(cmdq)
  /\ cmdq' = Tail(cmdq)
  /\ UNCHANGED <<threadVars, isrVars, respq, rxq, thld, err_stat, aborting,
                 halted, ghostVars>>

(* Every command asks for a response (ROC). An error latches TRANSFER_ERR  *)
(* and halts the controller.                                               *)
RespondWith(e, len) ==
  /\ respq' = Append(respq, [call |-> inflight.call, cmd |-> inflight.cmd,
                             err |-> e, len |-> len])
  /\ rxq' = IF len = 0 THEN rxq
            ELSE Append(rxq, [call |-> inflight.call, cmd |-> inflight.cmd])
  /\ got' = IF inflight.call = xfer.id
              THEN [got EXCEPT ![inflight.cmd] = e] ELSE got
  /\ err_stat' = (err_stat \/ e # "ok")
  /\ inflight' = Idle

HwRespond(e, len) ==
  /\ inflight # Idle /\ e # "abort"
  /\ len = 1 => inflight.rd /\ e # "iba_nack"
  /\ RespondWith(e, len)
  /\ halted' = (halted \/ e # "ok")
  /\ aborting' = (aborting /\ e = "ok")
  /\ UNCHANGED <<threadVars, isrVars, cmdq, thld, tainted>>

(* The controller honours an abort: the command on the bus is given up,    *)
(* with an abort response or without one.                                  *)
HwHalt ==
  /\ aborting
  /\ halted' = TRUE
  /\ aborting' = FALSE
  /\ \/ /\ inflight # Idle
        /\ RespondWith("abort", 0)
     \/ /\ inflight' = Idle
        /\ UNCHANGED <<respq, rxq, got, err_stat>>
  /\ UNCHANGED <<threadVars, isrVars, cmdq, thld, tainted>>

-----------------------------------------------------------------------------
Init ==
  /\ pc = "idle"
  /\ xfer = [id |-> NoCall, kind |-> "ccc", n |-> 1,
             rd |-> [c \in Cmd |-> FALSE],
             cmds |-> [c \in Cmd |-> FreshCmd(FALSE)],
             ret |-> "ok", done |-> FALSE]
  /\ pushed = 0
  /\ curr_xfer = NoCall
  /\ res = "none"
  /\ isr = "off" /\ nresp = 0 /\ iter = 0 /\ isr_ret = "ok" /\ seen_err = FALSE
  /\ cmdq = << >> /\ respq = << >> /\ rxq = << >>
  /\ inflight = Idle
  /\ thld = 0
  /\ err_stat = FALSE /\ aborting = FALSE /\ halted = FALSE
  /\ got = [c \in Cmd |-> "none"]
  /\ tainted = FALSE

ThreadStep ==
  \/ Publish \/ Arm \/ Push \/ Answered \/ TimedOut
  \/ Abort \/ Halt \/ Flush \/ Resume \/ Unpublish \/ Return

IsrStep ==
  \/ IsrEnter \/ EndXferStray \/ EndXferTake
  \/ EndXferCollect \/ EndXferCollected \/ EndXferScan \/ EndXferScanned
  \/ IsrHalt \/ IsrFlush \/ IsrResume \/ IsrComplete \/ IsrAck

HwStep ==
  \/ HwFetch
  \/ \E e \in RespErr, len \in 0 .. 1 : HwRespond(e, len)
  \/ HwHalt

Request ==
  \/ \E k \in Kind, n \in 1 .. MaxCmds, rd \in [Cmd -> BOOLEAN] :
       Begin(k, n, rd)
  \/ \E k \in Kind : Refuse(k)

(* The bounded number of calls is used up, or a panic stopped the core.    *)
Stopped ==
  /\ \/ pc = "idle" /\ xfer.id = MaxCalls
     \/ isr = "panic"
  /\ UNCHANGED vars

Next == Request \/ ThreadStep \/ IsrStep \/ HwStep \/ Stopped

(* The core never stops executing the code it is in: every wait of the     *)
(* thread is a counted loop, and so is every poll. The bus promises        *)
(* nothing, but a controller asked to abort does so or misses the poll.    *)
Fairness ==
  /\ WF_vars(ThreadStep)
  /\ WF_vars(IsrStep)
  /\ HaltMayFail \/ WF_vars(HwHalt)

Spec == Init /\ [][Next]_vars /\ Fairness

-----------------------------------------------------------------------------
(* Properties.                                                             *)

(* Every variable stays in its type.                                       *)
ThreadTypeOK ==
  /\ pc \in ThreadPc
  /\ xfer \in Xfer
  /\ pushed \in 0 .. MaxCmds
  /\ curr_xfer \in {NoCall} \cup Call
  /\ res \in {"none", "ok", "error"}

IsrTypeOK ==
  /\ isr \in IsrPc
  /\ nresp \in Nat /\ iter \in Nat
  /\ isr_ret \in RespErr /\ seen_err \in BOOLEAN

HwTypeOK ==
  /\ cmdq \in Seq(QCmd) /\ respq \in Seq(QResp) /\ rxq \in Seq(Word)
  /\ inflight \in QCmd \cup {Idle}
  /\ thld \in 0 .. MaxCmds - 1
  /\ err_stat \in BOOLEAN /\ aborting \in BOOLEAN /\ halted \in BOOLEAN

GhostTypeOK ==
  /\ got \in [Cmd -> RespErr \cup {"none"}]
  /\ tainted \in BOOLEAN

TypeOK == ThreadTypeOK /\ IsrTypeOK /\ HwTypeOK /\ GhostTypeOK

(* The handler holds the descriptor it took from curr_xfer.                *)
IsrHolds == isr \in {"collect", "scan", "halt", "flush", "resume", "complete"}

(* The descriptor is on the stack of a call that will not return before    *)
(* the thread has run again.                                               *)
FrameLive == pc \in {"arm", "push", "wait", "abort", "halt", "flush",
                     "resume", "unpublish"}

(* Memory safety of the unsafe dereference in end_xfer: whenever curr_xfer *)
(* is not null, or the handler works on a descriptor, that descriptor      *)
(* belongs to the call that is still in its frame (not to one that has     *)
(* returned, timed out or has its result read).                            *)
PointerIsLive ==
  /\ curr_xfer # NoCall => curr_xfer = xfer.id /\ FrameLive
  /\ IsrHolds => FrameLive

(* A transfer whose completion is signalled is out of the handler's reach: *)
(* it is never answered a second time, and its result does not change      *)
(* while the thread reads it.                                              *)
CompletedOnce ==
  xfer.done => curr_xfer = NoCall /\ ~IsrHolds

(* The index in end_xfer's second loop, which runs to the number of        *)
(* responses and not to the number of commands, stays in bounds.           *)
NoIndexPanic == isr = "panic" => tainted

(* What an earlier transfer left in the queues is not taken for an answer. *)
(* end_xfer finds no more responses than there are commands; and, after Ok *)
(* of a transfer whose commands have transaction ids of their own (there   *)
(* are 16, and MAX_CMDS is 32), a read that reports a payload holds the    *)
(* words its own command fetched, not those of an earlier transfer, longer *)
(* ones included, or of another command.                                   *)
OwnData ==
  /\ NoIndexPanic
  /\ (pc = "idle" /\ res = "ok" /\ ~tainted /\ xfer.n <= TidCount) =>
       \A c \in 0 .. xfer.n - 1 :
         (xfer.rd[c] /\ xfer.cmds[c].rx_len = 1) =>
           xfer.cmds[c].data = [call |-> xfer.id, cmd |-> c]

(* The return code of a transfer (I3cXfer::ret) speaks of the transfer's   *)
(* own commands: a call returns Ok only when the bus answered every one of *)
(* them without error, or with the NACK do_ccc forgives. It fails when a   *)
(* command errors while start_xfer is still writing the next ones: the     *)
(* handler resets the queues and completes the transfer, the thread then   *)
(* queues the rest, and their responses are counted for the next transfer. *)
ReturnCodeIsOwn ==
  (pc = "idle" /\ res = "ok") =>
    \A c \in 0 .. xfer.n - 1 :
      got[c] = "ok" \/ (xfer.kind = "ccc" /\ got[c] = "iba_nack")

(* Every call returns, whatever the bus does: no wait is unbounded and no  *)
(* interrupt source keeps the handler running for ever.                    *)
CallsReturn == (pc # "idle") ~> (pc = "idle" \/ isr = "panic")

(* The transfers implement the promise of I3cCall.                         *)
C == INSTANCE I3cCall WITH
       open <- pc # "idle", kind <- xfer.kind, n <- xfer.n
ImplementsCall == C!CallSpec

=============================================================================
