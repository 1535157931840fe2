--------------------------- MODULE I3cXferProofs ---------------------------
(***************************************************************************)
(* Proofs about I3cXfer, for every number of calls and commands: its type  *)
(* invariant, the memory safety of the pointer the thread shares with the  *)
(* interrupt handler, the bounds of the handler's second loop, that a call *)
(* which returns Ok was answered so by the bus (the refinement of I3cCall) *)
(* and, for as many transaction ids as commands, that reads return their   *)
(* own data.                                                               *)
(*                                                                         *)
(* The invariants, each resting on those before it:                        *)
(*   TypeInv   the types;                                                  *)
(*   SafeInv   who may reach the descriptor;                               *)
(*   FlowInv   what is in the queues is asked once and not answered yet;   *)
(*   Trusted   as long as answers are not mixed up, the commands of the    *)
(*             call are numbered through the queues without a gap;         *)
(*   DataInv   and the words in the RX FIFO are theirs, in their order.    *)
(***************************************************************************)
EXTENDS I3cXfer, SequenceTheorems, TLAPS

(* A call in progress has a number, and the loop variable of start_xfer    *)
(* stays below the number of commands.                                     *)
PushOK ==
  /\ pc \in {"publish", "arm"} => pushed = 0
  /\ pc = "push" => pushed < xfer.n
  /\ pc # "idle" => xfer.id # NoCall

(* A descriptor is handed over unanswered, and while the handler works on  *)
(* it nobody else can reach it.                                            *)
HandOver ==
  /\ pc = "publish" => ~xfer.done
  /\ IsrHolds => curr_xfer = NoCall

TypeInv == TypeOK /\ PushOK
SafeInv == PointerIsLive /\ CompletedOnce /\ HandOver

-----------------------------------------------------------------------------
(* Descriptors.                                                            *)

(* A descriptor built from parts of the right types is a descriptor.       *)
LEMMA XferMake ==
  ASSUME NEW i \in {NoCall} \cup Call, NEW k \in Kind, NEW m \in 1 .. MaxCmds,
         NEW r \in [Cmd -> BOOLEAN], NEW c \in [Cmd -> CmdState],
         NEW e \in RespErr \cup {"unset"}, NEW d \in BOOLEAN
  PROVE  [id |-> i, kind |-> k, n |-> m, rd |-> r, cmds |-> c,
          ret |-> e, done |-> d] \in Xfer
  BY DEF Xfer

(* Writing a result or a completion keeps it one.                          *)
LEMMA XferResult ==
  ASSUME xfer \in Xfer, NEW e \in RespErr \cup {"unset"}, NEW d \in BOOLEAN
  PROVE  [xfer EXCEPT !.ret = e, !.done = d] \in Xfer
  BY DEF Xfer

(* So does answering one of its commands.                                  *)
LEMMA XferAnswer ==
  ASSUME xfer \in Xfer, NEW t \in Cmd, NEW c \in CmdState
  PROVE  [xfer EXCEPT !.cmds[t] = c] \in Xfer
  BY DEF Xfer

(* So does giving it the number and shape of another call.                 *)
LEMMA XferShape ==
  ASSUME xfer \in Xfer, NEW i \in {NoCall} \cup Call, NEW k \in Kind,
         NEW m \in 1 .. MaxCmds, NEW r \in [Cmd -> BOOLEAN]
  PROVE  [xfer EXCEPT !.id = i, !.kind = k, !.n = m, !.rd = r] \in Xfer
  BY DEF Xfer

(* There is a command number 0, and a transfer of m commands uses only     *)
(* command numbers.                                                        *)
LEMMA CmdFacts ==
  /\ 0 \in Cmd
  /\ 1 \in 1 .. MaxCmds
  /\ \A m \in 1 .. MaxCmds, c \in Nat : c < m => c \in Cmd
  BY XferAssumption DEF Cmd

(* The empty receive word and a fresh command state have their types.      *)
LEMMA FreshType == NoWord \in Word /\ \A b \in BOOLEAN : FreshCmd(b) \in CmdState
  BY CmdFacts DEF FreshCmd, CmdState, RespErr, NoWord, Word

LEMMA FreshCmds ==
  ASSUME NEW rd \in [Cmd -> BOOLEAN]
  PROVE  [c \in Cmd |-> FreshCmd(rd[c])] \in [Cmd -> CmdState]
  <1>1. ASSUME NEW c \in Cmd PROVE FreshCmd(rd[c]) \in CmdState
    <2>1. rd[c] \in BOOLEAN
      OBVIOUS
    <2> QED
      BY <2>1, FreshType, Zenon
  <1> QED
    BY <1>1

LEMMA RespErrFacts == "ok" \in RespErr /\ "iba_nack" \in RespErr /\ "abort" \in RespErr
  BY DEF RespErr

LEMMA InitType == Init => TypeInv
  <1> SUFFICES ASSUME Init PROVE TypeInv
    OBVIOUS
  <1>1. [c \in Cmd |-> FALSE] \in [Cmd -> BOOLEAN]
    OBVIOUS
  <1>2. [c \in Cmd |-> FreshCmd(FALSE)] \in [Cmd -> CmdState]
    <2>1. FreshCmd(FALSE) \in CmdState
      BY FreshType, Zenon
    <2> QED
      BY <2>1
  <1>3. xfer \in Xfer
    <2>1. NoCall \in {NoCall} \cup Call /\ "ccc" \in Kind /\ FALSE \in BOOLEAN
      BY DEF Kind
    <2> QED
      BY <1>1, <1>2, <2>1, CmdFacts, RespErrFacts, XferMake DEF Init
  <1>4. ThreadTypeOK
    BY <1>3, XferAssumption DEF Init, ThreadTypeOK, ThreadPc
  <1>5. IsrTypeOK
    BY RespErrFacts DEF Init, IsrTypeOK, IsrPc
  <1>6. HwTypeOK
    <2>1. thld \in 0 .. MaxCmds - 1
      BY XferAssumption DEF Init
    <2>2. inflight \in QCmd \cup {Idle}
      BY DEF Init
    <2>3. cmdq \in Seq(QCmd) /\ respq \in Seq(QResp) /\ rxq \in Seq(Word)
      BY DEF Init
    <2> QED
      BY <2>1, <2>2, <2>3 DEF Init, HwTypeOK
  <1>7. GhostTypeOK
    BY DEF Init, GhostTypeOK
  <1>8. PushOK
    BY DEF Init, PushOK
  <1> QED
    BY <1>4, <1>5, <1>6, <1>7, <1>8 DEF TypeInv, TypeOK

-----------------------------------------------------------------------------
(* Steps of the thread preserve the types.                                 *)

LEMMA BeginType ==
  ASSUME TypeInv, NEW k \in Kind, NEW m \in 1 .. MaxCmds,
         NEW rd \in [Cmd -> BOOLEAN], Begin(k, m, rd)
  PROVE  TypeInv'
  <1>1. xfer' \in Xfer /\ xfer'.id # NoCall
    <2>1. xfer.id + 1 \in {NoCall} \cup Call /\ xfer.id + 1 # NoCall
      BY XferAssumption
      DEF TypeInv, TypeOK, ThreadTypeOK, Begin, Xfer, Call, NoCall
    <2>2. xfer' \in Xfer
      <3>1. FALSE \in BOOLEAN
        OBVIOUS
      <3> QED
        BY <2>1, <3>1, FreshCmds, RespErrFacts, XferMake DEF Begin
    <2> QED
      BY <2>1, <2>2 DEF Begin
  <1>2. ThreadTypeOK'
    BY <1>1, XferAssumption
    DEF TypeInv, TypeOK, ThreadTypeOK, Begin, ThreadPc
  <1>3. IsrTypeOK' /\ HwTypeOK'
    BY DEF TypeInv, TypeOK, IsrTypeOK, HwTypeOK, Begin, isrVars, hwVars, queueVars
  <1>4. GhostTypeOK'
    BY DEF TypeInv, TypeOK, GhostTypeOK, Begin
  <1>5. PushOK'
    BY <1>1 DEF PushOK, Begin
  <1> QED
    BY <1>2, <1>3, <1>4, <1>5 DEF TypeInv, TypeOK

LEMMA RefuseType ==
  ASSUME TypeInv, NEW k \in Kind, Refuse(k)
  PROVE  TypeInv'
  <1>1. xfer' \in Xfer
    <2>1. xfer.id + 1 \in {NoCall} \cup Call /\ xfer \in Xfer
      BY XferAssumption
      DEF TypeInv, TypeOK, ThreadTypeOK, Refuse, Xfer, Call, NoCall
    <2>2. [c \in Cmd |-> FALSE] \in [Cmd -> BOOLEAN]
      OBVIOUS
    <2> QED
      BY <2>1, <2>2, CmdFacts, XferShape DEF Refuse
  <1>2. ThreadTypeOK'
    BY <1>1 DEF TypeInv, TypeOK, ThreadTypeOK, Refuse
  <1>3. IsrTypeOK' /\ HwTypeOK'
    BY DEF TypeInv, TypeOK, IsrTypeOK, HwTypeOK, Refuse, isrVars, hwVars, queueVars
  <1>4. GhostTypeOK'
    BY DEF TypeInv, TypeOK, GhostTypeOK, Refuse
  <1>5. PushOK'
    BY DEF PushOK, Refuse
  <1> QED
    BY <1>2, <1>3, <1>4, <1>5 DEF TypeInv, TypeOK

LEMMA ThreadType == TypeInv /\ ThreadStep => TypeInv'
  <1> SUFFICES ASSUME TypeInv, ThreadStep PROVE TypeInv'
    OBVIOUS
  <1> USE DEF TypeInv, TypeOK, PushOK, ThreadTypeOK, IsrTypeOK, HwTypeOK,
              GhostTypeOK, isrVars, hwVars, queueVars, ghostVars
  <1>1. CASE Publish
    BY <1>1 DEF Publish, ThreadPc, Xfer
  <1>2. CASE Arm
    <2>1. xfer' \in Xfer
      BY <1>2, XferResult DEF Arm, ArmTo
    <2>2. /\ xfer.n \in 1 .. MaxCmds
          /\ xfer'.n = xfer.n /\ xfer'.id = xfer.id
      BY <1>2 DEF Arm, ArmTo, Xfer
    <2> QED
      BY <1>2, <2>1, <2>2, XferAssumption DEF Arm, ArmTo, ThreadPc
  <1>3. CASE Push
    <2>1. pushed \in Cmd /\ xfer.n \in 1 .. MaxCmds /\ pushed < xfer.n
      BY <1>3, CmdFacts DEF Push, Xfer
    <2>2. xfer.id \in Call
      BY <1>3 DEF Push, Xfer
    <2>3. [call |-> xfer.id, cmd |-> pushed, rd |-> xfer.rd[pushed]] \in QCmd
      BY <2>1, <2>2 DEF Xfer, QCmd
    <2>4. cmdq' \in Seq(QCmd)
      BY <1>3, <2>3 DEF Push
    <2> QED
      BY <1>3, <2>1, <2>4, XferAssumption DEF Push, ThreadPc
  <1>4. CASE Answered
    BY <1>4 DEF Answered, ThreadPc
  <1>5. CASE TimedOut
    BY <1>5 DEF TimedOut, ThreadPc
  <1>6. CASE Abort
    BY <1>6 DEF Abort, ThreadPc
  <1>7. CASE Halt
    BY <1>7 DEF Halt, ThreadPc
  <1>8. CASE Flush
    BY <1>8 DEF Flush, FlushQueues, ThreadPc
  <1>9. CASE Resume
    BY <1>9 DEF Resume, ThreadPc
  <1>10. CASE Unpublish
    BY <1>10 DEF Unpublish, ThreadPc
  <1>11. CASE Return
    BY <1>11 DEF Return, Outcome, ThreadPc
  <1> QED
    BY <1>1, <1>2, <1>3, <1>4, <1>5, <1>6, <1>7, <1>8, <1>9, <1>10, <1>11
    DEF ThreadStep

-----------------------------------------------------------------------------
(* So do those of the interrupt handler.                                   *)

(* What a response does to the command it answers, and to the RX FIFO.     *)
LEMMA AnswerType ==
  ASSUME HwTypeOK, xfer \in Xfer, respq # << >>,
         NEW t \in Cmd, TidOf(Head(respq).cmd) = t
  PROVE  Answer(Head(respq), xfer.cmds[t]) \in CmdState
  <1>1. Head(respq) \in QResp
    BY DEF HwTypeOK
  <1>2. FirstWord \in Word
    BY FreshType DEF FirstWord, HwTypeOK
  <1>3. xfer.cmds[t] \in CmdState
    BY DEF Xfer
  <1> QED
    BY <1>1, <1>2, <1>3 DEF Answer, CmdState, QResp

LEMMA RxAfterType ==
  ASSUME HwTypeOK, NEW len \in 0 .. 1
  PROVE  RxAfter(len) \in Seq(Word)
  BY DEF HwTypeOK, RxAfter

LEMMA CollectType ==
  ASSUME TypeInv, EndXferCollect
  PROVE  TypeInv'
  <1>1. Head(respq) \in QResp /\ Tail(respq) \in Seq(QResp)
    BY DEF TypeInv, TypeOK, HwTypeOK, EndXferCollect
  <1> DEFINE t == TidOf(Head(respq).cmd)
  <1>2. t \in Nat
    BY <1>1, XferAssumption DEF TidOf, QResp, Cmd
  <1>3. /\ xfer' \in Xfer /\ xfer'.n = xfer.n /\ xfer'.id = xfer.id
    <2>1. CASE t < xfer.n
      <3>1. t \in Cmd
        BY <1>2, <2>1, CmdFacts DEF TypeInv, TypeOK, ThreadTypeOK, Xfer
      <3>2. Answer(Head(respq), xfer.cmds[t]) \in CmdState
        BY <3>1, AnswerType DEF TypeInv, TypeOK, ThreadTypeOK, EndXferCollect
      <3>3. xfer' = [xfer EXCEPT !.cmds[t] = Answer(Head(respq), xfer.cmds[t])]
        BY <2>1 DEF EndXferCollect
      <3>4. xfer \in Xfer
        BY DEF TypeInv, TypeOK, ThreadTypeOK
      <3>5. xfer' \in Xfer
        BY <3>1, <3>2, <3>3, <3>4, XferAnswer
      <3> QED
        BY <3>3, <3>4, <3>5 DEF Xfer
    <2>2. CASE ~(t < xfer.n)
      BY <2>2 DEF EndXferCollect, TypeInv, TypeOK, ThreadTypeOK
    <2> QED
      BY <2>1, <2>2
  <1>4. rxq' \in Seq(Word)
    BY <1>1, RxAfterType DEF TypeInv, TypeOK, EndXferCollect, QResp
  <1>5. ThreadTypeOK'
    BY <1>3 DEF TypeInv, TypeOK, ThreadTypeOK, EndXferCollect
  <1>6. IsrTypeOK' /\ GhostTypeOK'
    BY DEF TypeInv, TypeOK, IsrTypeOK, GhostTypeOK, EndXferCollect, ghostVars
  <1>7. HwTypeOK'
    BY <1>1, <1>4 DEF TypeInv, TypeOK, HwTypeOK, EndXferCollect
  <1>8. PushOK'
    BY <1>3 DEF TypeInv, PushOK, EndXferCollect
  <1> QED
    BY <1>5, <1>6, <1>7, <1>8 DEF TypeInv, TypeOK

LEMMA ScanType ==
  ASSUME TypeInv, EndXferScan
  PROVE  TypeInv'
  <1>1. isr_ret' \in RespErr
    <2>1. CASE iter < xfer.n
      <3>1. iter \in Cmd
        BY <2>1, CmdFacts
        DEF TypeInv, TypeOK, ThreadTypeOK, IsrTypeOK, Xfer
      <3>2. xfer.cmds[iter].ret \in RespErr
        BY <3>1 DEF TypeInv, TypeOK, ThreadTypeOK, Xfer, CmdState
      <3> QED
        BY <2>1, <3>2 DEF EndXferScan, TypeInv, TypeOK, IsrTypeOK
    <2>2. CASE ~(iter < xfer.n)
      BY <2>2 DEF EndXferScan, TypeInv, TypeOK, IsrTypeOK
    <2> QED
      BY <2>1, <2>2
  <1>2. IsrTypeOK'
    BY <1>1 DEF EndXferScan, TypeInv, TypeOK, IsrTypeOK, IsrPc
  <1>3. ThreadTypeOK' /\ HwTypeOK' /\ GhostTypeOK' /\ PushOK'
    BY DEF EndXferScan, TypeInv, TypeOK, ThreadTypeOK, HwTypeOK, GhostTypeOK,
           PushOK, threadVars, hwVars, queueVars, ghostVars
  <1> QED
    BY <1>2, <1>3 DEF TypeInv, TypeOK

LEMMA IsrType == TypeInv /\ IsrStep => TypeInv'
  <1> SUFFICES ASSUME TypeInv, IsrStep PROVE TypeInv'
    OBVIOUS
  <1> USE DEF TypeInv, TypeOK, PushOK, ThreadTypeOK, IsrTypeOK, HwTypeOK,
              GhostTypeOK, threadVars, hwVars, queueVars, ghostVars
  <1>1. CASE IsrEnter
    BY <1>1 DEF IsrEnter, IsrPc
  <1>2. CASE EndXferStray
    BY <1>2 DEF EndXferStray, IsrPc
  <1>3. CASE EndXferTake
    BY <1>3 DEF EndXferTake, IsrPc
  <1>4. CASE EndXferCollect
    BY <1>4, CollectType
  <1>5. CASE EndXferCollected
    BY <1>5 DEF EndXferCollected, IsrPc, RespErr
  <1>6. CASE EndXferScan
    BY <1>6, ScanType
  <1>7. CASE EndXferScanned
    BY <1>7 DEF EndXferScanned, IsrPc
  <1>8. CASE IsrHalt
    BY <1>8 DEF IsrHalt, IsrPc
  <1>9. CASE IsrFlush
    BY <1>9 DEF IsrFlush, FlushQueues, IsrPc
  <1>10. CASE IsrResume
    BY <1>10, ZenonT(40) DEF IsrResume, IsrPc
  <1>11. CASE IsrComplete
    <2>1. xfer' \in Xfer
      <3>1. isr_ret \in RespErr \cup {"unset"} /\ TRUE \in BOOLEAN
        OBVIOUS
      <3> QED
        BY <1>11, <3>1, XferResult DEF IsrComplete
    <2>2. xfer'.n = xfer.n /\ xfer'.id = xfer.id
      BY <1>11 DEF IsrComplete, Xfer
    <2> QED
      BY <1>11, <2>1, <2>2 DEF IsrComplete, IsrPc
  <1>12. CASE IsrAck
    BY <1>12 DEF IsrAck, IsrPc
  <1> QED
    BY <1>1, <1>2, <1>3, <1>4, <1>5, <1>6, <1>7, <1>8, <1>9, <1>10, <1>11,
       <1>12
    DEF IsrStep

-----------------------------------------------------------------------------
(* And those of the hardware.                                              *)

LEMMA RespondType ==
  ASSUME TypeInv, inflight # Idle, NEW e \in RespErr, NEW len \in 0 .. 1,
         RespondWith(e, len)
  PROVE  /\ respq' \in Seq(QResp) /\ rxq' \in Seq(Word)
         /\ got' \in [Cmd -> RespErr \cup {"none"}]
         /\ inflight' = Idle
         /\ err_stat' \in BOOLEAN
  <1>1. inflight.call \in Call /\ inflight.cmd \in Cmd
    BY DEF TypeInv, TypeOK, HwTypeOK, QCmd
  <1>2. [call |-> inflight.call, cmd |-> inflight.cmd, err |-> e, len |-> len]
          \in QResp
    BY <1>1 DEF QResp
  <1>3. [call |-> inflight.call, cmd |-> inflight.cmd] \in Word
    BY <1>1 DEF Word
  <1>4. respq' \in Seq(QResp)
    BY <1>2 DEF RespondWith, TypeInv, TypeOK, HwTypeOK
  <1>5. rxq' \in Seq(Word)
    BY <1>3 DEF RespondWith, TypeInv, TypeOK, HwTypeOK
  <1>6. got' \in [Cmd -> RespErr \cup {"none"}]
    BY <1>1 DEF RespondWith, TypeInv, TypeOK, GhostTypeOK
  <1> QED
    BY <1>4, <1>5, <1>6 DEF RespondWith, TypeInv, TypeOK, HwTypeOK

LEMMA HwType == TypeInv /\ HwStep => TypeInv'
  <1> SUFFICES ASSUME TypeInv, HwStep PROVE TypeInv'
    OBVIOUS
  <1>1. CASE HwFetch
    <2>1. Head(cmdq) \in QCmd /\ Tail(cmdq) \in Seq(QCmd)
      BY <1>1 DEF HwFetch, TypeInv, TypeOK, HwTypeOK
    <2> QED
      BY <1>1, <2>1
      DEF HwFetch, TypeInv, TypeOK, PushOK, ThreadTypeOK, IsrTypeOK, HwTypeOK,
          GhostTypeOK, threadVars, isrVars, ghostVars
  <1>2. ASSUME NEW e \in RespErr, NEW len \in 0 .. 1, HwRespond(e, len)
        PROVE  TypeInv'
    <2>1. /\ respq' \in Seq(QResp) /\ rxq' \in Seq(Word)
          /\ got' \in [Cmd -> RespErr \cup {"none"}]
          /\ inflight' = Idle
          /\ err_stat' \in BOOLEAN
      BY <1>2, RespondType DEF HwRespond
    <2> QED
      BY <1>2, <2>1
      DEF HwRespond, TypeInv, TypeOK, PushOK, ThreadTypeOK, IsrTypeOK,
          HwTypeOK, GhostTypeOK, threadVars, isrVars
  <1>3. CASE HwHalt
    <2>1. /\ respq' \in Seq(QResp) /\ rxq' \in Seq(Word)
          /\ got' \in [Cmd -> RespErr \cup {"none"}]
          /\ inflight' = Idle
          /\ err_stat' \in BOOLEAN
      <3>1. CASE inflight # Idle /\ RespondWith("abort", 0)
        BY <3>1, RespondType, RespErrFacts
      <3>2. CASE inflight' = Idle /\ UNCHANGED <<respq, rxq, got, err_stat>>
        BY <3>2 DEF TypeInv, TypeOK, HwTypeOK, GhostTypeOK
      <3> QED
        BY <1>3, <3>1, <3>2 DEF HwHalt
    <2> QED
      BY <1>3, <2>1
      DEF HwHalt, TypeInv, TypeOK, PushOK, ThreadTypeOK, IsrTypeOK, HwTypeOK,
          GhostTypeOK, threadVars, isrVars
  <1> QED
    BY <1>1, <1>2, <1>3 DEF HwStep

LEMMA TypeStep == TypeInv /\ [Next]_vars => TypeInv'
  <1> SUFFICES ASSUME TypeInv, [Next]_vars PROVE TypeInv'
    OBVIOUS
  <1>1. CASE Request
    BY <1>1, BeginType, RefuseType DEF Request
  <1>2. CASE ThreadStep
    BY <1>2, ThreadType
  <1>3. CASE IsrStep
    BY <1>3, IsrType
  <1>4. CASE HwStep
    BY <1>4, HwType
  <1>5. CASE UNCHANGED vars
    BY <1>5
    DEF vars, threadVars, isrVars, hwVars, queueVars, ghostVars, TypeInv,
        TypeOK, PushOK, ThreadTypeOK, IsrTypeOK, HwTypeOK, GhostTypeOK
  <1> QED
    BY <1>1, <1>2, <1>3, <1>4, <1>5 DEF Next, Stopped

(* Every variable keeps its type, whatever the bounds.                     *)
THEOREM TypeCorrect == Spec => []TypeOK
  <1>1. TypeInv => TypeOK
    BY DEF TypeInv
  <1> QED
    BY <1>1, InitType, TypeStep, PTL DEF Spec

-----------------------------------------------------------------------------
(* Memory safety of the shared pointer.                                    *)

LEMMA InitSafe == Init => SafeInv
  BY DEF Init, SafeInv, PointerIsLive, CompletedOnce, HandOver, IsrHolds, NoCall

(* While the thread runs the handler holds nothing.                        *)
LEMMA ThreadAlone == ThreadRuns => isr = "off" /\ ~IsrHolds
  BY DEF ThreadRuns, IsrHolds

LEMMA RequestSafe ==
  ASSUME TypeInv, SafeInv, Request
  PROVE  SafeInv'
  <1> USE DEF SafeInv, PointerIsLive, CompletedOnce, HandOver, IsrHolds,
              FrameLive, isrVars
  <1>1. ASSUME NEW k \in Kind, NEW m \in 1 .. MaxCmds,
               NEW rd \in [Cmd -> BOOLEAN], Begin(k, m, rd)
        PROVE  SafeInv'
    BY <1>1, ThreadAlone DEF Begin
  <1>2. ASSUME NEW k \in Kind, Refuse(k)
        PROVE  SafeInv'
    BY <1>2, ThreadAlone DEF Refuse
  <1> QED
    BY <1>1, <1>2 DEF Request

LEMMA ThreadSafe ==
  ASSUME TypeInv, SafeInv, ThreadStep
  PROVE  SafeInv'
  <1> USE DEF SafeInv, PointerIsLive, CompletedOnce, HandOver, IsrHolds,
              FrameLive, isrVars
  <1>1. CASE Publish
    BY <1>1, ThreadAlone DEF Publish
  <1>2. CASE Arm
    <2>1. xfer'.id = xfer.id /\ ~xfer'.done
      BY <1>2 DEF Arm, ArmTo, TypeInv, TypeOK, ThreadTypeOK, Xfer
    <2> QED
      BY <1>2, <2>1, ThreadAlone DEF Arm, ArmTo
  <1>3. CASE Push
    BY <1>3, ThreadAlone DEF Push
  <1>4. CASE Answered
    BY <1>4, ThreadAlone DEF Answered
  <1>5. CASE TimedOut
    BY <1>5, ThreadAlone DEF TimedOut
  <1>6. CASE Abort
    BY <1>6, ThreadAlone DEF Abort
  <1>7. CASE Halt
    BY <1>7, ThreadAlone DEF Halt
  <1>8. CASE Flush
    BY <1>8, ThreadAlone DEF Flush
  <1>9. CASE Resume
    BY <1>9, ThreadAlone DEF Resume
  <1>10. CASE Unpublish
    BY <1>10, ThreadAlone DEF Unpublish
  <1>11. CASE Return
    BY <1>11, ThreadAlone DEF Return
  <1> QED
    BY <1>1, <1>2, <1>3, <1>4, <1>5, <1>6, <1>7, <1>8, <1>9, <1>10, <1>11
    DEF ThreadStep

LEMMA IsrSafe ==
  ASSUME TypeInv, SafeInv, IsrStep
  PROVE  SafeInv'
  <1> USE DEF SafeInv, PointerIsLive, CompletedOnce, HandOver, IsrHolds,
              FrameLive, threadVars
  <1>1. CASE IsrEnter
    BY <1>1 DEF IsrEnter
  <1>2. CASE EndXferStray
    BY <1>2 DEF EndXferStray
  <1>3. CASE EndXferTake
    BY <1>3 DEF EndXferTake
  <1>4. CASE EndXferCollect
    <2>1. xfer'.id = xfer.id /\ xfer'.done = xfer.done
      BY <1>4 DEF EndXferCollect, TypeInv, TypeOK, ThreadTypeOK, Xfer
    <2> QED
      BY <1>4, <2>1 DEF EndXferCollect
  <1>5. CASE EndXferCollected
    BY <1>5 DEF EndXferCollected
  <1>6. CASE EndXferScan
    BY <1>6 DEF EndXferScan
  <1>7. CASE EndXferScanned
    BY <1>7 DEF EndXferScanned
  <1>8. CASE IsrHalt
    BY <1>8 DEF IsrHalt
  <1>9. CASE IsrFlush
    BY <1>9 DEF IsrFlush
  <1>10. CASE IsrResume
    BY <1>10 DEF IsrResume
  <1>11. CASE IsrComplete
    <2>1. xfer'.id = xfer.id
      BY <1>11 DEF IsrComplete, TypeInv, TypeOK, ThreadTypeOK, Xfer
    <2> QED
      BY <1>11, <2>1 DEF IsrComplete
  <1>12. CASE IsrAck
    BY <1>12 DEF IsrAck
  <1> QED
    BY <1>1, <1>2, <1>3, <1>4, <1>5, <1>6, <1>7, <1>8, <1>9, <1>10, <1>11,
       <1>12
    DEF IsrStep

(* The hardware touches neither the thread's state nor the handler's.      *)
LEMMA HwSafe ==
  ASSUME SafeInv, HwStep
  PROVE  SafeInv'
  <1>1. UNCHANGED <<threadVars, isrVars>>
    BY DEF HwStep, HwFetch, HwRespond, HwHalt
  <1> QED
    BY <1>1 DEF SafeInv, PointerIsLive, CompletedOnce, HandOver, IsrHolds,
                FrameLive, threadVars, isrVars

LEMMA SafeStep == TypeInv /\ SafeInv /\ [Next]_vars => SafeInv'
  <1> SUFFICES ASSUME TypeInv, SafeInv, [Next]_vars PROVE SafeInv'
    OBVIOUS
  <1>1. CASE Request
    BY <1>1, RequestSafe
  <1>2. CASE ThreadStep
    BY <1>2, ThreadSafe
  <1>3. CASE IsrStep
    BY <1>3, IsrSafe
  <1>4. CASE HwStep
    BY <1>4, HwSafe
  <1>5. CASE UNCHANGED vars
    BY <1>5 DEF SafeInv, PointerIsLive, CompletedOnce, HandOver, IsrHolds,
                FrameLive, vars, threadVars, isrVars
  <1> QED
    BY <1>1, <1>2, <1>3, <1>4, <1>5 DEF Next, Stopped

LEMMA SafeInvariant == Spec => []SafeInv
  BY InitType, InitSafe, TypeStep, SafeStep, PTL DEF Spec

(* The handler never dereferences a pointer into a stack frame that is     *)
(* gone: not after a time-out, not after an answer, not between calls.     *)
THEOREM PointerSafety == Spec => []PointerIsLive
  <1>1. SafeInv => PointerIsLive
    BY DEF SafeInv
  <1> QED
    BY <1>1, SafeInvariant, PTL

(* A transfer whose completion the thread can see is answered for good.    *)
THEOREM AnsweredOnce == Spec => []CompletedOnce
  <1>1. SafeInv => CompletedOnce
    BY DEF SafeInv
  <1> QED
    BY <1>1, SafeInvariant, PTL

-----------------------------------------------------------------------------
(* What is on its way through the hardware. The queues are followed        *)
(* without any trust in the controller first: a command waits at most once *)
(* in them, and is not answered yet.                                       *)

Own(q) == q.call = xfer.id

(* The thread has not written all commands of the call yet.                *)
Writing == pc \in {"publish", "arm", "push"}

Waits(q) ==
  /\ q.call <= xfer.id
  /\ Own(q) => /\ q.cmd < xfer.n /\ got[q.cmd] = "none"
               /\ Writing => q.cmd < pushed

OnceEach ==
  /\ \A i \in 1 .. Len(cmdq) : Waits(cmdq[i])
  /\ inflight # Idle => Waits(inflight)
  /\ \A i, j \in 1 .. Len(cmdq) :
       i # j /\ Own(cmdq[i]) /\ Own(cmdq[j]) => cmdq[i].cmd # cmdq[j].cmd
  /\ inflight # Idle /\ Own(inflight) =>
       \A i \in 1 .. Len(cmdq) : Own(cmdq[i]) => cmdq[i].cmd # inflight.cmd
  /\ Writing => \A c \in Cmd : c >= pushed => got[c] = "none"

(* A controller that has halted has nothing on the bus, and a CCC has one  *)
(* command.                                                                *)
HaltIdle == halted => inflight = Idle
Shape == xfer.kind \in {"ccc", "entdaa"} => xfer.n = 1

FlowInv == OnceEach /\ HaltIdle /\ Shape

LEMMA InitFlow == Init => FlowInv
  BY DEF Init, FlowInv, OnceEach, HaltIdle, Shape, Writing, Idle

(* Sequences of the three queues.                                          *)
LEMMA PushQueue ==
  ASSUME NEW S, NEW s \in Seq(S), NEW x \in S
  PROVE  /\ Append(s, x) \in Seq(S) /\ Len(Append(s, x)) = Len(s) + 1
         /\ Len(s) \in Nat
         /\ Append(s, x)[Len(s) + 1] = x
         /\ \A i \in 1 .. Len(s) : Append(s, x)[i] = s[i]
  BY AppendProperties, LenProperties

LEMMA PopQueue ==
  ASSUME NEW S, NEW s \in Seq(S), s # << >>
  PROVE  /\ Tail(s) \in Seq(S) /\ Len(Tail(s)) = Len(s) - 1
         /\ Len(s) \in Nat /\ Len(s) >= 1
         /\ Head(s) = s[1]
         /\ \A i \in 1 .. Len(s) - 1 : Tail(s)[i] = s[i + 1]
  BY HeadTailProperties, LenProperties, EmptySeq

LEMMA FlowStep ==
  ASSUME TypeInv, TypeInv', FlowInv, [Next]_vars
  PROVE  FlowInv'
  <1> USE DEF FlowInv
  <1>1. /\ xfer \in Xfer /\ xfer.n \in 1 .. MaxCmds /\ xfer.id \in Nat
        /\ cmdq \in Seq(QCmd) /\ Len(cmdq) \in Nat
        /\ inflight \in QCmd \cup {Idle}
        /\ got \in [Cmd -> RespErr \cup {"none"}] /\ pushed \in Nat
        /\ \A q \in QCmd : q.call \in Nat /\ q.cmd \in Nat /\ q.cmd \in Cmd
        /\ \A i \in 1 .. Len(cmdq) : cmdq[i] \in QCmd
    <2>1. \A q \in QCmd : q.call \in Nat /\ q.cmd \in Nat /\ q.cmd \in Cmd
      BY DEF QCmd, Call, Cmd
    <2>2. /\ cmdq \in Seq(QCmd) /\ Len(cmdq) \in Nat
          /\ \A i \in 1 .. Len(cmdq) : cmdq[i] \in QCmd
      BY LenProperties DEF TypeInv, TypeOK, HwTypeOK
    <2> QED
      BY <2>1, <2>2, XferAssumption
      DEF TypeInv, TypeOK, ThreadTypeOK, HwTypeOK, GhostTypeOK, Xfer, Call,
          NoCall
  <1>2. ASSUME xfer'.id = xfer.id + 1, UNCHANGED <<cmdq, inflight, halted>>,
               xfer'.kind \in {"ccc", "entdaa"} => xfer'.n = 1,
               got' = [c \in Cmd |-> "none"]
        PROVE  FlowInv'
    <2>1. \A i \in 1 .. Len(cmdq) : cmdq[i].call < xfer'.id
      BY <1>1, <1>2 DEF OnceEach, Waits
    <2>2. inflight # Idle => inflight.call < xfer'.id
      BY <1>1, <1>2 DEF OnceEach, Waits
    <2>3. \A x \in QCmd : x.call < xfer'.id => ~Own(x)' /\ Waits(x)'
      BY <1>1, <1>2 DEF Own, Waits
    <2>4. \A i \in 1 .. Len(cmdq) : ~Own(cmdq[i])' /\ Waits(cmdq[i])'
      BY <1>1, <1>2, <2>1, <2>3
    <2>5. inflight # Idle => ~Own(inflight)' /\ Waits(inflight)'
      BY <1>1, <1>2, <2>2, <2>3
    <2> QED
      BY <1>2, <2>4, <2>5 DEF OnceEach, HaltIdle, Shape
  <1>3. ASSUME xfer'.id = xfer.id, xfer'.n = xfer.n, xfer'.kind = xfer.kind,
               UNCHANGED <<cmdq, inflight, got>>, halted' => halted,
               Writing' => Writing /\ pushed' = pushed
        PROVE  FlowInv'
    BY <1>3 DEF OnceEach, HaltIdle, Shape, Waits, Own
  <1>4. CASE Request
    <2>1. ASSUME NEW k \in Kind, NEW m \in 1 .. MaxCmds,
                 NEW rd \in [Cmd -> BOOLEAN], Begin(k, m, rd)
          PROVE  FlowInv'
      BY <1>2, <2>1 DEF Begin, CallShape, hwVars, queueVars
    <2>2. ASSUME NEW k \in Kind, Refuse(k)
          PROVE  FlowInv'
      <3>1. xfer'.id = xfer.id + 1 /\ xfer'.n = 1
        BY <1>1, <2>2 DEF Refuse, Xfer
      <3> QED
        BY <1>2, <2>2, <3>1 DEF Refuse, hwVars, queueVars
    <2> QED
      BY <1>4, <2>1, <2>2 DEF Request
  <1>5. CASE Publish \/ Answered \/ TimedOut \/ Abort \/ Halt \/ Resume
             \/ Unpublish \/ Return
    BY <1>3, <1>5
    DEF Publish, Answered, TimedOut, Abort, Halt, Resume, Unpublish, Return,
        hwVars, queueVars, ghostVars, Writing
  <1>6. CASE Arm
    <2>1. xfer'.id = xfer.id /\ xfer'.n = xfer.n /\ xfer'.kind = xfer.kind
      BY <1>1, <1>6 DEF Arm, ArmTo, Xfer
    <2> QED
      BY <1>3, <1>6, <2>1 DEF Arm, ArmTo, hwVars, queueVars, ghostVars, Writing
  <1>7. CASE Push
    <2>1. pushed < xfer.n /\ pushed \in Cmd /\ xfer.id \in Call
      <3>1. pushed < xfer.n /\ xfer.id # NoCall
        BY <1>7 DEF Push, TypeInv, PushOK
      <3> QED
        BY <1>1, <3>1, CmdFacts DEF Xfer
    <2>2. PICK q \in QCmd :
            /\ q.call = xfer.id /\ q.cmd = pushed
            /\ cmdq' = Append(cmdq, q)
      <3>1. [call |-> xfer.id, cmd |-> pushed, rd |-> xfer.rd[pushed]] \in QCmd
        BY <1>1, <2>1 DEF QCmd, Xfer
      <3> QED
        BY <1>7, <3>1 DEF Push
    <2>3. /\ Len(cmdq') = Len(cmdq) + 1 /\ cmdq'[Len(cmdq) + 1] = q
          /\ \A i \in 1 .. Len(cmdq) : cmdq'[i] = cmdq[i]
          /\ \A i \in 1 .. Len(cmdq') : i \in 1 .. Len(cmdq) \/ i = Len(cmdq) + 1
      BY <1>1, <2>2, PushQueue
    <2>4. /\ UNCHANGED <<xfer, inflight, halted, got>> /\ pushed' = pushed + 1
          /\ Writing
      BY <1>7 DEF Push, Writing
    <2>5. got[pushed] = "none"
      BY <1>1, <2>1, <2>4 DEF OnceEach
    <2>6. /\ \A x \in QCmd : Waits(x) => Waits(x)' /\ (Own(x) => x.cmd < pushed)
          /\ Waits(q)'
      BY <1>1, <2>1, <2>2, <2>4, <2>5 DEF Waits, Own
    <2>7. \A x \in QCmd : Own(x)' <=> Own(x)
      BY <2>4 DEF Own
    <2>8. /\ \A i \in 1 .. Len(cmdq') : Waits(cmdq[i])'
          /\ inflight # Idle => Waits(inflight)'
      <3>1. \A i \in 1 .. Len(cmdq) : Waits(cmdq[i])'
        <4> SUFFICES ASSUME NEW i \in 1 .. Len(cmdq) PROVE Waits(cmdq[i])'
          OBVIOUS
        <4>1. PICK x \in QCmd : x = cmdq[i]
          BY <1>1
        <4>2. Waits(x)'
          BY <2>6, <4>1 DEF OnceEach
        <4> QED
          BY <2>3, <4>1, <4>2
      <3>2. inflight # Idle => Waits(inflight)'
        BY <1>1, <2>4, <2>6 DEF OnceEach
      <3> QED
        BY <2>2, <2>3, <2>6, <3>1, <3>2
    <2>9. \A i, j \in 1 .. Len(cmdq') :
            i # j /\ Own(cmdq[i])' /\ Own(cmdq[j])' => cmdq'[i].cmd # cmdq'[j].cmd
      <3>1. \A i \in 1 .. Len(cmdq) : Own(cmdq[i]) => cmdq[i].cmd # pushed
        BY <1>1, <2>6 DEF OnceEach
      <3>2. \A i \in 1 .. Len(cmdq) : Own(cmdq[i])' => Own(cmdq[i])
        BY <2>3, <2>4 DEF Own
      <3> QED
        BY <1>1, <2>2, <2>3, <3>1, <3>2 DEF OnceEach
    <2>10. inflight # Idle /\ Own(inflight)' =>
             \A i \in 1 .. Len(cmdq') :
               Own(cmdq[i])' => cmdq'[i].cmd # inflight.cmd
      <3>1. inflight # Idle /\ Own(inflight) => inflight.cmd # pushed
        BY <1>1, <2>6 DEF OnceEach
      <3>2. /\ \A i \in 1 .. Len(cmdq) : Own(cmdq[i])' => Own(cmdq[i])
            /\ Own(inflight)' => Own(inflight)
        BY <2>3, <2>4 DEF Own
      <3> QED
        BY <1>1, <2>2, <2>3, <3>1, <3>2 DEF OnceEach
    <2>11. \A c \in Cmd : c >= pushed' => got[c] = "none"
      BY <1>1, <2>4 DEF OnceEach, Cmd
    <2> QED
      BY <2>4, <2>8, <2>9, <2>10, <2>11 DEF OnceEach, HaltIdle, Shape
  <1>8. ASSUME FlushQueues, UNCHANGED <<xfer, inflight, got, halted>>,
               Writing' => Writing /\ pushed' = pushed
        PROVE  FlowInv'
    BY <1>8 DEF FlushQueues, OnceEach, HaltIdle, Shape, Waits, Own
  <1>9. CASE Flush \/ IsrFlush
    BY <1>8, <1>9
    DEF Flush, IsrFlush, threadVars, ghostVars, Writing
  <1>10. CASE IsrEnter \/ EndXferStray \/ EndXferTake \/ EndXferCollected
              \/ EndXferScan \/ EndXferScanned \/ IsrHalt \/ IsrResume \/ IsrAck
    BY <1>3, <1>10
    DEF IsrEnter, EndXferStray, EndXferTake, EndXferCollected, EndXferScan,
        EndXferScanned, IsrHalt, IsrResume, IsrAck, threadVars, hwVars,
        queueVars, ghostVars, Writing
  <1>11. CASE EndXferCollect \/ IsrComplete
    <2>1. xfer'.id = xfer.id /\ xfer'.n = xfer.n /\ xfer'.kind = xfer.kind
      BY <1>1, <1>11 DEF EndXferCollect, IsrComplete, Xfer
    <2> QED
      BY <1>3, <1>11, <2>1
      DEF EndXferCollect, IsrComplete, hwVars, queueVars, ghostVars, Writing
  <1>12. CASE HwFetch
    <2>1. /\ cmdq # << >> /\ inflight = Idle /\ inflight' = cmdq[1]
          /\ Len(cmdq') = Len(cmdq) - 1 /\ Len(cmdq) >= 1
          /\ \A i \in 1 .. Len(cmdq) - 1 : cmdq'[i] = cmdq[i + 1]
          /\ UNCHANGED <<xfer, pc, pushed, halted, got>> /\ ~halted
      BY <1>1, <1>12, PopQueue DEF HwFetch, threadVars, ghostVars
    <2>2. \A i \in 1 .. Len(cmdq') : i + 1 \in 1 .. Len(cmdq) /\ i + 1 # 1
      BY <1>1, <2>1
    <2>3. 1 \in 1 .. Len(cmdq)
      BY <1>1, <2>1
    <2>4. \A x \in QCmd : (Waits(x)' <=> Waits(x)) /\ (Own(x)' <=> Own(x))
      BY <2>1 DEF Waits, Own, Writing
    <2>5. /\ \A i \in 1 .. Len(cmdq') :
               /\ Waits(cmdq[i])'
               /\ Own(cmdq[i])' => Own(cmdq[i + 1])
          /\ Waits(inflight)'
          /\ Own(inflight)' => Own(cmdq[1])
      <3>1. \A i \in 1 .. Len(cmdq) : Waits(cmdq[i]) /\ cmdq[i] \in QCmd
        BY <1>1 DEF OnceEach
      <3>2. ASSUME NEW i \in 1 .. Len(cmdq')
            PROVE  Waits(cmdq[i])' /\ (Own(cmdq[i])' => Own(cmdq[i + 1]))
        <4>1. PICK x \in QCmd : x = cmdq[i + 1]
          BY <2>2, <3>1
        <4>2. x = cmdq'[i] /\ Waits(x)
          BY <2>1, <2>2, <3>1, <4>1
        <4> QED
          BY <2>4, <4>1, <4>2
      <3>3. PICK x \in QCmd : x = cmdq[1]
        BY <2>3, <3>1
      <3>4. x = inflight' /\ Waits(x)
        BY <2>1, <2>3, <3>1, <3>3
      <3> QED
        BY <2>4, <3>2, <3>3, <3>4
    <2>6. /\ \A i, j \in 1 .. Len(cmdq') :
               i # j /\ Own(cmdq[i])' /\ Own(cmdq[j])'
                 => cmdq'[i].cmd # cmdq'[j].cmd
          /\ Own(inflight)' =>
               \A i \in 1 .. Len(cmdq') :
                 Own(cmdq[i])' => cmdq'[i].cmd # inflight'.cmd
      <3>1. \A i, j \in 1 .. Len(cmdq') : i # j => i + 1 # j + 1
        BY <1>1, <2>1
      <3> QED
        BY <2>1, <2>2, <2>3, <2>5, <3>1, SMTT(30) DEF OnceEach
    <2>7. Writing' => \A c \in Cmd : c >= pushed' => got'[c] = "none"
      BY <2>1 DEF OnceEach, Writing
    <2> QED
      BY <2>1, <2>5, <2>6, <2>7 DEF OnceEach, HaltIdle, Shape
  <1>13. ASSUME NEW e \in RespErr, NEW len \in 0 .. 1, inflight # Idle,
                RespondWith(e, len), UNCHANGED <<threadVars, cmdq>>
         PROVE  FlowInv'
    <2>1. /\ inflight' = Idle /\ UNCHANGED <<xfer, pc, pushed, cmdq>>
          /\ got' = IF Own(inflight) THEN [got EXCEPT ![inflight.cmd] = e]
                    ELSE got
      BY <1>13 DEF RespondWith, threadVars, Own
    <2>2. /\ \A i \in 1 .. Len(cmdq) :
               Own(cmdq[i]) => got'[cmdq[i].cmd] = got[cmdq[i].cmd]
          /\ Writing => \A c \in Cmd : c >= pushed => got'[c] = got[c]
      <3>1. CASE Own(inflight)
        <4>1. \A c \in Cmd : c # inflight.cmd => got'[c] = got[c]
          BY <1>1, <2>1, <3>1
        <4>2. Writing => inflight.cmd < pushed
          BY <1>13, <3>1 DEF OnceEach, Waits
        <4> QED
          BY <1>1, <1>13, <3>1, <4>1, <4>2 DEF OnceEach
      <3> QED
        BY <2>1, <3>1
    <2>3. \A i \in 1 .. Len(cmdq) : Waits(cmdq[i])'
      BY <2>1, <2>2 DEF OnceEach, Waits, Own, Writing
    <2> QED
      BY <2>1, <2>2, <2>3 DEF OnceEach, HaltIdle, Shape, Own, Writing
  <1>14. ASSUME NEW e \in RespErr, NEW len \in 0 .. 1, HwRespond(e, len)
         PROVE  FlowInv'
    BY <1>13, <1>14 DEF HwRespond
  <1>15. CASE HwHalt
    <2>1. CASE inflight # Idle /\ RespondWith("abort", 0)
      BY <1>13, <1>15, <2>1, RespErrFacts DEF HwHalt
    <2>2. CASE inflight' = Idle /\ UNCHANGED <<respq, rxq, got, err_stat>>
      BY <1>15, <2>2
      DEF HwHalt, threadVars, OnceEach, HaltIdle, Shape, Own, Waits, Writing
    <2> QED
      BY <1>15, <2>1, <2>2 DEF HwHalt
  <1>16. CASE UNCHANGED vars
    BY <1>3, <1>16 DEF vars, threadVars, hwVars, queueVars, ghostVars, Writing
  <1> QED
    BY <1>4, <1>5, <1>6, <1>7, <1>9, <1>10, <1>11, <1>12, <1>14, <1>15, <1>16
    DEF Next, ThreadStep, IsrStep, HwStep, Stopped

-----------------------------------------------------------------------------
(* What holds as long as answers are not mixed up. The commands of the     *)
(* call are numbered through: first those whose responses are collected,   *)
(* then the ones in the response queue, on the bus and in the command      *)
(* queue, up to the last one pushed. Every step of the hardware and of the *)
(* handler's loop moves one number on.                                     *)

Quiet == cmdq = << >> /\ inflight = Idle /\ respq = << >>
Busy  == IF inflight = Idle THEN 0 ELSE 1

(* b responses are collected. Only the last response may be an error, and  *)
(* then the controller has halted.                                         *)
Numbered(b) ==
  /\ \A j \in 1 .. Len(respq) : Own(respq[j]) /\ respq[j].cmd = b + j - 1
                                /\ respq[j].err = got[b + j - 1]
  /\ inflight # Idle => Own(inflight) /\ inflight.cmd = b + Len(respq)
  /\ \A j \in 1 .. Len(cmdq) :
       Own(cmdq[j]) /\ cmdq[j].cmd = b + Len(respq) + Busy + j - 1
  /\ b + Len(respq) + Busy + Len(cmdq) = pushed
  /\ \A c \in 0 .. b + Len(respq) - 2 : got[c] = "ok"
  /\ b + Len(respq) > 0 /\ got[b + Len(respq) - 1] # "ok" => halted

(* A halt on request may drop the command on the bus: the numbers have a   *)
(* gap then, but nothing can be answered before the queues are reset.      *)
Parked ==
  /\ halted /\ isr = "off" /\ pc \in {"halt", "flush"}
  /\ Len(respq) <= thld /\ ~err_stat

(* A return code speaks of the answers the bus gave.                       *)
RetOK(r) ==
  /\ r = "ok" => \A c \in 0 .. xfer.n - 1 : got[c] = "ok"
  /\ r = "iba_nack" /\ xfer.kind = "ccc" => got[0] = "iba_nack"

(* Before the first command and after the queues were reset nothing moves. *)
AtRest == {"idle", "publish", "arm", "resume", "unpublish", "result"}
Resting ==
  pc \in AtRest =>
    /\ Quiet /\ isr = "off" /\ ~err_stat
    /\ pc = "arm" => curr_xfer # NoCall
UnderWay ==
  pc \notin AtRest =>
    /\ thld = xfer.n - 1 /\ pushed <= xfer.n
    /\ pc # "push" => pushed = xfer.n
    /\ curr_xfer # NoCall => Numbered(0) \/ Parked
    /\ curr_xfer = NoCall /\ ~IsrHolds => xfer.done /\ isr \in {"off", "ack"}
    /\ pc = "flush" \/ (pc = "halt" /\ ~aborting) => halted \/ Quiet

(* Requests to halt and interrupts are about the call under way.           *)
Asked == aborting => pc = "halt" /\ ~halted
Latched ==
  err_stat => \/ isr \notin {"off", "end_xfer"}
              \/ /\ curr_xfer # NoCall
                 /\ respq # << >> /\ got[Len(respq) - 1] # "ok"
Entered == isr = "end_xfer" => IrqPending /\ curr_xfer # NoCall

(* The handler works on all the responses there will be: one for every     *)
(* command, or an error last.                                              *)
AllThere ==
  /\ halted \/ (cmdq = << >> /\ inflight = Idle)
  /\ nresp \in 1 .. xfer.n
  /\ got[nresp - 1] = "ok" => nresp = xfer.n
Collecting ==
  isr = "collect" =>
    /\ AllThere /\ Numbered(iter) /\ nresp = iter + Len(respq)
    /\ iter > 0 => xfer.cmds[TidOf(iter - 1)].ret = got[iter - 1]
Collected ==
  isr \in {"scan", "halt", "flush"} =>
    /\ AllThere /\ Numbered(nresp) /\ respq = << >>
    /\ xfer.cmds[TidOf(nresp - 1)].ret = got[nresp - 1]
Scanning ==
  isr = "scan" =>
    /\ iter <= nresp
    /\ isr_ret = "ok" => \A i \in 0 .. iter - 1 : xfer.cmds[i].ret = "ok"
    /\ isr_ret # "ok" => \E i \in 0 .. iter - 1 : xfer.cmds[i].ret = isr_ret
Completing ==
  /\ isr \in {"halt", "flush", "resume", "complete"} => RetOK(isr_ret)
  /\ isr \in {"resume", "complete"} => Quiet
  /\ isr = "ack" => curr_xfer = NoCall
  /\ isr # "panic"

Settled ==
  /\ xfer.done /\ pc # "idle" => Quiet /\ RetOK(xfer.ret)
  /\ pc \notin {"idle", "publish", "arm"} /\ ~xfer.done => xfer.ret = "unset"
  /\ pc = "idle" /\ res = "ok" => RetOK(xfer.ret) /\ Outcome(xfer) = "ok"

Trusted ==
  /\ Resting /\ UnderWay
  /\ Asked /\ Latched /\ Entered
  /\ Collecting /\ Collected /\ Scanning /\ Completing
  /\ Settled

\* What the handler read of the error status is still all there is to it.
Seen == isr # "off" => seen_err = err_stat

XferInv == TypeInv /\ SafeInv /\ FlowInv /\ (~tainted => Trusted /\ Seen)

LEMMA InitTrusted == Init => Trusted
  BY DEF Init, Trusted, Resting, UnderWay, Asked, Latched, Entered, Collecting,
         Collected, Scanning, Completing, Settled, AtRest, Quiet, IrqPending

(* Types in the form the steps below need them.                            *)
LEMMA XferTypes ==
  ASSUME TypeInv
  PROVE  /\ xfer \in Xfer /\ xfer.n \in 1 .. MaxCmds /\ MaxCmds \in Nat
         /\ xfer.n \in Nat /\ xfer.id \in {NoCall} \cup Call
         /\ cmdq \in Seq(QCmd) /\ Len(cmdq) \in Nat
         /\ respq \in Seq(QResp) /\ Len(respq) \in Nat
         /\ inflight \in QCmd \cup {Idle} /\ Busy \in {0, 1}
         /\ got \in [Cmd -> RespErr \cup {"none"}]
         /\ pushed \in Nat /\ nresp \in Nat /\ iter \in Nat /\ thld \in Nat
         /\ pc \in ThreadPc /\ isr \in IsrPc /\ isr_ret \in RespErr
         /\ halted \in BOOLEAN /\ aborting \in BOOLEAN /\ err_stat \in BOOLEAN
  <1>1. Busy \in {0, 1}
    BY DEF Busy
  <1>2. /\ Len(cmdq) \in Nat /\ Len(respq) \in Nat
    BY LenProperties DEF TypeInv, TypeOK, HwTypeOK
  <1> QED
    BY <1>1, <1>2, XferAssumption
    DEF TypeInv, TypeOK, ThreadTypeOK, HwTypeOK, GhostTypeOK, IsrTypeOK, Xfer

(* Nothing on its way is nothing to be interrupted for.                    *)
LEMMA QuietIrq == TypeInv /\ Quiet => ~RespReady
  <1> SUFFICES ASSUME TypeInv, Quiet PROVE ~RespReady
    OBVIOUS
  <1>1. Len(respq) = 0 /\ thld \in Nat
    BY XferTypes DEF Quiet
  <1> QED
    BY <1>1 DEF RespReady

LEMMA HandlerOff ==
  ASSUME isr' = "off"
  PROVE  Entered' /\ Collecting' /\ Collected' /\ Scanning' /\ Completing'
  BY DEF Entered, Collecting, Collected, Scanning, Completing

LEMMA ThreadTrusted ==
  ASSUME TypeInv, TypeInv', SafeInv, SafeInv', FlowInv, Trusted,
         ~tainted, ~tainted', ThreadStep
  PROVE  Trusted'
  <1> USE DEF Trusted
  <1>1. /\ isr = "off" /\ isr' = "off" /\ ~RespReady /\ ~err_stat
        /\ ~IsrHolds /\ ~IsrHolds' /\ err_stat' = err_stat
    BY DEF ThreadStep, Publish, Arm, ArmTo, Push, Answered, TimedOut, Abort,
           Halt, Flush, Resume, Unpublish, Return, ThreadRuns, IrqPending,
           IsrHolds, isrVars, hwVars
  <1>2. Latched'
    BY <1>1 DEF Latched
  <1>3. Entered' /\ Collecting' /\ Collected' /\ Scanning' /\ Completing'
    BY <1>1, HandlerOff
  <1>4. CASE Publish
    <2>1. ~xfer.done /\ xfer.id # NoCall
      BY <1>4 DEF Publish, SafeInv, HandOver, TypeInv, PushOK
    <2> QED
      BY <1>1, <1>2, <1>3, <1>4, <2>1
      DEF Publish, hwVars, queueVars, ghostVars, isrVars, Resting, UnderWay,
          Asked, Settled, AtRest, Quiet
  <1>5. CASE Arm
    <2>1. /\ xfer'.ret = "unset" /\ ~xfer'.done /\ xfer'.n = xfer.n
          /\ xfer'.id = xfer.id
      BY <1>5 DEF Arm, ArmTo, TypeInv, TypeOK, ThreadTypeOK, Xfer
    <2>2. /\ Quiet /\ curr_xfer # NoCall /\ curr_xfer' = curr_xfer
          /\ pushed = 0 /\ pushed' = 0 /\ thld' = xfer.n - 1
          /\ pc = "arm" /\ pc' = "push" /\ xfer.n \in Nat
          /\ UNCHANGED <<cmdq, respq, inflight, halted, aborting, got>>
      BY <1>5, XferTypes
      DEF Arm, ArmTo, TypeInv, PushOK, Resting, AtRest, queueVars, ghostVars
    <2>3. Numbered(0)'
      BY <2>2 DEF Numbered, Quiet, Busy
    <2>4. UnderWay'
      BY <1>1, <2>1, <2>2, <2>3 DEF UnderWay, AtRest
    <2>5. Settled' /\ Asked' /\ Resting'
      BY <1>1, <2>1, <2>2 DEF Settled, Asked, Resting, AtRest
    <2> QED
      BY <1>2, <1>3, <2>4, <2>5
  <1>6. CASE Push
    <2>1. /\ curr_xfer # NoCall /\ curr_xfer' = curr_xfer
          /\ pc = "push" /\ pushed < xfer.n /\ pushed' = pushed + 1
          /\ pc' = IF pushed + 1 = xfer.n THEN "wait" ELSE "push"
          /\ UNCHANGED <<xfer, respq, inflight, thld, halted, aborting, got, res>>
      BY <1>6 DEF Push, TypeInv, PushOK
    <2>2. Numbered(0)
      BY <2>1 DEF UnderWay, AtRest, Parked
    <2>3. PICK q \in QCmd :
            /\ q.call = xfer.id /\ q.cmd = pushed
            /\ cmdq' = Append(cmdq, q)
      <3>1. [call |-> xfer.id, cmd |-> pushed, rd |-> xfer.rd[pushed]] \in QCmd
        <4>1. pushed \in Cmd /\ xfer.id \in Call
          BY <2>1, CmdFacts, XferTypes DEF TypeInv, PushOK
        <4> QED
          BY <4>1, XferTypes DEF QCmd, Xfer
      <3> QED
        BY <1>6, <3>1 DEF Push
    <2>4. /\ Len(cmdq') = Len(cmdq) + 1 /\ cmdq'[Len(cmdq) + 1] = q
          /\ \A i \in 1 .. Len(cmdq) : cmdq'[i] = cmdq[i]
          /\ \A i \in 1 .. Len(cmdq') : i \in 1 .. Len(cmdq) \/ i = Len(cmdq) + 1
      BY <2>3, PushQueue, XferTypes
    <2>5. Busy' = Busy
      BY <2>1 DEF Busy
    <2>6. Numbered(0)'
      <3>1. \A j \in 1 .. Len(cmdq') :
              /\ cmdq'[j].call = xfer.id
              /\ cmdq'[j].cmd = 0 + Len(respq) + Busy + j - 1
        <4>1. 0 + Len(respq) + Busy + Len(cmdq) = pushed
          BY <2>2 DEF Numbered
        <4>2. Len(respq) \in Nat /\ Len(cmdq) \in Nat /\ Busy \in {0, 1}
          BY XferTypes
        <4>3. q.cmd = 0 + Len(respq) + Busy + (Len(cmdq) + 1) - 1
          BY <2>3, <4>1, <4>2
        <4> QED
          BY <2>2, <2>3, <2>4, <4>3 DEF Numbered, Own
      <3>2. 0 + Len(respq) + Busy + Len(cmdq') = pushed'
        <4>1. 0 + Len(respq) + Busy + Len(cmdq) = pushed
          BY <2>2 DEF Numbered
        <4>2. /\ Len(respq) \in Nat /\ Len(cmdq) \in Nat /\ Busy \in Nat
              /\ Len(cmdq') = Len(cmdq) + 1 /\ pushed' = pushed + 1
          BY <2>1, <2>4, XferTypes
        <4> QED
          BY <4>1, <4>2
      <3> QED
        BY <2>1, <2>2, <2>5, <3>1, <3>2 DEF Numbered, Own
    <2>7. UnderWay'
      BY <1>1, <2>1, <2>6, XferTypes DEF UnderWay, AtRest
    <2>8. ~xfer.done
      BY <2>1 DEF SafeInv, CompletedOnce
    <2>9. Settled' /\ Asked' /\ Resting'
      BY <2>1, <2>8 DEF Settled, Asked, Resting, AtRest
    <2> QED
      BY <1>2, <1>3, <2>7, <2>9
  <1>7. CASE Answered
    <2>1. /\ pc = "wait" /\ pc' = "result" /\ Quiet /\ Quiet' /\ ~err_stat'
          /\ UNCHANGED <<xfer, curr_xfer, halted, aborting, got, res>>
      BY <1>1, <1>7
      DEF Answered, Settled, hwVars, queueVars, ghostVars, Quiet
    <2> QED
      BY <1>1, <1>2, <1>3, <2>1
      DEF Resting, UnderWay, Settled, Asked, AtRest, RetOK, Quiet
  <1>8. CASE TimedOut \/ Abort
    <2>1. /\ pc \in {"wait", "abort"} /\ pc' \in {"abort", "halt"}
          /\ pc' = "halt" => aborting' = ~halted
          /\ pc' = "abort" => aborting' = aborting
          /\ UNCHANGED <<xfer, pushed, curr_xfer, res, respq, cmdq, inflight,
                         thld, halted, got>>
      BY <1>8 DEF TimedOut, Abort, hwVars, queueVars, ghostVars
    <2>2. curr_xfer # NoCall => Numbered(0)'
      <3>1. curr_xfer # NoCall => Numbered(0)
        BY <2>1 DEF UnderWay, AtRest, Parked
      <3> QED
        BY <2>1, <3>1 DEF Numbered, Busy, Own
    <2>3. UnderWay'
      BY <1>1, <2>1, <2>2 DEF UnderWay, AtRest
    <2>4. Asked'
      <3>1. pc' = "abort" => ~aborting'
        BY <2>1 DEF Asked
      <3>2. pc' = "halt" => (aborting' => ~halted')
        BY <2>1
      <3> QED
        BY <2>1, <3>1, <3>2 DEF Asked
    <2>5. Settled' /\ Resting'
      BY <2>1 DEF Settled, Resting, AtRest, RetOK, Quiet
    <2> QED
      BY <1>2, <1>3, <2>3, <2>4, <2>5
  <1>9. CASE Halt
    <2>1. /\ pc = "halt" /\ pc' = "flush"
          /\ UNCHANGED <<xfer, pushed, curr_xfer, res, respq, cmdq, inflight,
                         thld, aborting, halted, got>>
          /\ ~aborting /\ (halted \/ Quiet)
      BY <1>9
      DEF Halt, hwVars, queueVars, Asked, UnderWay, AtRest
    <2>2. curr_xfer # NoCall => Numbered(0)' \/ Parked'
      <3>1. curr_xfer # NoCall => Numbered(0) \/ Parked
        BY <2>1 DEF UnderWay, AtRest
      <3> QED
        BY <1>1, <2>1, <3>1 DEF Numbered, Busy, Own, Parked
    <2>3. UnderWay'
      BY <1>1, <2>1, <2>2 DEF UnderWay, AtRest, Quiet
    <2>4. Settled' /\ Asked' /\ Resting'
      BY <2>1 DEF Settled, Asked, Resting, AtRest, RetOK, Quiet
    <2> QED
      BY <1>2, <1>3, <2>3, <2>4
  <1>10. CASE Flush
    <2>1. /\ pc = "flush" /\ pc' = "resume"
          /\ UNCHANGED <<xfer, pushed, curr_xfer, res, inflight, aborting,
                         halted, got>>
          /\ Quiet'
      BY <1>10
      DEF Flush, FlushQueues, ghostVars, UnderWay, AtRest, FlowInv, HaltIdle,
          Quiet
    <2>2. Settled' /\ Asked' /\ Resting' /\ UnderWay'
      BY <1>1, <2>1
      DEF Settled, Asked, Resting, UnderWay, AtRest, RetOK
    <2> QED
      BY <1>2, <1>3, <2>2
  <1>11. CASE Resume \/ Unpublish \/ Return
    <2>1. /\ pc \in {"resume", "unpublish", "result"} /\ pc' \in AtRest
          /\ pc' \notin {"publish", "arm"}
          /\ UNCHANGED <<xfer, respq, cmdq, inflight, aborting, got>>
          /\ halted' => halted
          /\ pc' = "idle" =>
               \/ res' = "error"
               \/ res' = Outcome(xfer) /\ pc = "result"
      BY <1>11
      DEF Resume, Unpublish, Return, hwVars, queueVars, ghostVars, AtRest
    <2>2. Resting' /\ UnderWay' /\ Asked'
      BY <1>1, <2>1 DEF Resting, UnderWay, Asked, AtRest, Quiet
    <2>3. Settled'
      <3>1. pc' # "idle" \/ res' # "ok" \/
            (xfer.done /\ RetOK(xfer.ret) /\ Outcome(xfer) = "ok")
        BY <2>1 DEF Settled, Outcome
      <3> QED
        BY <2>1, <3>1 DEF Settled, RetOK, Quiet, Outcome
    <2> QED
      BY <1>2, <1>3, <2>2, <2>3
  <1> QED
    BY <1>4, <1>5, <1>6, <1>7, <1>8, <1>9, <1>10, <1>11 DEF ThreadStep

-----------------------------------------------------------------------------
(* The handler.                                                            *)

(* A response that carries number c answers a command of the transfer.     *)
LEMMA TidFacts ==
  ASSUME NEW c \in Nat
  PROVE  TidOf(c) \in Nat /\ TidOf(c) <= c
         /\ (c < TidCount => TidOf(c) = c)
  BY XferAssumption DEF TidOf

(* While the handler runs, the thread is where it was and the call is      *)
(* under way.                                                              *)
LEMMA IsrRuns ==
  ASSUME TypeInv, SafeInv, Trusted, isr # "off"
  PROVE  pc \notin AtRest /\ pc # "idle" /\ xfer.id # NoCall
  BY DEF Trusted, Resting, AtRest, TypeInv, PushOK

LEMMA EnterTrusted ==
  ASSUME TypeInv, SafeInv, Trusted, IsrEnter
  PROVE  Trusted'
  <1> USE DEF Trusted
  <1>1. /\ isr = "off" /\ isr' = "end_xfer" /\ IrqPending /\ ~IsrHolds
        /\ UNCHANGED <<threadVars, hwVars, ghostVars>>
    BY DEF IsrEnter, IsrHolds
  <1>2. pc \notin AtRest
    BY <1>1, QuietIrq DEF IrqPending, Resting
  <1>3. curr_xfer # NoCall
    <2>1. SUFFICES ASSUME curr_xfer = NoCall PROVE FALSE
      OBVIOUS
    <2>2. xfer.done
      BY <1>1, <1>2, <2>1 DEF UnderWay
    <2>3. Quiet
      BY <1>2, <2>2 DEF Settled, AtRest
    <2>4. err_stat
      BY <1>1, <2>3, QuietIrq DEF IrqPending
    <2> QED
      BY <1>1, <2>1, <2>4 DEF Latched
  <1>4. Numbered(0)
    BY <1>1, <1>2, <1>3 DEF UnderWay, Parked, IrqPending, RespReady,
       TypeInv, TypeOK, HwTypeOK
  <1>5. Numbered(0)' /\ IrqPending' /\ (Quiet' <=> Quiet)
    BY <1>1, <1>4
    DEF Numbered, Busy, Own, IrqPending, RespReady, Quiet, threadVars, hwVars,
        queueVars, ghostVars
  <1>6. /\ UNCHANGED <<pc, xfer, pushed, curr_xfer, res, cmdq, respq, inflight,
                       thld, err_stat, aborting, halted, got>>
        /\ ~IsrHolds'
    BY <1>1
    DEF threadVars, hwVars, queueVars, ghostVars, IsrHolds
  <1>7. UnderWay'
    BY <1>1, <1>2, <1>3, <1>5, <1>6 DEF UnderWay
  <1>8. Latched' /\ Settled' /\ Asked'
    BY <1>1, <1>3, <1>5, <1>6 DEF Latched, Settled, Asked, RetOK
  <1> QED
    BY <1>1, <1>2, <1>3, <1>5, <1>6, <1>7, <1>8
    DEF Resting, Entered, Collecting, Collected, Scanning, Completing

(* The handler starts on the responses when all that will come have come.  *)
LEMMA TakeTrusted ==
  ASSUME TypeInv, SafeInv, SafeInv', FlowInv, Trusted, EndXferTake
  PROVE  Trusted'
  <1> USE DEF Trusted
  <1>1. /\ isr = "end_xfer" /\ isr' = "collect" /\ IrqPending
        /\ curr_xfer # NoCall /\ curr_xfer' = NoCall
        /\ nresp' = Len(respq) /\ iter' = 0
        /\ UNCHANGED <<pc, xfer, pushed, res, hwVars, ghostVars>>
        /\ IsrHolds' /\ ~xfer.done
    BY DEF EndXferTake, Entered, IsrHolds, SafeInv, CompletedOnce
  <1>2. pc \notin AtRest /\ pc # "idle"
    BY <1>1, IsrRuns
  <1>3. Numbered(0) /\ thld = xfer.n - 1 /\ pushed <= xfer.n
    BY <1>1, <1>2 DEF UnderWay, Parked
  <1>4. Numbered(iter)'
    BY <1>1, <1>3
    DEF Numbered, Busy, Own, hwVars, queueVars, ghostVars
  <1>5. /\ Len(respq) \in Nat /\ Len(cmdq) \in Nat /\ Busy \in Nat
        /\ xfer.n \in Nat /\ pushed \in Nat
        /\ 0 + Len(respq) + Busy + Len(cmdq) = pushed
    BY <1>3, XferTypes DEF Numbered
  <1>6. CASE RespReady
    <2>1. Len(respq) = xfer.n /\ Busy = 0 /\ Len(cmdq) = 0
      BY <1>3, <1>5, <1>6 DEF RespReady
    <2>2. inflight = Idle /\ cmdq = << >>
      BY <2>1, XferTypes, EmptySeq DEF Busy
    <2>3. AllThere'
      <3>1. /\ nresp' = xfer.n /\ xfer' = xfer /\ cmdq' = << >>
            /\ inflight' = Idle /\ xfer.n \in 1 .. xfer.n
        BY <1>1, <2>1, <2>2, XferTypes DEF hwVars, queueVars
      <3> QED
        BY <3>1 DEF AllThere
    <2> QED
      BY <1>1, <1>2, <1>3, <1>4, <2>2, <2>3
      DEF Resting, UnderWay, Asked, Latched, Entered, Collecting, Collected,
          Scanning, Completing, Settled, RetOK, Quiet, hwVars, queueVars,
          ghostVars
  <1>7. CASE ~RespReady
    <2>1. /\ err_stat /\ respq # << >> /\ got[Len(respq) - 1] # "ok"
      BY <1>1, <1>7 DEF IrqPending, Latched
    <2>2. Len(respq) > 0
      BY <2>1, XferTypes, EmptySeq
    <2>3. got[0 + Len(respq) - 1] # "ok" /\ 0 + Len(respq) > 0
      BY <1>5, <2>1, <2>2
    <2>4. halted
      BY <1>3, <2>3 DEF Numbered
    <2>5. nresp' \in 1 .. xfer'.n
      BY <1>1, <1>3, <1>5, <2>2
    <2>6. AllThere'
      BY <1>1, <2>1, <2>4, <2>5
      DEF AllThere, hwVars, ghostVars
    <2> QED
      BY <1>1, <1>2, <1>3, <1>4, <1>5, <2>4, <2>6
      DEF Resting, UnderWay, Asked, Latched, Entered, Collecting, Collected,
          Scanning, Completing, Settled, RetOK, Quiet, hwVars, queueVars,
          ghostVars
  <1> QED
    BY <1>6, <1>7

LEMMA CollectTrusted ==
  ASSUME TypeInv, TypeInv', SafeInv, SafeInv', FlowInv, Trusted, EndXferCollect
  PROVE  Trusted'
  <1> USE DEF Trusted
  <1> DEFINE r == Head(respq)
             t == TidOf(r.cmd)
  <1>1. /\ isr = "collect" /\ isr' = "collect" /\ iter < nresp
        /\ respq # << >> /\ respq' = Tail(respq) /\ iter' = iter + 1
        /\ xfer' = IF t < xfer.n
                     THEN [xfer EXCEPT !.cmds[t] = Answer(r, xfer.cmds[t])]
                     ELSE xfer
        /\ UNCHANGED <<nresp, isr_ret, pc, pushed, curr_xfer, res, cmdq,
                       inflight, thld, err_stat, aborting, halted, got>>
        /\ IsrHolds /\ IsrHolds'
    BY DEF EndXferCollect, IsrHolds, ghostVars
  <1>2. /\ AllThere /\ Numbered(iter) /\ nresp = iter + Len(respq)
        /\ pc \notin AtRest /\ pc # "idle" /\ curr_xfer = NoCall /\ ~xfer.done
    BY <1>1, IsrRuns DEF Collecting, SafeInv, HandOver, CompletedOnce
  <1>3. /\ Len(respq') = Len(respq) - 1 /\ Len(respq) >= 1
        /\ respq[1] = r /\ 1 \in 1 .. Len(respq)
        /\ Len(respq) \in Nat /\ iter \in Nat /\ iter + 1 \in Nat
        /\ \A j \in 1 .. Len(respq') :
             respq'[j] = respq[j + 1] /\ j + 1 \in 1 .. Len(respq)
    BY <1>1, PopQueue, XferTypes, SMTT(30)
  <1>4. r.cmd = iter /\ r.err = got[iter] /\ Own(r)
    <2>1. /\ respq[1].cmd = iter + 1 - 1 /\ respq[1].err = got[iter + 1 - 1]
          /\ Own(respq[1])
      BY <1>2, <1>3 DEF Numbered
    <2>2. iter + 1 - 1 = iter
      BY <1>3
    <2> QED
      BY <1>3, <2>1, <2>2
  <1>5. t \in Cmd /\ t < xfer.n
    <2>1. iter < xfer.n
      BY <1>1, <1>2, XferTypes DEF AllThere
    <2>2. t \in Nat /\ t <= iter
      BY <1>3, <1>4, TidFacts
    <2>3. t < xfer.n
      BY <1>3, <2>1, <2>2, XferTypes
    <2> QED
      BY <2>2, <2>3, CmdFacts, XferTypes
  <1>6. Answer(r, xfer.cmds[t]).ret = got[iter]
    <2>1. xfer.cmds[t] \in CmdState
      BY <1>5, XferTypes DEF Xfer
    <2> QED
      BY <1>4, <2>1 DEF Answer, CmdState
  <1> HIDE DEF r, t
  <1>7. /\ xfer'.id = xfer.id /\ xfer'.n = xfer.n /\ xfer'.kind = xfer.kind
        /\ xfer'.ret = xfer.ret /\ xfer'.done = xfer.done
        /\ xfer'.cmds[t].ret = got[iter]
    BY <1>1, <1>5, <1>6, XferTypes DEF Xfer
  <1>8. Numbered(iter)'
    <2>1. iter' + Len(respq') = iter + Len(respq)
      BY <1>1, <1>3
    <2>2. \A j \in 1 .. Len(respq') :
            /\ respq'[j].call = xfer.id /\ respq'[j].cmd = iter' + j - 1
            /\ respq'[j].err = got[iter' + j - 1]
      <3> SUFFICES ASSUME NEW j \in 1 .. Len(respq')
                   PROVE  /\ respq'[j].call = xfer.id
                          /\ respq'[j].cmd = iter' + j - 1
                          /\ respq'[j].err = got[iter' + j - 1]
        OBVIOUS
      <3>1. /\ Own(respq[j + 1]) /\ respq[j + 1].cmd = iter + (j + 1) - 1
            /\ respq[j + 1].err = got[iter + (j + 1) - 1]
        BY <1>2, <1>3 DEF Numbered
      <3>2. iter + (j + 1) - 1 = iter' + j - 1
        BY <1>1, <1>3
      <3> QED
        BY <1>3, <3>1, <3>2 DEF Own
    <2>3. Busy' = Busy
      BY <1>1 DEF Busy
    <2>5. inflight # Idle =>
            inflight.call = xfer.id /\ inflight.cmd = iter' + Len(respq')
      BY <1>2, <2>1 DEF Numbered, Own
    <2>6. \A j \in 1 .. Len(cmdq) :
            /\ cmdq[j].call = xfer.id
            /\ cmdq[j].cmd = iter' + Len(respq') + Busy + j - 1
      BY <1>2, <2>1 DEF Numbered, Own
    <2>7. iter' + Len(respq') + Busy + Len(cmdq) = pushed
      BY <1>2, <2>1 DEF Numbered
    <2>4. /\ iter' + Len(respq') - 2 = iter + Len(respq) - 2
          /\ iter' + Len(respq') - 1 = iter + Len(respq) - 1
      BY <1>1, <1>3, <2>1
    <2>8. \A c \in 0 .. iter' + Len(respq') - 2 : got[c] = "ok"
      <3>1. \A c \in 0 .. iter + Len(respq) - 2 : got[c] = "ok"
        BY <1>2 DEF Numbered
      <3> HIDE DEF Numbered
      <3> QED
        BY <2>4, <3>1
    <2>9. iter' + Len(respq') > 0 /\ got[iter' + Len(respq') - 1] # "ok"
            => halted
      <3>1. iter + Len(respq) > 0 /\ got[iter + Len(respq) - 1] # "ok"
              => halted
        BY <1>2 DEF Numbered
      <3> QED
        BY <2>1, <2>4, <3>1
    <2> QED
      BY <1>1, <1>7, <2>2, <2>3, <2>5, <2>6, <2>7, <2>8, <2>9
      DEF Numbered, Own
  <1>9. Collecting'
    <2>1. nresp' = iter' + Len(respq')
      BY <1>1, <1>2, <1>3
    <2>2. AllThere'
      BY <1>1, <1>2, <1>7 DEF AllThere
    <2>3. iter' - 1 = iter
      BY <1>1, <1>3
    <2>4. xfer'.cmds[TidOf(iter' - 1)].ret = got[iter' - 1]
      BY <1>4, <1>7, <2>3 DEF t
    <2> QED
      BY <1>1, <1>8, <2>1, <2>2, <2>4 DEF Collecting
  <1>10. UnderWay'
    <2>1. pc = "flush" \/ (pc = "halt" /\ ~aborting) => halted \/ Quiet'
      BY <1>1, <1>2 DEF UnderWay, Quiet
    <2> QED
      BY <1>1, <1>2, <1>7, <2>1 DEF UnderWay
  <1> QED
    BY <1>1, <1>2, <1>7, <1>9, <1>10
    DEF Resting, Asked, Latched, Entered, Collected, Scanning, Completing,
        Settled

(* What the steps of the handler from the first response to the completion *)
(* have in common.                                                         *)
LEMMA HolderFrame ==
  ASSUME TypeInv, SafeInv, Trusted, IsrHolds, IsrHolds',
         UNCHANGED <<pc, xfer, pushed, curr_xfer, res, thld, aborting,
                     err_stat, got>>,
         halted' => halted, halted' = halted \/ Quiet', Quiet => Quiet'
  PROVE  Resting' /\ UnderWay' /\ Asked' /\ Latched' /\ Entered' /\ Settled'
  <1> USE DEF Trusted
  <1>1. /\ isr \notin {"off", "end_xfer"} /\ isr' \notin {"off", "end_xfer"}
    BY DEF IsrHolds
  <1>2. /\ pc \notin AtRest /\ pc # "idle" /\ curr_xfer = NoCall /\ ~xfer.done
    BY <1>1, IsrRuns DEF SafeInv, HandOver, CompletedOnce
  <1> QED
    BY <1>1, <1>2 DEF Resting, UnderWay, Asked, Latched, Entered, Settled

LEMMA CollectedTrusted ==
  ASSUME TypeInv, SafeInv, Trusted, EndXferCollected
  PROVE  Trusted'
  <1> USE DEF Trusted
  <1>1. /\ isr = "collect" /\ isr' = "scan" /\ iter = nresp
        /\ nresp' = nresp /\ iter' = 0 /\ isr_ret' = "ok"
        /\ UNCHANGED <<pc, xfer, pushed, curr_xfer, res, cmdq, respq, inflight,
                       thld, err_stat, aborting, halted, got>>
        /\ IsrHolds /\ IsrHolds'
    BY DEF EndXferCollected, IsrHolds, threadVars, hwVars, queueVars, ghostVars
  <1>2. /\ AllThere /\ Numbered(iter) /\ nresp = iter + Len(respq)
        /\ iter > 0 => xfer.cmds[TidOf(iter - 1)].ret = got[iter - 1]
    BY <1>1 DEF Collecting
  <1>3. respq = << >> /\ iter > 0
    BY <1>1, <1>2, XferTypes, EmptySeq DEF AllThere
  <1>4. Resting' /\ UnderWay' /\ Asked' /\ Latched' /\ Entered' /\ Settled'
    <2>1. Quiet' = Quiet
      BY <1>1 DEF Quiet
    <2> QED
      BY <1>1, <2>1, HolderFrame
  <1>5. Numbered(nresp)'
    BY <1>1, <1>2 DEF Numbered, Busy, Own
  <1>6. AllThere'
    BY <1>1, <1>2 DEF AllThere
  <1>7. Collected'
    BY <1>1, <1>2, <1>3, <1>5, <1>6 DEF Collected
  <1>8. Scanning'
    BY <1>1, XferTypes DEF Scanning
  <1> QED
    BY <1>1, <1>4, <1>7, <1>8 DEF Collecting, Completing

(* The second loop stays within the commands, and finds the first error    *)
(* from the end.                                                           *)
LEMMA ScanTrusted ==
  ASSUME TypeInv, SafeInv, Trusted, EndXferScan
  PROVE  Trusted'
  <1> USE DEF Trusted
  <1>1. /\ isr = "scan" /\ iter < nresp /\ nresp' = nresp
        /\ UNCHANGED <<pc, xfer, pushed, curr_xfer, res, cmdq, respq, inflight,
                       thld, err_stat, aborting, halted, got>>
        /\ IsrHolds
    BY DEF EndXferScan, IsrHolds, threadVars, hwVars, queueVars, ghostVars
  <1>2. /\ AllThere /\ Numbered(nresp) /\ respq = << >>
        /\ xfer.cmds[TidOf(nresp - 1)].ret = got[nresp - 1]
    BY <1>1 DEF Collected
  <1>3. iter < xfer.n /\ iter \in Nat
    BY <1>1, <1>2, XferTypes DEF AllThere
  <1>4. /\ isr' = "scan" /\ iter' = iter + 1 /\ IsrHolds'
        /\ isr_ret' = IF xfer.cmds[iter].ret # "ok"
                        THEN xfer.cmds[iter].ret ELSE isr_ret
    BY <1>1, <1>3 DEF EndXferScan, IsrHolds
  <1>5. Resting' /\ UnderWay' /\ Asked' /\ Latched' /\ Entered' /\ Settled'
    <2>1. Quiet' = Quiet
      BY <1>1 DEF Quiet
    <2> QED
      BY <1>1, <1>4, <2>1, HolderFrame
  <1>6. Collected'
    <2>1. Numbered(nresp)'
      BY <1>1, <1>2 DEF Numbered, Busy, Own
    <2>2. AllThere'
      BY <1>1, <1>2 DEF AllThere
    <2> QED
      BY <1>1, <1>2, <2>1, <2>2 DEF Collected
  <1>7. Scanning'
    <2>1. /\ iter' <= nresp' /\ iter \in 0 .. iter' - 1
          /\ \A i \in 0 .. iter' - 1 : i \in 0 .. iter - 1 \/ i = iter
          /\ \A i \in 0 .. iter - 1 : i \in 0 .. iter' - 1
      BY <1>1, <1>3, <1>4, XferTypes
    <2>2. isr_ret' = "ok" =>
            isr_ret = "ok" /\ xfer.cmds[iter].ret = "ok"
      BY <1>4
    <2>3. isr_ret' = "ok" => \A i \in 0 .. iter' - 1 : xfer.cmds[i].ret = "ok"
      BY <1>1, <2>1, <2>2 DEF Scanning
    <2>4. isr_ret' # "ok" =>
            \E i \in 0 .. iter' - 1 : xfer.cmds[i].ret = isr_ret'
      <3>1. CASE xfer.cmds[iter].ret # "ok"
        BY <1>4, <2>1, <3>1
      <3>2. CASE xfer.cmds[iter].ret = "ok"
        <4>1. isr_ret' = isr_ret
          BY <1>4, <3>2
        <4>2. isr_ret # "ok" =>
                \E i \in 0 .. iter - 1 : xfer.cmds[i].ret = isr_ret
          BY <1>1 DEF Scanning
        <4> QED
          BY <2>1, <4>1, <4>2
      <3> QED
        BY <3>1, <3>2
    <2> QED
      BY <1>1, <2>1, <2>3, <2>4 DEF Scanning
  <1> QED
    BY <1>1, <1>4, <1>5, <1>6, <1>7 DEF Collecting, Completing

(* Every response was a success: then every command was answered, with     *)
(* success. Otherwise the return code is that of some response, and for a  *)
(* CCC there is only the one.                                              *)
LEMMA ScannedTrusted ==
  ASSUME TypeInv, SafeInv, FlowInv, Trusted, EndXferScanned
  PROVE  Trusted'
  <1> USE DEF Trusted
  <1>1. /\ isr = "scan" /\ iter = nresp
        /\ isr' = IF isr_ret = "ok" THEN "complete" ELSE "halt"
        /\ UNCHANGED <<pc, xfer, pushed, curr_xfer, res, cmdq, respq, inflight,
                       thld, err_stat, aborting, halted, got, nresp, iter,
                       isr_ret>>
        /\ IsrHolds /\ IsrHolds'
    BY DEF EndXferScanned, IsrHolds, threadVars, hwVars, queueVars, ghostVars
  <1>2. /\ AllThere /\ Numbered(nresp) /\ respq = << >>
        /\ xfer.cmds[TidOf(nresp - 1)].ret = got[nresp - 1]
        /\ nresp \in 1 .. xfer.n /\ nresp - 1 \in Nat /\ Len(respq) = 0
    BY <1>1, XferTypes DEF Collected, AllThere
  <1>3. Resting' /\ UnderWay' /\ Asked' /\ Latched' /\ Entered' /\ Settled'
    <2>1. Quiet' = Quiet
      BY <1>1 DEF Quiet
    <2> QED
      BY <1>1, <2>1, HolderFrame
  <1>4. TidOf(nresp - 1) \in 0 .. nresp - 1
    BY <1>2, TidFacts
  <1>5. CASE isr_ret = "ok"
    <2>1. got[nresp - 1] = "ok"
      BY <1>1, <1>2, <1>4, <1>5 DEF Scanning
    <2>2. nresp = xfer.n
      BY <1>2, <2>1 DEF AllThere
    <2>3. \A c \in 0 .. nresp + Len(respq) - 2 : got[c] = "ok"
      BY <1>2 DEF Numbered
    <2>4. \A c \in 0 .. xfer.n - 1 : got[c] = "ok"
      BY <1>2, <2>1, <2>2, <2>3
    <2>5. Quiet
      <3>1. nresp + Len(respq) + Busy + Len(cmdq) = pushed /\ pushed <= xfer.n
        BY <1>1, <1>2, IsrRuns DEF Numbered, UnderWay
      <3>2. Busy = 0 /\ Len(cmdq) = 0
        BY <1>2, <2>2, <3>1, XferTypes
      <3> QED
        BY <1>2, <3>2, XferTypes, EmptySeq DEF Quiet, Busy
    <2>6. RetOK(isr_ret)' /\ Quiet'
      BY <1>1, <1>5, <2>4, <2>5 DEF RetOK, Quiet
    <2> QED
      BY <1>1, <1>3, <1>5, <2>6
      DEF Collecting, Collected, Scanning, Completing
  <1>6. CASE isr_ret # "ok"
    <2>1. Collected'
      <3>1. Numbered(nresp)'
        BY <1>1, <1>2 DEF Numbered, Busy, Own
      <3>2. AllThere'
        BY <1>1, <1>2 DEF AllThere
      <3> QED
        BY <1>1, <1>2, <3>1, <3>2 DEF Collected
    <2>2. RetOK(isr_ret)'
      <3> SUFFICES ASSUME xfer.kind = "ccc", isr_ret = "iba_nack"
                   PROVE  got[0] = "iba_nack"
        BY <1>1, <1>6 DEF RetOK
      <3>1. nresp = 1
        BY <1>2 DEF FlowInv, Shape
      <3>2. PICK i \in 0 .. iter - 1 : xfer.cmds[i].ret = isr_ret
        BY <1>1, <1>6 DEF Scanning
      <3>3. i = 0 /\ TidOf(nresp - 1) = 0 /\ nresp - 1 = 0
        BY <1>1, <1>4, <3>1
      <3> QED
        BY <1>2, <3>2, <3>3
    <2> QED
      BY <1>1, <1>3, <1>6, <2>1, <2>2 DEF Collecting, Scanning, Completing
  <1> QED
    BY <1>5, <1>6

(* Reset after an error: nothing is left of the transfer.                  *)
LEMMA ResetTrusted ==
  ASSUME TypeInv, SafeInv, FlowInv, Trusted, ~tainted',
         IsrHalt \/ IsrFlush \/ IsrResume
  PROVE  Trusted'
  <1> USE DEF Trusted
  <1>1. /\ UNCHANGED <<pc, xfer, pushed, curr_xfer, res, thld, err_stat,
                       aborting, got, nresp, iter, isr_ret, inflight>>
        /\ IsrHolds /\ IsrHolds'
    BY DEF IsrHalt, IsrFlush, IsrResume, IsrHolds, threadVars, hwVars,
           queueVars, ghostVars
  <1>2. CASE IsrHalt
    <2>1. /\ isr = "halt" /\ isr' = "flush" /\ UNCHANGED <<cmdq, respq, halted>>
      BY <1>2 DEF IsrHalt, hwVars, queueVars
    <2>2. Resting' /\ UnderWay' /\ Asked' /\ Latched' /\ Entered' /\ Settled'
      <3>1. Quiet' = Quiet
        BY <1>1, <2>1 DEF Quiet
      <3> QED
        BY <1>1, <2>1, <3>1, HolderFrame
    <2>3. Collected'
      <3>1. Numbered(nresp)'
        BY <1>1, <2>1 DEF Collected, Numbered, Busy, Own
      <3>2. AllThere'
        BY <1>1, <2>1 DEF Collected, AllThere
      <3> QED
        BY <1>1, <2>1, <3>1, <3>2 DEF Collected
    <2> QED
      BY <1>1, <2>1, <2>2, <2>3
      DEF Collecting, Scanning, Completing, RetOK
  <1>3. CASE IsrFlush
    <2>1. /\ isr = "flush" /\ isr' = "resume" /\ halted' = halted
          /\ cmdq' = << >> /\ respq' = << >>
      BY <1>3 DEF IsrFlush, FlushQueues
    <2>2. inflight = Idle
      BY <2>1 DEF Collected, AllThere, FlowInv, HaltIdle
    <2>3. Quiet'
      BY <1>1, <2>1, <2>2 DEF Quiet
    <2>4. Resting' /\ UnderWay' /\ Asked' /\ Latched' /\ Entered' /\ Settled'
      BY <1>1, <2>1, <2>3, HolderFrame
    <2> QED
      BY <1>1, <2>1, <2>3, <2>4
      DEF Collecting, Collected, Scanning, Completing, RetOK
  <1>4. CASE IsrResume
    <2>1. /\ isr = "resume" /\ isr' = "complete" /\ ~halted'
          /\ UNCHANGED <<cmdq, respq>>
      BY <1>4 DEF IsrResume, queueVars
    <2>2. Quiet'
      BY <1>1, <2>1 DEF Completing, Quiet
    <2>3. Resting' /\ UnderWay' /\ Asked' /\ Latched' /\ Entered' /\ Settled'
      BY <1>1, <2>1, <2>2, HolderFrame
    <2> QED
      BY <1>1, <2>1, <2>2, <2>3
      DEF Collecting, Collected, Scanning, Completing, RetOK
  <1> QED
    BY <1>2, <1>3, <1>4

LEMMA CompleteTrusted ==
  ASSUME TypeInv, SafeInv, Trusted, Seen, IsrComplete \/ IsrAck
  PROVE  Trusted'
  <1> USE DEF Trusted
  <1>1. /\ UNCHANGED <<pc, pushed, curr_xfer, res, cmdq, respq, inflight, thld,
                       aborting, halted, got>>
        /\ pc \notin AtRest /\ pc # "idle"
    BY IsrRuns
    DEF IsrComplete, IsrAck, threadVars, hwVars, queueVars, ghostVars
  <1>2. curr_xfer = NoCall /\ isr \in {"complete", "ack"}
    BY DEF IsrComplete, IsrAck, SafeInv, HandOver, IsrHolds, Completing
  <1>3. CASE IsrComplete
    <2>1. /\ isr = "complete" /\ isr' = "ack" /\ err_stat' = err_stat
          /\ xfer'.ret = isr_ret /\ xfer'.done /\ xfer'.n = xfer.n
          /\ xfer'.kind = xfer.kind
      BY <1>3, XferTypes DEF IsrComplete, hwVars, Xfer
    <2>2. Quiet' /\ RetOK(xfer.ret)'
      BY <1>1, <2>1 DEF Completing, Quiet, RetOK
    <2> QED
      BY <1>1, <1>2, <2>1, <2>2
      DEF Resting, UnderWay, Asked, Latched, Entered, Collecting, Collected,
          Scanning, Completing, Settled
  <1>4. CASE IsrAck
    <2>a. seen_err = err_stat /\ seen_err \in BOOLEAN /\ isr = "ack"
      BY <1>4, XferTypes DEF IsrAck, Seen
    <2>b. err_stat' = (err_stat /\ ~seen_err)
      BY <1>4 DEF IsrAck
    <2>1. /\ isr = "ack" /\ isr' = "off" /\ ~err_stat' /\ xfer' = xfer
          /\ ~IsrHolds
      <3>1. ~err_stat'
        BY <2>a, <2>b, Zenon
      <3>2. isr' = "off" /\ xfer' = xfer /\ ~IsrHolds
        BY <1>4, <2>a DEF IsrAck, threadVars, IsrHolds
      <3> QED
        BY <2>a, <3>1, <3>2
    <2>2. xfer.done
      BY <1>1, <1>2, <2>1 DEF UnderWay
    <2>3. Settled' /\ Quiet'
      BY <1>1, <2>1, <2>2 DEF Settled, RetOK, Quiet
    <2> QED
      BY <1>1, <1>2, <2>1, <2>2, <2>3, HandlerOff
      DEF Resting, UnderWay, Asked, Latched
  <1> QED
    BY <1>3, <1>4

LEMMA IsrTrusted ==
  ASSUME TypeInv, TypeInv', SafeInv, SafeInv', FlowInv, Trusted, Seen,
         ~tainted', IsrStep
  PROVE  Trusted'
  <1>1. ~EndXferStray
    BY DEF EndXferStray, Trusted, Entered
  <1> QED
    BY <1>1, EnterTrusted, TakeTrusted, CollectTrusted, CollectedTrusted,
       ScanTrusted, ScannedTrusted, ResetTrusted, CompleteTrusted DEF IsrStep

-----------------------------------------------------------------------------
(* The hardware.                                                           *)

(* A controller that is not halted and has a command belongs to a transfer *)
(* that nobody has started to answer.                                      *)
LEMMA HwRuns ==
  ASSUME TypeInv, SafeInv, Trusted, ~halted,
         cmdq # << >> \/ inflight # Idle
  PROVE  /\ curr_xfer # NoCall /\ isr \in {"off", "end_xfer"} /\ ~IsrHolds
         /\ pc \notin AtRest /\ pc # "idle" /\ ~xfer.done
         /\ Numbered(0) /\ thld = xfer.n - 1 /\ pushed <= xfer.n /\ ~err_stat
         /\ ~(pc = "flush" \/ (pc = "halt" /\ ~aborting))
  <1> USE DEF Trusted
  <1>1. ~Quiet
    BY DEF Quiet
  <1>2. pc \notin AtRest /\ pc # "idle"
    BY <1>1 DEF Resting, AtRest
  <1>3. ~IsrHolds
    BY <1>1 DEF IsrHolds, Collecting, Collected, AllThere, Completing
  <1>4. curr_xfer # NoCall
    BY <1>1, <1>2, <1>3 DEF UnderWay, Settled
  <1>5. isr \in {"off", "end_xfer"}
    BY <1>3, <1>4, XferTypes DEF IsrHolds, Completing, IsrPc
  <1>6. Numbered(0)
    BY <1>2, <1>4 DEF UnderWay, Parked
  <1>7. ~err_stat
    <2> SUFFICES ASSUME err_stat PROVE FALSE
      OBVIOUS
    <2>1. respq # << >> /\ got[Len(respq) - 1] # "ok"
      BY <1>5 DEF Latched
    <2>2. 0 + Len(respq) > 0 /\ 0 + Len(respq) - 1 = Len(respq) - 1
      BY <2>1, XferTypes, EmptySeq
    <2>3. got[0 + Len(respq) - 1] # "ok"
      BY <2>1, <2>2
    <2> QED
      BY <1>6, <2>2, <2>3 DEF Numbered
  <1> QED
    BY <1>1, <1>2, <1>3, <1>4, <1>5, <1>6, <1>7
    DEF UnderWay, SafeInv, CompletedOnce

LEMMA FetchTrusted ==
  ASSUME TypeInv, SafeInv, Trusted, HwFetch
  PROVE  Trusted'
  <1> USE DEF Trusted
  <1>1. /\ ~halted /\ inflight = Idle /\ cmdq # << >>
        /\ inflight' = Head(cmdq) /\ cmdq' = Tail(cmdq)
        /\ UNCHANGED <<pc, xfer, pushed, curr_xfer, res, isr, nresp, iter,
                       isr_ret, respq, thld, err_stat, aborting, halted, got>>
    BY DEF HwFetch, threadVars, isrVars, ghostVars
  <1>2. /\ curr_xfer # NoCall /\ isr \in {"off", "end_xfer"} /\ ~IsrHolds
        /\ pc \notin AtRest /\ pc # "idle" /\ ~xfer.done
        /\ Numbered(0) /\ ~err_stat
        /\ ~(pc = "flush" \/ (pc = "halt" /\ ~aborting))
    BY <1>1, HwRuns
  <1>3. /\ Len(cmdq') = Len(cmdq) - 1 /\ Len(cmdq) >= 1
        /\ inflight' = cmdq[1] /\ 1 \in 1 .. Len(cmdq) /\ cmdq[1] \in QCmd
        /\ Len(cmdq) \in Nat /\ Len(respq) \in Nat
        /\ \A j \in 1 .. Len(cmdq') :
             cmdq'[j] = cmdq[j + 1] /\ j + 1 \in 1 .. Len(cmdq)
    <2>1. cmdq \in Seq(QCmd)
      BY XferTypes
    <2>2. /\ Len(cmdq') = Len(cmdq) - 1 /\ Len(cmdq) >= 1
          /\ inflight' = cmdq[1] /\ Len(cmdq) \in Nat
          /\ \A i \in 1 .. Len(cmdq) - 1 : cmdq'[i] = cmdq[i + 1]
      BY <1>1, <2>1, PopQueue
    <2> QED
      BY <2>1, <2>2, XferTypes, ElementOfSeq
  <1>4. Busy = 0 /\ Busy' = 1
    BY <1>1, <1>3 DEF Busy, QCmd, Idle, NoCall, Call
  <1>5. Numbered(0)'
    <2>1. /\ Own(cmdq[1]) /\ cmdq[1].cmd = 0 + Len(respq) + 0 + 1 - 1
      BY <1>2, <1>3, <1>4 DEF Numbered
    <2>2. inflight'.call = xfer.id /\ inflight'.cmd = 0 + Len(respq)
      BY <1>3, <2>1 DEF Own
    <2>3. \A j \in 1 .. Len(cmdq') :
            /\ cmdq'[j].call = xfer.id
            /\ cmdq'[j].cmd = 0 + Len(respq) + 1 + j - 1
      <3> SUFFICES ASSUME NEW j \in 1 .. Len(cmdq')
                   PROVE  /\ cmdq'[j].call = xfer.id
                          /\ cmdq'[j].cmd = 0 + Len(respq) + 1 + j - 1
        OBVIOUS
      <3>1. /\ Own(cmdq[j + 1])
            /\ cmdq[j + 1].cmd = 0 + Len(respq) + 0 + (j + 1) - 1
        BY <1>2, <1>3, <1>4 DEF Numbered
      <3>2. 0 + Len(respq) + 0 + (j + 1) - 1 = 0 + Len(respq) + 1 + j - 1
        BY <1>3
      <3> QED
        BY <1>3, <3>1, <3>2 DEF Own
    <2>4. 0 + Len(respq) + 1 + Len(cmdq') = pushed
      <3>1. 0 + Len(respq) + 0 + Len(cmdq) = pushed
        BY <1>2, <1>4 DEF Numbered
      <3> QED
        BY <1>3, <3>1
    <2> QED
      BY <1>1, <1>2, <1>4, <2>2, <2>3, <2>4 DEF Numbered, Own
  <1>6. UnderWay'
    BY <1>1, <1>2, <1>5 DEF UnderWay
  <1>7. IrqPending' = IrqPending /\ RetOK(xfer.ret)' = RetOK(xfer.ret)
    BY <1>1 DEF IrqPending, RespReady, RetOK
  <1> QED
    BY <1>1, <1>2, <1>6, <1>7
    DEF Resting, Asked, Latched, Entered, Collecting, Collected, Scanning,
        Completing, Settled

(* A response, to an abort or of its own accord: the number moves on.      *)
LEMMA RespondTrusted ==
  ASSUME TypeInv, TypeInv', SafeInv, FlowInv, Trusted, inflight # Idle,
         NEW e \in RespErr, NEW len \in 0 .. 1, RespondWith(e, len),
         halted' = (halted \/ e # "ok"), aborting' = (aborting /\ e = "ok"),
         UNCHANGED <<threadVars, isrVars, cmdq, thld>>
  PROVE  Trusted'
  <1> USE DEF Trusted
  <1>1. /\ inflight' = Idle /\ err_stat' = (err_stat \/ e # "ok")
        /\ UNCHANGED <<pc, xfer, pushed, curr_xfer, res, isr, nresp, iter,
                       isr_ret, cmdq, thld>>
        /\ ~halted
    BY DEF RespondWith, threadVars, isrVars, FlowInv, HaltIdle
  <1>2. /\ curr_xfer # NoCall /\ isr \in {"off", "end_xfer"} /\ ~IsrHolds
        /\ pc \notin AtRest /\ pc # "idle" /\ ~xfer.done
        /\ Numbered(0) /\ ~err_stat
        /\ ~(pc = "flush" \/ (pc = "halt" /\ ~aborting))
    BY <1>1, HwRuns
  <1>3. Own(inflight) /\ inflight.cmd = 0 + Len(respq)
    BY <1>2 DEF Numbered
  <1>4. inflight \in QCmd /\ inflight.cmd \in Cmd /\ inflight.call \in Call
    BY XferTypes DEF QCmd
  <1>5. PICK q \in QResp :
          /\ q.call = inflight.call /\ q.cmd = inflight.cmd /\ q.err = e
          /\ respq' = Append(respq, q)
    BY <1>4 DEF RespondWith, QResp
  <1>6. /\ Len(respq') = Len(respq) + 1 /\ respq'[Len(respq) + 1] = q
        /\ Len(respq) \in Nat /\ Len(cmdq) \in Nat
        /\ \A i \in 1 .. Len(respq) : respq'[i] = respq[i]
        /\ \A i \in 1 .. Len(respq') : i \in 1 .. Len(respq) \/ i = Len(respq) + 1
    BY <1>5, PushQueue, XferTypes
  <1>7. got' = [got EXCEPT ![inflight.cmd] = e]
    BY <1>3 DEF RespondWith, Own
  <1>8. /\ got'[Len(respq)] = e
        /\ \A c \in Cmd : c # Len(respq) => got'[c] = got[c]
        /\ Len(respq) \in Cmd
    BY <1>3, <1>4, <1>6, <1>7, XferTypes
  <1>9. /\ Busy = 1 /\ Busy' = 0
    BY <1>1 DEF Busy
  <1>10. \A j \in 1 .. Len(respq') :
           /\ Own(respq'[j])  /\ respq'[j].cmd = 0 + j - 1
           /\ respq'[j].err = got'[0 + j - 1]
    <2> SUFFICES ASSUME NEW j \in 1 .. Len(respq')
                 PROVE  /\ Own(respq'[j])  /\ respq'[j].cmd = 0 + j - 1
                        /\ respq'[j].err = got'[0 + j - 1]
      OBVIOUS
    <2>1. CASE j = Len(respq) + 1
      <3>1. 0 + j - 1 = Len(respq) /\ 0 + Len(respq) = Len(respq)
        BY <1>6, <2>1
      <3> QED
        BY <1>3, <1>5, <1>6, <1>8, <2>1, <3>1 DEF Own
    <2>2. CASE j \in 1 .. Len(respq)
      <3>1. /\ Own(respq[j]) /\ respq[j].cmd = 0 + j - 1
            /\ respq[j].err = got[0 + j - 1]
        BY <1>2, <2>2 DEF Numbered
      <3>2. 0 + j - 1 \in Cmd /\ 0 + j - 1 # Len(respq)
        BY <1>6, <1>8, <2>2, XferAssumption DEF Cmd
      <3> QED
        BY <1>6, <1>8, <2>2, <3>1, <3>2
    <2> QED
      BY <1>6, <2>1, <2>2
  <1>11. Numbered(0)'
    <2>1. \A j \in 1 .. Len(cmdq) :
            Own(cmdq[j]) /\ cmdq[j].cmd = 0 + Len(respq') + 0 + j - 1
      <3> SUFFICES ASSUME NEW j \in 1 .. Len(cmdq)
                   PROVE Own(cmdq[j]) /\ cmdq[j].cmd = 0 + Len(respq') + 0 + j - 1
        OBVIOUS
      <3>1. Own(cmdq[j]) /\ cmdq[j].cmd = 0 + Len(respq) + 1 + j - 1
        BY <1>2, <1>9 DEF Numbered
      <3>2. 0 + Len(respq) + 1 + j - 1 = 0 + Len(respq') + 0 + j - 1
        BY <1>6
      <3> QED
        BY <3>1, <3>2
    <2>2. 0 + Len(respq') + 0 + Len(cmdq) = pushed
      <3>1. 0 + Len(respq) + 1 + Len(cmdq) = pushed
        BY <1>2, <1>9 DEF Numbered
      <3> QED
        BY <1>6, <3>1
    <2>3. \A c \in 0 .. 0 + Len(respq') - 2 : got'[c] = "ok"
      <3> SUFFICES ASSUME NEW c \in 0 .. 0 + Len(respq') - 2
                   PROVE  got'[c] = "ok"
        OBVIOUS
      <3>1. c \in 0 .. Len(respq) - 1
        BY <1>6
      <3>2. c \in Cmd /\ c # Len(respq)
        BY <1>6, <1>8, <3>1, XferAssumption DEF Cmd
      <3>3. CASE c = Len(respq) - 1
        <4>1. 0 + Len(respq) > 0 /\ 0 + Len(respq) - 1 = c
          BY <1>6, <3>1, <3>3
        <4>2. got[0 + Len(respq) - 1] = "ok"
          BY <1>1, <1>2, <4>1 DEF Numbered
        <4> QED
          BY <1>8, <3>2, <4>1, <4>2
      <3>4. CASE c # Len(respq) - 1
        <4>1. c \in 0 .. 0 + Len(respq) - 2
          BY <1>6, <3>1, <3>4
        <4>2. got[c] = "ok"
          BY <1>2, <4>1 DEF Numbered
        <4> QED
          BY <1>8, <3>2, <4>2
      <3> QED
        BY <3>3, <3>4
    <2>4. got'[0 + Len(respq') - 1] # "ok" => halted'
      <3>1. 0 + Len(respq') - 1 = Len(respq)
        BY <1>6
      <3> QED
        BY <1>8, <3>1
    <2> QED
      BY <1>1, <1>9, <1>10, <2>1, <2>2, <2>3, <2>4 DEF Numbered, Own
  <1>12. UnderWay'
    BY <1>1, <1>2, <1>11 DEF UnderWay
  <1>13. Latched'
    <2>1. Len(respq') - 1 = Len(respq) /\ Len(respq') # 0
      BY <1>6
    <2>2. respq' # << >>
      BY <2>1
    <2> QED
      BY <1>1, <1>2, <1>8, <2>1, <2>2 DEF Latched
  <1>14. Entered'
    <2>1. IrqPending => IrqPending'
      BY <1>1, <1>6, XferTypes DEF IrqPending, RespReady
    <2> QED
      BY <1>1, <2>1 DEF Entered
  <1> QED
    BY <1>1, <1>2, <1>12, <1>13, <1>14
    DEF Resting, Asked, Collecting, Collected, Scanning, Completing, Settled,
        IsrHolds

(* The controller gives up on request, with nothing to answer.             *)
LEMMA DropTrusted ==
  ASSUME TypeInv, SafeInv, FlowInv, Trusted, aborting,
         halted' = TRUE, aborting' = FALSE, inflight' = Idle,
         UNCHANGED <<threadVars, isrVars, cmdq, thld, respq, got, err_stat>>
  PROVE  Trusted'
  <1> USE DEF Trusted
  <1>1. /\ UNCHANGED <<pc, xfer, pushed, curr_xfer, res, isr, nresp, iter,
                       isr_ret, cmdq, thld, respq, got, err_stat>>
        /\ pc = "halt" /\ ~halted /\ pc \notin AtRest
        /\ IrqPending' = IrqPending /\ IsrHolds' = IsrHolds
        /\ Quiet => Quiet'
    BY DEF threadVars, isrVars, Asked, AtRest, IrqPending, RespReady, IsrHolds,
           Quiet
  <1>2. CASE inflight = Idle
    <2>2. /\ Numbered(0) => Numbered(0)'
          /\ Numbered(iter) => Numbered(iter)'
          /\ Numbered(nresp) => Numbered(nresp)'
      BY <1>1, <1>2 DEF Numbered, Busy, Own
    <2>3. AllThere => AllThere'
      BY <1>1 DEF AllThere
    <2>4. UnderWay'
      BY <1>1, <2>2 DEF UnderWay, Parked
    <2> QED
      BY <1>1, <2>2, <2>3, <2>4
      DEF Resting, Asked, Latched, Entered, Collecting, Collected, Scanning,
          Completing, Settled, RetOK
  <1>3. CASE inflight # Idle
    <2>1. /\ curr_xfer # NoCall /\ isr \in {"off", "end_xfer"} /\ ~IsrHolds
          /\ pc # "idle" /\ ~xfer.done /\ Numbered(0) /\ thld = xfer.n - 1
          /\ pushed <= xfer.n /\ ~err_stat
      BY <1>1, <1>3, HwRuns
    <2>2. Len(respq) <= thld
      <3>1. 0 + Len(respq) + Busy + Len(cmdq) = pushed /\ Busy = 1
        BY <1>3, <2>1 DEF Numbered, Busy
      <3> QED
        BY <2>1, <3>1, XferTypes
    <2>3. isr = "off"
      BY <2>1, <2>2, XferTypes DEF Entered, IrqPending, RespReady
    <2>4. Parked'
      BY <1>1, <2>1, <2>2, <2>3 DEF Parked
    <2>5. UnderWay'
      BY <1>1, <2>1, <2>4 DEF UnderWay
    <2> QED
      BY <1>1, <2>1, <2>3, <2>5, HandlerOff
      DEF Resting, Asked, Latched, Settled
  <1> QED
    BY <1>2, <1>3

LEMMA HwTrusted ==
  ASSUME TypeInv, TypeInv', SafeInv, FlowInv, Trusted, HwStep
  PROVE  Trusted'
  <1>1. CASE HwFetch
    BY <1>1, FetchTrusted
  <1>2. ASSUME NEW e \in RespErr, NEW len \in 0 .. 1, HwRespond(e, len)
        PROVE  Trusted'
    BY <1>2, RespondTrusted DEF HwRespond
  <1>3. CASE HwHalt
    <2>1. CASE inflight # Idle /\ RespondWith("abort", 0)
      <3>1. "abort" \in RespErr /\ 0 \in 0 .. 1
        BY RespErrFacts
      <3>2. halted' = (halted \/ "abort" # "ok")
            /\ aborting' = (aborting /\ "abort" = "ok")
        BY <1>3 DEF HwHalt
      <3>3. UNCHANGED <<threadVars, isrVars, cmdq, thld>>
        BY <1>3 DEF HwHalt
      <3> QED
        BY <2>1, <3>1, <3>2, <3>3, RespondTrusted
    <2>2. CASE inflight' = Idle /\ UNCHANGED <<respq, rxq, got, err_stat>>
      BY <1>3, <2>2, DropTrusted DEF HwHalt
    <2> QED
      BY <1>3, <2>1, <2>2 DEF HwHalt
  <1> QED
    BY <1>1, <1>2, <1>3 DEF HwStep

-----------------------------------------------------------------------------
(* Calls begin between transfers.                                          *)
LEMMA RequestTrusted ==
  ASSUME TypeInv, SafeInv, Trusted, Request
  PROVE  Trusted'
  <1> USE DEF Trusted
  <1>1. /\ pc = "idle" /\ isr = "off" /\ isr' = "off"
        /\ UNCHANGED <<curr_xfer, cmdq, respq, inflight, err_stat, aborting>>
        /\ \/ pc' = "publish" /\ ~xfer'.done
           \/ pc' = "idle" /\ res' = "error"
    <2>1. ASSUME NEW k \in Kind, NEW n \in 1 .. MaxCmds,
                 NEW rd \in [Cmd -> BOOLEAN], Begin(k, n, rd)
          PROVE  <1>1!:
      BY <2>1 DEF Begin, ThreadRuns, isrVars, hwVars, queueVars
    <2>2. ASSUME NEW k \in Kind, Refuse(k)
          PROVE  <1>1!:
      BY <2>2 DEF Refuse, ThreadRuns, isrVars, hwVars, queueVars
    <2> QED
      BY <2>1, <2>2 DEF Request
  <1> QED
    BY <1>1, HandlerOff
    DEF Resting, UnderWay, Asked, Latched, Settled, AtRest, Quiet

(* No response comes once the handler has been entered: there were as many *)
(* as there are commands, or an error that halted the controller.          *)
LEMMA RespondOff ==
  ASSUME TypeInv, SafeInv, FlowInv, Trusted, inflight # Idle
  PROVE  isr = "off"
  <1>1. /\ isr \in {"off", "end_xfer"} /\ ~err_stat
        /\ Numbered(0) /\ thld = xfer.n - 1 /\ pushed <= xfer.n
    BY HwRuns DEF FlowInv, HaltIdle
  <1>2. SUFFICES ASSUME isr = "end_xfer" PROVE FALSE
    BY <1>1
  <1>3. Len(respq) > thld
    BY <1>1, <1>2 DEF Trusted, Entered, IrqPending, RespReady
  <1>4. 0 + Len(respq) + 1 + Len(cmdq) = pushed
    BY <1>1 DEF Numbered, Busy
  <1> QED
    BY <1>1, <1>3, <1>4, XferTypes

LEMMA SeenStep ==
  ASSUME TypeInv, SafeInv, FlowInv, Trusted, Seen, Next
  PROVE  Seen'
  <1>1. CASE Request \/ ThreadStep
    <2>1. isr' = "off"
      BY <1>1 DEF Request, Begin, Refuse, ThreadStep, Publish, Arm, ArmTo, Push,
           Answered, TimedOut, Abort, Halt, Flush, Resume, Unpublish, Return,
           ThreadRuns, isrVars
    <2> QED
      BY <2>1 DEF Seen
  <1>2. CASE IsrStep
    <2>1. \/ isr' = "off"
          \/ seen_err' = err_stat /\ err_stat' = err_stat
          \/ isr # "off" /\ UNCHANGED <<seen_err, err_stat>>
      BY <1>2
      DEF IsrStep, IsrEnter, EndXferStray, EndXferTake, EndXferCollect,
          EndXferCollected, EndXferScan, EndXferScanned, IsrHalt, IsrFlush,
          IsrResume, IsrComplete, IsrAck, hwVars, queueVars
    <2> QED
      BY <2>1 DEF Seen
  <1>3. CASE HwStep
    <2>1. \/ UNCHANGED <<isr, seen_err, err_stat>>
          \/ inflight # Idle /\ isr' = isr
      BY <1>3 DEF HwStep, HwFetch, HwRespond, HwHalt, isrVars
    <2> QED
      BY <2>1, RespondOff DEF Seen
  <1>4. CASE Stopped
    BY <1>4 DEF Stopped, vars, isrVars, hwVars, Seen
  <1> QED
    BY <1>1, <1>2, <1>3, <1>4 DEF Next

LEMMA TrustedStep ==
  ASSUME TypeInv, TypeInv', SafeInv, SafeInv', FlowInv,
         ~tainted => Trusted /\ Seen, [Next]_vars
  PROVE  ~tainted' => Trusted' /\ Seen'
  <1> SUFFICES ASSUME ~tainted' PROVE Trusted' /\ Seen'
    OBVIOUS
  <1>1. ~tainted
    BY DEF Next, Request, Begin, Refuse, ThreadStep, Publish, Arm, ArmTo, Push,
           Answered, TimedOut, Abort, Halt, Flush, Resume, Unpublish, Return,
           IsrStep, IsrEnter, EndXferStray, EndXferTake, EndXferCollect,
           EndXferCollected, EndXferScan, EndXferScanned, IsrHalt, IsrFlush,
           IsrResume, IsrComplete, IsrAck, HwStep, HwFetch, HwRespond, HwHalt,
           Stopped, vars, ghostVars, RespondWith
  <1>2. CASE UNCHANGED vars
    BY <1>1, <1>2
    DEF vars, threadVars, isrVars, hwVars, queueVars, ghostVars, Trusted,
        Resting, UnderWay, Asked, Latched, Entered, Collecting, Collected,
        Scanning, Completing, Settled, AllThere, Numbered, Parked, Quiet, Busy,
        Own, RetOK, IrqPending, RespReady, IsrHolds, Outcome, Seen
  <1>3. CASE Next
    <2>1. Seen'
      BY <1>1, <1>3, SeenStep
    <2>2. Trusted'
      BY <1>1, <1>2, <1>3, RequestTrusted, ThreadTrusted, IsrTrusted, HwTrusted
      DEF Next, Stopped
    <2> QED
      BY <2>1, <2>2
  <1> QED
    BY <1>2, <1>3

LEMMA XferInvariant == Spec => []XferInv
  <1>1. Init => XferInv
    <2>1. Init => Seen
      BY DEF Init, Seen
    <2> QED
      BY <2>1, InitType, InitSafe, InitFlow, InitTrusted DEF XferInv
  <1>2. XferInv /\ [Next]_vars => XferInv'
    BY TypeStep, SafeStep, FlowStep, TrustedStep DEF XferInv
  <1> QED
    BY <1>1, <1>2, PTL DEF Spec

(* The second loop of end_xfer never indexes past the commands, for as     *)
(* long as answers are not mixed up.                                       *)
THEOREM ScanInBounds == Spec => []NoIndexPanic
  <1>1. XferInv => NoIndexPanic
    BY DEF XferInv, Trusted, Completing, NoIndexPanic
  <1> QED
    BY <1>1, XferInvariant, PTL

(* A call that returns Ok had its own commands answered with success (or   *)
(* with the NACK do_ccc forgives) unless a halt poll had expired or a      *)
(* command had been queued after its transfer was answered: those are the  *)
(* only ways ReturnCodeIsOwn can fail.                                     *)
THEOREM HonestUnlessMixed == Spec => [](~tainted => ReturnCodeIsOwn)
  <1>1. XferInv => (~tainted => ReturnCodeIsOwn)
    <2> SUFFICES ASSUME XferInv, ~tainted, pc = "idle", res = "ok",
                        NEW c \in 0 .. xfer.n - 1
                 PROVE  got[c] = "ok" \/ (xfer.kind = "ccc" /\ got[c] = "iba_nack")
      BY DEF ReturnCodeIsOwn
    <2>1. RetOK(xfer.ret) /\ Outcome(xfer) = "ok"
      BY DEF XferInv, Trusted, Settled
    <2>2. CASE xfer.ret = "ok"
      BY <2>1, <2>2 DEF RetOK
    <2>3. CASE xfer.ret # "ok"
      <3>1. xfer.kind = "ccc" /\ xfer.ret = "iba_nack"
        BY <2>1, <2>3 DEF Outcome
      <3>2. c = 0
        BY <3>1 DEF XferInv, FlowInv, Shape
      <3> QED
        BY <2>1, <3>1, <3>2 DEF RetOK
    <2> QED
      BY <2>2, <2>3
  <1> QED
    BY <1>1, XferInvariant, PTL

-----------------------------------------------------------------------------
(* The refinement, step by step.                                           *)

LEMMA CallStart == Init => C!CallInit
  BY XferAssumption DEF Init, C!CallInit, C!Cmd, Cmd

LEMMA RequestIsRequest ==
  ASSUME TypeInv, TypeInv', Request
  PROVE  C!Request
  <1>1. xfer'.kind \in {"ccc", "entdaa", "priv"} /\ xfer'.n \in 1 .. MaxCmds
    BY DEF TypeInv, TypeOK, ThreadTypeOK, Xfer, Kind
  <1>2. /\ pc = "idle" /\ got' = [c \in Cmd |-> "none"] /\ tainted' = tainted
        /\ \/ pc' = "publish" /\ res' = "none"
           \/ pc' = "idle" /\ res' = "error"
    BY DEF Request, Begin, Refuse
  <1> QED
    BY <1>1, <1>2 DEF C!Request, C!Cmd, Cmd

(* A response is the one answer to its command, or an answer to a call     *)
(* that is over.                                                           *)
LEMMA RespondIsAnswer ==
  ASSUME TypeInv, FlowInv, inflight # Idle, NEW e \in RespErr, NEW len \in 0 .. 1,
         RespondWith(e, len), UNCHANGED <<threadVars, tainted>>
  PROVE  C!BusAnswer \/ UNCHANGED C!callVars
  <1>1. UNCHANGED <<pc, xfer, res, tainted>>
    BY DEF threadVars
  <1>2. inflight \in QCmd /\ inflight.cmd \in Cmd
    BY XferTypes DEF QCmd
  <1>3. CASE inflight.call = xfer.id
    <2>1. got[inflight.cmd] = "none" /\ inflight.cmd < xfer.n
      BY <1>3 DEF FlowInv, OnceEach, Waits, Own
    <2>2. got' = [got EXCEPT ![inflight.cmd] = e]
      BY <1>3 DEF RespondWith
    <2> QED
      BY <1>1, <1>2, <2>1, <2>2 DEF C!BusAnswer, C!Cmd, Cmd, RespErr
  <1>4. CASE inflight.call # xfer.id
    BY <1>1, <1>4 DEF RespondWith, C!callVars
  <1> QED
    BY <1>3, <1>4

(* Ok is only said of answers that allow it.                               *)
LEMMA ReturnIsReply ==
  ASSUME XferInv, Return
  PROVE  C!Reply
  <1>1. /\ pc = "result" /\ pc' = "idle" /\ res' = Outcome(xfer)
        /\ UNCHANGED <<xfer, got, tainted>>
    BY DEF Return, ghostVars
  <1>2. CASE res' = "error"
    BY <1>1, <1>2 DEF C!Reply
  <1>3. CASE res' = "ok" /\ tainted
    BY <1>1, <1>3 DEF C!Reply
  <1>4. CASE res' = "ok" /\ ~tainted
    <2>1. RetOK(xfer.ret)
      BY <1>1, <1>4 DEF XferInv, Trusted, Settled, Outcome
    <2>2. C!Success
      BY <1>1, <1>4, <2>1 DEF C!Success, RetOK, Outcome
    <2> QED
      BY <1>1, <1>4, <2>2 DEF C!Reply
  <1> QED
    BY <1>1, <1>2, <1>3, <1>4 DEF Outcome

LEMMA ThreadCall ==
  ASSUME XferInv, ThreadStep
  PROVE  [C!CallNext]_(C!callVars)
  <1>1. CASE Publish \/ Answered \/ TimedOut \/ Abort \/ Flush \/ Resume
    BY <1>1
    DEF Publish, Answered, TimedOut, Abort, Flush, Resume, ghostVars, C!callVars
  <1>2. CASE Arm
    <2>1. xfer'.kind = xfer.kind /\ xfer'.n = xfer.n
      BY <1>2, XferTypes DEF XferInv, Arm, ArmTo, Xfer
    <2> QED
      BY <1>2, <2>1 DEF Arm, ArmTo, ghostVars, C!callVars
  <1>3. CASE Push \/ Halt
    <2>1. /\ pc # "idle" /\ pc' # "idle" /\ UNCHANGED <<xfer, got, res>>
          /\ tainted' = tainted \/ tainted' = TRUE
      BY <1>3, XferTypes DEF Push, Halt, threadVars, XferInv, TypeInv, TypeOK,
         GhostTypeOK
    <2> QED
      BY <2>1 DEF C!CallNext, C!Distrust, C!callVars
  <1>4. CASE Unpublish
    <2>1. pc = "unpublish" /\ UNCHANGED <<xfer, got, tainted>>
      BY <1>4 DEF Unpublish, ghostVars
    <2>2. CASE xfer.kind = "ccc"
      BY <1>4, <2>1, <2>2 DEF Unpublish, C!callVars
    <2>3. CASE xfer.kind # "ccc"
      BY <1>4, <2>1, <2>3 DEF Unpublish, C!CallNext, C!Reply
    <2> QED
      BY <2>2, <2>3
  <1>5. CASE Return
    BY <1>5, ReturnIsReply DEF C!CallNext
  <1> QED
    BY <1>1, <1>2, <1>3, <1>4, <1>5 DEF ThreadStep

LEMMA IsrCall ==
  ASSUME XferInv, IsrStep
  PROVE  [C!CallNext]_(C!callVars)
  <1>1. CASE \/ IsrEnter \/ EndXferStray \/ EndXferTake \/ EndXferCollected
             \/ EndXferScan \/ EndXferScanned \/ IsrFlush \/ IsrResume \/ IsrAck
    BY <1>1
    DEF IsrEnter, EndXferStray, EndXferTake, EndXferCollected, EndXferScan,
        EndXferScanned, IsrFlush, IsrResume, IsrAck, threadVars, ghostVars,
        C!callVars
  <1>2. CASE EndXferCollect \/ IsrComplete
    <2>1. xfer'.kind = xfer.kind /\ xfer'.n = xfer.n
      BY <1>2, XferTypes DEF XferInv, EndXferCollect, IsrComplete, Xfer
    <2> QED
      BY <1>2, <2>1 DEF EndXferCollect, IsrComplete, ghostVars, C!callVars
  <1>3. CASE IsrHalt
    <2>1. /\ UNCHANGED <<pc, xfer, got, res>>
          /\ tainted' = tainted \/ tainted' = TRUE
      BY <1>3 DEF IsrHalt, threadVars, XferInv, TypeInv, TypeOK, GhostTypeOK
    <2> QED
      BY <2>1 DEF C!CallNext, C!Distrust, C!callVars
  <1> QED
    BY <1>1, <1>2, <1>3 DEF IsrStep

LEMMA HwCall ==
  ASSUME XferInv, HwStep
  PROVE  [C!CallNext]_(C!callVars)
  <1>1. CASE HwFetch
    BY <1>1 DEF HwFetch, threadVars, ghostVars, C!callVars
  <1>2. ASSUME NEW e \in RespErr, NEW len \in 0 .. 1, HwRespond(e, len)
        PROVE  [C!CallNext]_(C!callVars)
    BY <1>2, RespondIsAnswer DEF HwRespond, XferInv, C!CallNext
  <1>3. CASE HwHalt
    <2>1. "abort" \in RespErr /\ 0 \in 0 .. 1
      BY RespErrFacts
    <2>2. CASE inflight # Idle /\ RespondWith("abort", 0)
      BY <1>3, <2>1, <2>2, RespondIsAnswer DEF HwHalt, XferInv, C!CallNext
    <2>3. CASE UNCHANGED got
      BY <1>3, <2>3 DEF HwHalt, threadVars, C!callVars
    <2> QED
      BY <1>3, <2>2, <2>3 DEF HwHalt
  <1> QED
    BY <1>1, <1>2, <1>3 DEF HwStep

(* The interrupt-driven transfers with their queues, threshold, abort and  *)
(* time-out implement the promise of I3cCall: every command is answered at *)
(* most once, and Ok is said of a call only if its own commands were       *)
(* answered with success, until answers are mixed up.                      *)
THEOREM TransfersKeepPromise == Spec => ImplementsCall
  <1>1. Init => C!CallInit
    BY CallStart
  <1>2. XferInv /\ XferInv' /\ [Next]_vars => [C!CallNext]_(C!callVars)
    <2> SUFFICES ASSUME XferInv, XferInv', [Next]_vars
                 PROVE  [C!CallNext]_(C!callVars)
      OBVIOUS
    <2>1. CASE UNCHANGED vars
      BY <2>1 DEF vars, threadVars, ghostVars, C!callVars
    <2>2. CASE Request
      BY <2>2, RequestIsRequest DEF XferInv, C!CallNext
    <2> QED
      BY <2>1, <2>2, ThreadCall, IsrCall, HwCall DEF Next, Stopped
  <1> QED
    BY <1>1, <1>2, XferInvariant, PTL DEF Spec, ImplementsCall, C!CallSpec

-----------------------------------------------------------------------------
(* The data of reads. A transaction id names a command of the transfer     *)
(* when there are at least as many ids as commands; with more commands     *)
(* than ids two of them share one, and the words of one read may end up in *)
(* the buffer of another.                                                  *)

(* The words in the RX FIFO are those of the responses that report a       *)
(* payload, in the same order.                                             *)
Received ==
  /\ \A i \in 1 .. Len(rxq) :
       /\ rxq[i].call = xfer.id
       /\ \E j \in 1 .. Len(respq) :
            respq[j].cmd = rxq[i].cmd /\ respq[j].len = 1
  /\ \A i, k \in 1 .. Len(rxq) : i < k => rxq[i].cmd < rxq[k].cmd
  /\ \A j \in 1 .. Len(respq) :
       respq[j].len = 1 => \E i \in 1 .. Len(rxq) : rxq[i].cmd = respq[j].cmd
  /\ \A j \in 1 .. Len(respq) : respq[j].err = "iba_nack" => respq[j].len = 0

OwnWord(c) == xfer.cmds[c].data = [call |-> xfer.id, cmd |-> c]

(* The first k commands have been given their answers, if each has a       *)
(* transaction id of its own.                                              *)
Filled(k) == xfer.n <= TidCount =>
  \A c \in 0 .. k - 1 :
    /\ xfer.cmds[c].ret = got[c]
    /\ got[c] = "iba_nack" => xfer.cmds[c].rx_len = 0
    /\ got[c] = "ok" /\ xfer.rd[c] /\ xfer.cmds[c].rx_len = 1 => OwnWord(c)

OwnWords == xfer.n <= TidCount =>
  \A c \in 0 .. xfer.n - 1 :
    xfer.rd[c] /\ xfer.cmds[c].rx_len = 1 => OwnWord(c)

Good(r) == r = "ok" \/ (xfer.kind = "ccc" /\ r = "iba_nack")

Filling ==
  /\ isr = "collect" => Filled(iter)
  /\ isr \in {"scan", "halt", "flush"} => Filled(nresp)
Delivered ==
  /\ isr \in {"halt", "flush", "resume", "complete"} /\ Good(isr_ret)
       => OwnWords
  /\ xfer.done /\ pc # "idle" /\ Good(xfer.ret) => OwnWords
  /\ pc = "idle" /\ res = "ok" => OwnWords

DataInv == Received /\ Filling /\ Delivered

LEMMA InitData == Init => DataInv
  BY DEF Init, DataInv, Received, Filling, Delivered

LEMMA RxTypes ==
  ASSUME TypeInv
  PROVE  rxq \in Seq(Word) /\ Len(rxq) \in Nat
  BY LenProperties DEF TypeInv, TypeOK, HwTypeOK

(* Nothing to collect, nothing in the FIFO.                                *)
LEMMA RxEmpty ==
  ASSUME TypeInv, Received, respq = << >>
  PROVE  rxq = << >>
  <1>1. Len(respq) = 0
    OBVIOUS
  <1>2. \A i \in 1 .. Len(rxq) : FALSE
    BY <1>1 DEF Received
  <1>3. Len(rxq) = 0
    BY <1>2, RxTypes
  <1> QED
    BY <1>3, RxTypes, EmptySeq

(* Received only speaks of two queues and the number of the call.          *)
LEMMA ReceivedFrame ==
  ASSUME Received, UNCHANGED <<rxq, respq>>, xfer'.id = xfer.id
  PROVE  Received'
  BY DEF Received

LEMMA ReceivedNothing ==
  ASSUME rxq' = << >>, respq' = << >>
  PROVE  Received'
  BY DEF Received

LEMMA RequestData ==
  ASSUME TypeInv, Trusted, DataInv, Request
  PROVE  DataInv'
  <1>1. /\ pc = "idle" /\ isr = "off" /\ isr' = "off"
        /\ UNCHANGED <<rxq, respq>>
        /\ \/ pc' = "publish" /\ ~xfer'.done
           \/ pc' = "idle" /\ res' = "error"
    <2>1. ASSUME NEW k \in Kind, NEW n \in 1 .. MaxCmds,
                 NEW rd \in [Cmd -> BOOLEAN], Begin(k, n, rd)
          PROVE  <1>1!:
      BY <2>1 DEF Begin, ThreadRuns, isrVars, hwVars, queueVars
    <2>2. ASSUME NEW k \in Kind, Refuse(k)
          PROVE  <1>1!:
      BY <2>2 DEF Refuse, ThreadRuns, isrVars, hwVars, queueVars
    <2> QED
      BY <2>1, <2>2 DEF Request
  <1>2. rxq = << >> /\ respq = << >>
    BY <1>1, RxEmpty DEF DataInv, Trusted, Resting, AtRest, Quiet
  <1>3. Received'
    BY <1>1, <1>2, ReceivedNothing
  <1> QED
    BY <1>1, <1>3 DEF DataInv, Filling, Delivered

LEMMA ThreadData ==
  ASSUME TypeInv, Trusted, DataInv, ThreadStep
  PROVE  DataInv'
  <1>1. /\ pc # "idle" /\ isr' = "off"
        /\ \/ UNCHANGED <<rxq, respq>>
           \/ rxq' = << >> /\ respq' = << >>
        /\ xfer' = xfer \/ (~xfer'.done /\ xfer'.id = xfer.id /\ pc' = "push")
        /\ \/ pc' # "idle"
           \/ res' = "error"
           \/ pc = "result" /\ res' = Outcome(xfer) /\ xfer' = xfer
    <2>1. CASE Arm
      BY <2>1, XferTypes
      DEF Arm, ArmTo, ThreadRuns, isrVars, queueVars, Xfer
    <2>2. CASE Return
      BY <2>2 DEF Return, ThreadRuns, isrVars, hwVars, queueVars
    <2>3. CASE Publish \/ Push \/ Answered \/ TimedOut \/ Abort \/ Halt
               \/ Flush \/ Resume \/ Unpublish
      BY <2>3
      DEF Publish, Push, Answered, TimedOut, Abort, Halt, Flush, Resume,
          Unpublish, FlushQueues, ThreadRuns, isrVars, hwVars, queueVars
    <2> QED
      BY <2>1, <2>2, <2>3 DEF ThreadStep
  <1>3. Received'
    BY <1>1, ReceivedFrame, ReceivedNothing DEF DataInv
  <1>4. CASE xfer' = xfer
    <2>1. OwnWords' = OwnWords /\ \A r \in RespErr \cup {"unset"} : Good(r)' = Good(r)
      BY <1>4 DEF OwnWords, OwnWord, Good
    <2>2. xfer.done /\ Good(xfer.ret) => OwnWords
      BY <1>1 DEF DataInv, Delivered
    <2>3. pc' = "idle" /\ res' = "ok" => OwnWords
      <3>1. Outcome(xfer) = "ok" => Good(xfer.ret)
        BY DEF Outcome, Good
      <3>2. pc = "result" /\ Outcome(xfer) = "ok" => xfer.done
        BY DEF Trusted, Settled, Outcome
      <3> QED
        BY <1>1, <2>2, <3>1, <3>2
    <2>4. Good(xfer.ret)' = Good(xfer.ret)
      BY <1>4 DEF Good
    <2> QED
      BY <1>1, <1>3, <1>4, <2>1, <2>2, <2>3, <2>4 DEF DataInv, Filling, Delivered
  <1>5. CASE ~xfer'.done /\ pc' = "push"
    BY <1>1, <1>3, <1>5 DEF DataInv, Filling, Delivered
  <1> QED
    BY <1>1, <1>4, <1>5

(* The head of the FIFO is the payload of the head of the response queue.  *)
LEMMA CollectData ==
  ASSUME TypeInv, TypeInv', SafeInv, Trusted, DataInv, EndXferCollect
  PROVE  DataInv'
  <1> DEFINE r == Head(respq)
             t == TidOf(r.cmd)
  <1>1. /\ isr = "collect" /\ isr' = "collect" /\ iter < nresp
        /\ respq # << >> /\ respq' = Tail(respq) /\ iter' = iter + 1
        /\ xfer' = IF t < xfer.n
                     THEN [xfer EXCEPT !.cmds[t] = Answer(r, xfer.cmds[t])]
                     ELSE xfer
        /\ rxq' = RxAfter(r.len)
        /\ UNCHANGED <<pc, got>> /\ IsrHolds
    BY DEF EndXferCollect, IsrHolds, ghostVars
  <1>2. /\ Numbered(iter) /\ pc # "idle" /\ ~xfer.done /\ Filled(iter)
        /\ Received /\ iter < xfer.n /\ iter \in Nat
    BY <1>1, IsrRuns, XferTypes
    DEF Trusted, Collecting, AllThere, SafeInv, CompletedOnce, DataInv, Filling
  <1>3. /\ Len(respq') = Len(respq) - 1 /\ Len(respq) >= 1
        /\ respq[1] = r /\ 1 \in 1 .. Len(respq) /\ Len(respq) \in Nat
        /\ \A j \in 1 .. Len(respq') :
             respq'[j] = respq[j + 1] /\ j + 1 \in 1 .. Len(respq)
        /\ \A j \in 1 .. Len(respq) : j # 1 =>
             /\ j - 1 \in 1 .. Len(respq') /\ respq'[j - 1] = respq[j]
    <2>1. /\ Len(respq') = Len(respq) - 1 /\ Len(respq) >= 1
          /\ respq[1] = r /\ Len(respq) \in Nat
          /\ \A j \in 1 .. Len(respq) - 1 : respq'[j] = respq[j + 1]
      BY <1>1, PopQueue, XferTypes
    <2>2. \A j \in 1 .. Len(respq) : j # 1 =>
             j - 1 \in 1 .. Len(respq) - 1 /\ (j - 1) + 1 = j
      BY <2>1
    <2> QED
      BY <2>1, <2>2
  <1>4. /\ r.cmd = iter /\ r.err = got[iter]
        /\ \A j \in 1 .. Len(respq) : respq[j].cmd = iter + j - 1
    <2>1. iter + 1 - 1 = iter
      BY <1>2
    <2> QED
      BY <1>2, <1>3, <2>1 DEF Numbered
  <1>5. (xfer.n <= TidCount => t = iter) /\ iter \in Cmd
    <2>1. iter < MaxCmds
      BY <1>2, XferTypes
    <2>2. ASSUME xfer.n <= TidCount
          PROVE  TidOf(iter) = iter
      <3>1. xfer.n \in Nat /\ TidCount \in Nat /\ iter \in Nat
            /\ iter < xfer.n
        BY <1>2, XferTypes, XferAssumption
      <3>2. iter < TidCount
        BY <2>2, <3>1
      <3> QED
        BY <3>1, <3>2, XferAssumption, TidFacts
    <2>3. iter \in Cmd
      BY <1>2, <2>1, XferAssumption DEF Cmd
    <2> QED
      BY <1>4, <2>2, <2>3
  <1>6. r.len \in 0 .. 1
    <2>1. respq[1] \in QResp
      BY <1>3, XferTypes, ElementOfSeq
    <2> QED
      BY <1>3, <2>1 DEF QResp
  <1>7. ASSUME r.len = 1
        PROVE  Received' /\ FirstWord = [call |-> xfer.id, cmd |-> iter]
    <2>1. PICK i1 \in 1 .. Len(rxq) : rxq[i1].cmd = iter
      <3>1. respq[1].len = 1 /\ respq[1].cmd = iter
        BY <1>3, <1>4, <1>7
      <3> QED
        BY <1>2, <1>3, <3>1 DEF Received
    <2>2. \A i \in 1 .. Len(rxq) : rxq[i].cmd >= iter /\ rxq[i].cmd \in Nat
      <3> SUFFICES ASSUME NEW i \in 1 .. Len(rxq)
                   PROVE  rxq[i].cmd >= iter /\ rxq[i].cmd \in Nat
        OBVIOUS
      <3>1. PICK j \in 1 .. Len(respq) : respq[j].cmd = rxq[i].cmd
        BY <1>2 DEF Received
      <3>2. rxq[i].cmd = iter + j - 1
        BY <1>4, <3>1
      <3> QED
        BY <1>2, <1>3, <3>2
    <2>3. i1 = 1
      <3>1. 1 \in 1 .. Len(rxq) /\ (i1 # 1 => 1 < i1)
        BY <2>1, RxTypes
      <3>2. 1 < i1 => rxq[1].cmd < rxq[i1].cmd
        BY <1>2, <2>1, <3>1 DEF Received
      <3> QED
        BY <1>2, <2>1, <2>2, <3>1, <3>2
    <2>4. rxq # << >> /\ rxq' = Tail(rxq) /\ FirstWord = rxq[1]
      <3>1. rxq # << >>
        BY <2>1, <2>3
      <3>2. Head(rxq) = rxq[1]
        BY <3>1, PopQueue, RxTypes
      <3> QED
        BY <1>1, <1>7, <3>1, <3>2 DEF RxAfter, FirstWord
    <2>5. rxq[1] = [call |-> xfer.id, cmd |-> iter]
      <3>1. rxq[1] \in Word
        BY <2>1, <2>3, RxTypes, ElementOfSeq
      <3>2. rxq[1].call = xfer.id
        BY <1>2, <2>1, <2>3 DEF Received
      <3> QED
        BY <2>1, <2>3, <3>1, <3>2 DEF Word
    <2>6. /\ Len(rxq') = Len(rxq) - 1 /\ Len(rxq) \in Nat
          /\ \A i \in 1 .. Len(rxq') : rxq'[i] = rxq[i + 1]
      BY <2>4, PopQueue, RxTypes
    <2>7. /\ \A i \in 1 .. Len(rxq') : i + 1 \in 1 .. Len(rxq) /\ i + 1 # 1
          /\ \A i \in 1 .. Len(rxq) : i # 1 =>
               i - 1 \in 1 .. Len(rxq') /\ rxq'[i - 1] = rxq[i]
      <3>1. \A i \in 1 .. Len(rxq) : i # 1 =>
               i - 1 \in 1 .. Len(rxq') /\ (i - 1) + 1 = i
        BY <2>6
      <3>2. \A i \in 1 .. Len(rxq') : i + 1 \in 1 .. Len(rxq) /\ i + 1 # 1
        BY <2>6
      <3> QED
        BY <2>6, <3>1, <3>2
    <2>8. \A i \in 1 .. Len(rxq') :
            /\ rxq'[i].call = xfer.id
            /\ \E j \in 1 .. Len(respq') :
                 respq'[j].cmd = rxq'[i].cmd /\ respq'[j].len = 1
      <3> SUFFICES ASSUME NEW i \in 1 .. Len(rxq')
                   PROVE  /\ rxq'[i].call = xfer.id
                          /\ \E j \in 1 .. Len(respq') :
                               respq'[j].cmd = rxq'[i].cmd /\ respq'[j].len = 1
        OBVIOUS
      <3>1. rxq'[i] = rxq[i + 1] /\ i + 1 \in 1 .. Len(rxq) /\ 1 < i + 1
        BY <2>6, <2>7
      <3>2. PICK j \in 1 .. Len(respq) :
              respq[j].cmd = rxq[i + 1].cmd /\ respq[j].len = 1
        BY <1>2, <3>1 DEF Received
      <3>3. rxq[1].cmd < rxq[i + 1].cmd /\ rxq[i + 1].call = xfer.id
        BY <1>2, <2>1, <2>3, <3>1 DEF Received
      <3>4. j # 1
        BY <1>3, <1>4, <2>1, <2>2, <2>3, <3>2, <3>3
      <3> QED
        BY <1>3, <3>1, <3>2, <3>3, <3>4
    <2>9. \A i, k \in 1 .. Len(rxq') : i < k => rxq'[i].cmd < rxq'[k].cmd
      <3> SUFFICES ASSUME NEW i \in 1 .. Len(rxq'), NEW k \in 1 .. Len(rxq'),
                          i < k
                   PROVE  rxq'[i].cmd < rxq'[k].cmd
        OBVIOUS
      <3>1. i + 1 < k + 1
        BY <2>6
      <3>2. /\ rxq'[i] = rxq[i + 1] /\ i + 1 \in 1 .. Len(rxq)
            /\ rxq'[k] = rxq[k + 1] /\ k + 1 \in 1 .. Len(rxq)
        BY <2>6, <2>7
      <3> QED
        BY <1>2, <3>1, <3>2 DEF Received
    <2>10. \A j \in 1 .. Len(respq') :
             /\ respq'[j].len = 1 =>
                  \E i \in 1 .. Len(rxq') : rxq'[i].cmd = respq'[j].cmd
             /\ respq'[j].err = "iba_nack" => respq'[j].len = 0
      <3> SUFFICES ASSUME NEW j \in 1 .. Len(respq')
                   PROVE  /\ respq'[j].len = 1 =>
                               \E i \in 1 .. Len(rxq') :
                                  rxq'[i].cmd = respq'[j].cmd
                          /\ respq'[j].err = "iba_nack" => respq'[j].len = 0
        OBVIOUS
      <3>1. respq'[j] = respq[j + 1] /\ j + 1 \in 1 .. Len(respq)
        BY <1>3
      <3>2. respq[j + 1].len = 1 =>
              \E i \in 1 .. Len(rxq) : rxq[i].cmd = respq[j + 1].cmd
        BY <1>2, <3>1 DEF Received
      <3>3. respq[j + 1].cmd # iter
        <4>1. respq[j + 1].cmd = iter + (j + 1) - 1
          BY <1>4, <3>1
        <4> QED
          BY <1>2, <1>3, <4>1
      <3>4. ASSUME NEW i \in 1 .. Len(rxq), rxq[i].cmd = respq[j + 1].cmd
            PROVE  \E k \in 1 .. Len(rxq') : rxq'[k].cmd = respq'[j].cmd
        <4>1. i # 1
          BY <2>1, <2>3, <3>3, <3>4
        <4> QED
          BY <2>7, <3>1, <3>4, <4>1, ZenonT(40)
      <3>5. respq[j + 1].err = "iba_nack" => respq[j + 1].len = 0
        BY <1>2, <3>1 DEF Received
      <3> QED
        BY <3>1, <3>2, <3>4, <3>5
    <2> HIDE DEF r, t
    <2>11. /\ xfer'.id = xfer.id
           /\ FirstWord = [call |-> xfer.id, cmd |-> iter]
      BY <1>1, <2>4, <2>5, XferTypes DEF Xfer
    <2>12. Received'
      BY <2>8, <2>9, <2>10, <2>11 DEF Received
    <2> QED
      BY <2>11, <2>12
  <1>8. ASSUME r.len = 0
        PROVE  Received'
    <2>1. rxq' = rxq
      BY <1>1, <1>8 DEF RxAfter
    <2> HIDE DEF r, t
    <2>2. xfer'.id = xfer.id
      BY <1>1, XferTypes DEF Xfer
    <2>3. \A i \in 1 .. Len(rxq) :
            \E j \in 1 .. Len(respq') :
               respq'[j].cmd = rxq[i].cmd /\ respq'[j].len = 1
      <3> SUFFICES ASSUME NEW i \in 1 .. Len(rxq)
                   PROVE  \E j \in 1 .. Len(respq') :
                            respq'[j].cmd = rxq[i].cmd /\ respq'[j].len = 1
        OBVIOUS
      <3>1. PICK j \in 1 .. Len(respq) :
              respq[j].cmd = rxq[i].cmd /\ respq[j].len = 1
        BY <1>2 DEF Received
      <3>2. j # 1
        BY <1>3, <1>8, <3>1
      <3> QED
        BY <1>3, <3>1, <3>2, ZenonT(40)
    <2>4. \A j \in 1 .. Len(respq') :
            /\ respq'[j].len = 1 =>
                 \E i \in 1 .. Len(rxq) : rxq[i].cmd = respq'[j].cmd
            /\ respq'[j].err = "iba_nack" => respq'[j].len = 0
      <3> SUFFICES ASSUME NEW j \in 1 .. Len(respq')
                   PROVE  /\ respq'[j].len = 1 =>
                               \E i \in 1 .. Len(rxq) : rxq[i].cmd = respq'[j].cmd
                          /\ respq'[j].err = "iba_nack" => respq'[j].len = 0
        OBVIOUS
      <3>1. respq'[j] = respq[j + 1] /\ j + 1 \in 1 .. Len(respq)
        BY <1>3
      <3> QED
        BY <1>2, <3>1 DEF Received
    <2> QED
      BY <1>2, <2>1, <2>2, <2>3, <2>4 DEF Received
  <1>9. xfer'.n = xfer.n
    BY <1>1, XferTypes DEF Xfer
  <1>9a. Filled(iter)'
    <2> SUFFICES ASSUME xfer.n <= TidCount PROVE Filled(iter)'
      BY <1>9 DEF Filled
    <2>1. /\ xfer' = [xfer EXCEPT !.cmds[iter] = Answer(r, xfer.cmds[iter])]
          /\ xfer.cmds[iter] \in CmdState
      BY <1>1, <1>2, <1>5, XferTypes DEF Xfer
    <2>2. r.err = "iba_nack" => r.len = 0
      BY <1>2, <1>3 DEF Received
    <2>3. /\ Answer(r, xfer.cmds[iter]).ret = got[iter]
          /\ Answer(r, xfer.cmds[iter]).rx_len = r.len
          /\ got[iter] = "ok" /\ xfer.rd[iter] /\ r.len = 1 =>
               Answer(r, xfer.cmds[iter]).data = [call |-> xfer.id, cmd |-> iter]
      BY <1>4, <1>5, <1>7, <2>1 DEF Answer, CmdState
    <2> HIDE DEF r, t
    <2>4. /\ xfer'.cmds[iter] = Answer(r, xfer.cmds[iter])
          /\ \A c \in Cmd : c # iter => xfer'.cmds[c] = xfer.cmds[c]
          /\ xfer'.rd = xfer.rd /\ xfer'.id = xfer.id
      BY <1>5, <2>1, XferTypes DEF Xfer
    <2>5. \A c \in 0 .. iter' - 1 : c \in Cmd /\ (c \in 0 .. iter - 1 \/ c = iter)
      BY <1>1, <1>2, <1>5, XferAssumption DEF Cmd
    <2>6. \A c \in 0 .. iter - 1 : c # iter
      BY <1>2
    <2> SUFFICES ASSUME NEW c \in 0 .. iter' - 1
                 PROVE  /\ xfer'.cmds[c].ret = got[c]
                        /\ got[c] = "iba_nack" => xfer'.cmds[c].rx_len = 0
                        /\ got[c] = "ok" /\ xfer'.rd[c] /\ xfer'.cmds[c].rx_len = 1
                             => xfer'.cmds[c].data = [call |-> xfer'.id, cmd |-> c]
      BY <1>1 DEF Filled, OwnWord
    <2>7. CASE c = iter
      BY <1>4, <2>2, <2>3, <2>4, <2>7
    <2>8. CASE c \in 0 .. iter - 1
      BY <1>2, <2>4, <2>5, <2>6, <2>8 DEF Filled, OwnWord
    <2> QED
      BY <2>5, <2>7, <2>8
  <1>10. ~xfer'.done
    BY <1>1, <1>2, XferTypes DEF Xfer
  <1> QED
    BY <1>1, <1>2, <1>6, <1>7, <1>8, <1>9a, <1>10
    DEF DataInv, Filling, Delivered

LEMMA IsrData ==
  ASSUME TypeInv, TypeInv', SafeInv, FlowInv, Trusted, Trusted', DataInv,
         IsrStep
  PROVE  DataInv'
  <1> DEFINE Same == UNCHANGED <<pc, xfer, got, rxq, respq, nresp>>
  <1>1. CASE EndXferStray
    BY <1>1 DEF EndXferStray, Trusted, Entered
  <1>2. CASE EndXferCollect
    BY <1>2, CollectData
  <1>3. ASSUME isr # "off" PROVE pc # "idle"
    BY <1>3, IsrRuns
  <1>4. Same => /\ Received'
                /\ Filled(nresp) => Filled(nresp)'
                /\ OwnWords => OwnWords' /\ xfer'.done = xfer.done
                /\ Good(xfer.ret)' = Good(xfer.ret)
                /\ Good(isr_ret) /\ isr_ret' = isr_ret => Good(isr_ret)'
                /\ Good(isr_ret)' /\ isr_ret' = isr_ret => Good(isr_ret)
    BY ReceivedFrame DEF DataInv, Filled, OwnWords, OwnWord, Good
  <1>5. CASE IsrEnter \/ EndXferTake \/ IsrAck
    <2>1. /\ UNCHANGED <<pc, xfer, got, rxq, respq, res>>
          /\ isr' \in {"end_xfer", "collect", "off"}
          /\ isr' = "collect" => iter' = 0
      BY <1>5 DEF IsrEnter, EndXferTake, IsrAck, threadVars, hwVars, queueVars,
         ghostVars
    <2>2. Received' /\ (OwnWords => OwnWords') /\ Good(xfer.ret)' = Good(xfer.ret)
      BY <2>1, ReceivedFrame DEF DataInv, OwnWords, OwnWord, Good
    <2>3. isr' = "collect" => Filled(iter)'
      BY <2>1 DEF Filled
    <2> QED
      BY <2>1, <2>2, <2>3 DEF DataInv, Filling, Delivered
  <1>6. CASE EndXferCollected
    <2>1. /\ Same /\ isr = "collect" /\ isr' = "scan" /\ iter = nresp
          /\ res' = res
      BY <1>6 DEF EndXferCollected, threadVars, hwVars, queueVars, ghostVars
    <2>2. Filled(nresp)
      BY <2>1 DEF DataInv, Filling
    <2> QED
      BY <1>3, <1>4, <2>1, <2>2 DEF DataInv, Filling, Delivered
  <1>7. CASE EndXferScan
    <2>1. /\ Same /\ isr = "scan" /\ isr' \in {"scan", "panic"} /\ res' = res
      BY <1>7 DEF EndXferScan, threadVars, hwVars, queueVars, ghostVars
    <2> QED
      BY <1>3, <1>4, <2>1 DEF DataInv, Filling, Delivered
  <1>8. CASE EndXferScanned
    <2>1. /\ Same /\ isr = "scan" /\ isr' \in {"complete", "halt"} /\ res' = res
          /\ isr_ret' = isr_ret
      BY <1>8 DEF EndXferScanned, threadVars, hwVars, queueVars, ghostVars
    <2>2. Filled(nresp) /\ AllThere
      BY <2>1 DEF DataInv, Filling, Trusted, Collected
    <2>3. RetOK(isr_ret)
      BY <2>1 DEF Trusted, Completing, RetOK
    <2>4. Good(isr_ret) => OwnWords
      <3>1. CASE isr_ret = "ok"
        <4>1. \A c \in 0 .. xfer.n - 1 : got[c] = "ok"
          BY <2>3, <3>1 DEF RetOK
        <4>2. nresp - 1 \in 0 .. xfer.n - 1
          BY <2>2, XferTypes DEF AllThere
        <4>3. nresp = xfer.n
          BY <2>2, <4>1, <4>2 DEF AllThere
        <4> QED
          BY <2>2, <4>1, <4>3 DEF Filled, OwnWords
      <3>2. CASE isr_ret = "iba_nack" /\ xfer.kind = "ccc"
        <4>1. xfer.n = 1 /\ got[0] = "iba_nack"
          BY <2>3, <3>2 DEF FlowInv, Shape, RetOK
        <4>2. nresp = 1 /\ 0 \in 0 .. nresp - 1
          BY <2>2, <4>1 DEF AllThere
        <4>3. xfer.cmds[0].rx_len = 0
          BY <2>2, <4>1, <4>2, XferAssumption DEF Filled
        <4>4. \A c \in 0 .. xfer.n - 1 : c = 0
          BY <4>1
        <4> QED
          BY <4>3, <4>4 DEF OwnWords
      <3> QED
        BY <3>1, <3>2 DEF Good
    <2> QED
      BY <1>3, <1>4, <2>1, <2>2, <2>4 DEF DataInv, Filling, Delivered
  <1>9. CASE IsrHalt \/ IsrResume
    <2>1. /\ Same /\ res' = res /\ isr_ret' = isr_ret
          /\ \/ isr = "halt" /\ isr' = "flush"
             \/ isr = "resume" /\ isr' = "complete"
      BY <1>9 DEF IsrHalt, IsrResume, threadVars, hwVars, queueVars, ghostVars
    <2> QED
      BY <1>3, <1>4, <2>1 DEF DataInv, Filling, Delivered
  <1>10. CASE IsrFlush
    <2>1. /\ UNCHANGED <<pc, xfer, got, res, isr_ret>>
          /\ isr = "flush" /\ isr' = "resume" /\ rxq' = << >> /\ respq' = << >>
      BY <1>10 DEF IsrFlush, FlushQueues, threadVars, ghostVars
    <2>2. Received' /\ (OwnWords => OwnWords') /\ Good(isr_ret)' = Good(isr_ret)
          /\ Good(xfer.ret)' = Good(xfer.ret)
      BY <2>1, ReceivedNothing DEF OwnWords, OwnWord, Good
    <2> QED
      BY <1>3, <2>1, <2>2 DEF DataInv, Filling, Delivered
  <1>11. CASE IsrComplete
    <2>1. /\ UNCHANGED <<pc, got, res, rxq, respq, isr_ret>>
          /\ isr = "complete" /\ isr' = "ack"
          /\ xfer' = [xfer EXCEPT !.ret = isr_ret, !.done = TRUE]
      BY <1>11 DEF IsrComplete, hwVars, queueVars, ghostVars
    <2>2. /\ xfer'.ret = isr_ret /\ xfer'.id = xfer.id /\ xfer'.n = xfer.n
          /\ xfer'.cmds = xfer.cmds /\ xfer'.rd = xfer.rd
          /\ xfer'.kind = xfer.kind
      BY <2>1, XferTypes DEF Xfer
    <2>3. Good(isr_ret) => OwnWords
      BY <2>1 DEF DataInv, Delivered
    <2>4. (Good(xfer.ret)' => Good(isr_ret)) /\ (OwnWords => OwnWords') /\ Received'
      BY <2>1, <2>2, ReceivedFrame DEF DataInv, Good, OwnWords, OwnWord
    <2> QED
      BY <1>3, <2>1, <2>3, <2>4 DEF DataInv, Filling, Delivered
  <1> QED
    BY <1>1, <1>2, <1>5, <1>6, <1>7, <1>8, <1>9, <1>10, <1>11 DEF IsrStep

(* A new response comes with its word, behind those of the commands before *)
(* it.                                                                     *)
LEMMA RespondReceived ==
  ASSUME TypeInv, Numbered(0), Received, inflight # Idle,
         NEW e \in RespErr, NEW len \in 0 .. 1, RespondWith(e, len),
         len = 1 => e # "iba_nack", xfer' = xfer
  PROVE  Received'
  <1>1. inflight \in QCmd /\ inflight.call = xfer.id
        /\ inflight.cmd = 0 + Len(respq)
    BY XferTypes DEF Numbered, Own
  <1> DEFINE q == [call |-> inflight.call, cmd |-> inflight.cmd, err |-> e,
                   len |-> len]
             w == [call |-> inflight.call, cmd |-> inflight.cmd]
  <1>2. /\ q \in QResp /\ w \in Word /\ q.cmd = inflight.cmd /\ q.err = e
        /\ q.len = len /\ w.call = xfer.id /\ w.cmd = inflight.cmd
    BY <1>1 DEF QCmd, QResp, Word
  <1>3. respq' = Append(respq, q) /\ rxq' = IF len = 0 THEN rxq ELSE Append(rxq, w)
    BY DEF RespondWith
  <1> HIDE DEF q, w
  <1>4. /\ Len(respq') = Len(respq) + 1 /\ respq'[Len(respq) + 1] = q
        /\ Len(respq) \in Nat /\ Len(respq) + 1 \in 1 .. Len(respq')
        /\ \A i \in 1 .. Len(respq) :
             respq'[i] = respq[i] /\ i \in 1 .. Len(respq')
        /\ \A i \in 1 .. Len(respq') : i \in 1 .. Len(respq) \/ i = Len(respq) + 1
    BY <1>2, <1>3, PushQueue, XferTypes
  <1>5. \A j \in 1 .. Len(respq) :
          respq[j].cmd < inflight.cmd /\ respq[j].cmd \in Nat
    <2> SUFFICES ASSUME NEW j \in 1 .. Len(respq)
                 PROVE  respq[j].cmd < inflight.cmd /\ respq[j].cmd \in Nat
      OBVIOUS
    <2>1. respq[j].cmd = 0 + j - 1
      BY DEF Numbered
    <2> QED
      BY <1>1, <1>4, <2>1
  <1>6. \A i \in 1 .. Len(rxq) : rxq[i].cmd < inflight.cmd
    BY <1>5 DEF Received
  <1>7. CASE len = 0
    <2>1. rxq' = rxq
      BY <1>3, <1>7
    <2>2. \A i \in 1 .. Len(rxq) :
            \E j \in 1 .. Len(respq') :
               respq'[j].cmd = rxq[i].cmd /\ respq'[j].len = 1
      BY <1>4 DEF Received
    <2>3. \A j \in 1 .. Len(respq') :
            /\ respq'[j].len = 1 =>
                 \E i \in 1 .. Len(rxq) : rxq[i].cmd = respq'[j].cmd
            /\ respq'[j].err = "iba_nack" => respq'[j].len = 0
      <3> SUFFICES ASSUME NEW j \in 1 .. Len(respq')
                   PROVE  /\ respq'[j].len = 1 =>
                               \E i \in 1 .. Len(rxq) : rxq[i].cmd = respq'[j].cmd
                          /\ respq'[j].err = "iba_nack" => respq'[j].len = 0
        OBVIOUS
      <3>1. CASE j = Len(respq) + 1
        <4>1. respq'[j].len = 0
          BY <1>2, <1>4, <1>7, <3>1
        <4> QED
          BY <4>1
      <3>2. CASE j \in 1 .. Len(respq)
        <4>1. respq'[j] = respq[j]
          BY <1>4, <3>2
        <4> QED
          BY <3>2, <4>1 DEF Received
      <3> QED
        BY <1>4, <3>1, <3>2
    <2> QED
      BY <2>1, <2>2, <2>3 DEF Received
  <1>8. CASE len = 1
    <2>1. rxq' = Append(rxq, w)
      BY <1>3, <1>8
    <2>2. /\ Len(rxq') = Len(rxq) + 1 /\ rxq'[Len(rxq) + 1] = w
          /\ Len(rxq) \in Nat /\ Len(rxq) + 1 \in 1 .. Len(rxq')
          /\ \A i \in 1 .. Len(rxq) :
               rxq'[i] = rxq[i] /\ i \in 1 .. Len(rxq')
          /\ \A i \in 1 .. Len(rxq') : i \in 1 .. Len(rxq) \/ i = Len(rxq) + 1
      BY <1>2, <2>1, PushQueue, RxTypes
    <2>3. \A i \in 1 .. Len(rxq') :
            /\ rxq'[i].call = xfer.id
            /\ \E j \in 1 .. Len(respq') :
                 respq'[j].cmd = rxq'[i].cmd /\ respq'[j].len = 1
      <3> SUFFICES ASSUME NEW i \in 1 .. Len(rxq')
                   PROVE  /\ rxq'[i].call = xfer.id
                          /\ \E j \in 1 .. Len(respq') :
                               respq'[j].cmd = rxq'[i].cmd /\ respq'[j].len = 1
        OBVIOUS
      <3>1. CASE i = Len(rxq) + 1
        <4>1. rxq'[i].call = xfer.id /\ rxq'[i].cmd = inflight.cmd
          BY <1>2, <2>2, <3>1
        <4>2. /\ Len(respq) + 1 \in 1 .. Len(respq')
              /\ respq'[Len(respq) + 1].cmd = inflight.cmd
              /\ respq'[Len(respq) + 1].len = 1
          BY <1>2, <1>4, <1>8
        <4> QED
          BY <4>1, <4>2
      <3>2. CASE i \in 1 .. Len(rxq)
        <4>1. rxq'[i] = rxq[i]
          BY <2>2, <3>2
        <4>2. PICK j \in 1 .. Len(respq) :
                respq[j].cmd = rxq[i].cmd /\ respq[j].len = 1
          BY <3>2 DEF Received
        <4>3. respq'[j] = respq[j] /\ j \in 1 .. Len(respq')
          BY <1>4
        <4> QED
          BY <3>2, <4>1, <4>2, <4>3 DEF Received
      <3> QED
        BY <2>2, <3>1, <3>2
    <2>4. \A i, k \in 1 .. Len(rxq') : i < k => rxq'[i].cmd < rxq'[k].cmd
      <3> SUFFICES ASSUME NEW i \in 1 .. Len(rxq'), NEW k \in 1 .. Len(rxq'),
                          i < k
                   PROVE  rxq'[i].cmd < rxq'[k].cmd
        OBVIOUS
      <3>1. i \in 1 .. Len(rxq)
        BY <2>2
      <3>2. CASE k = Len(rxq) + 1
        BY <1>2, <1>6, <2>2, <3>1, <3>2
      <3>3. CASE k \in 1 .. Len(rxq)
        BY <2>2, <3>1, <3>3 DEF Received
      <3> QED
        BY <2>2, <3>2, <3>3
    <2>5. \A j \in 1 .. Len(respq') :
            /\ respq'[j].len = 1 =>
                 \E i \in 1 .. Len(rxq') : rxq'[i].cmd = respq'[j].cmd
            /\ respq'[j].err = "iba_nack" => respq'[j].len = 0
      <3> SUFFICES ASSUME NEW j \in 1 .. Len(respq')
                   PROVE  /\ respq'[j].len = 1 =>
                               \E i \in 1 .. Len(rxq') : rxq'[i].cmd = respq'[j].cmd
                          /\ respq'[j].err = "iba_nack" => respq'[j].len = 0
        OBVIOUS
      <3>1. CASE j = Len(respq) + 1
        <4>1. respq'[j].cmd = inflight.cmd /\ respq'[j].err = e
          BY <1>2, <1>4, <3>1
        <4>2. /\ Len(rxq) + 1 \in 1 .. Len(rxq')
              /\ rxq'[Len(rxq) + 1].cmd = inflight.cmd
          BY <1>2, <2>2
        <4> QED
          BY <1>8, <4>1, <4>2
      <3>2. CASE j \in 1 .. Len(respq)
        <4>1. respq'[j] = respq[j]
          BY <1>4, <3>2
        <4>2. respq[j].len = 1 =>
                \E i \in 1 .. Len(rxq) : rxq[i].cmd = respq[j].cmd
          BY <3>2 DEF Received
        <4>3. respq[j].len = 1 =>
                \E i \in 1 .. Len(rxq') : rxq'[i].cmd = respq[j].cmd
          BY <2>2, <4>2
        <4> QED
          BY <3>2, <4>1, <4>3 DEF Received
      <3> QED
        BY <1>4, <3>1, <3>2
    <2> QED
      BY <2>3, <2>4, <2>5 DEF Received
  <1> QED
    BY <1>7, <1>8

LEMMA RespondData ==
  ASSUME TypeInv, SafeInv, FlowInv, Trusted, DataInv, inflight # Idle,
         NEW e \in RespErr, NEW len \in 0 .. 1, RespondWith(e, len),
         len = 1 => e # "iba_nack", UNCHANGED <<threadVars, isrVars>>
  PROVE  DataInv'
  <1>1. /\ ~IsrHolds /\ pc # "idle" /\ ~xfer.done /\ Numbered(0)
        /\ UNCHANGED <<pc, xfer, isr>>
    BY HwRuns DEF FlowInv, HaltIdle, threadVars, isrVars
  <1>2. Received'
    BY <1>1, RespondReceived DEF DataInv
  <1> QED
    BY <1>1, <1>2 DEF DataInv, Filling, Delivered, IsrHolds

LEMMA HwData ==
  ASSUME TypeInv, SafeInv, FlowInv, Trusted, DataInv, HwStep
  PROVE  DataInv'
  <1>1. ASSUME UNCHANGED <<threadVars, isrVars, got, rxq, respq>>
        PROVE  DataInv'
    BY <1>1, ReceivedFrame
    DEF threadVars, isrVars, DataInv, Filling, Delivered, Filled, OwnWords,
        OwnWord, Good
  <1>2. CASE HwFetch
    BY <1>1, <1>2 DEF HwFetch, ghostVars
  <1>3. ASSUME NEW e \in RespErr, NEW len \in 0 .. 1, HwRespond(e, len)
        PROVE  DataInv'
    BY <1>3, RespondData DEF HwRespond
  <1>4. CASE HwHalt
    <2>1. "abort" \in RespErr /\ 0 \in 0 .. 1
      BY RespErrFacts
    <2>2. CASE inflight # Idle /\ RespondWith("abort", 0)
      BY <1>4, <2>1, <2>2, RespondData DEF HwHalt
    <2>3. CASE UNCHANGED <<respq, rxq, got, err_stat>>
      BY <1>1, <1>4, <2>3 DEF HwHalt
    <2> QED
      BY <1>4, <2>2, <2>3 DEF HwHalt
  <1> QED
    BY <1>2, <1>3, <1>4 DEF HwStep

LEMMA DataStep ==
  ASSUME XferInv, XferInv', ~tainted => DataInv, [Next]_vars
  PROVE  ~tainted' => DataInv'
  <1> SUFFICES ASSUME ~tainted' PROVE DataInv'
    OBVIOUS
  <1>1. ~tainted
    BY DEF Next, Request, Begin, Refuse, ThreadStep, Publish, Arm, ArmTo, Push,
           Answered, TimedOut, Abort, Halt, Flush, Resume, Unpublish, Return,
           IsrStep, IsrEnter, EndXferStray, EndXferTake, EndXferCollect,
           EndXferCollected, EndXferScan, EndXferScanned, IsrHalt, IsrFlush,
           IsrResume, IsrComplete, IsrAck, HwStep, HwFetch, HwRespond, HwHalt,
           Stopped, vars, ghostVars, RespondWith
  <1>2. /\ TypeInv /\ TypeInv' /\ SafeInv /\ FlowInv /\ Trusted /\ Trusted'
        /\ DataInv
    BY <1>1 DEF XferInv
  <1>3. CASE UNCHANGED vars
    BY <1>2, <1>3, ReceivedFrame
    DEF vars, threadVars, isrVars, hwVars, queueVars, ghostVars, DataInv,
        Filling, Delivered, Filled, OwnWords, OwnWord, Good
  <1> QED
    BY <1>2, <1>3, RequestData, ThreadData, IsrData, HwData DEF Next, Stopped

(* After Ok a read that reports a payload holds the words its own command  *)
(* fetched, and end_xfer never indexes past the commands: for transfers of *)
(* every length, the words of one with more commands than there are        *)
(* transaction ids apart. Such a transfer (the 4-bit TID field has 16 ids, *)
(* MAX_CMDS is 32) may mix up its own words but not those of a later one.  *)
THEOREM DataIsOwn == Spec => []OwnData
  <1>1. Init => (~tainted => DataInv)
    BY InitData
  <1>2. XferInv /\ XferInv' /\ (~tainted => DataInv) /\ [Next]_vars
          => (~tainted => DataInv)'
    BY DataStep
  <1>3. XferInv /\ (~tainted => DataInv) => OwnData
    BY DEF XferInv, Trusted, Completing, DataInv, Delivered, OwnWords, OwnWord,
           OwnData, NoIndexPanic
  <1> QED
    BY <1>1, <1>2, <1>3, XferInvariant, PTL DEF Spec

=============================================================================
