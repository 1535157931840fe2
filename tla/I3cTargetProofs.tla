-------------------------- MODULE I3cTargetProofs --------------------------
(***************************************************************************)
(* Proofs about I3cTarget, for every number of requests and of events of   *)
(* the master: a request that returns Ok delivered its own payload and its *)
(* own data.                                                               *)
(*                                                                         *)
(* A request writes four things: its payload and its data to the TX FIFO,  *)
(* and a command for each. The handler may empty the queues between any    *)
(* two of these writes, so what is left of a request is one of a few       *)
(* shapes, and the interrupt may carry off the head of the data. The read  *)
(* cannot succeed then: that is what makes Ok trustworthy.                 *)
(***************************************************************************)
EXTENDS I3cTarget, SequenceTheorems, TLAPS

Payload == [call |-> id, kind |-> "ibi"]
Data    == [call |-> id, kind |-> "data"]
Rest    == [call |-> id, kind |-> "rest"]
IbiCmd  == [call |-> id, tid |-> "ibi"]
DataCmd == [call |-> id, tid |-> "rd_data"]

Resp == [tid : Tid, err : BOOLEAN]

Pcs == {"idle", "payload", "ibi_cmd", "ibi_reset", "data", "data_cmd",
        "data_reset", "sir", "wait_ibi", "wait_data", "halt", "flush",
        "resume", "disable", "reset", "enable"}

(* Before the data is written, before its command is, and after the reset  *)
(* of each completion.                                                     *)
NoDataYet == {"payload", "ibi_cmd", "ibi_reset", "data"}
NoCmdYet  == NoDataYet \cup {"data_cmd"}
IbiAsked  == {"data", "data_cmd", "data_reset", "sir", "wait_ibi", "wait_data"}
DataAsked == {"sir", "wait_ibi", "wait_data"}
GaveUp    == {"halt", "flush", "resume", "disable", "reset", "enable"}

RespOK ==
  /\ pc \in Pcs /\ id \in Nat
  /\ respq \in Seq(Resp)
  /\ ibi_done \in BOOLEAN /\ data_done \in BOOLEAN

(* What is left of the request in the TX FIFO: the data comes last.        *)
TxShape ==
  /\ txq \in {<< >>, <<Payload>>, <<Payload, Data>>, <<Data>>, <<Rest>>}
  /\ pc \in NoDataYet => txq \in {<< >>, <<Payload>>}
  /\ pc = "payload" => txq = << >>

(* And of its commands: the interrupt is served before the data.           *)
CmdShape ==
  /\ cmdq \in {<< >>, <<IbiCmd>>, <<IbiCmd, DataCmd>>, <<DataCmd>>}
  /\ inflight \in {Idle, IbiCmd, DataCmd}
  /\ inflight = IbiCmd => cmdq \in {<< >>, <<DataCmd>>}
  /\ inflight = DataCmd => cmdq = << >>
  /\ pc \in NoCmdYet => cmdq \in {<< >>, <<IbiCmd>>} /\ inflight # DataCmd
  /\ pc \in {"payload", "ibi_cmd"} => cmdq = << >> /\ inflight = Idle

(* Between requests nothing is left.                                       *)
IdleClean ==
  pc \in {"idle", "resume", "enable"} =>
    txq = << >> /\ cmdq = << >> /\ inflight = Idle

(* Data that was read is gone from the queues, and data that was carried   *)
(* off by the interrupt can no longer be read.                             *)
Read ==
  /\ id \in dataRead => txq = << >> /\ cmdq = << >> /\ inflight = Idle
  /\ \A x \in dataRead : x \in Nat /\ x <= id
  /\ pc \in NoCmdYet => id \notin dataRead
Lost ==
  pc \notin NoDataYet /\ txq \in {<< >>, <<Rest>>} /\ id \notin dataRead

Taken == id \in ibiTaken \/ Lost

Answers ==
  \A j \in 1 .. Len(respq) : ~respq[j].err =>
    /\ respq[j].tid = "ibi" => Taken
    /\ respq[j].tid = "rd_data" => id \in dataRead

Completions ==
  /\ ibi_done /\ pc \in IbiAsked => Taken
  /\ data_done /\ pc \in DataAsked => id \in dataRead
  /\ pc = "wait_data" => ibi_done
  /\ pc \in GaveUp => res # "ok"
  /\ pc = "idle" /\ res = "ok" => id \in ibiTaken /\ id \in dataRead

Delivery ==
  RespOK /\ TxShape /\ CmdShape /\ IdleClean /\ Read /\ Answers /\ Completions

DeliveryInv == ~stray => Delivery

LEMMA InitDelivery == Init => Delivery
  <1> SUFFICES ASSUME Init PROVE Delivery
    OBVIOUS
  <1>1. TxShape /\ IdleClean
    BY DEF Init, TxShape, IdleClean, NoDataYet
  <1>4. RespOK
    <2>1. << >> \in Seq(Resp)
      OBVIOUS
    <2> QED
      BY <2>1 DEF Init, RespOK, Pcs
  <1>2. CmdShape
    BY DEF Init, CmdShape, NoDataYet, NoCmdYet, IbiCmd, DataCmd, Idle
  <1>3. Read /\ Answers /\ Completions
    BY DEF Init, Read, Answers, Completions, IbiAsked, DataAsked, GaveUp
  <1> QED
    BY <1>1, <1>2, <1>3, <1>4 DEF Delivery

-----------------------------------------------------------------------------
(* Queues of one or two entries.                                           *)

LEMMA AppendOne ==
  ASSUME NEW a, NEW b
  PROVE  Append(<<a>>, b) = <<a, b>>
  <1>1. <<a>> \in Seq({a, b}) /\ <<a, b>> \in Seq({a, b})
    OBVIOUS
  <1>2. /\ Append(<<a>>, b) \in Seq({a, b}) /\ Len(Append(<<a>>, b)) = 2
        /\ Append(<<a>>, b)[1] = a /\ Append(<<a>>, b)[2] = b
    BY <1>1, AppendProperties
  <1>3. \A i \in 1 .. 2 : Append(<<a>>, b)[i] = <<a, b>>[i]
    BY <1>2
  <1> QED
    BY <1>1, <1>2, <1>3, SeqEqual

LEMMA PushOne == \A a : Append(<< >>, a) = <<a>>
  OBVIOUS

LEMMA PopOne ==
  /\ \A a : Tail(<<a>>) = << >> /\ Head(<<a>>) = a /\ <<a>> # << >>
  /\ \A a, b : /\ Tail(<<a, b>>) = <<b>> /\ Head(<<a, b>>) = a
               /\ <<a, b>> # << >>
  OBVIOUS

LEMMA ChunkFacts ==
  /\ Payload.call = id /\ Data.call = id /\ Rest.call = id
  /\ Payload.kind = "ibi" /\ Data.kind = "data" /\ Rest.kind = "rest"
  /\ IbiCmd.call = id /\ DataCmd.call = id
  /\ IbiCmd.tid = "ibi" /\ DataCmd.tid = "rd_data" /\ Idle.tid = "master_wr"
  /\ Idle # IbiCmd /\ Idle # DataCmd /\ IbiCmd # DataCmd
  /\ Payload # Data /\ Rest # Data /\ Payload # Rest
  BY DEF Payload, Data, Rest, IbiCmd, DataCmd, Idle

(* What a command leaves in the TX FIFO.                                   *)
LEMMA TxLeft ==
  ASSUME TxShape, NEW t \in LeftInTx
  PROVE  /\ txq = << >> => t = << >>
         /\ txq = <<Payload>> => t = << >>
         /\ txq = <<Payload, Data>> => t = <<Data>>
         /\ txq = <<Data>> => t \in {<< >>, <<Rest>>}
         /\ txq = <<Data>> /\ inflight.tid # "ibi" => t = << >>
         /\ txq = <<Rest>> => t = << >>
  <1>1. [Data EXCEPT !.kind = "rest"] = Rest
    BY DEF Data, Rest
  <1>2. <<Rest>> \o << >> = <<Rest>>
    OBVIOUS
  <1>3. CASE txq = << >>
    BY <1>3, PopOne DEF LeftInTx
  <1>4. CASE txq = <<Payload>>
    BY <1>4, PopOne, ChunkFacts DEF LeftInTx
  <1>5. CASE txq = <<Payload, Data>>
    BY <1>5, PopOne, ChunkFacts DEF LeftInTx
  <1>6. CASE txq = <<Data>>
    <2>1. Head(txq) = Data /\ Tail(txq) = << >> /\ txq # << >>
      BY <1>6, PopOne
    <2>2. <<[Head(txq) EXCEPT !.kind = "rest"]>> \o Tail(txq) = <<Rest>>
      BY <1>1, <1>2, <2>1
    <2>3. t \in {<< >>, <<Rest>>} /\ (inflight.tid # "ibi" => t = << >>)
      BY <2>1, <2>2 DEF LeftInTx
    <2>4. <<Data>> # <<Payload>> /\ <<Data>> # <<Rest>>
      BY ChunkFacts
    <2> QED
      BY <1>6, <2>1, <2>3, <2>4, PopOne
  <1>7. CASE txq = <<Rest>>
    <2>1. <<Rest>> # <<Payload>> /\ <<Rest>> # <<Data>>
      BY ChunkFacts
    <2> QED
      BY <1>7, <2>1, PopOne, ChunkFacts DEF LeftInTx
  <1> QED
    BY <1>3, <1>4, <1>5, <1>6, <1>7 DEF TxShape

-----------------------------------------------------------------------------
(* The thread: it moves only when every response has been collected.       *)

LEMMA NoAnswers ==
  ASSUME RespOK, ThreadRuns
  PROVE  respq = << >> /\ Len(respq) = 0 /\ Answers
  BY DEF ThreadRuns, IrqPending, RespReady, Answers

LEMMA NotifyDelivery ==
  ASSUME Delivery, Notify
  PROVE  Delivery'
  <1> USE DEF Delivery
  <1>1. /\ pc = "idle" /\ id' = id + 1
        /\ \/ pc' = "payload"
           \/ pc' = "idle" /\ res' = "refused"
        /\ UNCHANGED <<txq, cmdq, inflight, respq, dataRead, ibiTaken,
                       ibi_done, data_done>>
    BY DEF Notify, queueVars, ghostVars, doneVars
  <1>2. /\ txq = << >> /\ cmdq = << >> /\ inflight = Idle
        /\ respq = << >> /\ Len(respq) = 0
    BY <1>1, NoAnswers DEF Notify, IdleClean
  <1>3. RespOK'
    BY <1>1 DEF RespOK, Pcs
  <1>4. Read'
    <2>1. /\ \A x \in dataRead : x \in Nat /\ x <= id + 1
          /\ id + 1 \notin dataRead
      BY DEF Read, RespOK
    <2> QED
      BY <1>1, <1>2, <2>1 DEF Read
  <1>5. TxShape' /\ IdleClean' /\ Answers' /\ Completions'
    BY <1>1, <1>2
    DEF TxShape, IdleClean, Answers, Completions, NoDataYet, IbiAsked, DataAsked,
        GaveUp
  <1>6. CmdShape'
    BY <1>1, <1>2 DEF CmdShape, NoDataYet, NoCmdYet, IbiCmd, DataCmd, Idle
  <1> QED
    BY <1>3, <1>4, <1>5, <1>6

(* The steps that only move the thread on.                                 *)
LEMMA MoveDelivery ==
  ASSUME Delivery, ThreadRuns, pc' \in Pcs,
         UNCHANGED <<id, txq, cmdq, inflight, respq, dataRead, ibiTaken>>,
         ibi_done' \in BOOLEAN, data_done' \in BOOLEAN,
         ibi_done' => ibi_done, data_done' => data_done,
         pc \notin NoDataYet => pc' \notin NoDataYet,
         pc \notin NoCmdYet => pc' \notin NoCmdYet,
         pc' \in NoDataYet => pc \in NoDataYet,
         pc' \in NoCmdYet => pc \in NoCmdYet,
         pc' \notin {"payload", "ibi_cmd"},
         pc' \in {"idle", "resume", "enable"} =>
            txq = << >> /\ cmdq = << >> /\ inflight = Idle,
         pc' \in IbiAsked => pc \in IbiAsked \/ ~ibi_done',
         pc' \in DataAsked => pc \in DataAsked \/ ~data_done',
         pc' = "wait_data" => ibi_done', pc' \in GaveUp => res' # "ok",
         pc' = "idle" /\ res' = "ok" => id \in ibiTaken /\ id \in dataRead
  PROVE  Delivery'
  <1> USE DEF Delivery
  <1>1. /\ Payload' = Payload /\ Data' = Data /\ Rest' = Rest
        /\ IbiCmd' = IbiCmd /\ DataCmd' = DataCmd
    BY DEF Payload, Data, Rest, IbiCmd, DataCmd
  <1>2. Len(respq') = 0
    BY NoAnswers
  <1>3. Answers'
    BY <1>2 DEF Answers
  <1>4. RespOK'
    BY DEF RespOK
  <1>5. TxShape' /\ CmdShape' /\ IdleClean'
    BY <1>1 DEF TxShape, CmdShape, IdleClean
  <1>6. Read'
    BY DEF Read
  <1>7. Taken => Taken'
    BY <1>1 DEF Taken, Lost
  <1>8. Completions'
    BY <1>7 DEF Completions
  <1> QED
    BY <1>3, <1>4, <1>5, <1>6, <1>8

LEMMA WriteTxDelivery ==
  ASSUME Delivery,
         \/ WriteTx("payload", "ibi_cmd", "ibi")
         \/ WriteTx("data", "data_cmd", "data")
  PROVE  Delivery'
  <1> USE DEF Delivery
  <1>1. /\ UNCHANGED <<id, cmdq, inflight, respq, dataRead, ibiTaken,
                       ibi_done, data_done>>
        /\ ThreadRuns
    BY DEF WriteTx, doneVars, ghostVars
  <1>2. /\ Payload' = Payload /\ Data' = Data /\ Rest' = Rest
        /\ IbiCmd' = IbiCmd /\ DataCmd' = DataCmd
    BY <1>1 DEF Payload, Data, Rest, IbiCmd, DataCmd
  <1>3. Answers'
    <2>1. Len(respq') = 0
      BY <1>1, NoAnswers
    <2> QED
      BY <2>1 DEF Answers
  <1>4. CASE WriteTx("payload", "ibi_cmd", "ibi")
    <2>1. pc = "payload" /\ pc' = "ibi_cmd" /\ txq' = <<Payload>>
      BY <1>4, PushOne DEF WriteTx, TxShape, Payload
    <2> QED
      BY <1>1, <1>2, <1>3, <2>1
      DEF RespOK, Pcs, TxShape, CmdShape, IdleClean, Read, Completions,
          NoDataYet, NoCmdYet, IbiAsked, DataAsked, GaveUp
  <1>5. CASE WriteTx("data", "data_cmd", "data")
    <2>1. /\ pc = "data" /\ pc' = "data_cmd" /\ txq \in {<< >>, <<Payload>>}
          /\ txq' = Append(txq, Data)
      BY <1>5 DEF WriteTx, TxShape, Data, NoDataYet
    <2>2. txq' \in {<<Data>>, <<Payload, Data>>}
      BY <2>1, PushOne, AppendOne
    <2>3. Taken => id \in ibiTaken
      BY <2>1 DEF Taken, Lost, NoDataYet
    <2>4. id \notin dataRead
      BY <2>1 DEF Read, NoCmdYet, NoDataYet
    <2>5. TxShape' /\ CmdShape' /\ IdleClean'
      BY <1>1, <1>2, <2>1, <2>2
      DEF TxShape, CmdShape, IdleClean, NoDataYet, NoCmdYet
    <2>6. Read' /\ RespOK'
      BY <1>1, <2>1, <2>4 DEF Read, RespOK, Pcs
    <2>7. Completions'
      BY <1>1, <2>1, <2>3 DEF Completions, Taken, IbiAsked, DataAsked, GaveUp
    <2> QED
      BY <1>3, <2>5, <2>6, <2>7
  <1> QED
    BY <1>4, <1>5

LEMMA WriteCmdDelivery ==
  ASSUME Delivery,
         \/ WriteCmd("ibi_cmd", "ibi_reset", "ibi")
         \/ WriteCmd("data_cmd", "data_reset", "rd_data")
  PROVE  Delivery'
  <1> USE DEF Delivery
  <1>1. /\ UNCHANGED <<id, txq, inflight, respq, dataRead, ibiTaken,
                       ibi_done, data_done>>
        /\ ThreadRuns
    BY DEF WriteCmd, doneVars, ghostVars
  <1>2. /\ Payload' = Payload /\ Data' = Data /\ Rest' = Rest
        /\ IbiCmd' = IbiCmd /\ DataCmd' = DataCmd
    BY <1>1 DEF Payload, Data, Rest, IbiCmd, DataCmd
  <1>3. Answers'
    <2>1. Len(respq') = 0
      BY <1>1, NoAnswers
    <2> QED
      BY <2>1 DEF Answers
  <1>4. CASE WriteCmd("ibi_cmd", "ibi_reset", "ibi")
    <2>1. /\ pc = "ibi_cmd" /\ pc' = "ibi_reset" /\ cmdq' = <<IbiCmd>>
          /\ inflight = Idle
      BY <1>4, PushOne DEF WriteCmd, CmdShape, IbiCmd
    <2>2. id \notin dataRead
      BY <2>1 DEF Read, NoCmdYet, NoDataYet
    <2> QED
      BY <1>1, <1>2, <1>3, <2>1, <2>2, ChunkFacts
      DEF RespOK, Pcs, TxShape, CmdShape, IdleClean, Read, Completions,
          NoDataYet, NoCmdYet, IbiAsked, DataAsked, GaveUp
  <1>5. CASE WriteCmd("data_cmd", "data_reset", "rd_data")
    <2>1. /\ pc = "data_cmd" /\ pc' = "data_reset"
          /\ cmdq \in {<< >>, <<IbiCmd>>} /\ inflight # DataCmd
          /\ cmdq' = Append(cmdq, DataCmd)
      BY <1>5 DEF WriteCmd, CmdShape, DataCmd, NoCmdYet
    <2>2. cmdq' = IF cmdq = << >> THEN <<DataCmd>> ELSE <<IbiCmd, DataCmd>>
      BY <2>1, PushOne, AppendOne
    <2>3. id \notin dataRead
      BY <2>1 DEF Read, NoCmdYet, NoDataYet
    <2>4. inflight = IbiCmd => cmdq = << >>
      <3>1. <<IbiCmd>> # << >> /\ <<IbiCmd>> # <<DataCmd>>
        BY ChunkFacts
      <3> QED
        BY <2>1, <3>1 DEF CmdShape
    <2>5. CmdShape'
      BY <1>1, <1>2, <2>1, <2>2, <2>4 DEF CmdShape, NoCmdYet, NoDataYet
    <2>6. TxShape' /\ IdleClean' /\ Read' /\ RespOK'
      BY <1>1, <1>2, <2>1, <2>3
      DEF TxShape, IdleClean, Read, RespOK, Pcs, NoDataYet, NoCmdYet
    <2>7. Completions'
      BY <1>1, <1>2, <2>1
      DEF Completions, Taken, Lost, IbiAsked, DataAsked, GaveUp, NoDataYet
    <2> QED
      BY <1>3, <2>5, <2>6, <2>7
  <1> QED
    BY <1>4, <1>5

(* A reset of the queues that hits no command on the bus leaves nothing.   *)
LEMMA FlushDelivery ==
  ASSUME Delivery, FlushBus, ~stray', pc' \in Pcs,
         UNCHANGED <<id, res, dataRead, ibiTaken, doneVars>>,
         pc' = pc \/ (pc \in {"flush", "reset"} /\ pc' \in {"resume", "enable"})
  PROVE  Delivery'
  <1> USE DEF Delivery
  <1>1. /\ cmdq' = << >> /\ txq' = << >> /\ respq' = << >> /\ inflight' = Idle
        /\ UNCHANGED <<ibi_done, data_done>>
    BY DEF FlushBus, FlushQueues, doneVars
  <1>2. /\ pc' \in NoDataYet => pc \in NoDataYet
        /\ pc' \in NoCmdYet => pc \in NoCmdYet
        /\ pc' \in IbiAsked => pc' = pc
        /\ pc' \in DataAsked => pc' = pc
        /\ pc \in NoDataYet => pc' = pc
    BY DEF NoDataYet, NoCmdYet, IbiAsked, DataAsked, GaveUp
  <1>3. RespOK' /\ TxShape' /\ CmdShape' /\ IdleClean'
    BY <1>1 DEF RespOK, TxShape, CmdShape, IdleClean, IbiCmd, DataCmd, Idle
  <1>4. Read' /\ Answers'
    BY <1>1, <1>2 DEF Read, Answers
  <1>5. pc' = pc /\ Taken => Taken'
    BY <1>1 DEF Taken, Lost
  <1>6. Completions'
    BY <1>1, <1>2, <1>5 DEF Completions, GaveUp
  <1> QED
    BY <1>3, <1>4, <1>6

LEMMA ThreadDelivery ==
  ASSUME Delivery, ~stray', NotifyStep
  PROVE  Delivery'
  <1> USE DEF Delivery
  <1>1. CASE \/ WriteTx("payload", "ibi_cmd", "ibi")
             \/ WriteTx("data", "data_cmd", "data")
    BY <1>1, WriteTxDelivery
  <1>2. CASE \/ WriteCmd("ibi_cmd", "ibi_reset", "ibi")
             \/ WriteCmd("data_cmd", "data_reset", "rd_data")
    BY <1>2, WriteCmdDelivery
  <1>3. CASE Flush("flush", "resume") \/ Flush("reset", "enable")
    BY <1>3, FlushDelivery DEF Flush, Pcs
  <1>4. CASE ResetIbiDone
    <2>1. /\ pc = "ibi_reset" /\ pc' = "data" /\ ibi_done' = FALSE /\ ThreadRuns
          /\ UNCHANGED <<id, txq, cmdq, inflight, respq, dataRead, ibiTaken,
                         data_done>>
      BY <1>4 DEF ResetIbiDone, queueVars, ghostVars
    <2>2. data_done' \in BOOLEAN /\ ibi_done' \in BOOLEAN
      BY <2>1 DEF RespOK
    <2> QED
      BY <2>1, <2>2, MoveDelivery
      DEF NoDataYet, NoCmdYet, IbiAsked, DataAsked, GaveUp,
          Pcs
  <1>5. CASE ResetDataDone
    <2>1. /\ pc = "data_reset" /\ pc' = "sir" /\ data_done' = FALSE /\ ThreadRuns
          /\ UNCHANGED <<id, txq, cmdq, inflight, respq, dataRead, ibiTaken,
                         ibi_done>>
      BY <1>5 DEF ResetDataDone, queueVars, ghostVars
    <2>2. data_done' \in BOOLEAN /\ ibi_done' \in BOOLEAN
      BY <2>1 DEF RespOK
    <2> QED
      BY <2>1, <2>2, MoveDelivery
      DEF NoDataYet, NoCmdYet, IbiAsked, DataAsked, GaveUp,
          Pcs
  <1>6. CASE RaiseSir
    <2>1. /\ pc = "sir" /\ pc' = "wait_ibi" /\ ThreadRuns
          /\ UNCHANGED <<id, txq, cmdq, inflight, respq, dataRead, ibiTaken,
                         ibi_done, data_done>>
      BY <1>6 DEF RaiseSir, queueVars, ghostVars, doneVars
    <2> QED
      BY <2>1, MoveDelivery
      DEF RespOK, NoDataYet, NoCmdYet, IbiAsked, DataAsked, GaveUp,
          Pcs
  <1>7. CASE WaitIbi \/ WaitData \/ Halt
    <2>1. /\ ThreadRuns
          /\ UNCHANGED <<id, txq, cmdq, inflight, respq, dataRead, ibiTaken,
                         ibi_done, data_done>>
          /\ \/ pc = "wait_ibi" /\ pc' = "wait_data" /\ ibi_done
             \/ pc = "wait_ibi" /\ pc' = "halt" /\ res' = "io_error"
             \/ pc = "wait_data" /\ pc' = "disable" /\ res' = "timeout"
             \/ pc = "halt" /\ pc' = "flush" /\ res' = res
             \/ pc = "wait_data" /\ pc' = "idle" /\ data_done
      BY <1>7 DEF WaitIbi, WaitData, Halt, Goto, queueVars, ghostVars, doneVars
    <2>2. CASE pc' # "idle"
      BY <2>1, <2>2, MoveDelivery
      DEF RespOK, Completions, NoDataYet, NoCmdYet, IbiAsked, DataAsked, GaveUp,
          Pcs
    <2>3. CASE pc' = "idle"
      <3>1. pc = "wait_data" /\ data_done
        BY <2>1, <2>3
      <3>2. id \in dataRead
        BY <3>1 DEF Completions, DataAsked
      <3>3. id \in ibiTaken
        BY <3>1, <3>2 DEF Completions, IbiAsked, Taken, Lost
      <3>4. txq = << >> /\ cmdq = << >> /\ inflight = Idle
        BY <3>2 DEF Read
      <3> QED
        BY <2>1, <2>3, <3>1, <3>2, <3>3, <3>4, MoveDelivery
        DEF RespOK, NoDataYet, NoCmdYet, IbiAsked, DataAsked, GaveUp,
          Pcs
    <2> QED
      BY <2>2, <2>3
  <1>8. CASE Resume \/ Enable
    <2>1. /\ ThreadRuns /\ pc \in {"resume", "enable"} /\ pc' = "idle"
          /\ UNCHANGED <<id, txq, cmdq, inflight, respq, dataRead, ibiTaken,
                         ibi_done, data_done, res>>
      BY <1>8 DEF Resume, Enable, queueVars, ghostVars, doneVars
    <2> QED
      BY <2>1, MoveDelivery
      DEF RespOK, NoDataYet, NoCmdYet, IbiAsked, DataAsked, GaveUp,
          Pcs, IdleClean,
          Completions
  <1>9. CASE Disable
    <2>1. /\ pc = "disable" /\ pc' = "reset" /\ inflight' = Idle
          /\ UNCHANGED <<id, txq, cmdq, respq, dataRead, ibiTaken, ibi_done,
                         data_done, res>>
          /\ ThreadRuns
      BY <1>9 DEF Disable, ghostVars, doneVars
    <2>2. /\ Payload' = Payload /\ Data' = Data /\ Rest' = Rest
          /\ IbiCmd' = IbiCmd /\ DataCmd' = DataCmd
      BY <2>1 DEF Payload, Data, Rest, IbiCmd, DataCmd
    <2>3. Len(respq') = 0
      BY <2>1, NoAnswers
    <2>4. CmdShape'
      BY <2>1, <2>2, ChunkFacts DEF CmdShape, NoCmdYet, NoDataYet
    <2> QED
      BY <2>1, <2>2, <2>3, <2>4
      DEF RespOK, Pcs, TxShape, IdleClean, Read, Answers, Completions,
          NoDataYet, NoCmdYet, IbiAsked, DataAsked, GaveUp
  <1> QED
    BY <1>1, <1>2, <1>3, <1>4, <1>5, <1>6, <1>7, <1>8, <1>9 DEF NotifyStep

-----------------------------------------------------------------------------
(* The handler.                                                            *)

(* Steps of the handler and of the master that leave the request alone.    *)
LEMMA AloneDelivery ==
  ASSUME Delivery,
         UNCHANGED <<pc, id, res, txq, cmdq, inflight, respq, dataRead,
                     ibiTaken, ibi_done, data_done>>
  PROVE  Delivery'
  BY DEF Delivery, RespOK, TxShape, CmdShape, IdleClean, Read, Answers,
         Completions, Taken, Lost, Payload, Data, Rest, IbiCmd, DataCmd

(* A response is collected; an empty queue reads as a response to nothing. *)
LEMMA CollectDelivery ==
  ASSUME Delivery, IsrResp
  PROVE  Delivery'
  <1> USE DEF Delivery
  <1>1. /\ UNCHANGED <<pc, id, res, txq, cmdq, inflight, dataRead, ibiTaken>>
        /\ respq' = IF respq = << >> THEN respq ELSE Tail(respq)
        /\ ibi_done' = (ibi_done \/ (~NextResp.err /\ NextResp.tid = "ibi"))
        /\ data_done' = (data_done \/ (~NextResp.err /\ NextResp.tid = "rd_data"))
    BY DEF IsrResp, threadVars, ghostVars
  <1>2. /\ Payload' = Payload /\ Data' = Data /\ Rest' = Rest
        /\ IbiCmd' = IbiCmd /\ DataCmd' = DataCmd
    BY <1>1 DEF Payload, Data, Rest, IbiCmd, DataCmd
  <1>3. Taken' = Taken
    BY <1>1, <1>2 DEF Taken, Lost
  <1>4. CASE respq = << >>
    <2>1. ibi_done' = ibi_done /\ data_done' = data_done /\ respq' = respq
      BY <1>1, <1>4 DEF NextResp, RespOK
    <2> QED
      BY <1>1, <2>1, AloneDelivery
  <1>5. CASE respq # << >>
    <2>1. /\ respq' \in Seq(Resp) /\ Len(respq') = Len(respq) - 1
          /\ Len(respq) \in Nat /\ 1 \in 1 .. Len(respq)
          /\ NextResp = respq[1]
          /\ \A j \in 1 .. Len(respq') :
               respq'[j] = respq[j + 1] /\ j + 1 \in 1 .. Len(respq)
      <3>1. respq \in Seq(Resp)
        BY DEF RespOK
      <3>2. /\ Tail(respq) \in Seq(Resp) /\ Len(Tail(respq)) = Len(respq) - 1
            /\ Len(respq) \in Nat /\ Head(respq) = respq[1]
            /\ \A j \in 1 .. Len(respq) - 1 : Tail(respq)[j] = respq[j + 1]
        BY <1>5, <3>1, HeadTailProperties, LenProperties, EmptySeq
      <3>3. Len(respq) # 0
        BY <1>5, <3>1, EmptySeq
      <3> QED
        BY <1>1, <1>5, <3>2, <3>3 DEF NextResp
    <2>2. Answers'
      BY <1>1, <1>3, <2>1 DEF Answers
    <2>3. /\ ~NextResp.err /\ NextResp.tid = "ibi" => Taken
          /\ ~NextResp.err /\ NextResp.tid = "rd_data" => id \in dataRead
      BY <2>1 DEF Answers
    <2>4. /\ ibi_done' => ibi_done \/ Taken
          /\ data_done' => data_done \/ id \in dataRead
      BY <1>1, <2>3
    <2>5. Completions'
      <3>1. ibi_done => ibi_done'
        BY <1>1
      <3> QED
        BY <1>1, <1>3, <2>4, <3>1 DEF Completions
    <2>6. RespOK'
      BY <1>1, <2>1 DEF RespOK
    <2>7. TxShape' /\ CmdShape' /\ IdleClean' /\ Read'
      BY <1>1, <1>2 DEF TxShape, CmdShape, IdleClean, Read
    <2> QED
      BY <2>2, <2>5, <2>6, <2>7
  <1> QED
    BY <1>4, <1>5

LEMMA IsrDelivery ==
  ASSUME Delivery, ~stray', IsrStep
  PROVE  Delivery'
  <1>1. CASE \/ IsrEnter \/ IsrDa \/ IsrCount \/ IsrRespDone \/ IsrResume
             \/ IsrCcc \/ IsrAck
    BY <1>1, AloneDelivery
    DEF IsrEnter, IsrDa, IsrCount, IsrRespDone, IsrResume, IsrCcc, IsrAck,
        threadVars, queueVars, ghostVars, doneVars
  <1>2. CASE IsrFlush
    BY <1>2, FlushDelivery
    DEF IsrFlush, threadVars, doneVars, Delivery, RespOK
  <1>3. CASE IsrResp
    BY <1>3, CollectDelivery
  <1> QED
    BY <1>1, <1>2, <1>3 DEF IsrStep

-----------------------------------------------------------------------------
(* The hardware and the master.                                            *)

LEMMA ServeDelivery ==
  ASSUME Delivery, HwServe
  PROVE  Delivery'
  <1> USE DEF Delivery
  <1>1. /\ inflight = Idle /\ cmdq # << >>
        /\ inflight' = Head(cmdq) /\ cmdq' = Tail(cmdq)
        /\ UNCHANGED <<pc, id, res, txq, respq, dataRead, ibiTaken, ibi_done,
                       data_done>>
    BY DEF HwServe, OnBus, threadVars, doneVars, ghostVars
  <1>2. /\ Payload' = Payload /\ Data' = Data /\ Rest' = Rest
        /\ IbiCmd' = IbiCmd /\ DataCmd' = DataCmd
    BY <1>1 DEF Payload, Data, Rest, IbiCmd, DataCmd
  <1>3. \/ inflight' = IbiCmd /\ cmdq' = << >> /\ cmdq = <<IbiCmd>>
        \/ inflight' = IbiCmd /\ cmdq' = <<DataCmd>>
             /\ cmdq = <<IbiCmd, DataCmd>>
        \/ inflight' = DataCmd /\ cmdq' = << >> /\ cmdq = <<DataCmd>>
    <2>1. CASE cmdq = <<IbiCmd>>
      BY <1>1, <2>1, PopOne
    <2>2. CASE cmdq = <<IbiCmd, DataCmd>>
      BY <1>1, <2>2, PopOne
    <2>3. CASE cmdq = <<DataCmd>>
      BY <1>1, <2>3, PopOne
    <2> QED
      BY <1>1, <2>1, <2>2, <2>3 DEF CmdShape
  <1>4. CmdShape'
    <2>1. /\ <<IbiCmd, DataCmd>> # << >> /\ <<DataCmd>> # << >>
          /\ <<IbiCmd, DataCmd>> # <<IbiCmd>> /\ <<DataCmd>> # <<IbiCmd>>
      BY ChunkFacts
    <2>2. pc \in NoCmdYet => cmdq = <<IbiCmd>>
      BY <1>1 DEF CmdShape
    <2>3. pc \notin {"payload", "ibi_cmd"}
      BY <1>1 DEF CmdShape
    <2>4. pc \in NoCmdYet => inflight' = IbiCmd /\ cmdq' = << >>
      BY <1>3, <2>1, <2>2
    <2> QED
      BY <1>1, <1>2, <1>3, <2>3, <2>4, ChunkFacts DEF CmdShape
  <1>5. TxShape' /\ IdleClean' /\ Read' /\ Answers' /\ Completions' /\ RespOK'
    BY <1>1, <1>2
    DEF RespOK, TxShape, IdleClean, Read, Answers, Completions, Taken, Lost
  <1> QED
    BY <1>4, <1>5

(* A response joins the queue.                                             *)
LEMMA AnswerDelivery ==
  ASSUME RespOK, NEW tid \in Tid, NEW err \in BOOLEAN, Answer(tid, err),
         UNCHANGED <<pc, id, ibi_done, data_done>>,
         Answers, Taken => Taken', id \in dataRead => id \in dataRead',
         ~err /\ tid = "ibi" => Taken',
         ~err /\ tid = "rd_data" => id \in dataRead'
  PROVE  RespOK' /\ Answers'
  <1> DEFINE q == [tid |-> tid, err |-> err]
  <1>1. q \in Resp /\ q.tid = tid /\ q.err = err
    BY DEF Resp
  <1>2. respq' = Append(respq, q) /\ respq \in Seq(Resp)
    BY DEF Answer, RespOK
  <1> HIDE DEF q
  <1>3. /\ respq' \in Seq(Resp) /\ Len(respq') = Len(respq) + 1
        /\ respq'[Len(respq) + 1] = q /\ Len(respq) \in Nat
        /\ \A i \in 1 .. Len(respq) : respq'[i] = respq[i]
    BY <1>1, <1>2, AppendProperties, LenProperties
  <1>4. ASSUME NEW j \in 1 .. Len(respq'), ~respq'[j].err
        PROVE  /\ respq'[j].tid = "ibi" => Taken'
               /\ respq'[j].tid = "rd_data" => id \in dataRead'
    <2>1. CASE j = Len(respq) + 1
      BY <1>1, <1>3, <1>4, <2>1
    <2>2. CASE j \in 1 .. Len(respq)
      <3>1. respq'[j] = respq[j]
        BY <1>3, <2>2
      <3> QED
        BY <1>4, <2>2, <3>1 DEF Answers
    <2> QED
      BY <1>3, <2>1, <2>2
  <1>5. Answers'
    BY <1>4 DEF Answers
  <1> QED
    BY <1>3, <1>5 DEF RespOK

(* A command ends. The interrupt takes the payload, or the head of the     *)
(* data when the payload is gone; the read succeeds only on whole data.    *)
LEMMA DoneDelivery ==
  ASSUME Delivery, NEW err \in BOOLEAN, HwDone(err)
  PROVE  Delivery'
  <1> USE DEF Delivery
  <1>1. /\ inflight # Idle /\ inflight' = Idle /\ (Underflow => err)
        /\ txq' \in LeftInTx /\ Answer(inflight.tid, err)
        /\ UNCHANGED <<pc, id, res, cmdq, ibi_done, data_done>>
        /\ ibiTaken' = IF ~err /\ inflight.tid = "ibi" /\ Sent("ibi")
                       THEN ibiTaken \cup {inflight.call} ELSE ibiTaken
        /\ dataRead' = IF ~err /\ inflight.tid = "rd_data" /\ Sent("data")
                       THEN dataRead \cup {inflight.call} ELSE dataRead
    BY DEF HwDone, threadVars, doneVars
  <1>2. /\ Payload' = Payload /\ Data' = Data /\ Rest' = Rest
        /\ IbiCmd' = IbiCmd /\ DataCmd' = DataCmd
    BY <1>1 DEF Payload, Data, Rest, IbiCmd, DataCmd
  <1>3. inflight \in {IbiCmd, DataCmd} /\ inflight.call = id
    BY <1>1, ChunkFacts DEF CmdShape
  <1>4. id \notin dataRead
    BY <1>1 DEF Read
  <1>5. TxShape'
    <2>1. txq' \in {<< >>, <<Data>>, <<Rest>>}
          /\ (pc \in NoDataYet => txq' = << >>)
      BY <1>1, TxLeft DEF TxShape
    <2> QED
      BY <1>1, <1>2, <2>1 DEF TxShape, NoDataYet
  <1>6. CmdShape' /\ IdleClean'
    <2>1. pc \notin {"idle", "resume", "enable"}
      BY <1>1 DEF IdleClean
    <2> QED
      BY <1>1, <1>2, <2>1, ChunkFacts DEF CmdShape, IdleClean
  <1>7. Lost => Lost'
    <2> SUFFICES ASSUME Lost PROVE Lost'
      OBVIOUS
    <2>1. txq' = << >>
      BY <1>1, TxLeft DEF Lost
    <2>2. ~Sent("data")
      BY PopOne, ChunkFacts DEF Lost, Sent, Rest
    <2> QED
      BY <1>1, <2>1, <2>2 DEF Lost
  <1>8. Taken => Taken'
    BY <1>1, <1>7 DEF Taken
  <1>9. CASE inflight = DataCmd
    <2>1. /\ inflight.tid = "rd_data" /\ inflight.tid # "ibi" /\ cmdq = << >>
          /\ pc \notin NoCmdYet
      BY <1>9, ChunkFacts DEF CmdShape
    <2>2. CASE ~err
      <3>1. txq # << >> /\ Head(txq).kind = "data"
        BY <1>1, <2>1, <2>2 DEF Underflow
      <3>2. txq = <<Data>> /\ Head(txq) = Data
        BY <3>1, PopOne, ChunkFacts DEF TxShape
      <3>3. Sent("data")
        BY <1>3, <3>1, <3>2 DEF Sent, Data
      <3>4. dataRead' = dataRead \cup {id} /\ txq' = << >>
        BY <1>1, <1>3, <2>1, <2>2, <3>2, <3>3, TxLeft
      <3>5. Read'
        <4>1. \A x \in dataRead' : x \in Nat /\ x <= id
          BY <3>4 DEF Read, RespOK
        <4> QED
          BY <1>1, <2>1, <3>4, <4>1 DEF Read
      <3>6. Answers' /\ RespOK'
        BY <1>1, <1>8, <2>1, <2>2, <3>4, AnswerDelivery DEF Tid
      <3>7. Completions'
        BY <1>1, <1>8, <3>4 DEF Completions
      <3> QED
        BY <1>5, <1>6, <3>5, <3>6, <3>7
    <2>3. CASE err
      <3>1. dataRead' = dataRead
        BY <1>1, <2>3
      <3>2. Answers' /\ RespOK'
        BY <1>1, <1>8, <2>1, <2>3, <3>1, AnswerDelivery DEF Tid
      <3> QED
        BY <1>1, <1>4, <1>5, <1>6, <1>8, <3>1, <3>2 DEF Read, Completions
    <2> QED
      BY <2>2, <2>3
  <1>10. CASE inflight = IbiCmd
    <2>1. inflight.tid = "ibi" /\ dataRead' = dataRead
      BY <1>1, <1>10, ChunkFacts
    <2>2. ~err => Taken'
      <3> SUFFICES ASSUME ~err PROVE Taken'
        OBVIOUS
      <3>1. txq # << >>
        BY <1>1 DEF Underflow
      <3>2. CASE txq \in {<<Payload>>, <<Payload, Data>>}
        <4>1. Sent("ibi")
          BY <1>3, <3>2, PopOne DEF Sent, Payload
        <4> QED
          BY <1>1, <1>3, <2>1, <4>1 DEF Taken
      <3>3. CASE txq \in {<<Data>>, <<Rest>>}
        <4>1. txq' \in {<< >>, <<Rest>>}
          BY <1>1, <3>3, TxLeft
        <4>2. pc \notin NoDataYet
          <5>1. /\ <<Data>> # <<Payload>> /\ <<Rest>> # <<Payload>>
                /\ <<Data>> # << >> /\ <<Rest>> # << >>
            BY ChunkFacts
          <5> QED
            BY <3>3, <5>1 DEF TxShape
        <4> QED
          BY <1>1, <1>2, <1>4, <2>1, <4>1, <4>2 DEF Taken, Lost
      <3> QED
        BY <3>1, <3>2, <3>3 DEF TxShape
    <2>3. Answers' /\ RespOK'
      BY <1>1, <1>8, <2>1, <2>2, AnswerDelivery DEF Tid
    <2>4. ibiTaken \subseteq ibiTaken'
      BY <1>1
    <2> QED
      BY <1>1, <1>4, <1>5, <1>6, <1>8, <2>1, <2>3, <2>4 DEF Read, Completions
  <1> QED
    BY <1>3, <1>9, <1>10

LEMMA HwDelivery ==
  ASSUME Delivery, HwStep
  PROVE  Delivery'
  <1>1. CASE HwServe
    BY <1>1, ServeDelivery
  <1>2. ASSUME NEW err \in BOOLEAN, HwDone(err)
        PROVE  Delivery'
    BY <1>2, DoneDelivery
  <1>3. ASSUME NEW err \in BOOLEAN, HwWritten(err)
        PROVE  Delivery'
    <2>1. /\ Answer("master_wr", err) /\ "master_wr" \in Tid
          /\ UNCHANGED <<pc, id, res, txq, cmdq, inflight, dataRead, ibiTaken,
                         ibi_done, data_done>>
      BY <1>3 DEF HwWritten, threadVars, doneVars, ghostVars, Tid
    <2>2. Taken' = Taken
      BY <2>1 DEF Taken, Lost, Rest
    <2>3. RespOK' /\ Answers'
      BY <2>1, <2>2, AnswerDelivery DEF Delivery
    <2> QED
      BY <2>1, <2>2, <2>3
      DEF Delivery, TxShape, CmdShape, IdleClean, Read, Completions, Payload,
          Data, Rest, IbiCmd, DataCmd
  <1>4. ASSUME \/ \E a \in Addr : HwAssign(a)
               \/ HwForget
               \/ \E v \in BOOLEAN : HwEvents(v)
        PROVE  Delivery'
    BY <1>4, AloneDelivery
    DEF HwAssign, HwForget, HwEvents, threadVars, queueVars, doneVars, ghostVars
  <1> QED
    BY <1>1, <1>2, <1>3, <1>4 DEF HwStep

-----------------------------------------------------------------------------
LEMMA DeliveryStep ==
  ASSUME ~stray => Delivery, [Next]_vars
  PROVE  ~stray' => Delivery'
  <1> SUFFICES ASSUME ~stray' PROVE Delivery'
    OBVIOUS
  <1>1. ~stray
    BY DEF Next, Notify, NoticeAddress, NotifyStep, WriteTx, WriteCmd,
           ResetIbiDone, ResetDataDone, RaiseSir, WaitIbi, WaitData, Halt, Goto,
           Flush, FlushBus, Resume, Disable, Enable, IsrStep, IsrEnter, IsrDa,
           IsrCount, IsrResp, IsrRespDone, IsrFlush, IsrResume, IsrCcc, IsrAck,
           HwStep, HwServe, HwDone, HwWritten, HwAssign, HwForget, HwEvents,
           Stopped, vars, ghostVars
  <1>2. Delivery
    BY <1>1
  <1>3. CASE UNCHANGED vars
    BY <1>2, <1>3, AloneDelivery
    DEF vars, threadVars, queueVars, doneVars, ghostVars
  <1>4. CASE NoticeAddress
    BY <1>2, <1>4, AloneDelivery
    DEF NoticeAddress, threadVars, queueVars, doneVars, ghostVars
  <1> QED
    BY <1>2, <1>3, <1>4, NotifyDelivery, ThreadDelivery, IsrDelivery, HwDelivery
    DEF Next, Stopped

(* target_pending_read_notify returns Ok only of a request whose own       *)
(* payload the master took and whose own data it read, whatever the master *)
(* does and wherever the handler resets the queues, unless a reset hit a   *)
(* command on the bus.                                                     *)
THEOREM OkIsDelivery == Spec => []OkDeliversOwn
  <1>1. Init => DeliveryInv
    BY InitDelivery DEF DeliveryInv
  <1>2. DeliveryInv /\ [Next]_vars => DeliveryInv'
    BY DeliveryStep DEF DeliveryInv
  <1>3. DeliveryInv => OkDeliversOwn
    BY DEF DeliveryInv, Delivery, Completions, OkDeliversOwn
  <1> QED
    BY <1>1, <1>2, <1>3, PTL DEF Spec

=============================================================================
