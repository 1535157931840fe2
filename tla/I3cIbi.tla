------------------------------- MODULE I3cIbi -------------------------------
(***************************************************************************)
(* In-band interrupts on the controller side (src/src/i3c/hardware.rs,     *)
(* ibi.rs): the IBI FIFO of the hardware, handle_ibis and handle_ibi_sir   *)
(* in the interrupt handler, and the work queue that carries the decoded   *)
(* items to the application.                                               *)
(*                                                                         *)
(* The FIFO holds words. An IBI puts a status word there and its payload   *)
(* behind it; the handler has no other way to tell where an IBI begins     *)
(* than having read the words of the one before, all of them. A word is    *)
(* named after its IBI and its place in it.                                *)
(***************************************************************************)
EXTENDS Naturals, Sequences, FiniteSets

CONSTANTS
  MaxIbis,    \* bound on the IBIs the controller accepts
  MaxWords,   \* words of payload an IBI may carry
  MaxErrs,    \* bound on error responses (module I3cXfer) seen meanwhile
  QueueCap    \* capacity of the work queue (IBIQ_DEPTH - 1)

ASSUME IbiAssumption ==
  /\ MaxIbis \in Nat \ {0}
  /\ MaxWords \in Nat
  /\ MaxErrs \in Nat
  /\ QueueCap \in Nat \ {0}

Ibi == 1 .. MaxIbis

(* handle_ibis tells a SIR, a hot-join and everything else apart.          *)
IbiKind == {"sir", "hotjoin", "other"}

(* No IBI: an item decoded from a word that is not a status word.          *)
Bogus == 0

(* Word 0 of an IBI is its status, the others its payload.                 *)
Word == [ibi : Ibi, part : 0 .. MaxWords]

VARIABLES
  sent,      \* the IBIs accepted so far, with kind and words of payload
  fifo,      \* the IBI FIFO
  nerr,      \* error responses so far, up to MaxErrs
  isr,       \* where the handler is
  nibis,     \* its local: IBIs left to read
  cur,       \* its locals: the status it decoded
  data,      \* its local: ibi_buf
  workq,     \* the work queue
  consumed,  \* history: what the application has taken off it
  lost,      \* history: IBIs lost to a full work queue or a queue reset, and
             \* those whose status word was read as payload
  astray,    \* history: the handler has lost its place in the FIFO, see below
  garbled    \* history: the items put on the work queue while it had

placeVars == <<astray, garbled>>
ibiVars == <<sent, fifo, nerr, isr, nibis, cur, data, workq, consumed, lost,
             astray, garbled>>

(* ibistatuscnt: the IBIs in the FIFO whose status word is still there.    *)
Statuses == Cardinality({i \in DOMAIN fifo : fifo[i].part = 0})

IrqPending == Statuses > 0
ThreadRuns == isr = "off" /\ ~IrqPending

-----------------------------------------------------------------------------
(* The hardware (external): an IBI arrives with its payload. Of the IBIs   *)
(* that are neither SIR nor hot-join (a mastership request, say), too, the *)
(* status gives the length.                                                *)
HwAccept(k, n) ==
  /\ Len(sent) < MaxIbis
  /\ k = "hotjoin" => n = 0
  /\ sent' = Append(sent, [kind |-> k, words |-> n])
  /\ fifo' = fifo \o
       [i \in 1 .. n + 1 |-> [ibi |-> Len(sent) + 1, part |-> i - 1]]
  /\ UNCHANGED <<nerr, isr, nibis, cur, data, workq, consumed,
                 lost, placeVars>>

-----------------------------------------------------------------------------
(* The handler.                                                            *)

IsrEnter ==
  /\ isr = "off" /\ IrqPending
  /\ isr' = "count"
  /\ UNCHANGED <<sent, fifo, nerr, nibis, cur, data, workq, consumed,
                 lost, placeVars>>

(* It runs for an error response: end_xfer comes first, and resets the IBI *)
(* queue together with the transfer queues.                                *)
IsrEnterOnError ==
  /\ isr = "off" /\ nerr < MaxErrs
  /\ nerr' = nerr + 1
  /\ isr' = "reset"
  /\ UNCHANGED <<sent, fifo, nibis, cur, data, workq, consumed,
                 lost, placeVars>>

IsrReset ==
  /\ isr = "reset"
  /\ fifo' = << >>
  /\ lost' = lost \cup {fifo[i].ibi : i \in DOMAIN fifo}
  /\ isr' = "count"
  /\ astray' = FALSE
  /\ UNCHANGED <<sent, nerr, nibis, cur, data, workq, consumed, garbled>>

(* Mutant: the early return of handle_ibis skips the end of the handler.   *)
MutIsrCountStuck ==
  /\ isr = "count" /\ Statuses > 0
  /\ nibis' = Statuses
  /\ isr' = "loop"
  /\ UNCHANGED <<sent, fifo, nerr, cur, data, workq, consumed,
                 lost, placeVars>>

IsrCount ==
  /\ isr = "count"
  /\ nibis' = Statuses
  /\ isr' = "loop"
  /\ UNCHANGED <<sent, fifo, nerr, cur, data, workq, consumed,
                 lost, placeVars>>

(* What a word says when it is read as a status. A payload word says       *)
(* anything; an empty FIFO reads as zero, which is no SIR and no hot-join. *)
Decoded ==
  IF fifo = << >> THEN {[kind |-> "other", words |-> 0, ibi |-> Bogus]}
  ELSE IF Head(fifo).part = 0
       THEN LET k == Head(fifo).ibi IN
            {[kind |-> sent[k].kind, words |-> sent[k].words, ibi |-> k]}
       ELSE [kind : IbiKind, words : 0 .. MaxWords, ibi : {Bogus}]

Popped(n) == SubSeq(fifo, n + 1, Len(fifo))

(* An SIR may come from an address that is not attached.                   *)
AfterStatus(k) ==
  CASE k = "sir" -> {"payload", "stranger"}
    [] k = "hotjoin" -> {"enqueue"}
    [] OTHER -> {"drain"}

IsrStatus ==
  /\ isr = "loop" /\ nibis > 0
  /\ nibis' = nibis - 1
  /\ fifo' = Popped(1)
  /\ cur' \in Decoded
  /\ data' = Bogus
  /\ isr' \in AfterStatus(cur'.kind)
  /\ UNCHANGED <<sent, nerr, workq, consumed, lost, placeVars>>

(* The IBIs whose status word is among the first n words.                  *)
Swallowed(n) ==
  {fifo[i].ibi : i \in {j \in DOMAIN fifo : j <= n /\ fifo[j].part = 0}}

(* drain_fifo; after the payload of an unknown address the code goes on as *)
(* if the payload were still there, and loses its place (history) if the   *)
(* IBI had one.                                                            *)
IsrDrain ==
  /\ isr \in {"drain", "stranger"}
  /\ fifo' = Popped(cur.words)
  /\ lost' = lost \cup Swallowed(cur.words)
  /\ isr' = IF isr = "stranger" THEN "payload" ELSE "loop"
  /\ astray' = (astray \/ (isr = "stranger" /\ cur.words > 0))
  /\ UNCHANGED <<sent, nerr, nibis, cur, data, workq, consumed, garbled>>

(* Mutant: a payload shorter than the two-byte buffer is left unread.      *)
MutPayloadWordsRead(n) == 0

(* handle_ibi_sir reads two bytes at most: the first word, when there is   *)
(* one.                                                                    *)
PayloadWordsRead(n) == IF n = 0 THEN 0 ELSE 1

IsrPayload ==
  /\ isr = "payload"
  /\ data' = IF cur.words = 0 \/ fifo = << >>
                \/ PayloadWordsRead(cur.words) = 0
             THEN Bogus ELSE Head(fifo).ibi
  /\ fifo' = Popped(PayloadWordsRead(cur.words))
  /\ lost' = lost \cup Swallowed(PayloadWordsRead(cur.words))
  /\ isr' = "enqueue"
  /\ UNCHANGED <<sent, nerr, nibis, cur, workq, consumed, placeVars>>

(* The producer drops the item when the queue is full.                     *)
QueueFull == Len(workq) >= QueueCap

Queued(w) == Append(workq, w)

(* What the application sees: consumed and queued items, oldest first.     *)
Reported == consumed \o workq

(* handle_ibi_sir leaves the payload beyond the first word in the FIFO:    *)
(* with the item of such an IBI, the handler loses its place (history).    *)
Overlong == cur.words > 1

IsrEnqueue ==
  /\ isr = "enqueue"
  /\ IF QueueFull
       THEN /\ lost' = lost \cup ({cur.ibi} \ {Bogus})
            /\ UNCHANGED <<workq, garbled>>
       ELSE /\ workq' = Queued([kind |-> cur.kind, ibi |-> cur.ibi,
                                data |-> data])
            /\ garbled' = IF astray THEN garbled \cup {Len(Reported) + 1}
                          ELSE garbled
            /\ UNCHANGED lost
  /\ astray' = (astray \/ Overlong)
  /\ isr' = "loop"
  /\ UNCHANGED <<sent, fifo, nerr, nibis, cur, data, consumed>>

IsrAck ==
  /\ isr = "loop" /\ nibis = 0
  /\ isr' = "off"
  /\ UNCHANGED <<sent, fifo, nerr, nibis, cur, data, workq, consumed,
                 lost, placeVars>>

-----------------------------------------------------------------------------
(* The application takes one item off the queue.                           *)
Consume ==
  /\ ThreadRuns /\ workq # << >>
  /\ consumed' = Append(consumed, Head(workq))
  /\ workq' = Tail(workq)
  /\ UNCHANGED <<sent, fifo, nerr, isr, nibis, cur, data, lost, placeVars>>

IbiInit ==
  /\ sent = << >> /\ fifo = << >> /\ nerr = 0
  /\ isr = "off" /\ nibis = 0
  /\ cur = [kind |-> "other", words |-> 0, ibi |-> Bogus] /\ data = Bogus
  /\ workq = << >> /\ consumed = << >> /\ lost = {}
  /\ astray = FALSE /\ garbled = {}

IsrStep ==
  \/ IsrEnter \/ IsrReset \/ IsrCount \/ IsrStatus \/ IsrDrain
  \/ IsrPayload \/ IsrEnqueue \/ IsrAck

(* The bounds are used up and everything is served.                        *)
Stopped ==
  /\ Len(sent) = MaxIbis /\ nerr = MaxErrs
  /\ ThreadRuns /\ workq = << >>
  /\ UNCHANGED ibiVars

IbiNext ==
  \/ \E k \in IbiKind, n \in 0 .. MaxWords : HwAccept(k, n)
  \/ IsrEnterOnError \/ IsrStep \/ Consume \/ Stopped

(* The handler runs while it is pending, the application serves its queue. *)
IbiSpec ==
  /\ IbiInit /\ [][IbiNext]_ibiVars
  /\ WF_ibiVars(IsrStep) /\ SF_ibiVars(Consume)

-----------------------------------------------------------------------------
(* Properties.                                                             *)

(* Each item reports an IBI that a device really sent, of its own kind,    *)
(* with the payload of that IBI or none: no payload word is taken for a    *)
(* status word, and no status word for payload; and none is reported twice *)
(* or before an earlier one. Excused are the items put on the queue while  *)
(* the handler is astray: from an SIR whose payload is longer than the one *)
(* word that handle_ibi_sir reads, or an SIR with payload from an address  *)
(* that is not attached, until the next error response resets the queues.  *)
RequestsAreReal ==
  \A i \in DOMAIN Reported \ garbled :
    LET w == Reported[i] IN
    /\ w.ibi # Bogus
    /\ w.kind = sent[w.ibi].kind
    /\ w.data = IF sent[w.ibi].words = 0 THEN Bogus ELSE w.ibi
    /\ \A j \in 1 .. i - 1 : Reported[j].ibi < w.ibi

(* Without the excuse, every item reports an IBI that was sent. It is false *)
(* of the code (I3cIbiLong.cfg).                                            *)
NoneInvented == \A i \in DOMAIN Reported : Reported[i].ibi # Bogus

(* Every IBI that is not lost gets to the application, also when the       *)
(* handler has lost its place.                                             *)
IbisArrive ==
  \A k \in Ibi :
    (k \in DOMAIN sent /\ sent[k].kind # "other") ~>
      (k \in lost \/ \E i \in DOMAIN consumed : consumed[i].ibi = k)

=============================================================================
