----------------------------- MODULE MatterFlow -----------------------------
(***************************************************************************)
(* The report credit manager of the native Matter host                     *)
(* (wotex-matter/native/src/subscription.cpp, ReportCreditManager) as      *)
(* operators on one record:                                                *)
(*                                                                         *)
(*   streams  key -> [out, q, last, live]   a stream is <<id, generation>> *)
(*   queued   Seq of [k, r]                 reports waiting for credit     *)
(*   outst    Seq of [k, seq]               transmitted, unacknowledged    *)
(*   next     the next report sequence number                              *)
(*   ack      the acknowledged prefix                                      *)
(*   sent     Seq of [k, r, seq]            what one call handed to the    *)
(*                                          writer, emptied by the caller  *)
(*                                                                         *)
(* Every report counts as one unit of byte credit, so the byte limits of   *)
(* the code coincide with its frame limits here.                           *)
(***************************************************************************)
EXTENDS Queues, FiniteSets

CONSTANTS SessionCredit,  \* kSessionReportCredit, 64
          StreamCredit,   \* min(kStreamReportCredit, queue_limit), 16
          MaxQueued,      \* kMaximumQueuedReports, 64
          QueueLimit,     \* the queue_limit of every subscribe request
          MaxStreams      \* live and retired streams together, 128

ASSUME CreditAssumption ==
    /\ SessionCredit \in Nat \ {0}
    /\ StreamCredit \in 1..SessionCredit
    /\ MaxQueued \in Nat /\ QueueLimit \in Nat \ {0} /\ MaxStreams \in Nat \ {0}

NewFlow == [streams |-> <<>>, queued |-> <<>>, outst |-> <<>>,
            next |-> 1, ack |-> 0, sent |-> <<>>]

IsLive(f, k) == k \in DOMAIN f.streams /\ f.streams[k].live

IsRetired(f, k) == k \in DOMAIN f.streams /\ ~f.streams[k].live

LastTransmitted(f, k) == IF k \in DOMAIN f.streams THEN f.streams[k].last ELSE 0

Forget(streams, k) == [j \in DOMAIN streams \ {k} |-> streams[j]]

CanAddStream(f, k) == k \notin DOMAIN f.streams /\ Cardinality(DOMAIN f.streams) < MaxStreams

AddStream(f, k) ==
    [f EXCEPT !.streams = [j \in DOMAIN @ \cup {k} |->
        IF j = k THEN [out |-> 0, q |-> 0, last |-> 0, live |-> TRUE] ELSE @[j]]]

CanTransmit(f, k) ==
    /\ Len(f.outst) < SessionCredit
    /\ f.streams[k].out < StreamCredit

\* TransmitFrame: the sequence number is taken when the frame is sent, not when
\* the report was queued.
TransmitFrame(f, k, r) ==
    [f EXCEPT !.streams[k].out = @ + 1,
              !.streams[k].last = f.next,
              !.outst = Append(@, [k |-> k, seq |-> f.next]),
              !.sent = Append(@, [k |-> k, r |-> r, seq |-> f.next]),
              !.next = @ + 1]

\* One turn of Drain's loop: a frame of a stream that is gone is discarded, a
\* blocked head ends the loop.
DrainStep(f) ==
    IF f.queued = <<>> THEN f
    ELSE LET k == Head(f.queued).k
             r == Head(f.queued).r
             rest == [f EXCEPT !.queued = Tail(@)]
         IN IF ~IsLive(f, k) THEN rest
            ELSE IF ~CanTransmit(f, k) THEN f
            ELSE TransmitFrame([rest EXCEPT !.streams[k].q = @ - 1], k, r)

Drain(f) ==
    LET step[i \in 0..Len(f.queued)] == IF i = 0 THEN f ELSE DrainStep(step[i - 1])
    IN step[Len(f.queued)]

SubmitResult(f, k) ==
    IF ~IsLive(f, k) THEN "invalid"
    ELSE IF f.queued = <<>> /\ CanTransmit(f, k) THEN "transmitted"
    ELSE IF Len(f.queued) >= MaxQueued \/ f.streams[k].q >= QueueLimit THEN "overflow"
    ELSE "queued"

Submit(f, k, r) ==
    CASE SubmitResult(f, k) = "transmitted" -> TransmitFrame(f, k, r)
      [] SubmitResult(f, k) = "queued" ->
            [f EXCEPT !.queued = Append(@, [k |-> k, r |-> r]), !.streams[k].q = @ + 1]
      [] OTHER -> f

\* How many entries of q are of stream k.
Of(q, k) == Cardinality({j \in DOMAIN q : q[j].k = k})

\* The release loop of Acknowledge: the frames up to the acknowledged one leave
\* the window, which is ordered, and a retired stream that has none left in it
\* is forgotten.
Release(f, seq) ==
    LET m == CHOOSE j \in DOMAIN f.outst : f.outst[j].seq = seq
        popped(k) == Of(SubSeq(f.outst, 1, m), k)
        gone(k) == /\ ~f.streams[k].live /\ f.streams[k].q = 0
                   /\ popped(k) > 0 /\ f.streams[k].out = popped(k)
    IN [f EXCEPT !.outst = SubSeq(@, m + 1, Len(@)),
                 !.streams = [k \in {j \in DOMAIN f.streams : ~gone(j)} |->
                                [f.streams[k] EXCEPT !.out = @ - popped(k)]]]

CanAcknowledge(f, seq) == seq > f.ack /\ \E i \in DOMAIN f.outst : f.outst[i].seq = seq

\* Mutant: the returned credit is not used for the queue.
AcknowledgeIdle(f, seq) == [Release(f, seq) EXCEPT !.ack = seq]

Acknowledge(f, seq) == Drain([Release(f, seq) EXCEPT !.ack = seq])

\* Retire up to its barrier: the stream dies and its queued reports are dropped.
Retiring(f, k) ==
    LET dead == [f EXCEPT !.streams[k].live = FALSE, !.streams[k].q = 0,
                          !.queued = WithoutAll(@, {e \in Elements(@) : e.k = k})]
    IN IF dead.streams[k].out = 0 THEN [dead EXCEPT !.streams = Forget(@, k)] ELSE dead

Retire(f, k) == Drain(Retiring(f, k))
=============================================================================
