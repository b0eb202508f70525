---------------------------- MODULE BluezReports ----------------------------
(***************************************************************************)
(* Value reports of the native BlueZ process: reports.hpp, credit.hpp,     *)
(* report_queue.hpp and the output lanes of output.hpp, as one record r.   *)
(*                                                                         *)
(*   seq, ack   last report sequence given and last one acknowledged       *)
(*   recs       the streams of the outstanding reports ack+1 .. seq        *)
(*   queue      reports waiting for credit, with their number v            *)
(*   s          per stream: state, last sequence, values accepted          *)
(*   out        frames queued for stdout; tx is the last report written    *)
(*   slots      reserved replies, held until the reply is written          *)
(*   hist       per stream, the frames about it in the order they queue    *)
(*                                                                         *)
(* A report counts as one frame; the byte limits beside each frame limit   *)
(* and the exact-byte test of an acknowledgement are left out.             *)
(***************************************************************************)
EXTENDS Naturals, Sequences, FiniteSets, SequencesExt

CONSTANTS MaxIds,      \* bound on requests; a stream is named by its request
          Window,      \* outstanding reports of a stream, min(16, queue_limit)
          Frames,      \* outstanding reports in all, 64
          QueueFrames, \* reports waiting for credit, 64
          QueueLimit,  \* the queue_limit of a subscription
          ReplyLimit   \* reserved replies, 64

Ids == 1..MaxIds

NewReports ==
    [seq |-> 0, ack |-> 0, tx |-> 0, recs |-> <<>>, queue |-> <<>>, out |-> <<>>, slots |-> 0,
     s |-> [d \in Ids |-> [st |-> "none", last |-> 0, n |-> 0]],
     hist |-> [d \in Ids |-> <<>>]]

\* A frame with its sequence n, and the number v of the value it carries.
Frame(t, n) == [t |-> t, n |-> n, v |-> 0]

Put(r, d, f) == [r EXCEPT !.out = Append(@, f), !.hist[d] = Append(@, f)]

Outstanding(r, d) == Len(SelectSeq(r.recs, LAMBDA x : x = d))

Queued(r, d) == Len(SelectSeq(r.queue, LAMBDA x : x.d = d))

\* Streams the host holds (streams_): opened and not yet retired.
Streams(r) == {d \in Ids : r.s[d].st \in {"open", "silent"}}

HasCredit(r, d) == Len(r.recs) < Frames /\ Outstanding(r, d) < Window

\* dispatch: the report takes the next sequence and a record of its stream.
Report(r, d, v) ==
    LET n == r.seq + 1
    IN Put([r EXCEPT !.seq = n, !.recs = Append(@, d), !.s[d].last = n], d,
           [Frame("value", n) EXCEPT !.v = v])

OpenStream(r, d) == [r EXCEPT !.s[d].st = "open"]

\* silence: no further value, and the waiting ones are discarded.
Silence(r, d) ==
    IF r.s[d].st # "open" THEN r
    ELSE [r EXCEPT !.s[d].st = "silent", !.queue = SelectSeq(@, LAMBDA x : x.d # d)]

\* admit: the stream's own limit and the limit of all waiting reports.
QueueFull(r, d) == Queued(r, d) = QueueLimit \/ Len(r.queue) = QueueFrames

\* publish: at once with credit and nothing waiting, else behind the waiting
\* reports; a full queue silences the stream.
Publish(r, d) ==
    LET v == r.s[d].n + 1
        now == Queued(r, d) = 0 /\ HasCredit(r, d)
    IN CASE r.s[d].st # "open" -> r
         [] r.s[d].st = "open" /\ now -> Report([r EXCEPT !.s[d].n = v], d, v)
         [] r.s[d].st = "open" /\ ~now /\ QueueFull(r, d) -> Silence(r, d)
         [] OTHER -> [r EXCEPT !.s[d].n = v, !.queue = Append(@, [d |-> d, v |-> v])]

\* Mutant: what stays behind is put back in front.
DrainPutsBack(r) ==
    LET visit(a, x) ==
            IF x.d \notin a.blocked /\ HasCredit(a.r, x.d)
            THEN [a EXCEPT !.r = Report(@, x.d, x.v)]
            ELSE [a EXCEPT !.blocked = @ \cup {x.d}, !.r.queue = <<x>> \o @]
    IN FoldLeft(visit, [r |-> [r EXCEPT !.queue = <<>>], blocked |-> {}], r.queue).r

\* ReportQueue::drain: a stream without credit keeps its order and blocks no
\* other.
Drain(r) ==
    LET visit(a, x) ==
            IF x.d \notin a.blocked /\ HasCredit(a.r, x.d)
            THEN [a EXCEPT !.r = Report(@, x.d, x.v)]
            ELSE [a EXCEPT !.blocked = @ \cup {x.d}, !.r.queue = Append(@, x)]
    IN FoldLeft(visit, [r |-> [r EXCEPT !.queue = <<>>], blocked |-> {}], r.queue).r

\* acknowledge: the records up to n return their credit.
Acknowledge(r, n) == Drain([r EXCEPT !.ack = n, !.recs = SubSeq(@, n - r.ack + 1, Len(@))])

\* retire: a terminal error, then the barrier with the last sequence.
Retire(r, d, failed) ==
    IF d \notin Streams(r) THEN r
    ELSE LET a == Silence(r, d)
             b == IF failed THEN Put(a, d, Frame("error", 0)) ELSE a
         IN [Put(b, d, Frame("barrier", r.s[d].last)) EXCEPT !.s[d].st = "gone"]

\* flush: the queued frames are written.
Flush(r) ==
    LET values == SelectSeq(r.out, LAMBDA f : f.t = "value")
    IN [r EXCEPT !.out = <<>>,
                 !.slots = @ - Len(SelectSeq(r.out, LAMBDA f : f.t = "reply")),
                 !.tx = IF values = <<>> THEN @ ELSE values[Len(values)].n]

=============================================================================
