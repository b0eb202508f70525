--------------------------- MODULE OpcuaSequence ---------------------------
(***************************************************************************)
(* The notification sequence state of one OPC UA subscription              *)
(* (publish_sequence.c).  Sequence numbers run over 1..Ring and wrap to 1; *)
(* the code's Ring is 2^32 - 1.  A message is [seq, from, n]: its         *)
(* sequence number and its content, the n-th one the subscription from had;*)
(* two messages have the same digest exactly when their n agree.           *)
(***************************************************************************)
EXTENDS Naturals, Sequences

CONSTANTS Ring,      \* sequence numbers before the wrap
          CacheSize, \* accepted messages remembered, 1024
          Republish  \* longest gap recovered, 100

ASSUME SequenceAssumption ==
    /\ Ring \in Nat \ {0} /\ CacheSize \in Nat \ {0} /\ Republish \in Nat \ {0}
    /\ CacheSize < Ring \div 2 /\ Republish < Ring \div 2

NewSequence == [last |-> 0, cache |-> <<>>, recovering |-> FALSE, next |-> 0, left |-> 0]

SequenceNext(seq) == IF seq = Ring THEN 1 ELSE seq + 1

Expected(q) == IF q.last = 0 THEN 1 ELSE SequenceNext(q.last)

Cached(q, seq) == {e \in {q.cache[j] : j \in DOMAIN q.cache} : e.seq = seq}

Distance(q, seq) == (seq + Ring - Expected(q)) % Ring

Classify(q, m) ==
    CASE \E e \in Cached(q, m.seq) : e.n = m.n -> "duplicate"
      [] Cached(q, m.seq) # {} -> "conflict"
      [] Distance(q, m.seq) = 0 -> "deliver"
      [] Distance(q, m.seq) >= Ring \div 2 -> "stale"
      [] Distance(q, m.seq) > Republish -> "too_large"
      [] OTHER -> "gap"

\* wop_sequence_record; callers give it the expected message only.
Record(q, m) ==
    LET c == Append(q.cache, m)
    IN [q EXCEPT !.last = m.seq, !.cache = IF Len(c) > CacheSize THEN Tail(c) ELSE c]

Begin(q, m) ==
    [q EXCEPT !.recovering = TRUE, !.next = Expected(q), !.left = Distance(q, m.seq)]

\* wop_sequence_republished: an unavailable message, or another one than the
\* one requested, ends the recovery.
Republished(q, requested, available, m) ==
    IF ~q.recovering \/ requested # q.next \/ ~available \/ m.seq # requested
          \/ m.seq # Expected(q)
    THEN [v |-> "failed", q |-> [q EXCEPT !.recovering = FALSE]]
    ELSE LET r == Record(q, m)
         IN IF q.left > 1
            THEN [v |-> "continue", q |-> [r EXCEPT !.next = SequenceNext(m.seq), !.left = @ - 1]]
            ELSE [v |-> "complete", q |-> [r EXCEPT !.next = SequenceNext(m.seq), !.left = 0,
                                                   !.recovering = FALSE]]

=============================================================================
