------------------------------- MODULE Queues -------------------------------
(***************************************************************************)
(* The :queue of Erlang, as connections and owners use it, is a sequence.  *)
(***************************************************************************)
EXTENDS Naturals, Sequences

\* No element twice.
Distinct(q) == \A i, j \in 1..Len(q) : q[i] = q[j] => i = j

Elements(q) == {q[i] : i \in 1..Len(q)}

\* :queue.filter(&(&1 not in X), q), from the front
WithoutAll(q, X) ==
    LET F[n \in 0..Len(q)] ==
            IF n = 0 THEN <<>>
            ELSE IF q[n] \in X THEN F[n - 1] ELSE Append(F[n - 1], q[n])
    IN F[Len(q)]

Without(q, x) == WithoutAll(q, {x})
=============================================================================
