--------------------------- MODULE AdmissionQueue ---------------------------
(***************************************************************************)
(* The state of a UDP socket owner's admission queue (wotex-udp,           *)
(* admission.ex) and the updates reserve/3, take/2 and release/2 compute   *)
(* from it, as functions of the state: Admission makes each of them one    *)
(* atomic step, AdmissionCAS a compare-and-replace loop.                   *)
(***************************************************************************)
EXTENDS Integers, FiniteSets

CONSTANTS
    Requests,   \* requests callers may submit, by id
    Op,         \* Op[r]: "send", "recv", "batch", "close" or "other"
    Size,       \* Size[r]: bytes of a send, 0 otherwise
    Poll,       \* Poll[r]: a send or receive with timeout 0
    MaxCalls,   \* max_pending_calls
    MaxBytes,   \* max_queued_send_bytes
    MaxTakes    \* bound: take/2 calls, each with a fresh notification

Operations == {"send", "recv", "batch", "close", "other"}

ASSUME AdmissionAssumption ==
    /\ Op \in [Requests -> Operations]
    /\ Size \in [Requests -> Nat] /\ Poll \in [Requests -> BOOLEAN]
    /\ \A r \in Requests : Op[r] # "send" => Size[r] = 0
    /\ MaxCalls \in Nat \ {0} /\ MaxBytes \in Nat /\ MaxTakes \in Nat

-----------------------------------------------------------------------------
Empty == [q \in {} |-> 0]

\* new/3
NewQueue ==
    [requests |-> Empty, bytes |-> 0, sequence |-> 0, note |-> 0,
     notified |-> FALSE, closing |-> FALSE]

Held(s) == DOMAIN s.requests

\* Mutant: one call too many.
VerdictOffByOne(s, r) ==
    IF s.closing THEN "closed"
    ELSE IF Cardinality(Held(s)) > MaxCalls \/ s.bytes + Size[r] > MaxBytes THEN "overload"
    ELSE IF Poll[r] /\ Cardinality(Held(s)) > 0 THEN "timeout"
    ELSE IF r \in Held(s) THEN "invalid"
    ELSE "ok"

\* The cond of reserve/3, in its order; "ok" when the request may be added.
Verdict(s, r) ==
    IF s.closing THEN "closed"
    ELSE IF Cardinality(Held(s)) >= MaxCalls \/ s.bytes + Size[r] > MaxBytes THEN "overload"
    ELSE IF Poll[r] /\ Cardinality(Held(s)) > 0 THEN "timeout"
    ELSE IF r \in Held(s) THEN "invalid"
    ELSE "ok"

\* Mutant: no notification behind another entry.
AdmittedSilently(s, r) ==
    [s EXCEPT
        !.requests = [q \in Held(s) \cup {r} |->
                        IF q = r THEN [seq |-> s.sequence + 1, claimed |-> FALSE]
                                 ELSE s.requests[q]],
        !.bytes = @ + Size[r], !.sequence = @ + 1,
        !.closing = (Op[r] = "close"), !.notified = (@ \/ Held(s) = {})]

\* Its last branch.
Admitted(s, r) ==
    [s EXCEPT
        !.requests = [q \in Held(s) \cup {r} |->
                        IF q = r THEN [seq |-> s.sequence + 1, claimed |-> FALSE]
                                 ELSE s.requests[q]],
        !.bytes = @ + Size[r],
        !.sequence = @ + 1,
        !.closing = (Op[r] = "close"),
        !.notified = TRUE]

\* take/2: claim what is unclaimed under a fresh notification.
Unclaimed(s) == {q \in Held(s) : ~s.requests[q].claimed}
Taken(s, note) ==
    [s EXCEPT !.requests = [q \in Held(s) |-> [s.requests[q] EXCEPT !.claimed = TRUE]],
              !.note = note, !.notified = FALSE]

\* release/2
Released(s, r) ==
    IF r \notin Held(s) THEN s
    ELSE [s EXCEPT !.requests = [q \in Held(s) \ {r} |-> s.requests[q]],
                   !.bytes = @ - Size[r],
                   !.closing = @ /\ Op[r] # "close"]

-----------------------------------------------------------------------------
(* What a state of the queue is, and what it promises *)

IsQueue(s) ==
    /\ DOMAIN s = {"requests", "bytes", "sequence", "note", "notified", "closing"}
    /\ Held(s) \subseteq Requests
    /\ s.requests \in [Held(s) -> [seq : Nat, claimed : BOOLEAN]]
    /\ s.bytes \in Int /\ s.sequence \in Nat /\ s.note \in Nat
    /\ s.notified \in BOOLEAN /\ s.closing \in BOOLEAN

Outcomes == {"none", "ok", "closed", "overload", "timeout", "invalid"}

\* A close is the youngest entry and bars any other until it is released, so
\* the owner, which takes entries by sequence, meets it last and stops with
\* nothing behind it.
CloseIsLast(s) ==
    /\ s.closing <=> \E r \in Held(s) : Op[r] = "close"
    /\ \A r, q \in Held(s) :
         Op[r] = "close" /\ q # r => s.requests[q].seq < s.requests[r].seq

\* Entries are ordered by the moment of their admission, without ties.
SequenceOrder(s) ==
    \A r, q \in Held(s) :
        /\ s.requests[r].seq \in 1..s.sequence
        /\ r # q => s.requests[r].seq # s.requests[q].seq
        /\ s.requests[r].claimed /\ ~s.requests[q].claimed
             => s.requests[r].seq < s.requests[q].seq

\* Never more calls than max_pending_calls.
CallsBounded(s) == Cardinality(Held(s)) <= MaxCalls

\* A published entry the owner has not taken always has a wakeup due for the
\* notification the owner took last.
WakeupDue(s) == Unclaimed(s) # {} => s.notified

\* What the queue promises its owner and its callers at every moment: closed
\* by its youngest entry, numbered by admission, within max_calls, and with a
\* wakeup due for every entry the owner has not taken.
Kept(s) == CloseIsLast(s) /\ SequenceOrder(s) /\ CallsBounded(s) /\ WakeupDue(s)
=============================================================================
