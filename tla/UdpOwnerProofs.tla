--------------------------- MODULE UdpOwnerProofs ---------------------------
(***************************************************************************)
(* The UDP socket owner serves what it admitted, in order and once, for    *)
(* every set of requests and all limits.                                   *)
(***************************************************************************)
EXTENDS UdpOwner, QueuesProofs, FiniteSetTheorems

\* A well-formed queue that keeps its promises.
QueueInv(s) == IsQueue(s) /\ IsFiniteSet(Held(s)) /\ Kept(s)

-----------------------------------------------------------------------------
(* What each update does to the queue *)

LEMMA VerdictIsOutcome ==
  ASSUME NEW s, NEW r
  PROVE  Verdict(s, r) \in Outcomes
  BY DEF Verdict, Outcomes

LEMMA VerdictOk ==
  ASSUME NEW s, IsFiniteSet(Held(s)), NEW r, Verdict(s, r) = "ok"
  PROVE  ~s.closing /\ r \notin Held(s) /\ Cardinality(Held(s)) < MaxCalls
  <1>1. Cardinality(Held(s)) \in Nat
    BY FS_CardinalityType
  <1> QED BY <1>1, AdmissionAssumption DEF Verdict

LEMMA AdmittedShape ==
  ASSUME NEW s, IsQueue(s), NEW r \in Requests
  PROVE  /\ IsQueue(Admitted(s, r))
         /\ Held(Admitted(s, r)) = Held(s) \cup {r}
         /\ Admitted(s, r).sequence = s.sequence + 1
         /\ Admitted(s, r).note = s.note
         /\ Admitted(s, r).closing = (Op[r] = "close")
         /\ Admitted(s, r).notified = TRUE
         /\ Admitted(s, r).requests[r].seq = s.sequence + 1
         /\ Admitted(s, r).requests[r].claimed = FALSE
  BY AdmissionAssumption DEF IsQueue, Admitted, Held

LEMMA AdmittedOthers ==
  ASSUME NEW s, IsQueue(s), NEW r \in Requests
  PROVE  \A q \in Held(s) \ {r} : Admitted(s, r).requests[q] = s.requests[q]
  BY DEF IsQueue, Admitted, Held

LEMMA TakenShape ==
  ASSUME NEW s, IsQueue(s), NEW note \in Nat
  PROVE  /\ IsQueue(Taken(s, note))
         /\ Held(Taken(s, note)) = Held(s)
         /\ Taken(s, note).sequence = s.sequence
         /\ Taken(s, note).note = note
         /\ Taken(s, note).closing = s.closing
         /\ \A q \in Held(s) : /\ Taken(s, note).requests[q].claimed = TRUE
                               /\ Taken(s, note).requests[q].seq = s.requests[q].seq
  BY DEF IsQueue, Taken, Held

LEMMA ReleasedShape ==
  ASSUME NEW s, IsQueue(s), NEW r \in Held(s)
  PROVE  /\ IsQueue(Released(s, r))
         /\ Held(Released(s, r)) = Held(s) \ {r}
         /\ Released(s, r).sequence = s.sequence
         /\ Released(s, r).note = s.note
         /\ Released(s, r).closing = (s.closing /\ Op[r] # "close")
         /\ Released(s, r).notified = s.notified
         /\ \A q \in Held(s) \ {r} : Released(s, r).requests[q] = s.requests[q]
  BY AdmissionAssumption DEF IsQueue, Released, Held

-----------------------------------------------------------------------------
(* The promises *)

\* A new queue keeps its promises.
LEMMA NewQueueKept ==
  /\ QueueInv(NewQueue) /\ Held(NewQueue) = {}
  /\ NewQueue.note = 0 /\ NewQueue.sequence = 0
  <1>1. /\ IsQueue(NewQueue) /\ Held(NewQueue) = {}
        /\ NewQueue.closing = FALSE /\ NewQueue.note = 0 /\ NewQueue.sequence = 0
    BY DEF IsQueue, NewQueue, Held, Empty
  <1>2. IsFiniteSet({}) /\ Cardinality({}) = 0
    BY FS_EmptySet
  <1>3. CloseIsLast(NewQueue) /\ SequenceOrder(NewQueue) /\ WakeupDue(NewQueue)
    BY <1>1 DEF CloseIsLast, SequenceOrder, WakeupDue, Unclaimed
  <1>4. CallsBounded(NewQueue)
    BY <1>1, <1>2, AdmissionAssumption DEF CallsBounded
  <1> QED BY <1>1, <1>2, <1>3, <1>4 DEF QueueInv, Kept

\* reserve/3 adds only what its cond let through.
LEMMA AdmittedKept ==
  ASSUME NEW s, QueueInv(s), NEW r \in Requests, Verdict(s, r) = "ok"
  PROVE  QueueInv(Admitted(s, r))
  <1> DEFINE t == Admitted(s, r)
  <1>1. IsQueue(s) /\ IsFiniteSet(Held(s)) /\ s.sequence \in Nat
    BY DEF QueueInv, IsQueue
  <1>2. ~s.closing /\ r \notin Held(s) /\ Cardinality(Held(s)) < MaxCalls
    BY <1>1, VerdictOk
  <1>3. /\ IsQueue(t) /\ Held(t) = Held(s) \cup {r}
        /\ t.sequence = s.sequence + 1 /\ t.closing = (Op[r] = "close") /\ t.notified = TRUE
        /\ t.requests[r].seq = s.sequence + 1 /\ t.requests[r].claimed = FALSE
    BY <1>1, AdmittedShape
  <1>4. \A q \in Held(s) : t.requests[q] = s.requests[q]
    BY <1>1, <1>2, AdmittedOthers
  <1> HIDE DEF t
  <1>5. \A q \in Held(s) : s.requests[q].seq \in 1..s.sequence /\ Op[q] # "close"
    BY <1>2 DEF QueueInv, Kept, SequenceOrder, CloseIsLast
  <1>6. CloseIsLast(t)
    <2>1. t.closing <=> \E q \in Held(t) : Op[q] = "close"
      BY <1>3, <1>5
    <2>2. \A q \in Held(s) : t.requests[q].seq < t.requests[r].seq
      BY <1>1, <1>3, <1>4, <1>5
    <2> QED BY <1>3, <1>5, <2>1, <2>2 DEF CloseIsLast
  <1>7. SequenceOrder(t)
    <2>1. SequenceOrder(s)
      BY DEF QueueInv, Kept
    <2> QED BY <1>1, <1>2, <1>3, <1>4, <1>5, <2>1 DEF SequenceOrder
  <1>8. IsFiniteSet(Held(t)) /\ Cardinality(Held(t)) = Cardinality(Held(s)) + 1
    BY <1>1, <1>2, <1>3, FS_AddElement
  <1>9. CallsBounded(t)
    <2>1. Cardinality(Held(s)) \in Nat
      BY <1>1, FS_CardinalityType
    <2> QED BY <1>2, <1>8, <2>1, AdmissionAssumption DEF CallsBounded
  <1>10. WakeupDue(t)
    BY <1>3 DEF WakeupDue
  <1>11. QueueInv(t)
    BY <1>3, <1>6, <1>7, <1>8, <1>9, <1>10 DEF QueueInv, Kept
  <1> QED BY <1>11 DEF t

LEMMA TakenKept ==
  ASSUME NEW s, QueueInv(s), NEW note \in Nat
  PROVE  QueueInv(Taken(s, note))
  <1> DEFINE t == Taken(s, note)
  <1>1. IsQueue(s) /\ IsFiniteSet(Held(s)) /\ CloseIsLast(s) /\ SequenceOrder(s) /\ CallsBounded(s)
    BY DEF QueueInv, Kept
  <1>2. /\ IsQueue(t) /\ Held(t) = Held(s)
        /\ t.sequence = s.sequence /\ t.closing = s.closing
        /\ \A q \in Held(s) : /\ t.requests[q].claimed = TRUE
                              /\ t.requests[q].seq = s.requests[q].seq
    BY <1>1, TakenShape
  <1> HIDE DEF t
  <1>3. CloseIsLast(t) /\ CallsBounded(t)
    BY <1>1, <1>2 DEF CloseIsLast, CallsBounded
  <1>4. SequenceOrder(t)
    BY <1>1, <1>2 DEF SequenceOrder
  <1>5. WakeupDue(t)
    BY <1>2 DEF WakeupDue, Unclaimed
  <1>6. QueueInv(t)
    BY <1>1, <1>2, <1>3, <1>4, <1>5 DEF QueueInv, Kept
  <1> QED BY <1>6 DEF t

LEMMA ReleasedKept ==
  ASSUME NEW s, QueueInv(s), NEW r \in Held(s)
  PROVE  QueueInv(Released(s, r))
  <1> DEFINE t == Released(s, r)
  <1>1. /\ IsQueue(s) /\ IsFiniteSet(Held(s)) /\ CloseIsLast(s) /\ SequenceOrder(s)
        /\ CallsBounded(s) /\ WakeupDue(s)
    BY DEF QueueInv, Kept
  <1>2. /\ IsQueue(t) /\ Held(t) = Held(s) \ {r}
        /\ t.sequence = s.sequence /\ t.notified = s.notified
        /\ t.closing = (s.closing /\ Op[r] # "close")
        /\ \A q \in Held(s) \ {r} : t.requests[q] = s.requests[q]
    BY <1>1, ReleasedShape
  <1> HIDE DEF t
  <1>3. ASSUME NEW p \in Held(s), NEW q \in Held(s), Op[p] = "close", Op[q] = "close"
        PROVE  p = q
    <2>1. s.requests[p].seq \in Nat /\ s.requests[q].seq \in Nat
      BY <1>1 DEF IsQueue
    <2> QED BY <1>1, <1>3, <2>1 DEF CloseIsLast
  <1>4. CloseIsLast(t)
    <2>1. s.closing <=> \E q \in Held(s) : Op[q] = "close"
      BY <1>1 DEF CloseIsLast
    <2>2. t.closing <=> \E q \in Held(t) : Op[q] = "close"
      BY <1>2, <1>3, <2>1
    <2> QED BY <1>1, <1>2, <2>2 DEF CloseIsLast
  <1>5. SequenceOrder(t)
    BY <1>1, <1>2 DEF SequenceOrder
  <1>6. WakeupDue(t)
    BY <1>1, <1>2 DEF WakeupDue, Unclaimed
  <1>7. IsFiniteSet(Held(t)) /\ Cardinality(Held(t)) = Cardinality(Held(s)) - 1
    BY <1>1, <1>2, FS_RemoveElement
  <1>8. CallsBounded(t)
    <2>1. Cardinality(Held(s)) \in Nat
      BY <1>1, FS_CardinalityType
    <2> QED BY <1>1, <1>7, <2>1, AdmissionAssumption DEF CallsBounded
  <1>9. QueueInv(t)
    BY <1>2, <1>4, <1>5, <1>6, <1>7, <1>8 DEF QueueInv, Kept
  <1> QED BY <1>9 DEF t

-----------------------------------------------------------------------------

\* The entries of the queue that the owner has taken.
Claimed(s) == {r \in Held(s) : s.requests[r].claimed}

\* What holds at the points where the owner waits or changes hands: a batch
\* exists only while it is ingested and ends in a close, no alias is active
\* during a take, and no select is armed for a request about to be tried.
Resting ==
    opc # "dead" =>
        /\ opc \notin {"ingest", "closing"} => batch = {}
        /\ opc = "take" => alias = -1 /\ wakes = {}
        /\ opc = "step" => armed = {}
        /\ opc = "closing" => \E r \in Requests : batch = {r} /\ Op[r] = "close"
        /\ \A e \in events : e.ref \notin armed

\* A caller that owes a wakeup knows for which notification.
Owed == \A r \in Requests : cpc[r] = "wake" => wakeNote[r] # -1

\* What is pending was admitted before what is still to be ingested.
BatchOrder ==
    opc # "dead" =>
        \A p \in pending, b \in batch : adm.requests[p].seq < adm.requests[b].seq

\* While the owner lives, the answered requests are the admitted ones that have
\* left the queue.
Ledger ==
    /\ \A r \in Held(adm) : outcome[r] = "ok"
    /\ opc # "dead" =>
         \A r \in Requests :
            replies[r] = IF outcome[r] = "ok" /\ r \notin Held(adm) THEN 1 ELSE 0
    /\ Answers

IInv ==
    /\ TypeOK /\ QueueInv(adm) /\ Bookkeeping /\ FifoService /\ SelectOwnership
    /\ BatchOrder /\ Resting /\ Owed /\ Ledger

-----------------------------------------------------------------------------
\* Admission, instantiated, speaks of the same queue.
LEMMA SameQueue ==
  ASSUME NEW s, NEW r
  PROVE  /\ Q!NewQueue = NewQueue /\ Q!Verdict(s, r) = Verdict(s, r)
         /\ Q!Admitted(s, r) = Admitted(s, r) /\ Q!Taken(s, r) = Taken(s, r)
  <1>1. Q!Held(s) = Held(s)
    BY DEF Q!Held, Held
  <1>2. Q!Verdict(s, r) = Verdict(s, r)
    BY <1>1 DEF Q!Verdict, Verdict, Q!Cardinality, Cardinality
  <1>3. Q!Admitted(s, r) = Admitted(s, r)
    BY <1>1 DEF Q!Admitted, Admitted
  <1>4. Q!Taken(s, r) = Taken(s, r)
    BY <1>1 DEF Q!Taken, Taken
  <1>5. Q!NewQueue = NewQueue
    BY DEF Q!NewQueue, NewQueue, Q!Empty, Empty
  <1> QED BY <1>2, <1>3, <1>4, <1>5

\* Whatever is pending has been taken and is still in the queue.
LEMMA PendingHeld ==
  ASSUME IInv, opc # "dead"
  PROVE  /\ pending \subseteq Held(adm) /\ batch \subseteq Held(adm) /\ Held(adm) \subseteq Requests
         /\ pending \cap batch = {} /\ IsQueue(adm)
         /\ Claimed(adm) = pending \cup batch
         /\ queue \in Seq(Requests) /\ Distinct(queue) /\ active \notin Elements(queue)
         /\ pending = Elements(queue) \cup ({active} \ {None})
  BY DEF IInv, TypeOK, Bookkeeping, Claimed, Queued, IsQueue

\* The rank of a request in the order of admission.
Rank == [r \in Requests |-> adm.requests[r].seq]

\* finish/3: the request leaves the queue, the maps and the socket together,
\* and has its one answer.
LEMMA FinishKeeps ==
  ASSUME IInv, NEW r \in pending, NEW result \in Results, Finish(r, result),
         opc \in {"idle", "step", "closing"},
         opc' = (IF opc = "closing" THEN "closing" ELSE "advance"),
         events' \subseteq events
  PROVE  IInv'
  <1>1. /\ opc # "dead" /\ opc' # "dead" /\ TypeOK /\ QueueInv(adm) /\ r \in Requests
        /\ r \in Held(adm) /\ r \notin batch
        /\ pending \subseteq Held(adm) /\ batch \subseteq Held(adm)
    BY PendingHeld DEF IInv
  <1>2. /\ adm' = Released(adm, r) /\ UNCHANGED <<outcome, cpc, live, wakeNote, expired, alias, wakes>>
        /\ UNCHANGED <<batch, count, refs, crashed>>
        /\ replies' = [replies EXCEPT ![r] = @ + 1]
        /\ pending' = pending \ {r} /\ queue' = Without(queue, r)
        /\ active' = (IF active = r THEN None ELSE active)
        /\ armed' = armed \ {sel[r]} /\ sel' = [sel EXCEPT ![r] = 0]
        /\ inbox' \in {inbox, [inbox EXCEPT ![r] = result]}
    BY DEF Finish, Respond, Disarm
  <1>3. /\ QueueInv(adm') /\ IsQueue(adm') /\ Held(adm') = Held(adm) \ {r} /\ adm'.note = adm.note
        /\ \A q \in Held(adm) \ {r} : adm'.requests[q] = adm.requests[q]
    <2>1. IsQueue(adm)
      BY PendingHeld, <1>1
    <2> QED BY <1>1, <1>2, <2>1, ReleasedShape, ReleasedKept DEF QueueInv
  <1>4. /\ queue' \in Seq(Requests) /\ Elements(queue') = Elements(queue) \ {r} /\ Distinct(queue')
        /\ active \notin Elements(queue)
        /\ pending = Elements(queue) \cup ({active} \ {None})
    BY <1>1, <1>2, PendingHeld, WithoutElements
  <1>5. TypeOK'
    <2>1. /\ cpc' \in [Requests -> {"idle", "wake", "waiting", "done"}]
          /\ live' \subseteq Requests /\ expired' \subseteq Requests
          /\ wakeNote' \in [Requests -> Nat \cup {-1}]
          /\ opc' \in {"idle", "take", "ingest", "closing", "advance", "step", "dead"}
          /\ alias' \in {-1, adm'.note} /\ wakes' \subseteq {alias'}
          /\ batch' \subseteq Requests /\ pending' \subseteq Requests
          /\ outcome' \in [Requests -> Outcomes]
      BY <1>1, <1>2, <1>3 DEF TypeOK
    <2>2. inbox' \in [Requests -> Results]
      BY <1>1, <1>2 DEF TypeOK
    <2>3. /\ active' \in Requests \cup {None}
          /\ sel' \in [Requests -> Nat] /\ count' \in [Requests -> Nat]
          /\ refs' \in Nat /\ armed' \subseteq 1..refs'
          /\ events' \subseteq [ref : 1..refs', kind : {"select", "abort"}]
      BY <1>1, <1>2 DEF TypeOK
    <2>4. replies' \in [Requests -> Nat] /\ crashed' \in BOOLEAN
      BY <1>1, <1>2 DEF TypeOK
    <2> QED BY <1>3, <1>4, <2>1, <2>2, <2>3, <2>4 DEF TypeOK
  <1>6. Bookkeeping'
    <2>1. Claimed(adm') = Claimed(adm) \ {r}
      BY <1>3 DEF Claimed
    <2>2. Claimed(adm') = pending' \cup batch' /\ pending' \cap batch' = {}
      BY <1>1, <1>2, <2>1, PendingHeld
    <2>3. pending' = Elements(queue') \cup ({active'} \ {None}) /\ active' \notin Elements(queue')
      <3>1. None \notin Elements(queue)
        BY <1>1, <1>4, PendingHeld, OwnerAssumption
      <3> QED BY <1>2, <1>4, <3>1
    <2>4. opc' # "step"
      OBVIOUS
    <2> QED BY <1>4, <2>2, <2>3, <2>4 DEF Bookkeeping, Claimed, Queued
  <1>7. FifoService'
    <2>1. /\ \A i, j \in 1..Len(queue) :
               i < j => adm.requests[queue[i]].seq < adm.requests[queue[j]].seq
          /\ active # None =>
               \A q \in Elements(queue) : adm.requests[active].seq < adm.requests[q].seq
      BY <1>1 DEF IInv, FifoService, Queued
    <2>2. /\ queue \in Seq(Requests)
          /\ \A i \in 1..Len(queue) : queue[i] \in Requests
      BY <1>1 DEF TypeOK
    <2>3. \A i, j \in 1..Len(queue) : i < j => Rank[queue[i]] < Rank[queue[j]]
      BY <2>1, <2>2 DEF Rank
    <2>4. \A i, j \in 1..Len(queue') : i < j => Rank[queue'[i]] < Rank[queue'[j]]
      BY <1>2, <2>2, <2>3, WithoutSorted
    <2>5. \A i \in 1..Len(queue') : queue'[i] \in Elements(queue')
      BY DEF Elements
    <2>6. \A q \in Elements(queue') :
            q \in Requests /\ q # r /\ q \in Elements(queue) /\ adm'.requests[q].seq = Rank[q]
      BY <1>1, <1>3, <1>4, PendingHeld DEF Rank
    <2>7. \A i, j \in 1..Len(queue') :
            i < j => adm'.requests[queue'[i]].seq < adm'.requests[queue'[j]].seq
      BY <2>4, <2>5, <2>6
    <2>8. ASSUME active' # None, NEW q \in Elements(queue')
          PROVE  adm'.requests[active'].seq < adm'.requests[q].seq
      <3>1. active' = active /\ active # r /\ active \in pending
        BY <1>2, <1>4, <2>8
      <3>2. adm'.requests[active] = adm.requests[active] /\ adm'.requests[q] = adm.requests[q]
        BY <1>1, <1>3, <1>4, <2>6, <3>1
      <3> QED BY <2>1, <2>6, <2>8, <3>1, <3>2
    <2> QED BY <2>7, <2>8 DEF FifoService, Queued
  <1>8. SelectOwnership'
    BY <1>1, <1>2 DEF IInv, SelectOwnership, TypeOK
  <1>9. BatchOrder'
    <2>1. \A p \in pending, b \in batch : adm.requests[p].seq < adm.requests[b].seq
      BY <1>1 DEF IInv, BatchOrder
    <2>2. \A p \in pending \ {r} : adm'.requests[p] = adm.requests[p]
      BY <1>1, <1>3
    <2>3. \A b \in batch : adm'.requests[b] = adm.requests[b]
      BY <1>1, <1>3
    <2> QED BY <1>2, <2>1, <2>2, <2>3 DEF BatchOrder
  <1>10. Resting'
    BY <1>1, <1>2 DEF IInv, Resting
  <1>11. Owed'
    BY <1>2 DEF IInv, Owed
  <1>12. Ledger'
    <2>1. /\ \A q \in Held(adm) : outcome[q] = "ok"
          /\ \A q \in Requests :
               replies[q] = IF outcome[q] = "ok" /\ q \notin Held(adm) THEN 1 ELSE 0
      BY <1>1 DEF IInv, Ledger
    <2>2. \A q \in Requests :
            replies'[q] = IF outcome'[q] = "ok" /\ q \notin Held(adm') THEN 1 ELSE 0
      BY <1>1, <1>2, <1>3, <2>1 DEF TypeOK
    <2>3. Answers'
      BY <1>1, <2>2 DEF Answers, AnsweredOnce, CloseAnswersAll
    <2> QED BY <1>2, <1>3, <2>1, <2>2, <2>3 DEF Ledger
  <1> QED BY <1>3, <1>5, <1>6, <1>7, <1>8, <1>9, <1>10, <1>11, <1>12 DEF IInv

-----------------------------------------------------------------------------
(* The callers *)

\* A step that leaves the queue and the owner's work alone.
LEMMA WorkStays ==
  ASSUME IInv, UNCHANGED <<queueVars, batch, workVars, replies, crashed>>,
         opc' = "dead" <=> opc = "dead", opc' = "step" => opc = "step"
  PROVE  QueueInv(adm') /\ Bookkeeping' /\ FifoService' /\ BatchOrder' /\ Ledger'
  <1> USE DEF queueVars, workVars
  <1>1. QueueInv(adm') /\ Bookkeeping' /\ FifoService' /\ BatchOrder'
    BY DEF IInv, Bookkeeping, FifoService, BatchOrder, Queued
  <1>2. Ledger'
    BY DEF IInv, Ledger, Answers, AnsweredOnce, CloseAnswersAll
  <1> QED BY <1>1, <1>2

LEMMA CallerKeeps ==
  ASSUME IInv, NEW r \in Requests, Wake(r) \/ Return(r) \/ CallerDies(r) \/ Expire(r)
  PROVE  IInv'
  <1>1. /\ UNCHANGED <<queueVars, inbox, opc, alias, batch, workVars, socketVars, replies, crashed>>
        /\ cpc' \in {cpc, [cpc EXCEPT ![r] = "waiting"], [cpc EXCEPT ![r] = "done"]}
        /\ wakeNote' \in {wakeNote, [wakeNote EXCEPT ![r] = -1]}
        /\ wakeNote' # wakeNote => cpc' = [cpc EXCEPT ![r] = "waiting"]
        /\ live' \subseteq live /\ expired' \subseteq expired \cup {r}
        /\ wakes' \in {wakes, wakes \cup {alias}}
        /\ wakes' # wakes => opc # "dead" /\ alias = wakeNote[r] /\ cpc[r] = "wake"
    BY DEF Wake, Return, CallerDies, Expire, Finished, callerVars
  <1>2. TypeOK
    BY DEF IInv
  <1> USE DEF queueVars, workVars, socketVars
  <1>3. TypeOK'
    <2>1. /\ cpc' \in [Requests -> {"idle", "wake", "waiting", "done"}]
          /\ live' \subseteq Requests /\ expired' \subseteq Requests
          /\ wakeNote' \in [Requests -> Nat \cup {-1}]
      BY <1>1, <1>2 DEF TypeOK
    <2>2. opc' # "dead" => alias' \in {-1, adm'.note} /\ wakes' \subseteq {alias'}
      BY <1>1, <1>2 DEF TypeOK
    <2> QED BY <1>1, <1>2, <2>1, <2>2 DEF TypeOK
  <1>4. QueueInv(adm') /\ Bookkeeping' /\ FifoService' /\ BatchOrder' /\ Ledger'
    BY <1>1, WorkStays
  <1>5. SelectOwnership'
    BY <1>1 DEF IInv, SelectOwnership
  <1>6. Resting'
    BY <1>1 DEF IInv, Resting, Owed
  <1>7. Owed'
    BY <1>1, <1>2 DEF IInv, Owed, TypeOK
  <1> QED BY <1>3, <1>4, <1>5, <1>6, <1>7 DEF IInv

\* enqueue/2 adds an entry that is unclaimed and younger than all others.
LEMMA EnqueueKeeps ==
  ASSUME IInv, NEW r \in Requests, opc # "dead", Verdict(adm, r) = "ok",
         adm' = Admitted(adm, r), outcome[r] = "none", outcome' = [outcome EXCEPT ![r] = "ok"],
         wakeNote' = [wakeNote EXCEPT ![r] = IF adm.notified THEN -1 ELSE adm.note],
         cpc' = [cpc EXCEPT ![r] = IF adm.notified THEN "waiting" ELSE "wake"],
         UNCHANGED <<inbox, live, expired, opc, alias, wakes, batch, workVars,
                     socketVars, replies, crashed>>
  PROVE  IInv'
  <1>1. /\ TypeOK /\ QueueInv(adm) /\ IsQueue(adm) /\ r \notin Held(adm) /\ adm.note \in Nat
    BY VerdictOk DEF IInv, QueueInv, IsQueue
  <1>2. /\ QueueInv(adm') /\ IsQueue(adm') /\ Held(adm') = Held(adm) \cup {r}
        /\ adm'.note = adm.note /\ adm'.requests[r].claimed = FALSE
        /\ \A q \in Held(adm) : adm'.requests[q] = adm.requests[q]
    <2>1. QueueInv(adm')
      BY <1>1, AdmittedKept
    <2>2. /\ IsQueue(adm') /\ Held(adm') = Held(adm) \cup {r}
          /\ adm'.note = adm.note /\ adm'.requests[r].claimed = FALSE
      BY <1>1, AdmittedShape
    <2>3. \A q \in Held(adm) : adm'.requests[q] = adm.requests[q]
      BY <1>1, AdmittedOthers
    <2> QED BY <2>1, <2>2, <2>3
  <1>3. /\ pending \subseteq Held(adm) /\ batch \subseteq Held(adm)
        /\ Elements(queue) \subseteq Held(adm) /\ active \in Held(adm) \cup {None}
    BY PendingHeld DEF IInv, TypeOK
  <1> USE DEF queueVars, workVars, socketVars
  <1>4. TypeOK'
    <2>1. /\ cpc' \in [Requests -> {"idle", "wake", "waiting", "done"}]
          /\ wakeNote' \in [Requests -> Nat \cup {-1}]
      BY <1>1 DEF TypeOK
    <2>2. outcome' \in [Requests -> Outcomes]
      BY <1>1 DEF TypeOK, Outcomes
    <2> QED BY <1>1, <1>2, <2>1, <2>2 DEF TypeOK
  <1>5. Bookkeeping'
    <2>1. Claimed(adm') = Claimed(adm)
      BY <1>2 DEF Claimed
    <2> QED BY <2>1 DEF IInv, Bookkeeping, Claimed, Queued
  <1>6. FifoService'
    <2>1. \A i \in 1..Len(queue) : queue[i] \in Elements(queue)
      BY DEF Elements
    <2>2. \A i \in 1..Len(queue) : adm'.requests[queue[i]] = adm.requests[queue[i]]
      BY <1>2, <1>3, <2>1
    <2>3. active # None => adm'.requests[active] = adm.requests[active]
      BY <1>2, <1>3
    <2>4. \A q \in Elements(queue) : adm'.requests[q] = adm.requests[q]
      BY <1>2, <1>3
    <2> QED BY <2>2, <2>3, <2>4 DEF IInv, FifoService, Queued
  <1>7. BatchOrder'
    <2>1. \A p \in pending : adm'.requests[p] = adm.requests[p]
      BY <1>2, <1>3
    <2>2. \A b \in batch : adm'.requests[b] = adm.requests[b]
      BY <1>2, <1>3
    <2> QED BY <2>1, <2>2 DEF IInv, BatchOrder
  <1>8. SelectOwnership' /\ Resting'
    BY DEF IInv, SelectOwnership, Resting
  <1>9. Owed'
    BY <1>1 DEF IInv, Owed, TypeOK
  <1>10. Ledger'
    <2>1. /\ \A q \in Held(adm) : outcome[q] = "ok"
          /\ \A q \in Requests :
               replies[q] = IF outcome[q] = "ok" /\ q \notin Held(adm) THEN 1 ELSE 0
      BY DEF IInv, Ledger
    <2>2. \A q \in Held(adm') : outcome'[q] = "ok"
      BY <1>1, <1>2, <2>1 DEF TypeOK, IsQueue
    <2>3. \A q \in Requests :
            replies'[q] = IF outcome'[q] = "ok" /\ q \notin Held(adm') THEN 1 ELSE 0
      BY <1>1, <1>2, <2>1 DEF TypeOK
    <2>4. Answers'
      BY <2>3 DEF Answers, AnsweredOnce, CloseAnswersAll
    <2> QED BY <2>2, <2>3, <2>4 DEF Ledger
  <1> QED BY <1>2, <1>4, <1>5, <1>6, <1>7, <1>8, <1>9, <1>10 DEF IInv

\* A refusal, and a call after the owner's end, change only the answer.
LEMMA RefusedKeeps ==
  ASSUME IInv, NEW r \in Requests, NEW o \in Outcomes \ {"ok"}, outcome[r] = "none",
         outcome' = [outcome EXCEPT ![r] = o], opc # "dead", Finished(r),
         UNCHANGED <<adm, wakeNote, inbox, live, expired, opc, alias, wakes, batch, workVars,
                     socketVars, replies, crashed>>
  PROVE  IInv'
  <1> USE DEF workVars, socketVars
  <1>1. TypeOK /\ QueueInv(adm')
    BY DEF IInv
  <1>2. TypeOK'
    <2>1. cpc' \in [Requests -> {"idle", "wake", "waiting", "done"}]
      BY <1>1 DEF TypeOK, Finished
    <2>2. outcome' \in [Requests -> Outcomes]
      BY <1>1 DEF TypeOK
    <2> QED BY <1>1, <2>1, <2>2 DEF TypeOK
  <1>3. Bookkeeping' /\ FifoService' /\ BatchOrder'
    BY DEF IInv, Bookkeeping, FifoService, BatchOrder, Queued
  <1>4. SelectOwnership' /\ Resting'
    BY DEF IInv, SelectOwnership, Resting
  <1>5. Owed'
    BY <1>1 DEF IInv, Owed, TypeOK, Finished
  <1>6. Ledger'
    <2>1. /\ \A q \in Held(adm) : outcome[q] = "ok"
          /\ \A q \in Requests :
               replies[q] = IF outcome[q] = "ok" /\ q \notin Held(adm) THEN 1 ELSE 0
      BY DEF IInv, Ledger
    <2>2. \A q \in Requests : outcome'[q] = "ok" <=> outcome[q] = "ok"
      BY <1>1 DEF TypeOK
    <2>3. Held(adm) \subseteq Requests
      BY <1>1 DEF TypeOK, IsQueue
    <2>4. Answers'
      BY <2>1, <2>2 DEF Answers, AnsweredOnce, CloseAnswersAll
    <2> QED BY <2>1, <2>2, <2>3, <2>4 DEF Ledger
  <1> QED BY <1>1, <1>2, <1>3, <1>4, <1>5, <1>6 DEF IInv

LEMMA SubmitKeeps == ASSUME IInv, NEW r \in Requests, Submit(r) PROVE IInv'
  <1> USE DEF queueVars
  <1>1. CASE opc = "dead"
    <2>1. /\ UNCHANGED <<queueVars, wakeNote, inbox, live, expired, opc, alias, wakes, batch,
                         workVars, socketVars, replies, crashed>>
          /\ cpc' = [cpc EXCEPT ![r] = "done"]
      BY <1>1 DEF Submit, Finished
    <2> USE DEF workVars, socketVars
    <2>2. TypeOK' /\ Owed'
      BY <2>1 DEF IInv, TypeOK, Owed
    <2>3. QueueInv(adm') /\ Bookkeeping' /\ FifoService' /\ BatchOrder' /\ Ledger'
      BY <2>1, WorkStays
    <2> QED BY <1>1, <2>1, <2>2, <2>3 DEF IInv, SelectOwnership, Resting
  <1>2. CASE opc # "dead" /\ Q!Enqueue(r)
    <2>1. Verdict(adm, r) = "ok" /\ adm' = Admitted(adm, r) /\ outcome[r] = "none"
          /\ outcome' = [outcome EXCEPT ![r] = "ok"]
      BY <1>2, SameQueue DEF Q!Enqueue, Q!Answer
    <2>2. adm' # adm
      <3>1. IsQueue(adm) /\ adm.sequence \in Nat
        BY DEF IInv, QueueInv, IsQueue
      <3>2. adm'.sequence = adm.sequence + 1
        BY <2>1, <3>1, AdmittedShape
      <3> QED BY <3>1, <3>2
    <2> QED BY <1>2, <2>1, <2>2, EnqueueKeeps DEF Submit, Q!Refuse, Q!Contend
  <1>3. CASE opc # "dead" /\ (Q!Refuse(r) \/ Q!Contend(r))
    <2>1. PICK o \in Outcomes \ {"ok"} :
            outcome[r] = "none" /\ outcome' = [outcome EXCEPT ![r] = o] /\ UNCHANGED adm
      BY <1>3, SameQueue, VerdictIsOutcome DEF Q!Refuse, Q!Contend, Q!Answer, Outcomes
    <2>2. outcome' # [outcome EXCEPT ![r] = "ok"]
      BY <2>1 DEF IInv, TypeOK
    <2> QED BY <1>3, <2>1, <2>2, RefusedKeeps DEF Submit, Q!Enqueue, Q!Answer
  <1> QED BY <1>1, <1>2, <1>3 DEF Submit

-----------------------------------------------------------------------------
(* The owner takes and ingests *)

LEMMA PumpKeeps == ASSUME IInv, opc = "idle", StartPump PROVE IInv'
  <1> USE DEF queueVars, callerVars, workVars, socketVars
  <1>1. /\ opc' = "take" /\ alias' = -1 /\ wakes' = {}
        /\ UNCHANGED <<queueVars, callerVars, expired, batch, workVars, socketVars,
                       replies, crashed>>
    BY DEF StartPump
  <1>2. TypeOK'
    BY <1>1 DEF IInv, TypeOK
  <1>3. QueueInv(adm') /\ Bookkeeping' /\ FifoService' /\ BatchOrder' /\ Ledger'
    BY <1>1, WorkStays
  <1>4. SelectOwnership' /\ Resting' /\ Owed'
    BY <1>1 DEF IInv, SelectOwnership, Resting, Owed
  <1> QED BY <1>2, <1>3, <1>4 DEF IInv

\* What a take claims is younger than everything claimed before.
LEMMA TakeKeeps == ASSUME IInv, TakeWork PROVE IInv'
  <1> USE DEF queueVars, callerVars, workVars, socketVars
  <1>1. /\ opc = "take" /\ opc' = "ingest" /\ alias' = adm.note + 1 /\ batch' = Unclaimed(adm)
        /\ UNCHANGED <<outcome, callerVars, expired, wakes, workVars, socketVars, replies, crashed>>
        /\ adm' = Taken(adm, adm.note + 1)
    BY SameQueue DEF TakeWork, Q!Take
  <1>2. /\ TypeOK /\ QueueInv(adm) /\ IsQueue(adm) /\ adm.note \in Nat
        /\ batch = {} /\ wakes = {}
    BY <1>1 DEF IInv, QueueInv, IsQueue, Resting
  <1>3. QueueInv(adm')
    BY <1>1, <1>2, TakenKept
  <1>4. /\ IsQueue(adm') /\ Held(adm') = Held(adm) /\ adm'.note = adm.note + 1
        /\ \A q \in Held(adm) : /\ adm'.requests[q].claimed = TRUE
                                /\ adm'.requests[q].seq = adm.requests[q].seq
    <2>1. adm.note + 1 \in Nat
      BY <1>2
    <2> QED BY <1>1, <1>2, <2>1, TakenShape
  <1>5. /\ pending \subseteq Held(adm) /\ Held(adm) \subseteq Requests
        /\ Claimed(adm) = pending
        /\ Elements(queue) \subseteq Held(adm) /\ active \in Held(adm) \cup {None}
    BY <1>1, <1>2, PendingHeld DEF TypeOK
  <1>6. Claimed(adm) \cup Unclaimed(adm) = Held(adm) /\ Claimed(adm) \cap Unclaimed(adm) = {}
    BY DEF Claimed, Unclaimed
  <1>7. TypeOK'
    <2>1. batch' \subseteq Requests
      BY <1>1, <1>5, <1>6
    <2> QED BY <1>1, <1>2, <1>4, <2>1 DEF TypeOK
  <1>8. Bookkeeping'
    <2>1. Claimed(adm') = Held(adm)
      BY <1>4 DEF Claimed
    <2>2. Claimed(adm') = pending' \cup batch' /\ pending' \cap batch' = {}
      BY <1>1, <1>5, <1>6, <2>1
    <2> QED BY <1>1, <2>2 DEF IInv, Bookkeeping, Claimed, Queued
  <1>9. FifoService'
    <2>1. \A i \in 1..Len(queue) : queue[i] \in Elements(queue)
      BY DEF Elements
    <2>2. \A i \in 1..Len(queue) : adm'.requests[queue[i]].seq = adm.requests[queue[i]].seq
      BY <1>4, <1>5, <2>1
    <2>3. active # None => adm'.requests[active].seq = adm.requests[active].seq
      BY <1>4, <1>5
    <2>4. \A q \in Elements(queue) : adm'.requests[q].seq = adm.requests[q].seq
      BY <1>4, <1>5
    <2> QED BY <1>1, <2>2, <2>3, <2>4 DEF IInv, FifoService, Queued
  <1>10. BatchOrder'
    <2>1. SequenceOrder(adm)
      BY <1>2 DEF QueueInv, Kept
    <2>2. \A p \in Claimed(adm), b \in Unclaimed(adm) : adm.requests[p].seq < adm.requests[b].seq
      BY <2>1 DEF SequenceOrder, Claimed, Unclaimed
    <2>3. \A p \in pending, b \in Unclaimed(adm) : adm'.requests[p].seq < adm'.requests[b].seq
      BY <1>4, <1>5, <1>6, <2>2
    <2> QED BY <1>1, <2>3 DEF BatchOrder
  <1>11. SelectOwnership' /\ Resting' /\ Owed'
    BY <1>1 DEF IInv, SelectOwnership, Resting, Owed
  <1>12. Ledger'
    BY <1>1, <1>4 DEF IInv, Ledger, Answers, AnsweredOnce, CloseAnswersAll
  <1> QED BY <1>3, <1>7, <1>8, <1>9, <1>10, <1>11, <1>12 DEF IInv

\* A request whose caller is gone or late is answered without being queued.
LEMMA RejectKeeps ==
  ASSUME IInv, opc = "ingest", NEW r \in batch, NEW result \in Results, Reject(r, result),
         batch' = batch \ {r},
         UNCHANGED <<opc, pending, queue, expired, alias, wakes, active, sel, count,
                     socketVars, crashed>>
  PROVE  IInv'
  <1> USE DEF socketVars
  <1>1. /\ TypeOK /\ QueueInv(adm) /\ r \in Held(adm) /\ r \in Requests /\ r \notin pending
        /\ IsQueue(adm) /\ Claimed(adm) = pending \cup batch /\ pending \cap batch = {}
        /\ pending \subseteq Held(adm) /\ batch \subseteq Held(adm)
        /\ Elements(queue) \subseteq pending /\ active \in pending \cup {None}
    BY PendingHeld DEF IInv, TypeOK
  <1>2. /\ adm' = Released(adm, r) /\ UNCHANGED <<outcome, cpc, live, wakeNote>>
        /\ replies' = [replies EXCEPT ![r] = @ + 1]
        /\ inbox' \in {inbox, [inbox EXCEPT ![r] = result]}
    BY DEF Reject, Respond
  <1>3. QueueInv(adm')
    BY <1>1, <1>2, ReleasedKept
  <1>4. /\ IsQueue(adm') /\ Held(adm') = Held(adm) \ {r} /\ adm'.note = adm.note
        /\ \A q \in Held(adm) \ {r} : adm'.requests[q] = adm.requests[q]
    BY <1>1, <1>2, ReleasedShape
  <1>5. TypeOK'
    <2>1. inbox' \in [Requests -> Results]
      BY <1>1, <1>2 DEF TypeOK
    <2>2. replies' \in [Requests -> Nat]
      BY <1>1, <1>2 DEF TypeOK
    <2> QED BY <1>1, <1>2, <1>4, <2>1, <2>2 DEF TypeOK
  <1>6. Bookkeeping'
    <2>1. Claimed(adm') = Claimed(adm) \ {r}
      BY <1>4 DEF Claimed
    <2>2. Claimed(adm') = pending' \cup batch' /\ pending' \cap batch' = {}
      BY <1>1, <2>1
    <2> QED BY <2>2 DEF IInv, Bookkeeping, Claimed, Queued
  <1>7. FifoService'
    <2>1. \A i \in 1..Len(queue) : queue[i] \in Elements(queue)
      BY DEF Elements
    <2>2. \A i \in 1..Len(queue) : adm'.requests[queue[i]] = adm.requests[queue[i]]
      BY <1>1, <1>4, <2>1
    <2>3. active # None => adm'.requests[active] = adm.requests[active]
      BY <1>1, <1>4
    <2>4. \A q \in Elements(queue) : adm'.requests[q] = adm.requests[q]
      BY <1>1, <1>4
    <2> QED BY <2>2, <2>3, <2>4 DEF IInv, FifoService, Queued
  <1>8. BatchOrder'
    <2>1. \A p \in pending : adm'.requests[p] = adm.requests[p]
      BY <1>1, <1>4
    <2>2. \A b \in batch' : adm'.requests[b] = adm.requests[b] /\ b \in batch
      BY <1>1, <1>4
    <2> QED BY <2>1, <2>2 DEF IInv, BatchOrder
  <1>9. SelectOwnership' /\ Resting' /\ Owed'
    BY <1>2 DEF IInv, SelectOwnership, Resting, Owed
  <1>10. Ledger'
    <2>1. /\ \A q \in Held(adm) : outcome[q] = "ok"
          /\ \A q \in Requests :
               replies[q] = IF outcome[q] = "ok" /\ q \notin Held(adm) THEN 1 ELSE 0
      BY DEF IInv, Ledger
    <2>2. \A q \in Requests :
            replies'[q] = IF outcome'[q] = "ok" /\ q \notin Held(adm') THEN 1 ELSE 0
      BY <1>1, <1>2, <1>4, <2>1 DEF TypeOK
    <2>3. Answers'
      BY <2>2 DEF Answers, AnsweredOnce, CloseAnswersAll
    <2> QED BY <1>2, <1>4, <2>1, <2>2, <2>3 DEF Ledger
  <1> QED BY <1>3, <1>5, <1>6, <1>7, <1>8, <1>9, <1>10 DEF IInv

\* The oldest of the batch goes behind everything pending.
LEMMA QueueKeeps ==
  ASSUME IInv, opc = "ingest", NEW r, NextOfBatch(r),
         pending' = pending \cup {r}, queue' = Append(queue, r), batch' = batch \ {r},
         UNCHANGED <<opc, queueVars, callerVars, replies, expired, alias, wakes, active, sel,
                     count, socketVars, crashed>>
  PROVE  IInv'
  <1> USE DEF queueVars, callerVars, socketVars
  <1>1. /\ TypeOK /\ QueueInv(adm) /\ r \in batch /\ r \in Requests /\ r \notin pending
        /\ IsQueue(adm) /\ Claimed(adm) = pending \cup batch /\ pending \cap batch = {}
        /\ pending \subseteq Held(adm) /\ batch \subseteq Held(adm)
        /\ queue \in Seq(Requests) /\ Distinct(queue) /\ active \notin Elements(queue)
        /\ pending = Elements(queue) \cup ({active} \ {None})
    BY PendingHeld DEF IInv, NextOfBatch
  <1>2. /\ queue' \in Seq(Requests) /\ Elements(queue') = Elements(queue) \cup {r}
        /\ Distinct(queue')
    BY <1>1, AppendElements
  <1>3. TypeOK'
    BY <1>1, <1>2 DEF TypeOK
  <1>4. Bookkeeping'
    <2>1. Claimed(adm') = pending' \cup batch' /\ pending' \cap batch' = {}
      BY <1>1
    <2>2. pending' = Elements(queue') \cup ({active'} \ {None}) /\ active' \notin Elements(queue')
      BY <1>1, <1>2, OwnerAssumption
    <2> QED BY <1>2, <2>1, <2>2 DEF Bookkeeping, Claimed, Queued
  <1>5. FifoService'
    <2>1. \A p \in pending : adm.requests[p].seq < adm.requests[r].seq
      BY <1>1 DEF IInv, BatchOrder
    <2>2. /\ Len(queue) \in Nat /\ Len(queue') = Len(queue) + 1 /\ queue'[Len(queue')] = r
          /\ \A i \in 1..Len(queue) : queue'[i] = queue[i]
          /\ \A i \in 1..Len(queue') : i = Len(queue') \/ i \in 1..Len(queue)
      BY <1>1
    <2>3. \A i \in 1..Len(queue) : queue[i] \in pending
      BY <1>1 DEF Elements
    <2>4. \A i, j \in 1..Len(queue) :
            i < j => adm.requests[queue[i]].seq < adm.requests[queue[j]].seq
      BY DEF IInv, FifoService
    <2>5. \A i, j \in 1..Len(queue') :
            i < j => adm.requests[queue'[i]].seq < adm.requests[queue'[j]].seq
      <3> SUFFICES ASSUME NEW i \in 1..Len(queue'), NEW j \in 1..Len(queue'), i < j
                   PROVE  adm.requests[queue'[i]].seq < adm.requests[queue'[j]].seq
        OBVIOUS
      <3>1. i \in 1..Len(queue)
        BY <2>2
      <3>2. CASE j = Len(queue')
        BY <2>1, <2>2, <2>3, <3>1, <3>2
      <3>3. CASE j \in 1..Len(queue)
        BY <2>2, <2>4, <3>1, <3>3
      <3> QED BY <2>2, <3>2, <3>3
    <2>6. ASSUME active # None, NEW q \in Elements(queue')
          PROVE  adm.requests[active].seq < adm.requests[q].seq
      <3>1. active \in pending
        BY <1>1, <2>6
      <3> QED BY <1>2, <2>1, <2>6, <3>1 DEF IInv, FifoService, Queued
    <2> QED BY <2>5, <2>6 DEF FifoService, Queued
  <1>6. BatchOrder'
    <2>1. ASSUME NEW b \in batch \ {r} PROVE adm.requests[r].seq < adm.requests[b].seq
      <3>1. adm.requests[r].seq <= adm.requests[b].seq
        BY DEF NextOfBatch
      <3>2. adm.requests[r].seq # adm.requests[b].seq
        BY <1>1 DEF QueueInv, Kept, SequenceOrder
      <3>3. adm.requests[r].seq \in Nat /\ adm.requests[b].seq \in Nat
        BY <1>1 DEF IsQueue
      <3> QED BY <3>1, <3>2, <3>3
    <2> QED BY <2>1 DEF IInv, BatchOrder
  <1>7. SelectOwnership' /\ Resting' /\ Owed'
    BY DEF IInv, SelectOwnership, Resting, Owed
  <1>8. QueueInv(adm') /\ Ledger'
    BY <1>1 DEF IInv, Ledger, Answers, AnsweredOnce, CloseAnswersAll
  <1> QED BY <1>3, <1>4, <1>5, <1>6, <1>7, <1>8 DEF IInv

\* A close is the last of its batch.
LEMMA CloseAlone ==
  ASSUME IInv, opc # "dead", NEW r, NextOfBatch(r), Op[r] = "close"
  PROVE  r \in Requests /\ batch = {r}
  <1>1. r \in batch /\ batch \subseteq Held(adm) /\ Held(adm) \subseteq Requests /\ IsQueue(adm)
    BY PendingHeld DEF NextOfBatch
  <1>2. ASSUME NEW q \in batch, q # r PROVE FALSE
    <2>1. adm.requests[q].seq < adm.requests[r].seq
      BY <1>1, <1>2 DEF IInv, QueueInv, Kept, CloseIsLast
    <2>2. adm.requests[r].seq <= adm.requests[q].seq
      BY <1>2 DEF NextOfBatch
    <2>3. adm.requests[r].seq \in Nat /\ adm.requests[q].seq \in Nat
      BY <1>1, <1>2 DEF IsQueue
    <2> QED BY <2>1, <2>2, <2>3
  <1> QED BY <1>1, <1>2

LEMMA IngestKeeps == ASSUME IInv, NEW r \in Requests, Ingest(r) PROVE IInv'
  <1>1. opc = "ingest" /\ NextOfBatch(r) /\ r \in batch
    BY DEF Ingest, NextOfBatch
  <1>2. CASE r \notin live \/ r \in expired
    <2>1. PICK result \in Results : Reject(r, result)
      BY <1>2 DEF Ingest, Results
    <2> QED BY <1>1, <1>2, <2>1, RejectKeeps DEF Ingest
  <1>3. CASE r \in live /\ r \notin expired /\ Op[r] = "close"
    <2>1. /\ opc' = "closing"
          /\ UNCHANGED <<queueVars, callerVars, batch, replies, crashed, workVars, socketVars>>
          /\ UNCHANGED <<expired, alias, wakes>>
      BY <1>3 DEF Ingest, workVars
    <2>2. QueueInv(adm') /\ Bookkeeping' /\ FifoService' /\ BatchOrder' /\ Ledger'
      BY <1>1, <2>1, WorkStays
    <2> USE DEF queueVars, callerVars, workVars, socketVars
    <2>3. TypeOK' /\ SelectOwnership' /\ Owed'
      BY <1>1, <2>1 DEF IInv, TypeOK, SelectOwnership, Owed
    <2>4. Resting'
      BY <1>1, <1>3, <2>1, CloseAlone DEF IInv, Resting
    <2> QED BY <2>2, <2>3, <2>4 DEF IInv
  <1>4. CASE r \in live /\ r \notin expired /\ Op[r] # "close"
    BY <1>1, <1>4, QueueKeeps DEF Ingest
  <1> QED BY <1>2, <1>3, <1>4

\* The owner stops with a queue that holds nothing but the close itself.
LEMMA ClosedKeeps == ASSUME IInv, NEW r \in Requests, Closed(r) PROVE IInv'
  <1> USE DEF queueVars, workVars, socketVars
  <1>1. /\ opc = "closing" /\ pending = {} /\ NextOfBatch(r) /\ opc' = "dead" /\ batch' = batch \ {r}
        /\ UNCHANGED <<queueVars, expired, alias, wakes, workVars, socketVars, crashed>>
        /\ replies' = [replies EXCEPT ![r] = @ + 1] /\ UNCHANGED <<cpc, live, wakeNote>>
        /\ inbox' \in {inbox, [inbox EXCEPT ![r] = "owner_closed"]}
    BY DEF Closed, Respond
  <1>2. batch = {r} /\ Op[r] = "close"
    BY <1>1 DEF IInv, Resting, NextOfBatch
  <1>3. /\ Claimed(adm) = {r} /\ IsQueue(adm) /\ Held(adm) \subseteq Requests
    BY <1>1, <1>2, PendingHeld
  <1>4. Held(adm) = {r}
    <2>1. r \in Held(adm) /\ adm.requests[r].claimed
      BY <1>3 DEF Claimed
    <2>2. ASSUME NEW q \in Held(adm), q # r PROVE FALSE
      <3>1. ~adm.requests[q].claimed
        BY <1>3, <2>2 DEF Claimed
      <3>2. adm.requests[r].seq < adm.requests[q].seq
        BY <2>1, <2>2, <3>1 DEF IInv, QueueInv, Kept, SequenceOrder
      <3>3. adm.requests[q].seq < adm.requests[r].seq
        BY <1>2, <2>1, <2>2 DEF IInv, QueueInv, Kept, CloseIsLast
      <3>4. adm.requests[r].seq \in Nat /\ adm.requests[q].seq \in Nat
        BY <1>3, <2>1, <2>2 DEF IsQueue
      <3> QED BY <3>2, <3>3, <3>4
    <2> QED BY <2>1, <2>2
  <1>5. TypeOK'
    <2>1. inbox' \in [Requests -> Results]
      BY <1>1 DEF IInv, TypeOK, Results
    <2>2. replies' \in [Requests -> Nat]
      BY <1>1 DEF IInv, TypeOK
    <2> QED BY <1>1, <2>1, <2>2 DEF IInv, TypeOK
  <1>6. Ledger'
    <2>1. /\ \A q \in Held(adm) : outcome[q] = "ok"
          /\ \A q \in Requests :
               replies[q] = IF outcome[q] = "ok" /\ q \notin Held(adm) THEN 1 ELSE 0
      BY <1>1 DEF IInv, Ledger
    <2>2. \A q \in Requests : replies'[q] = IF outcome[q] = "ok" THEN 1 ELSE 0
      BY <1>1, <1>4, <2>1 DEF IInv, TypeOK
    <2>3. Answers'
      BY <1>1, <2>2 DEF Answers, AnsweredOnce, CloseAnswersAll
    <2> QED BY <1>1, <2>1, <2>3 DEF Ledger
  <1>7. Bookkeeping' /\ FifoService' /\ SelectOwnership' /\ BatchOrder' /\ Resting'
    BY <1>1 DEF Bookkeeping, FifoService, SelectOwnership, BatchOrder, Resting
  <1>8. QueueInv(adm') /\ Owed'
    BY <1>1 DEF IInv, Owed
  <1> QED BY <1>5, <1>6, <1>7, <1>8 DEF IInv

-----------------------------------------------------------------------------
(* The owner serves *)

\* The head of the queue becomes the active request.
LEMMA AdvanceKeeps == ASSUME IInv, Advance PROVE IInv'
  <1> USE DEF queueVars, callerVars, socketVars
  <1>0. /\ opc \in {"advance", "ingest"} /\ batch = {}
        /\ UNCHANGED <<queueVars, callerVars, expired, alias, wakes, batch, pending, sel,
                       count, socketVars, replies, crashed>>
    BY DEF Advance, IInv, Resting
  <1>1. CASE active = None /\ queue # <<>>
    <2>1. active' = Head(queue) /\ queue' = Tail(queue) /\ opc' = "step"
      BY <1>1 DEF Advance
    <2>2. /\ queue \in Seq(Requests) /\ Distinct(queue)
          /\ pending = Elements(queue) /\ Claimed(adm) = pending \cup batch
      BY <1>0, <1>1, PendingHeld
    <2>3. /\ active' \in Requests /\ active' \in Elements(queue) /\ queue' \in Seq(Requests)
          /\ Distinct(queue') /\ Elements(queue') = Elements(queue) \ {active'}
      BY <1>1, <2>1, <2>2, TailElements
    <2>4. active' # None
      BY <2>3, OwnerAssumption
    <2>5. TypeOK'
      BY <1>0, <2>1, <2>3 DEF IInv, TypeOK
    <2>6. Bookkeeping'
      <3>1. pending' = Elements(queue') \cup ({active'} \ {None}) /\ active' \notin Elements(queue')
        BY <1>0, <2>2, <2>3, <2>4
      <3> QED BY <1>0, <2>1, <2>2, <2>3, <2>4, <3>1 DEF Bookkeeping, Claimed, Queued
    <2>7. FifoService'
      <3>1. \A i, j \in 1..Len(queue) :
              i < j => adm.requests[queue[i]].seq < adm.requests[queue[j]].seq
        BY <1>0 DEF IInv, FifoService
      <3>2. /\ Len(queue) \in Nat \ {0} /\ Len(queue') = Len(queue) - 1
            /\ active' = queue[1] /\ 1 \in 1..Len(queue)
            /\ \A i \in 1..Len(queue') : queue'[i] = queue[i + 1] /\ i + 1 \in 1..Len(queue) /\ 1 < i + 1
        BY <1>1, <2>1, <2>2
      <3>3. \A i, j \in 1..Len(queue') :
              i < j => adm.requests[queue'[i]].seq < adm.requests[queue'[j]].seq
        <4> SUFFICES ASSUME NEW i \in 1..Len(queue'), NEW j \in 1..Len(queue'), i < j
                     PROVE  adm.requests[queue'[i]].seq < adm.requests[queue'[j]].seq
          OBVIOUS
        <4>1. i + 1 \in 1..Len(queue) /\ j + 1 \in 1..Len(queue) /\ i + 1 < j + 1
          BY <3>2
        <4>2. adm.requests[queue[i + 1]].seq < adm.requests[queue[j + 1]].seq
          BY <3>1, <4>1
        <4> QED BY <3>2, <4>2
      <3>4. \A q \in Elements(queue') : adm.requests[active'].seq < adm.requests[q].seq
        BY <3>1, <3>2 DEF Elements
      <3> QED BY <1>0, <3>3, <3>4 DEF FifoService, Queued
    <2>8. SelectOwnership' /\ Resting'
      BY <1>0, <1>1, <2>1 DEF IInv, SelectOwnership, Resting
    <2>9. QueueInv(adm') /\ BatchOrder' /\ Owed' /\ Ledger'
      BY <1>0, <2>1
      DEF IInv, BatchOrder, Owed, Ledger, Answers, AnsweredOnce, CloseAnswersAll
    <2> QED BY <2>5, <2>6, <2>7, <2>8, <2>9 DEF IInv
  <1>2. CASE ~(active = None /\ queue # <<>>)
    <2>1. opc' = "idle" /\ UNCHANGED <<active, queue>>
      BY <1>2 DEF Advance
    <2>2. QueueInv(adm') /\ Bookkeeping' /\ FifoService' /\ BatchOrder' /\ Ledger'
      BY <1>0, <2>1, WorkStays DEF workVars
    <2>3. TypeOK'
      BY <1>0, <2>1 DEF IInv, TypeOK
    <2>4. SelectOwnership' /\ Resting' /\ Owed'
      BY <1>0, <2>1 DEF IInv, SelectOwnership, Resting, Owed
    <2> QED BY <2>2, <2>3, <2>4 DEF IInv
  <1> QED BY <1>1, <1>2

\* A step that leaves the queue, the maps and the active request alone.
LEMMA ServiceStays ==
  ASSUME IInv, UNCHANGED <<queueVars, batch, pending, queue, active, replies, crashed>>,
         opc # "dead" /\ opc' # "dead", opc' = "step" => active # None
  PROVE  QueueInv(adm') /\ Bookkeeping' /\ FifoService' /\ BatchOrder' /\ Ledger'
  <1> USE DEF queueVars
  <1>1. QueueInv(adm') /\ Bookkeeping' /\ FifoService' /\ BatchOrder'
    BY DEF IInv, Bookkeeping, FifoService, BatchOrder, Queued
  <1>2. Ledger'
    BY DEF IInv, Ledger, Answers, AnsweredOnce, CloseAnswersAll
  <1> QED BY <1>1, <1>2

LEMMA ActiveServed ==
  ASSUME IInv, opc = "step"
  PROVE  active \in pending /\ active \in Requests /\ active # None /\ armed = {} /\ batch = {}
  BY PendingHeld DEF IInv, Bookkeeping, Resting, TypeOK

\* Arming a select: nothing was armed for the request before.
LEMMA SelectKeeps == ASSUME IInv, DispatchSelect PROVE IInv'
  <1> USE DEF queueVars, callerVars, socketVars
  <1>1. /\ opc = "step" /\ opc' = "idle" /\ refs' = refs + 1 /\ armed' = armed \cup {refs + 1}
        /\ sel' = [sel EXCEPT ![active] = refs + 1]
        /\ UNCHANGED <<queueVars, callerVars, expired, alias, wakes, batch, pending, queue,
                       active, count, events, replies, crashed>>
    BY DEF DispatchSelect, Dispatchable
  <1>2. active \in Requests /\ active # None /\ armed = {} /\ batch = {}
    BY <1>1, ActiveServed
  <1>3. /\ TypeOK /\ refs \in Nat /\ sel \in [Requests -> Nat]
        /\ events \subseteq [ref : 1..refs, kind : {"select", "abort"}]
    BY DEF IInv, TypeOK
  <1>4. TypeOK'
    <2>1. refs' \in Nat /\ sel' \in [Requests -> Nat] /\ armed' \subseteq 1..refs'
      BY <1>1, <1>2, <1>3
    <2>2. 1..refs \subseteq 1..refs'
      BY <1>1, <1>3
    <2>3. events' \subseteq [ref : 1..refs', kind : {"select", "abort"}]
      BY <1>1, <1>3, <2>2
    <2> QED BY <1>1, <1>3, <2>1, <2>3 DEF TypeOK
  <1>5. QueueInv(adm') /\ Bookkeeping' /\ FifoService' /\ BatchOrder' /\ Ledger'
    BY <1>1, ServiceStays
  <1>6. SelectOwnership'
    BY <1>1, <1>2, <1>3 DEF SelectOwnership
  <1>7. Resting'
    <2>1. \A e \in events : e.ref \in 1..refs
      BY <1>3
    <2>2. \A e \in events' : e.ref \notin armed'
      BY <1>1, <1>2, <1>3, <2>1
    <2> QED BY <1>1, <1>2, <2>2 DEF Resting
  <1>8. Owed'
    BY <1>1 DEF IInv, Owed
  <1> QED BY <1>4, <1>5, <1>6, <1>7, <1>8 DEF IInv

LEMMA MoreKeeps == ASSUME IInv, DispatchMore PROVE IInv'
  <1> USE DEF queueVars, callerVars, socketVars
  <1>1. /\ opc = "step" /\ count' = [count EXCEPT ![active] = @ + 1]
        /\ sel' = [sel EXCEPT ![active] = 0]
        /\ UNCHANGED <<queueVars, callerVars, expired, opc, alias, wakes, batch, pending,
                       queue, active, socketVars, replies, crashed>>
    BY DEF DispatchMore, Dispatchable
  <1>2. active \in Requests /\ active # None /\ armed = {} /\ batch = {}
    BY <1>1, ActiveServed
  <1>3. TypeOK'
    BY <1>1, <1>2 DEF IInv, TypeOK
  <1>4. QueueInv(adm') /\ Bookkeeping' /\ FifoService' /\ BatchOrder' /\ Ledger'
    BY <1>1, <1>2, ServiceStays
  <1>5. SelectOwnership' /\ Resting' /\ Owed'
    BY <1>1, <1>2 DEF IInv, SelectOwnership, Resting, Owed
  <1> QED BY <1>3, <1>4, <1>5 DEF IInv

LEMMA DoneKeeps ==
  ASSUME IInv, Abandon \/ DispatchDone PROVE IInv'
  <1>1. /\ opc = "step" /\ opc' = "advance" /\ UNCHANGED events
        /\ \E result \in Results : Finish(active, result)
    BY DEF Abandon, DispatchDone, Dispatchable, FinishAndAdvance, TimeoutResult, Results
  <1> QED BY <1>1, ActiveServed, FinishKeeps

LEMMA WatchKeeps ==
  ASSUME IInv, NEW r \in Requests, Deadline(r) \/ CallerDown(r) \/ CloseOne(r) PROVE IInv'
  <1>1. /\ opc \in {"idle", "closing"} /\ r \in pending /\ UNCHANGED events
        /\ opc' = (IF opc = "closing" THEN "closing" ELSE "advance")
        /\ \E result \in Results : Finish(r, result)
    BY DEF Deadline, CallerDown, CloseOne, FinishAndAdvance, TimeoutResult, Results
  <1> QED BY <1>1, FinishKeeps

-----------------------------------------------------------------------------
(* The socket and the end *)

\* A message of the select the active request waits for was sent when that
\* select was disarmed, so that the request is tried again unarmed.
LEMMA MessageKeeps == ASSUME IInv, NEW e \in events, SocketMessage(e) PROVE IInv'
  <1> USE DEF queueVars, callerVars, workVars
  <1>1. CASE Selected(e.ref) /\ e.kind = "abort"
    <2>1. opc = "idle" /\ opc' = "advance" /\ events' \subseteq events /\ Finish(active, "error")
      BY <1>1 DEF SocketMessage, FinishAndAdvance
    <2>2. active \in pending
      BY <1>1, <2>1, PendingHeld DEF Selected
    <2> QED BY <2>1, <2>2, FinishKeeps DEF Results
  <1>2. CASE ~(Selected(e.ref) /\ e.kind = "abort")
    <2>1. /\ opc = "idle" /\ events' = events \ {e}
          /\ opc' = (IF Selected(e.ref) THEN "step" ELSE "idle")
          /\ UNCHANGED <<queueVars, callerVars, expired, alias, wakes, batch,
                         workVars, refs, armed, replies, crashed>>
      BY <1>2 DEF SocketMessage
    <2>2. opc' = "step" => active # None /\ armed = {}
      BY <2>1 DEF Selected, IInv, SelectOwnership, Resting
    <2>3. QueueInv(adm') /\ Bookkeeping' /\ FifoService' /\ BatchOrder' /\ Ledger'
      BY <2>1, <2>2, ServiceStays
    <2>4. TypeOK'
      BY <2>1 DEF IInv, TypeOK
    <2>5. SelectOwnership' /\ Resting' /\ Owed'
      BY <2>1, <2>2 DEF IInv, SelectOwnership, Resting, Owed
    <2> QED BY <2>3, <2>4, <2>5 DEF IInv
  <1> QED BY <1>1, <1>2

LEMMA FiresKeeps ==
  ASSUME IInv, NEW ref \in armed, NEW kind \in {"select", "abort"}, SocketFires(ref, kind)
  PROVE  IInv'
  <1> USE DEF queueVars, callerVars, workVars
  <1>1. /\ opc # "dead" /\ armed' = armed \ {ref}
        /\ events' = events \cup {[ref |-> ref, kind |-> kind]}
        /\ UNCHANGED <<queueVars, callerVars, expired, opc, alias, wakes, batch, workVars,
                       refs, replies, crashed>>
    BY DEF SocketFires
  <1>2. QueueInv(adm') /\ Bookkeeping' /\ FifoService' /\ BatchOrder' /\ Ledger'
    BY <1>1, WorkStays
  <1>3. TypeOK'
    BY <1>1 DEF IInv, TypeOK
  <1>4. SelectOwnership' /\ Resting' /\ Owed'
    BY <1>1 DEF IInv, SelectOwnership, Resting, Owed
  <1> QED BY <1>2, <1>3, <1>4 DEF IInv

LEMMA CrashKeeps == ASSUME IInv, OwnerCrash PROVE IInv'
  <1> USE DEF queueVars, callerVars
  <1>1. /\ opc' = "dead" /\ crashed' = TRUE
        /\ alias' = -1 /\ wakes' = {} /\ batch' = {} /\ pending' = {} /\ queue' = <<>>
        /\ active' = None /\ armed' = {} /\ events' = {}
        /\ sel' = [r \in Requests |-> 0] /\ count' = [r \in Requests |-> 0]
        /\ UNCHANGED <<queueVars, callerVars, expired, refs, replies>>
    BY DEF OwnerCrash
  <1>2. TypeOK'
    BY <1>1 DEF IInv, TypeOK
  <1>3. Bookkeeping' /\ FifoService' /\ SelectOwnership' /\ BatchOrder' /\ Resting'
    BY <1>1 DEF Bookkeeping, FifoService, SelectOwnership, BatchOrder, Resting
  <1>4. Ledger'
    BY <1>1 DEF IInv, Ledger, Answers, AnsweredOnce, CloseAnswersAll
  <1>5. QueueInv(adm') /\ Owed'
    BY <1>1 DEF IInv, Owed
  <1> QED BY <1>2, <1>3, <1>4, <1>5 DEF IInv

-----------------------------------------------------------------------------
LEMMA InitIInv == Init => IInv
  <1> SUFFICES ASSUME Init PROVE IInv
    OBVIOUS
  <1>1. adm = NewQueue /\ outcome = [r \in Requests |-> "none"]
    BY SameQueue DEF Init, Q!Init
  <1>2. QueueInv(adm) /\ IsQueue(adm) /\ Held(adm) = {} /\ adm.note = 0
    BY <1>1, NewQueueKept DEF QueueInv
  <1>3. TypeOK
    <2>1. /\ outcome \in [Requests -> Outcomes] /\ inbox \in [Requests -> Results]
          /\ cpc \in [Requests -> {"idle", "wake", "waiting", "done"}]
      BY <1>1 DEF Init, Outcomes, Results
    <2>2. /\ wakeNote \in [Requests -> Nat \cup {-1}] /\ replies \in [Requests -> Nat]
          /\ sel \in [Requests -> Nat] /\ count \in [Requests -> Nat]
      BY DEF Init
    <2>3. queue \in Seq(Requests) /\ armed \subseteq 1..refs
          /\ events \subseteq [ref : 1..refs, kind : {"select", "abort"}]
      BY DEF Init
    <2> QED BY <1>2, <2>1, <2>2, <2>3 DEF Init, TypeOK
  <1>4. Bookkeeping
    <2>1. Elements(queue) = {} /\ Distinct(queue)
      BY DEF Init, Elements, Distinct
    <2> QED BY <1>2, <2>1 DEF Init, Bookkeeping, Queued
  <1>5. FifoService /\ SelectOwnership /\ BatchOrder /\ Resting /\ Owed
    BY DEF Init, FifoService, SelectOwnership, BatchOrder, Resting, Owed
  <1>6. Ledger
    BY <1>1, <1>2 DEF Init, Ledger, Answers, AnsweredOnce, CloseAnswersAll
  <1> QED BY <1>2, <1>3, <1>4, <1>5, <1>6 DEF IInv

LEMMA NextIInv == IInv /\ [Next]_vars => IInv'
  <1> SUFFICES ASSUME IInv, [Next]_vars PROVE IInv'
    OBVIOUS
  <1>1. CASE UNCHANGED vars
    <2> USE <1>1 DEF vars, queueVars, callerVars, workVars, socketVars
    <2>1. QueueInv(adm') /\ Bookkeeping' /\ FifoService' /\ BatchOrder' /\ Ledger'
      BY WorkStays
    <2>2. TypeOK' /\ SelectOwnership' /\ Resting' /\ Owed'
      BY DEF IInv, TypeOK, SelectOwnership, Resting, Owed
    <2> QED BY <2>1, <2>2 DEF IInv
  <1>2. ASSUME NEW r \in Requests, Caller(r) PROVE IInv'
    BY <1>2, SubmitKeeps, CallerKeeps DEF Caller
  <1>3. ASSUME NEW r \in Requests, OwnerOf(r) PROVE IInv'
    BY <1>3, IngestKeeps, ClosedKeeps, WatchKeeps DEF OwnerOf
  <1>4. CASE Wakeup \/ Sweep \/ TakeWork \/ Advance
    BY <1>4, PumpKeeps, TakeKeeps, AdvanceKeeps DEF Wakeup, Sweep
  <1>5. CASE Abandon \/ Dispatch
    BY <1>5, DoneKeeps, SelectKeeps, MoreKeeps DEF Dispatch
  <1>6. CASE Socket
    BY <1>6, MessageKeeps, FiresKeeps DEF Socket
  <1> QED BY <1>1, <1>2, <1>3, <1>4, <1>5, <1>6, CrashKeeps DEF Next

LEMMA IInvAlways == Spec => []IInv
  BY InitIInv, NextIInv, PTL DEF Spec

\* For every set of requests and all limits, at every moment of the owner's
\* life: its maps, the queue's entries and the socket agree on what is being
\* served, requests are served in the order of their admission, and the socket
\* is armed for the active request only.
THEOREM DisciplineAlwaysKept == Spec => []ServiceDiscipline
  <1>1. IInv => ServiceDiscipline
    BY DEF IInv, ServiceDiscipline
  <1> QED BY <1>1, IInvAlways, PTL

\* For every set of requests and all limits: no request is answered twice, and
\* an owner stopped by a close has answered everything it ever admitted.
THEOREM AnswersAlwaysOnce == Spec => []Answers
  <1>1. IInv => Answers
    BY DEF IInv, Ledger
  <1> QED BY <1>1, IInvAlways, PTL
=============================================================================
