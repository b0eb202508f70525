------------------------- MODULE AdmissionCASProofs -------------------------
(***************************************************************************)
(* The compare-and-replace loops of the admission queue implement its      *)
(* atomic operations, and the owner's loop ends, for every set of requests *)
(* and every limit.                                                        *)
(***************************************************************************)
EXTENDS AdmissionCAS, FiniteSetTheorems, TLAPS

\* A well-formed queue that keeps its promises.
QueueInv(s) == IsQueue(s) /\ IsFiniteSet(Held(s)) /\ Kept(s)

-----------------------------------------------------------------------------
(* What each update does to the queue *)

LEMMA VerdictIsOutcome ==
  ASSUME NEW s, NEW r
  PROVE  Verdict(s, r) \in Outcomes
  BY DEF Verdict, Outcomes

LEMMA VerdictOk ==
  ASSUME NEW s, IsFiniteSet(Held(s)), NEW r, Verdict(s, r) = "ok"
  PROVE  ~s.closing /\ r \notin Held(s) /\ Cardinality(Held(s)) < MaxCalls
  <1>1. Cardinality(Held(s)) \in Nat
    BY FS_CardinalityType
  <1> QED BY <1>1, AdmissionAssumption DEF Verdict

LEMMA AdmittedShape ==
  ASSUME NEW s, IsQueue(s), NEW r \in Requests
  PROVE  /\ IsQueue(Admitted(s, r))
         /\ Held(Admitted(s, r)) = Held(s) \cup {r}
         /\ Admitted(s, r).sequence = s.sequence + 1
         /\ Admitted(s, r).note = s.note
         /\ Admitted(s, r).closing = (Op[r] = "close")
         /\ Admitted(s, r).notified = TRUE
         /\ Admitted(s, r).requests[r].seq = s.sequence + 1
         /\ Admitted(s, r).requests[r].claimed = FALSE
  BY AdmissionAssumption DEF IsQueue, Admitted, Held

LEMMA AdmittedOthers ==
  ASSUME NEW s, IsQueue(s), NEW r \in Requests
  PROVE  \A q \in Held(s) \ {r} : Admitted(s, r).requests[q] = s.requests[q]
  BY DEF IsQueue, Admitted, Held

LEMMA TakenShape ==
  ASSUME NEW s, IsQueue(s), NEW note \in Nat
  PROVE  /\ IsQueue(Taken(s, note))
         /\ Held(Taken(s, note)) = Held(s)
         /\ Taken(s, note).sequence = s.sequence
         /\ Taken(s, note).note = note
         /\ Taken(s, note).closing = s.closing
         /\ \A q \in Held(s) : /\ Taken(s, note).requests[q].claimed = TRUE
                               /\ Taken(s, note).requests[q].seq = s.requests[q].seq
  BY DEF IsQueue, Taken, Held

LEMMA ReleasedShape ==
  ASSUME NEW s, IsQueue(s), NEW r \in Held(s)
  PROVE  /\ IsQueue(Released(s, r))
         /\ Held(Released(s, r)) = Held(s) \ {r}
         /\ Released(s, r).sequence = s.sequence
         /\ Released(s, r).note = s.note
         /\ Released(s, r).closing = (s.closing /\ Op[r] # "close")
         /\ Released(s, r).notified = s.notified
         /\ \A q \in Held(s) \ {r} : Released(s, r).requests[q] = s.requests[q]
  BY AdmissionAssumption DEF IsQueue, Released, Held

-----------------------------------------------------------------------------
(* The promises *)

\* A new queue keeps its promises.
LEMMA NewQueueKept ==
  /\ QueueInv(NewQueue) /\ Held(NewQueue) = {}
  /\ NewQueue.note = 0 /\ NewQueue.sequence = 0
  <1>1. /\ IsQueue(NewQueue) /\ Held(NewQueue) = {}
        /\ NewQueue.closing = FALSE /\ NewQueue.note = 0 /\ NewQueue.sequence = 0
    BY DEF IsQueue, NewQueue, Held, Empty
  <1>2. IsFiniteSet({}) /\ Cardinality({}) = 0
    BY FS_EmptySet
  <1>3. CloseIsLast(NewQueue) /\ SequenceOrder(NewQueue) /\ WakeupDue(NewQueue)
    BY <1>1 DEF CloseIsLast, SequenceOrder, WakeupDue, Unclaimed
  <1>4. CallsBounded(NewQueue)
    BY <1>1, <1>2, AdmissionAssumption DEF CallsBounded
  <1> QED BY <1>1, <1>2, <1>3, <1>4 DEF QueueInv, Kept

\* reserve/3 adds only what its cond let through.
LEMMA AdmittedKept ==
  ASSUME NEW s, QueueInv(s), NEW r \in Requests, Verdict(s, r) = "ok"
  PROVE  QueueInv(Admitted(s, r))
  <1> DEFINE t == Admitted(s, r)
  <1>1. IsQueue(s) /\ IsFiniteSet(Held(s)) /\ s.sequence \in Nat
    BY DEF QueueInv, IsQueue
  <1>2. ~s.closing /\ r \notin Held(s) /\ Cardinality(Held(s)) < MaxCalls
    BY <1>1, VerdictOk
  <1>3. /\ IsQueue(t) /\ Held(t) = Held(s) \cup {r}
        /\ t.sequence = s.sequence + 1 /\ t.closing = (Op[r] = "close") /\ t.notified = TRUE
        /\ t.requests[r].seq = s.sequence + 1 /\ t.requests[r].claimed = FALSE
    BY <1>1, AdmittedShape
  <1>4. \A q \in Held(s) : t.requests[q] = s.requests[q]
    BY <1>1, <1>2, AdmittedOthers
  <1> HIDE DEF t
  <1>5. \A q \in Held(s) : s.requests[q].seq \in 1..s.sequence /\ Op[q] # "close"
    BY <1>2 DEF QueueInv, Kept, SequenceOrder, CloseIsLast
  <1>6. CloseIsLast(t)
    <2>1. t.closing <=> \E q \in Held(t) : Op[q] = "close"
      BY <1>3, <1>5
    <2>2. \A q \in Held(s) : t.requests[q].seq < t.requests[r].seq
      BY <1>1, <1>3, <1>4, <1>5
    <2> QED BY <1>3, <1>5, <2>1, <2>2 DEF CloseIsLast
  <1>7. SequenceOrder(t)
    <2>1. SequenceOrder(s)
      BY DEF QueueInv, Kept
    <2> QED BY <1>1, <1>2, <1>3, <1>4, <1>5, <2>1 DEF SequenceOrder
  <1>8. IsFiniteSet(Held(t)) /\ Cardinality(Held(t)) = Cardinality(Held(s)) + 1
    BY <1>1, <1>2, <1>3, FS_AddElement
  <1>9. CallsBounded(t)
    <2>1. Cardinality(Held(s)) \in Nat
      BY <1>1, FS_CardinalityType
    <2> QED BY <1>2, <1>8, <2>1, AdmissionAssumption DEF CallsBounded
  <1>10. WakeupDue(t)
    BY <1>3 DEF WakeupDue
  <1>11. QueueInv(t)
    BY <1>3, <1>6, <1>7, <1>8, <1>9, <1>10 DEF QueueInv, Kept
  <1> QED BY <1>11 DEF t

LEMMA TakenKept ==
  ASSUME NEW s, QueueInv(s), NEW note \in Nat
  PROVE  QueueInv(Taken(s, note))
  <1> DEFINE t == Taken(s, note)
  <1>1. IsQueue(s) /\ IsFiniteSet(Held(s)) /\ CloseIsLast(s) /\ SequenceOrder(s) /\ CallsBounded(s)
    BY DEF QueueInv, Kept
  <1>2. /\ IsQueue(t) /\ Held(t) = Held(s)
        /\ t.sequence = s.sequence /\ t.closing = s.closing
        /\ \A q \in Held(s) : /\ t.requests[q].claimed = TRUE
                              /\ t.requests[q].seq = s.requests[q].seq
    BY <1>1, TakenShape
  <1> HIDE DEF t
  <1>3. CloseIsLast(t) /\ CallsBounded(t)
    BY <1>1, <1>2 DEF CloseIsLast, CallsBounded
  <1>4. SequenceOrder(t)
    BY <1>1, <1>2 DEF SequenceOrder
  <1>5. WakeupDue(t)
    BY <1>2 DEF WakeupDue, Unclaimed
  <1>6. QueueInv(t)
    BY <1>1, <1>2, <1>3, <1>4, <1>5 DEF QueueInv, Kept
  <1> QED BY <1>6 DEF t

LEMMA ReleasedKept ==
  ASSUME NEW s, QueueInv(s), NEW r \in Held(s)
  PROVE  QueueInv(Released(s, r))
  <1> DEFINE t == Released(s, r)
  <1>1. /\ IsQueue(s) /\ IsFiniteSet(Held(s)) /\ CloseIsLast(s) /\ SequenceOrder(s)
        /\ CallsBounded(s) /\ WakeupDue(s)
    BY DEF QueueInv, Kept
  <1>2. /\ IsQueue(t) /\ Held(t) = Held(s) \ {r}
        /\ t.sequence = s.sequence /\ t.notified = s.notified
        /\ t.closing = (s.closing /\ Op[r] # "close")
        /\ \A q \in Held(s) \ {r} : t.requests[q] = s.requests[q]
    BY <1>1, ReleasedShape
  <1> HIDE DEF t
  <1>3. ASSUME NEW p \in Held(s), NEW q \in Held(s), Op[p] = "close", Op[q] = "close"
        PROVE  p = q
    <2>1. s.requests[p].seq \in Nat /\ s.requests[q].seq \in Nat
      BY <1>1 DEF IsQueue
    <2> QED BY <1>1, <1>3, <2>1 DEF CloseIsLast
  <1>4. CloseIsLast(t)
    <2>1. s.closing <=> \E q \in Held(s) : Op[q] = "close"
      BY <1>1 DEF CloseIsLast
    <2>2. t.closing <=> \E q \in Held(t) : Op[q] = "close"
      BY <1>2, <1>3, <2>1
    <2> QED BY <1>1, <1>2, <2>2 DEF CloseIsLast
  <1>5. SequenceOrder(t)
    BY <1>1, <1>2 DEF SequenceOrder
  <1>6. WakeupDue(t)
    BY <1>1, <1>2 DEF WakeupDue, Unclaimed
  <1>7. IsFiniteSet(Held(t)) /\ Cardinality(Held(t)) = Cardinality(Held(s)) - 1
    BY <1>1, <1>2, FS_RemoveElement
  <1>8. CallsBounded(t)
    <2>1. Cardinality(Held(s)) \in Nat
      BY <1>1, FS_CardinalityType
    <2> QED BY <1>1, <1>7, <2>1, AdmissionAssumption DEF CallsBounded
  <1>9. QueueInv(t)
    BY <1>2, <1>4, <1>5, <1>6, <1>7, <1>8 DEF QueueInv, Kept
  <1> QED BY <1>9 DEF t

-----------------------------------------------------------------------------

\* What the queue's state and the loops' local values always satisfy.
LoopInv ==
    /\ QueueInv(table)
    /\ outcome \in [Requests -> Outcomes]
    /\ cpc \in [Requests -> {"read", "replace", "done"}]
    /\ DOMAIN snap = Requests
    /\ \A r \in Requests :
         /\ cpc[r] # "done" => outcome[r] = "none"
         /\ cpc[r] = "replace" => Verdict(snap[r], r) = "ok"
    /\ opc \in {"idle", "read", "replace"}
    /\ opc # "idle" =>
         \/ /\ task.op = "take"
            /\ task.id = table.note + 1 /\ table.note < MaxTakes
         \/ /\ task.op = "release"
            /\ task.id \in Requests \cap Held(table)
            /\ table.requests[task.id].claimed

\* Every failed comparison of the owner was caused by an insertion.
LossInv ==
    /\ losses \in Nat
    /\ opc = "idle" => losses = 0
    /\ opc = "read" => losses <= Cardinality(Held(table))
    /\ opc = "replace" =>
         /\ IsFiniteSet(Held(osnap))
         /\ losses <= Cardinality(Held(osnap))
         /\ table = osnap \/ Cardinality(Held(osnap)) < Cardinality(Held(table))

-----------------------------------------------------------------------------
\* Admission, instantiated, speaks of the same queue.
LEMMA SameQueue ==
  ASSUME NEW s, NEW r
  PROVE  /\ A!Held(s) = Held(s) /\ A!Verdict(s, r) = Verdict(s, r)
         /\ A!Admitted(s, r) = Admitted(s, r)
         /\ A!Taken(s, r) = Taken(s, r) /\ A!Released(s, r) = Released(s, r)
  <1>1. A!Held(s) = Held(s)
    BY DEF A!Held, Held
  <1>2. A!Verdict(s, r) = Verdict(s, r)
    BY <1>1 DEF A!Verdict, Verdict, A!Cardinality, Cardinality
  <1>3. A!Admitted(s, r) = Admitted(s, r)
    BY <1>1 DEF A!Admitted, Admitted
  <1>4. A!Taken(s, r) = Taken(s, r) /\ A!Released(s, r) = Released(s, r)
    BY <1>1 DEF A!Taken, Taken, A!Released, Released
  <1> QED BY <1>1, <1>2, <1>3, <1>4

LEMMA HeldBounded ==
  ASSUME NEW s, QueueInv(s)
  PROVE  /\ IsQueue(s) /\ IsFiniteSet(Held(s)) /\ Cardinality(Held(s)) \in Nat
         /\ Cardinality(Held(s)) <= MaxCalls /\ MaxCalls \in Nat
  BY FS_CardinalityType, AdmissionAssumption DEF QueueInv, Kept, CallsBounded

\* The owner's update is computed from the object it is compared with.
LEMMA MutatedQueue ==
  ASSUME LoopInv, opc # "idle"
  PROVE  QueueInv(Mutated(table)) /\ Held(Mutated(table)) \subseteq Held(table)
  <1>0. QueueInv(table) /\ IsQueue(table)
    BY DEF LoopInv, QueueInv
  <1>1. CASE task.op = "take"
    <2>1. task.id \in Nat
      BY <1>0, <1>1 DEF LoopInv, IsQueue
    <2> QED BY <1>0, <1>1, <2>1, TakenShape, TakenKept DEF Mutated
  <1>2. CASE task.op = "release"
    <2>1. task.id \in Held(table)
      BY <1>2 DEF LoopInv
    <2> QED BY <1>0, <1>2, <2>1, ReleasedShape, ReleasedKept DEF Mutated
  <1> QED BY <1>1, <1>2 DEF LoopInv

LEMMA LoopInit == CASAssumption /\ Init => LoopInv /\ LossInv
  <1> SUFFICES ASSUME CASAssumption, Init PROVE LoopInv /\ LossInv
    OBVIOUS
  <1>1. table = NewQueue /\ outcome = [r \in Requests |-> "none"]
    BY DEF Init, A!Init, A!NewQueue, A!Empty, NewQueue, Empty
  <1>2. LoopInv
    BY <1>1, NewQueueKept DEF Init, LoopInv, Outcomes
  <1>3. LossInv
    BY <1>1 DEF Init, LossInv
  <1> QED BY <1>2, <1>3

LEMMA LoopStep == CASAssumption /\ LoopInv /\ LossInv /\ [Next]_vars => LoopInv'
  <1> SUFFICES ASSUME CASAssumption, LoopInv, LossInv, [Next]_vars PROVE LoopInv'
    OBVIOUS
  <1>1. ASSUME NEW r \in Requests, Read(r) PROVE LoopInv'
    <2>1. Verdict(table, r) \in Outcomes
      BY VerdictIsOutcome
    <2> QED BY <1>1, <2>1 DEF Read, Return, LoopInv, Outcomes, ownerVars
  <1>2. ASSUME NEW r \in Requests, Replace(r) PROVE LoopInv'
    <2>1. CASE table = snap[r]
      <3>1. r \notin Held(table)
        BY <1>2, <2>1, VerdictOk DEF Replace, LoopInv, QueueInv
      <3>2. table' = Admitted(table, r) /\ UNCHANGED ownerVars
        BY <1>2, <2>1 DEF Replace
      <3>3. QueueInv(table') /\ Held(table') = Held(table) \cup {r} /\ table'.note = table.note
        <4>1. Verdict(table, r) = "ok" /\ QueueInv(table) /\ IsQueue(table)
          BY <1>2, <2>1 DEF Replace, LoopInv, QueueInv
        <4> QED BY <3>2, <4>1, AdmittedShape, AdmittedKept
      <3>4. \A q \in Held(table) : table'.requests[q] = table.requests[q]
        BY <3>1, <3>2, AdmittedOthers DEF LoopInv, QueueInv
      <3>5. opc' # "idle" =>
              \/ task'.op = "take" /\ task'.id = table'.note + 1 /\ table'.note < MaxTakes
              \/ /\ task'.op = "release" /\ task'.id \in Requests \cap Held(table')
                 /\ table'.requests[task'.id].claimed
        BY <3>2, <3>3, <3>4 DEF LoopInv, ownerVars
      <3>6. opc' \in {"idle", "read", "replace"}
        BY <3>2 DEF LoopInv, ownerVars
      <3>7. /\ outcome' \in [Requests -> Outcomes]
            /\ cpc' \in [Requests -> {"read", "replace", "done"}]
            /\ DOMAIN snap' = Requests
        BY <1>2, <2>1 DEF Replace, Return, LoopInv, Outcomes
      <3>8. \A q \in Requests : /\ cpc'[q] # "done" => outcome'[q] = "none"
                                /\ cpc'[q] = "replace" => Verdict(snap'[q], q) = "ok"
        BY <1>2, <2>1 DEF Replace, Return, LoopInv
      <3> QED BY <3>3, <3>5, <3>6, <3>7, <3>8 DEF LoopInv
    <2>2. CASE table # snap[r]
      BY <1>2, <2>2 DEF Replace, LoopInv, ownerVars
    <2> QED BY <2>1, <2>2
  <1>3. ASSUME NEW t, Begin(t),
               \/ t.op = "take" /\ t.id = table.note + 1 /\ table.note < MaxTakes
               \/ /\ t.op = "release" /\ t.id \in Requests \cap Held(table)
                  /\ table.requests[t.id].claimed
        PROVE  LoopInv'
    BY <1>3 DEF Begin, LoopInv, callerVars
  <1>4. CASE OwnerRead
    BY <1>4 DEF OwnerRead, LoopInv, callerVars
  <1>5. CASE OwnerReplace
    <2>1. CASE table = osnap
      BY <1>5, <2>1, MutatedQueue DEF OwnerReplace, LoopInv, callerVars
    <2>2. CASE table # osnap
      BY <1>5, <2>2 DEF OwnerReplace, LoopInv, callerVars
    <2> QED BY <2>1, <2>2
  <1>6. CASE BeginTake
    BY <1>3, <1>6 DEF BeginTake
  <1>7. ASSUME NEW r \in Requests, BeginRelease(r) PROVE LoopInv'
    BY <1>3, <1>7 DEF BeginRelease
  <1>8. CASE UNCHANGED vars
    BY <1>8 DEF vars, callerVars, ownerVars, LoopInv
  <1> QED BY <1>1, <1>2, <1>4, <1>5, <1>6, <1>7, <1>8 DEF Next

LEMMA LossStep == CASAssumption /\ LoopInv /\ LossInv /\ [Next]_vars => LossInv'
  <1> SUFFICES ASSUME CASAssumption, LoopInv, LossInv, [Next]_vars PROVE LossInv'
    OBVIOUS
  <1>0. Cardinality(Held(table)) \in Nat /\ MaxCalls \in Nat
    BY HeldBounded DEF LoopInv
  <1>1. ASSUME NEW r \in Requests, Read(r) PROVE LossInv'
    BY <1>1 DEF Read, LossInv, ownerVars
  <1>2. ASSUME NEW r \in Requests, Replace(r) PROVE LossInv'
    <2>1. CASE table = snap[r]
      <3>1. r \notin Held(table) /\ Cardinality(Held(table)) < MaxCalls
        BY <1>2, <2>1, VerdictOk DEF Replace, LoopInv, QueueInv
      <3>2. Held(table') = Held(table) \cup {r} /\ UNCHANGED ownerVars
        <4>1. IsQueue(table) /\ table' = Admitted(table, r) /\ UNCHANGED ownerVars
          BY <1>2, <2>1 DEF Replace, LoopInv, QueueInv
        <4> QED BY <4>1, AdmittedShape
      <3>3. IsFiniteSet(Held(table')) /\ Cardinality(Held(table')) = Cardinality(Held(table)) + 1
        BY <3>1, <3>2, FS_AddElement DEF LoopInv, QueueInv
      <3>4. opc = "replace" => Cardinality(Held(osnap)) \in Nat
        BY FS_CardinalityType DEF LossInv
      <3>5. opc = "replace" => Cardinality(Held(osnap)) < Cardinality(Held(table'))
        BY <1>0, <3>3, <3>4 DEF LossInv
      <3> QED BY <1>0, <3>1, <3>2, <3>3, <3>5 DEF LossInv, ownerVars
    <2>2. CASE table # snap[r]
      BY <1>2, <2>2 DEF Replace, LossInv, ownerVars
    <2> QED BY <2>1, <2>2
  <1>3. ASSUME NEW t, Begin(t) PROVE LossInv'
    BY <1>0, <1>3 DEF Begin, LossInv
  <1>4. CASE OwnerRead
    <2>1. IsFiniteSet(Held(table))
      BY DEF LoopInv, QueueInv
    <2> QED BY <1>4, <2>1 DEF OwnerRead, LossInv
  <1>5. CASE OwnerReplace
    <2>1. CASE table = osnap
      <3>1. Held(table') \subseteq Held(table) /\ opc' = "idle" /\ losses' = 0
        BY <1>5, <2>1, MutatedQueue DEF OwnerReplace
      <3>2. /\ IsFiniteSet(Held(table'))
            /\ Cardinality(Held(table')) <= Cardinality(Held(table))
            /\ Cardinality(Held(table')) \in Nat
        BY <3>1, FS_Subset, FS_CardinalityType DEF LoopInv, QueueInv
      <3> QED BY <1>0, <3>1, <3>2 DEF LossInv
    <2>2. CASE table # osnap
      <3>1. Cardinality(Held(osnap)) \in Nat
        BY <1>5, FS_CardinalityType DEF OwnerReplace, LossInv
      <3> QED BY <1>0, <1>5, <2>2, <3>1 DEF OwnerReplace, LossInv
    <2> QED BY <2>1, <2>2
  <1>6. CASE UNCHANGED vars
    BY <1>6 DEF vars, ownerVars, LossInv
  <1> QED BY <1>1, <1>2, <1>3, <1>4, <1>5, <1>6 DEF Next, BeginTake, BeginRelease

LEMMA Invariance == Spec => [](LoopInv /\ LossInv)
  BY CASAssumption, LoopInit, LoopStep, LossStep, PTL DEF Spec

-----------------------------------------------------------------------------
\* The owner's update loses at most max_calls comparisons to callers, which is
\* why mutate/2 needs no retry budget.
THEOREM OwnerLossBound == Spec => []OwnerLossesBounded
  <1>1. LoopInv /\ LossInv => OwnerLossesBounded
    <2> SUFFICES ASSUME LoopInv, LossInv PROVE OwnerLossesBounded
      OBVIOUS
    <2>1. /\ Cardinality(Held(table)) \in Nat /\ MaxCalls \in Nat
          /\ Cardinality(Held(table)) <= MaxCalls
          /\ opc = "replace" => Cardinality(Held(osnap)) \in Nat
      BY HeldBounded, FS_CardinalityType DEF LossInv, LoopInv
    <2>2. opc \in {"idle", "read", "replace"}
      BY DEF LoopInv
    <2> QED BY <2>1, <2>2 DEF LossInv, OwnerLossesBounded
  <1> QED BY <1>1, Invariance, PTL

\* Under every interleaving of the loops, and for every set of requests and all
\* limits: a close is the youngest entry and admits nothing behind it, the
\* order of admission is total and what is taken precedes what is not,
\* max_pending_calls is never exceeded, and no entry is left without a wakeup
\* due.
THEOREM QueueAlwaysKept == Spec => []QueueKept
  <1>1. LoopInv => QueueKept
    BY DEF LoopInv, QueueInv, QueueKept
  <1> QED BY <1>1, Invariance, PTL

\* Every step of the loops is one atomic operation of the queue, or nothing.
LEMMA StepRefines == LoopInv /\ [Next]_vars => [A!Next]_(A!vars)
  <1> SUFFICES ASSUME LoopInv, [Next]_vars PROVE [A!Next]_(A!vars)
    OBVIOUS
  <1>1. ASSUME NEW r \in Requests, Read(r) PROVE [A!Next]_(A!vars)
    <2>1. outcome[r] = "none"
      BY <1>1 DEF Read, LoopInv
    <2>2. CASE tries[r] = 0
      BY <1>1, <2>1, <2>2 DEF Read, Return, A!Next, A!Contend, A!Answer
    <2>3. CASE tries[r] # 0 /\ Verdict(table, r) # "ok"
      BY <1>1, <2>1, <2>3, SameQueue DEF Read, Return, A!Next, A!Refuse, A!Answer
    <2>4. CASE tries[r] # 0 /\ Verdict(table, r) = "ok"
      BY <1>1, <2>4 DEF Read, A!vars
    <2> QED BY <2>2, <2>3, <2>4
  <1>2. ASSUME NEW r \in Requests, Replace(r) PROVE [A!Next]_(A!vars)
    <2>1. CASE table = snap[r]
      BY <1>2, <2>1, SameQueue DEF Replace, Return, LoopInv, A!Next, A!Enqueue, A!Answer
    <2>2. CASE table # snap[r]
      BY <1>2, <2>2 DEF Replace, A!vars
    <2> QED BY <2>1, <2>2
  <1>3. CASE OwnerReplace
    <2>1. CASE table = osnap /\ task.op = "take"
      BY <1>3, <2>1, SameQueue DEF OwnerReplace, Mutated, LoopInv, callerVars, A!Next, A!Take
    <2>2. CASE table = osnap /\ task.op = "release"
      BY <1>3, <2>2, SameQueue DEF OwnerReplace, Mutated, LoopInv, callerVars, A!Next, A!Release
    <2>3. CASE table # osnap
      BY <1>3, <2>3 DEF OwnerReplace, callerVars, A!vars
    <2> QED BY <1>3, <2>1, <2>2, <2>3 DEF OwnerReplace, LoopInv
  <1>4. ASSUME UNCHANGED <<table, outcome>> PROVE [A!Next]_(A!vars)
    BY <1>4 DEF A!vars
  <1> QED BY <1>1, <1>2, <1>3, <1>4
        DEF Next, BeginTake, BeginRelease, Begin, OwnerRead, vars, callerVars

\* admission.ex implements the atomic queue: enqueue, take and release are
\* linearizable although no lock is taken.
THEOREM Implements == Spec => Refinement
  <1>1. Init => A!Init
    BY DEF Init
  <1> QED BY <1>1, StepRefines, Invariance, PTL DEF Spec, A!Spec, Refinement
=============================================================================
