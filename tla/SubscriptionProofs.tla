------------------------- MODULE SubscriptionProofs -------------------------
(***************************************************************************)
(* Proofs about Subscription for every value of its constants.             *)
(***************************************************************************)
EXTENDS Subscription, TLAPS

-----------------------------------------------------------------------------
(* Types *)

LEMMA AppendType ==
  ASSUME NEW S, NEW s \in Seq(S), NEW x \in S
  PROVE  /\ Append(s, x) \in Seq(S)
         /\ Len(Append(s, x)) = Len(s) + 1
         /\ \A i \in 1..Len(s) : Append(s, x)[i] = s[i]
         /\ Append(s, x)[Len(s) + 1] = x
  OBVIOUS

LEMMA TailType ==
  ASSUME NEW S, NEW s \in Seq(S), s # <<>>
  PROVE  /\ Head(s) \in S /\ Head(s) = s[1]
         /\ Tail(s) \in Seq(S)
         /\ Len(Tail(s)) = Len(s) - 1 /\ Len(s) > 0
         /\ \A i \in 1..Len(Tail(s)) : Tail(s)[i] = s[i + 1]
  OBVIOUS

LEMMA EventIsEntry == ASSUME NEW e \in Events PROVE e.kind = "lost" \/ e \in Entries
  BY DEF Events, Entries

\* stop_after_status appends at most one final entry.
LEMMA StatusForwarded ==
  ASSUME DataTypes, NEW status \in FinalKinds, StopAfterStatus(status)
  PROVE  /\ log' \in Seq(Entries)
         /\ UNCHANGED <<ralive, rq, dropped>>
  <1>1. Final(status) \in Entries
    BY DEF Final, Entries
  <1> QED BY <1>1 DEF StopAfterStatus, DataTypes

\* deliver/2 keeps the receiver's side typed.
LEMMA DeliverTypes ==
  ASSUME DataTypes, NEW e \in Events, Deliver(e)
  PROVE  ralive' \in BOOLEAN /\ rq' \in Nat /\ log' \in Seq(Entries) /\ dropped' \subseteq Nat
  <1>1. CASE e.kind # "lost" /\ Forward(e)
    <2>1. e \in Entries
      BY <1>1, EventIsEntry
    <2>2. CASE ForwardRaises
      BY <1>1, <2>2 DEF Forward, DataTypes, rVars
    <2>3. CASE ~ForwardRaises
      <3>1. log' = log \/ log' = Append(log, e)
        BY <1>1, <2>3 DEF Forward
      <3>2. rq' = rq \/ rq' = rq + 1
        BY <1>1, <2>3 DEF Forward
      <3>3. UNCHANGED <<ralive, dropped>>
        BY <1>1, <2>3 DEF Forward
      <3>4. log' \in Seq(Entries)
        BY <2>1, <3>1, AppendType DEF DataTypes
      <3>5. rq' \in Nat
        BY <3>2 DEF DataTypes
      <3> QED BY <3>3, <3>4, <3>5 DEF DataTypes
    <2> QED BY <2>2, <2>3
  <1>2. CASE StopAfterStatus("overloaded")
    BY <1>2, StatusForwarded DEF DataTypes, FinalKinds
  <1>3. CASE dropped' = dropped \cup {e.n} /\ UNCHANGED <<ralive, rq, log>>
    BY <1>3 DEF DataTypes, Events
  <1> QED BY <1>1, <1>2, <1>3 DEF Deliver

LEMMA InitType == Init => TypeOK
  <1> SUFFICES ASSUME Init PROVE TypeOK
    OBVIOUS
  <1>1. ControlTypes
    BY DEF Init, ControlTypes
  <1>2. GuardianTypes
    BY DEF Init, GuardianTypes
  <1>3. DataTypes
    BY DEF Init, DataTypes
  <1>4. CallerTypes
    BY DEF Init, CallerTypes
  <1> QED
    BY <1>1, <1>2, <1>3, <1>4 DEF TypeOK

LEMMA TypeStep == TypeOK /\ [Next]_vars => TypeOK'
  <1> SUFFICES ASSUME TypeOK, [Next]_vars PROVE TypeOK'
    OBVIOUS
  <1>1. ControlTypes'
    <2> USE DEF TypeOK, ControlTypes
    <2>1. CASE Process
      <3>1. CASE Continue
        BY <3>1 DEF Continue, StopAfterStatus, StopSilently, FinalKinds
      <3>2. CASE HandleReady
        BY <3>2 DEF HandleReady, CallGuardian, FinalKinds
      <3>3. CASE Open
        BY <3>3 DEF Open, ClaimOk, ClaimError, ClaimNone, CallReturns, StopAfterStatus, FinalKinds
      <3>4. CASE HandleTransport
        BY <3>4 DEF HandleTransport, BufferOpening, Deliver, Forward, StopAfterStatus, FinalKinds
      <3>5. CASE Flush
        BY <3>5 DEF Flush, Deliver, Forward, StopAfterStatus, FinalKinds
      <3>6. CASE \E s \in {"tdown", "gdown", "exit", "rdown", "shutdown"} : HandleSignal(s)
        BY <3>6 DEF HandleSignal, StopAfterStatus, StopSilently, FinalKinds
      <3>7. CASE \E c \in Stoppers : HandleStop(c)
        BY <3>7 DEF HandleStop, CallGuardian, FinalKinds
      <3>8. CASE Terminate
        BY <3>8 DEF Terminate, CallGuardian, FinalKinds
      <3>9. CASE CloseOpening
        BY <3>9 DEF CloseOpening, CallReturns, CloseDone, FinalKinds
      <3>10. CASE Unsubscribe
        BY <3>10 DEF Unsubscribe, CloseDone, FinalKinds
      <3>11. CASE Exit \/ Kill
        BY <3>11 DEF Exit, Kill, Die, FinalKinds
      <3> QED BY <2>1, <3>1, <3>2, <3>3, <3>4, <3>5, <3>6, <3>7, <3>8, <3>9, <3>10, <3>11 DEF Process
    <2>2. CASE Guardian
      <3>1. CASE GClaim
        BY <3>1 DEF GClaim, ReplyTo, GuardianTypes, sVars
      <3>2. CASE GCancel \/ GOwnerDown
        BY <3>2 DEF GCancel, GOwnerDown, GStopWorker, GuardianTypes, sVars
      <3>3. CASE GCancelled
        BY <3>3 DEF GCancelled, ReplyTo, StoppedResult, GuardianTypes, sVars
      <3>4. CASE GExited
        BY <3>4 DEF GExited, GuardianTypes, sVars
      <3>5. CASE GResult
        BY <3>5 DEF GResult, Notify, GuardianTypes, sVars
      <3>6. CASE GTransportDown \/ GWorkerDown \/ GuardianCrash
        BY <3>6 DEF GTransportDown, GWorkerDown, GuardianCrash, Notify, GuardianTypes, sVars
      <3> QED BY <2>2, <3>1, <3>2, <3>3, <3>4, <3>5, <3>6 DEF Guardian
    <2>3. CASE Worker
      BY <2>3 DEF Worker, CallbackReturns, WorkerDies, WorkerCrash, WorkerEnds, TransportExit, ToGuardian, sVars
    <2>4. CASE Environment
      BY <2>4 DEF Environment, TransportSend, Signal, ReceiverReads, ReceiverDies, CallStop, StopTimeout, sVars
    <2>5. CASE UNCHANGED vars
      BY <2>5 DEF vars, sVars, gVars, wVars, tVars, rVars, cVars
    <2> QED BY <2>1, <2>2, <2>3, <2>4, <2>5 DEF Next
  <1>2. GuardianTypes'
    <2> USE DEF TypeOK, GuardianTypes
    <2>1. CASE Process
      <3>1. CASE Continue
        BY <3>1 DEF Continue, StopAfterStatus, StopSilently, GAlive, gVars, wVars
      <3>2. CASE HandleReady
        BY <3>2 DEF HandleReady, CallGuardian, GAlive, gVars, wVars
      <3>3. CASE Open
        BY <3>3 DEF Open, ClaimOk, ClaimError, ClaimNone, CallReturns, StopAfterStatus, GAlive, gVars, wVars
      <3>4. CASE HandleTransport
        BY <3>4 DEF HandleTransport, BufferOpening, Deliver, Forward, StopAfterStatus, GAlive, gVars, wVars
      <3>5. CASE Flush
        BY <3>5 DEF Flush, Deliver, Forward, StopAfterStatus, GAlive, gVars, wVars
      <3>6. CASE \E s \in {"tdown", "gdown", "exit", "rdown", "shutdown"} : HandleSignal(s)
        BY <3>6 DEF HandleSignal, StopAfterStatus, StopSilently, GAlive, gVars, wVars
      <3>7. CASE \E c \in Stoppers : HandleStop(c)
        <4> PICK c \in Stoppers : HandleStop(c)
          BY <3>7
        <4>1. gbox' = gbox \/ gbox' = gbox \cup {"cancel"}
          BY DEF HandleStop, CallGuardian
        <4>2. UNCHANGED <<gpc, result, claimed, gworker, wVars>>
          BY DEF HandleStop
        <4> QED BY <4>1, <4>2 DEF wVars
      <3>8. CASE Terminate
        BY <3>8 DEF Terminate, CallGuardian, GAlive, gVars, wVars
      <3>9. CASE CloseOpening
        BY <3>9 DEF CloseOpening, CallReturns, CloseDone, GAlive, gVars, wVars
      <3>10. CASE Unsubscribe
        BY <3>10 DEF Unsubscribe, CloseDone, GAlive, gVars, wVars
      <3>11. CASE Exit \/ Kill
        BY <3>11 DEF Exit, Kill, Die, GAlive, gVars, wVars
      <3> QED BY <2>1, <3>1, <3>2, <3>3, <3>4, <3>5, <3>6, <3>7, <3>8, <3>9, <3>10, <3>11 DEF Process
    <2>2. CASE Guardian
      <3>1. CASE GClaim
        BY <3>1 DEF GClaim, ReplyTo, wVars
      <3>2. CASE GCancel \/ GOwnerDown
        BY <3>2 DEF GCancel, GOwnerDown, GStopWorker, wVars
      <3>3. CASE GCancelled
        BY <3>3 DEF GCancelled, ReplyTo, StoppedResult, wVars
      <3>4. CASE GExited
        BY <3>4 DEF GExited, wVars
      <3>5. CASE GResult
        BY <3>5 DEF GResult, Notify, wVars
      <3>6. CASE GTransportDown \/ GWorkerDown \/ GuardianCrash
        BY <3>6 DEF GTransportDown, GWorkerDown, GuardianCrash, Notify, wVars
      <3> QED BY <2>2, <3>1, <3>2, <3>3, <3>4, <3>5, <3>6 DEF Guardian
    <2>3. CASE Worker
      BY <2>3 DEF Worker, CallbackReturns, WorkerDies, WorkerCrash, WorkerEnds, TransportExit, ToGuardian, gVars, wVars
    <2>4. CASE Environment
      <3>1. CASE \E kind \in {"data", "reconnected", "lost"} : TransportSend(kind)
        BY <3>1 DEF TransportSend, gVars, wVars
      <3>2. CASE \E s \in {"exit", "shutdown"} : Signal(s)
        BY <3>2 DEF Signal, gVars, wVars
      <3>3. CASE ReceiverReads \/ ReceiverDies
        BY <3>3 DEF ReceiverReads, ReceiverDies, gVars, wVars
      <3>4. CASE \E c \in Stoppers : CallStop(c) \/ StopTimeout(c)
        <4>1. UNCHANGED <<gVars, wVars>>
          BY <3>4 DEF CallStop, StopTimeout
        <4> QED BY <4>1 DEF gVars, wVars
      <3> QED BY <2>4, <3>1, <3>2, <3>3, <3>4 DEF Environment
    <2>5. CASE UNCHANGED vars
      BY <2>5 DEF vars, sVars, gVars, wVars, tVars, rVars, cVars
    <2> QED BY <2>1, <2>2, <2>3, <2>4, <2>5 DEF Next
  <1>3. DataTypes'
    <2> USE DEF TypeOK, DataTypes
    <2>1. CASE Process
      <3>1. CASE Continue
        BY <3>1, StatusForwarded DEF Continue, StopSilently, FinalKinds, tVars, rVars
      <3>2. CASE HandleReady
        BY <3>2 DEF HandleReady, CallGuardian, tVars, rVars
      <3>3. CASE Open
        BY <3>3, StatusForwarded DEF Open, ClaimOk, ClaimError, ClaimNone, FinalKinds, tVars, rVars
      <3>4. CASE HandleTransport
        <4> DEFINE e == Head(chan)
        <4>1. e \in Events /\ Tail(chan) \in Seq(Events)
          BY <3>4 DEF HandleTransport
        <4>2. chan' \in Seq(Events) /\ UNCHANGED <<sent, unsubs>>
          BY <3>4, <4>1 DEF HandleTransport
        <4>3. CASE e.kind = "lost" /\ StopAfterStatus("session_lost") /\ UNCHANGED buffer
          BY <4>2, <4>3, StatusForwarded DEF FinalKinds
        <4>4. CASE BufferOpening(e)
          <5>1. CASE StopAfterStatus("overloaded") /\ UNCHANGED buffer
            BY <4>2, <5>1, StatusForwarded DEF FinalKinds
          <5>2. CASE buffer' = Append(buffer, e) /\ UNCHANGED rVars
            BY <4>1, <4>2, <5>2 DEF rVars
          <5> QED BY <4>4, <5>1, <5>2 DEF BufferOpening
        <4>5. CASE e.kind # "lost" /\ Deliver(e) /\ UNCHANGED buffer
          BY <4>1, <4>2, <4>5, DeliverTypes
        <4> QED BY <3>4, <4>3, <4>4, <4>5 DEF HandleTransport
      <3>5. CASE Flush
        <4>1. CASE buffer = <<>> /\ UNCHANGED <<buffer, rVars>>
          BY <3>5, <4>1 DEF Flush, tVars, rVars
        <4>2. CASE buffer # <<>> /\ buffer' = Tail(buffer) /\ Deliver(Head(buffer))
          <5>1. Head(buffer) \in Events /\ Tail(buffer) \in Seq(Events)
            BY <4>2
          <5> QED BY <3>5, <4>2, <5>1, DeliverTypes DEF Flush, tVars
        <4> QED BY <3>5, <4>1, <4>2 DEF Flush
      <3>6. CASE \E s \in {"tdown", "gdown", "exit", "rdown", "shutdown"} : HandleSignal(s)
        <4> PICK s \in {"tdown", "gdown", "exit", "rdown", "shutdown"} : HandleSignal(s)
          BY <3>6
        <4> QED BY StatusForwarded DEF HandleSignal, StopSilently, FinalKinds, tVars, rVars
      <3>7. CASE \E c \in Stoppers : HandleStop(c)
        BY <3>7 DEF HandleStop, CallGuardian, tVars, rVars
      <3>8. CASE Terminate
        BY <3>8 DEF Terminate, CallGuardian, tVars, rVars
      <3>9. CASE CloseOpening
        BY <3>9 DEF CloseOpening, CallReturns, CloseDone, tVars, rVars
      <3>10. CASE Unsubscribe
        BY <3>10 DEF Unsubscribe, CloseDone, tVars, rVars
      <3>11. CASE Exit \/ Kill
        <4>1. buffer' = <<>> /\ chan' = <<>> /\ UNCHANGED <<sent, unsubs, rVars>>
          BY <3>11 DEF Exit, Kill, Die
        <4> QED BY <4>1 DEF rVars
      <3> QED BY <2>1, <3>1, <3>2, <3>3, <3>4, <3>5, <3>6, <3>7, <3>8, <3>9, <3>10, <3>11 DEF Process
    <2>2. CASE Guardian
      <3>1. CASE GClaim
        BY <3>1 DEF GClaim, ReplyTo, sVars, tVars, rVars
      <3>2. CASE GCancel \/ GOwnerDown
        BY <3>2 DEF GCancel, GOwnerDown, GStopWorker, sVars, tVars, rVars
      <3>3. CASE GCancelled
        BY <3>3 DEF GCancelled, ReplyTo, StoppedResult, sVars, tVars, rVars
      <3>4. CASE GExited
        BY <3>4 DEF GExited, sVars, tVars, rVars
      <3>5. CASE GResult
        BY <3>5 DEF GResult, Notify, sVars, tVars, rVars
      <3>6. CASE GTransportDown \/ GWorkerDown \/ GuardianCrash
        BY <3>6 DEF GTransportDown, GWorkerDown, GuardianCrash, Notify, sVars, tVars, rVars
      <3> QED BY <2>2, <3>1, <3>2, <3>3, <3>4, <3>5, <3>6 DEF Guardian
    <2>3. CASE Worker
      BY <2>3 DEF Worker, CallbackReturns, WorkerDies, WorkerCrash, WorkerEnds, TransportExit, ToGuardian, sVars, tVars, rVars
    <2>4. CASE Environment
      <3>1. CASE \E kind \in {"data", "reconnected", "lost"} : TransportSend(kind)
        BY <3>1 DEF TransportSend, Events, sVars, tVars, rVars
      <3>2. CASE \E s \in {"exit", "shutdown"} : Signal(s)
        BY <3>2 DEF Signal, sVars, tVars, rVars
      <3>3. CASE ReceiverReads \/ ReceiverDies
        <4>1. UNCHANGED <<sVars, tVars, unsubs, log, dropped>>
          BY <3>3 DEF ReceiverReads, ReceiverDies
        <4>2. ralive' \in BOOLEAN
          BY <3>3 DEF ReceiverReads, ReceiverDies
        <4>3. (rq' = rq - 1 /\ rq > 0) \/ rq' = 0
          BY <3>3 DEF ReceiverReads, ReceiverDies
        <4>4. rq' \in Nat
          BY <4>3
        <4> QED BY <4>1, <4>2, <4>4 DEF sVars, tVars
      <3>4. CASE \E c \in Stoppers : CallStop(c) \/ StopTimeout(c)
        BY <3>4 DEF CallStop, StopTimeout, sVars, tVars, rVars
      <3> QED BY <2>4, <3>1, <3>2, <3>3, <3>4 DEF Environment
    <2>5. CASE UNCHANGED vars
      BY <2>5 DEF vars, sVars, gVars, wVars, tVars, rVars, cVars
    <2> QED BY <2>1, <2>2, <2>3, <2>4, <2>5 DEF Next
  <1>4. CallerTypes'
    <2> USE DEF TypeOK, CallerTypes
    <2>1. CASE Process
      <3>1. CASE Continue
        BY <3>1 DEF Continue, StopAfterStatus, StopSilently, ControlTypes, StopOutcome, cVars
      <3>2. CASE HandleReady
        BY <3>2 DEF HandleReady, CallGuardian, ControlTypes, StopOutcome, cVars
      <3>3. CASE Open
        BY <3>3 DEF Open, ClaimOk, ClaimError, ClaimNone, CallReturns, StopAfterStatus, ControlTypes, StopOutcome, cVars
      <3>4. CASE HandleTransport
        BY <3>4 DEF HandleTransport, BufferOpening, Deliver, Forward, StopAfterStatus, ControlTypes, StopOutcome, cVars
      <3>5. CASE Flush
        BY <3>5 DEF Flush, Deliver, Forward, StopAfterStatus, ControlTypes, StopOutcome, cVars
      <3>6. CASE \E s \in {"tdown", "gdown", "exit", "rdown", "shutdown"} : HandleSignal(s)
        BY <3>6 DEF HandleSignal, StopAfterStatus, StopSilently, ControlTypes, StopOutcome, cVars
      <3>7. CASE \E c \in Stoppers : HandleStop(c)
        BY <3>7 DEF HandleStop, CallGuardian, ControlTypes, StopOutcome, cVars
      <3>8. CASE Terminate
        BY <3>8 DEF Terminate, CallGuardian, ControlTypes, StopOutcome, cVars
      <3>9. CASE CloseOpening
        BY <3>9 DEF CloseOpening, CallReturns, CloseDone, ControlTypes, StopOutcome, cVars
      <3>10. CASE Unsubscribe
        BY <3>10 DEF Unsubscribe, CloseDone, ControlTypes, StopOutcome, cVars
      <3>11. CASE Exit \/ Kill
        BY <3>11 DEF Exit, Kill, Die, ControlTypes, StopOutcome, cVars
      <3> QED BY <2>1, <3>1, <3>2, <3>3, <3>4, <3>5, <3>6, <3>7, <3>8, <3>9, <3>10, <3>11 DEF Process
    <2>2. CASE Guardian
      <3>1. CASE GClaim
        BY <3>1 DEF GClaim, ReplyTo, sVars, cVars
      <3>2. CASE GCancel \/ GOwnerDown
        BY <3>2 DEF GCancel, GOwnerDown, GStopWorker, sVars, cVars
      <3>3. CASE GCancelled
        BY <3>3 DEF GCancelled, ReplyTo, StoppedResult, sVars, cVars
      <3>4. CASE GExited
        BY <3>4 DEF GExited, sVars, cVars
      <3>5. CASE GResult
        BY <3>5 DEF GResult, Notify, sVars, cVars
      <3>6. CASE GTransportDown \/ GWorkerDown \/ GuardianCrash
        BY <3>6 DEF GTransportDown, GWorkerDown, GuardianCrash, Notify, sVars, cVars
      <3> QED BY <2>2, <3>1, <3>2, <3>3, <3>4, <3>5, <3>6 DEF Guardian
    <2>3. CASE Worker
      BY <2>3 DEF Worker, CallbackReturns, WorkerDies, WorkerCrash, WorkerEnds, TransportExit, ToGuardian, sVars, cVars
    <2>4. CASE Environment
      BY <2>4 DEF Environment, TransportSend, Signal, ReceiverReads, ReceiverDies, CallStop, StopTimeout, sVars, cVars
    <2>5. CASE UNCHANGED vars
      BY <2>5 DEF vars, sVars, gVars, wVars, tVars, rVars, cVars
    <2> QED BY <2>1, <2>2, <2>3, <2>4, <2>5 DEF Next
  <1> QED BY <1>1, <1>2, <1>3, <1>4 DEF TypeOK

\* Types: no interleaving of the processes and no fault leaves them.
THEOREM TypeCorrect == Spec => []TypeOK
  BY InitType, TypeStep, PTL DEF Spec

-----------------------------------------------------------------------------
(* At most one unsubscribe *)

\* Once unsubscribe/4 was called, the process can only end: terminate/2 does
\* not close again, because handle_call(:stop) sets closed?.
UnsubscribeInv ==
    /\ unsubs \in {0, 1}
    /\ unsubs = 1 => pc \in {"exit", "dead"} \/ (pc = "terminate" /\ closed)

LEMMA UnsubscribeStep == TypeOK /\ UnsubscribeInv /\ [Next]_vars => UnsubscribeInv'
  <1> SUFFICES ASSUME TypeOK, UnsubscribeInv, [Next]_vars PROVE UnsubscribeInv'
    OBVIOUS
  <1> USE DEF UnsubscribeInv
  <1>1. CASE Process
    <2>1. CASE Unsubscribe
      BY <2>1 DEF Unsubscribe, CloseDone
    <2>2. CASE Terminate
      BY <2>2 DEF Terminate, CallGuardian
    <2>3. CASE Exit \/ Kill
      BY <2>3 DEF Exit, Kill, Die
    <2>4. CASE Continue \/ HandleReady \/ Open \/ HandleTransport \/ Flush \/ CloseOpening
      <3>1. unsubs = 0
        BY <2>4 DEF Continue, HandleReady, Open, ClaimOk, ClaimError, ClaimNone, CallReturns,
                    HandleTransport, Flush, CloseOpening
      <3> QED BY <2>4, <3>1 DEF Continue, HandleReady, Open, HandleTransport, Flush, CloseOpening
    <2>5. CASE \E s \in {"tdown", "gdown", "exit", "rdown", "shutdown"} : HandleSignal(s)
      BY <2>5 DEF HandleSignal
    <2>6. CASE \E c \in Stoppers : HandleStop(c)
      BY <2>6 DEF HandleStop
    <2> QED BY <1>1, <2>1, <2>2, <2>3, <2>4, <2>5, <2>6 DEF Process
  <1>2. CASE Guardian
    BY <1>2 DEF Guardian, GClaim, GCancel, GOwnerDown, GStopWorker, GCancelled, GExited,
                GResult, GTransportDown, GWorkerDown, GuardianCrash, sVars
  <1>3. CASE Worker
    BY <1>3 DEF Worker, CallbackReturns, WorkerDies, WorkerCrash, WorkerEnds, TransportExit, sVars
  <1>4. CASE Environment
    BY <1>4 DEF Environment, TransportSend, Signal, ReceiverReads, ReceiverDies, CallStop,
                StopTimeout, sVars
  <1>5. CASE UNCHANGED vars
    BY <1>5 DEF vars, sVars
  <1> QED BY <1>1, <1>2, <1>3, <1>4, <1>5 DEF Next

LEMMA UnsubscribeAlways == Spec => []UnsubscribeInv
  <1>1. Init => UnsubscribeInv
    BY DEF Init, UnsubscribeInv
  <1> QED BY <1>1, TypeCorrect, UnsubscribeStep, PTL DEF Spec

\* Whatever stops the subscription (stop/2, several of them, a status, the
\* receiver, the supervisor, a crash) and whatever faults happen,
\* unsubscribe/4 is called at most once.
THEOREM UnsubscribedAtMostOnce == Spec => []UnsubscribeOnce
  <1>1. UnsubscribeInv => UnsubscribeOnce
    BY DEF UnsubscribeInv, UnsubscribeOnce
  <1> QED BY <1>1, UnsubscribeAlways, PTL

-----------------------------------------------------------------------------
(* Order of what the receiver sees *)

Running == pc \in {"continue", "loop", "claiming", "flush"}

\* Messages of the transport the process has disposed of.
Seen == sent - Len(chan) - Len(buffer)

\* Every message up to the k-th was forwarded, or was meant to be skipped.
Covered(k) ==
    /\ \A i \in Forwarded : log[i].n \in 1..k
    /\ ralive => \A n \in 1..k : n \in dropped \/ \E j \in Forwarded : log[j].n = n

\* Buffer, then channel, continue the numbering where the log ended.
Numbering ==
    /\ Seen \in Nat
    /\ \A i \in 1..Len(buffer) : buffer[i].n = Seen + i
    /\ \A i \in 1..Len(chan) : chan[i].n = Seen + Len(buffer) + i
    /\ Covered(Seen)
    /\ \A i \in 1..Len(log) : log[i].kind \notin FinalKinds
    /\ pc = "continue" \/ (active /\ pc = "loop") => buffer = <<>>

OrderInv ==
    /\ DeliveryOrder /\ FinalStatusIsLast
    /\ Running => Numbering

\* Nothing was forwarded or dropped in a step that leaves the log alone.
LEMMA LogUnchanged ==
  ASSUME UNCHANGED <<log, dropped>>
  PROVE  /\ DeliveryOrder => DeliveryOrder'
         /\ FinalStatusIsLast => FinalStatusIsLast'
         /\ Forwarded' = Forwarded
  BY DEF DeliveryOrder, FinalStatusIsLast, Forwarded

\* A final entry disturbs no delivery.
LEMMA FinalAppended ==
  ASSUME DataTypes, DeliveryOrder, FinalStatusIsLast,
         \A i \in 1..Len(log) : log[i].kind \notin FinalKinds,
         NEW status \in FinalKinds, StopAfterStatus(status)
  PROVE  DeliveryOrder' /\ FinalStatusIsLast'
  <1>1. CASE log' = log
    <2>1. UNCHANGED <<log, dropped>>
      BY <1>1 DEF StopAfterStatus
    <2> QED BY <2>1, LogUnchanged
  <1>2. CASE log' = Append(log, Final(status))
    <2>1. Final(status) \in Entries /\ Final(status).kind = status /\ log \in Seq(Entries)
      BY DEF Final, Entries, DataTypes
    <2>2. /\ Len(log') = Len(log) + 1 /\ Len(log) \in Nat
          /\ \A i \in 1..Len(log) : log'[i] = log[i]
          /\ log'[Len(log) + 1].kind = status
      BY <1>2, <2>1, AppendType
    <2>3. FinalStatusIsLast'
      BY <2>2 DEF FinalStatusIsLast
    <2>4. Forwarded' = Forwarded
      BY <2>2 DEF Forwarded
    <2>5. \A i \in Forwarded : log'[i] = log[i]
      BY <2>2 DEF Forwarded
    <2>6. dropped' = dropped
      BY DEF StopAfterStatus
    <2>7. DeliveryOrder'
      BY <2>4, <2>5, <2>6 DEF DeliveryOrder
    <2> QED BY <2>3, <2>7
  <1> QED BY <1>1, <1>2 DEF StopAfterStatus

\* Forwarding message k + 1 after the first k keeps order and completeness.
LEMMA NextForwarded ==
  ASSUME DataTypes, NEW k \in Nat, Covered(k), DeliveryOrder,
         \A i \in 1..Len(log) : log[i].kind \notin FinalKinds,
         NEW e \in Entries, e.n = k + 1, e.kind \notin FinalKinds,
         ralive, log' = Append(log, e), UNCHANGED <<ralive, dropped>>
  PROVE  /\ DeliveryOrder' /\ Covered(k + 1)'
         /\ \A i \in 1..Len(log') : log'[i].kind \notin FinalKinds
  <1>1. /\ Len(log') = Len(log) + 1 /\ Len(log) \in Nat
        /\ \A i \in 1..Len(log) : log'[i] = log[i]
        /\ log'[Len(log) + 1] = e
    BY AppendType DEF DataTypes
  <1>2. Forwarded = 1..Len(log) /\ Forwarded' = 1..(Len(log) + 1)
    BY <1>1 DEF Forwarded
  <1>3. \A i \in 1..Len(log) : log[i].n \in 1..k
    BY <1>2 DEF Covered
  <1>4. \A n \in 1..k : n \in dropped' \/ \E j \in 1..Len(log) : log'[j].n = n
    BY <1>1, <1>2 DEF Covered
  <1>5. \A i, j \in Forwarded' : i < j => log'[i].n < log'[j].n
    <2> SUFFICES ASSUME NEW i \in 1..(Len(log) + 1), NEW j \in 1..(Len(log) + 1), i < j
                 PROVE  log'[i].n < log'[j].n
      BY <1>2
    <2>1. i \in 1..Len(log) /\ log'[i] = log[i] /\ log[i].n \in 1..k
      BY <1>1, <1>3
    <2>2. CASE j = Len(log) + 1
      BY <1>1, <2>1, <2>2
    <2>3. CASE j \in 1..Len(log)
      BY <1>1, <1>2, <2>1, <2>3 DEF DeliveryOrder
    <2> QED BY <1>1, <2>2, <2>3
  <1>6. \A i \in Forwarded' : log'[i].n \in 1..(k + 1)
    BY <1>1, <1>2, <1>3
  <1>7. \A n \in 1..(k + 1) : n \in dropped' \/ \E j \in Forwarded' : log'[j].n = n
    <2> TAKE n \in 1..(k + 1)
    <2>1. CASE n = k + 1
      BY <1>1, <1>2, <2>1
    <2>2. CASE n \in 1..k
      BY <1>1, <1>2, <1>4, <2>2
    <2>3. n = k + 1 \/ n \in 1..k
      OBVIOUS
    <2> QED BY <2>1, <2>2, <2>3
  <1>8. \A i \in Forwarded' : \A n \in 1..(log'[i].n - 1) :
          n \in dropped' \/ \E j \in Forwarded' : log'[j].n = n
    <2> SUFFICES ASSUME NEW i \in Forwarded', NEW n \in 1..(log'[i].n - 1)
                 PROVE  n \in dropped' \/ \E j \in Forwarded' : log'[j].n = n
      OBVIOUS
    <2>1. PICK m \in 1..(k + 1) : m = log'[i].n
      BY <1>6
    <2>2. n \in 1..(m - 1)
      BY <2>1
    <2>3. n \in 1..(k + 1)
      BY <2>2
    <2> QED BY <1>7, <2>3
  <1> QED BY <1>1, <1>2, <1>5, <1>6, <1>7, <1>8 DEF DeliveryOrder, Covered

\* deliver/2 of the next message: the process goes on with one more message
\* disposed of, or stops with order and finality intact.
LEMMA DeliverOrder ==
  ASSUME DataTypes, NEW k \in Nat, Covered(k), DeliveryOrder, FinalStatusIsLast,
         \A i \in 1..Len(log) : log[i].kind \notin FinalKinds,
         NEW e \in Events, e.n = k + 1, Deliver(e)
  PROVE  /\ DeliveryOrder' /\ FinalStatusIsLast'
         /\ \/ pc' = "terminate"
            \/ /\ UNCHANGED <<pc, active>> /\ Covered(k + 1)'
               /\ \A i \in 1..Len(log') : log'[i].kind \notin FinalKinds
  <1>1. CASE StopAfterStatus("overloaded")
    BY <1>1, FinalAppended DEF FinalKinds, StopAfterStatus
  <1>2. CASE UNCHANGED <<pc, active, ralive, rq, log>> /\ dropped' = dropped \cup {e.n}
    <2>1. Forwarded' = Forwarded
      BY <1>2 DEF Forwarded
    <2>2. DeliveryOrder'
      BY <1>2, <2>1 DEF DeliveryOrder
    <2>3. FinalStatusIsLast'
      BY <1>2 DEF FinalStatusIsLast
    <2>4. Covered(k + 1)'
      BY <1>2, <2>1 DEF Covered
    <2> QED BY <1>2, <2>2, <2>3, <2>4
  <1>3. CASE e.kind \in {"data", "reconnected"} /\ Forward(e)
    <2>1. CASE ForwardRaises
      <3>1. UNCHANGED <<log, dropped>> /\ pc' = "terminate"
        BY <1>3, <2>1 DEF Forward, rVars
      <3> QED BY <3>1, LogUnchanged
    <2>2. CASE ~ForwardRaises /\ ralive
      <3>1. log' = Append(log, e) /\ UNCHANGED <<pc, active, ralive, dropped>>
        BY <1>3, <2>2 DEF Forward
      <3>2. e \in Entries /\ e.kind \notin FinalKinds
        BY <1>3, EventIsEntry DEF FinalKinds
      <3>3. /\ DeliveryOrder' /\ Covered(k + 1)'
            /\ \A i \in 1..Len(log') : log'[i].kind \notin FinalKinds
        BY <2>2, <3>1, <3>2, NextForwarded
      <3>4. FinalStatusIsLast'
        BY <3>3 DEF FinalStatusIsLast
      <3> QED BY <3>1, <3>3, <3>4
    <2>3. CASE ~ForwardRaises /\ ~ralive
      <3>1. UNCHANGED <<pc, active, ralive, log, dropped>>
        BY <1>3, <2>3 DEF Forward
      <3>2. Forwarded' = Forwarded
        BY <3>1, LogUnchanged
      <3>3. Covered(k + 1)'
        BY <2>3, <3>1, <3>2 DEF Covered
      <3> QED BY <3>1, <3>3, LogUnchanged
    <2> QED BY <2>1, <2>2, <2>3
  <1> QED BY <1>1, <1>2, <1>3 DEF Deliver

\* A step that leaves the process, its channel and the log alone.
LEMMA OrderUnchanged ==
  ASSUME OrderInv, UNCHANGED <<pc, active, buffer, chan, sent, log, dropped>>,
         ralive' => ralive
  PROVE  OrderInv'
  <1>1. Forwarded' = Forwarded
    BY LogUnchanged
  <1>2. Seen' = Seen /\ Running' = Running
    BY DEF Seen, Running
  <1>3. Covered(Seen) => Covered(Seen)'
    BY <1>1, <1>2 DEF Covered
  <1>4. Numbering => Numbering'
    BY <1>2, <1>3 DEF Numbering
  <1> QED BY <1>2, <1>4, LogUnchanged DEF OrderInv

\* A step after which the process no longer runs, and that forwards nothing.
LEMMA OrderStopped ==
  ASSUME OrderInv, UNCHANGED <<log, dropped>>, ~Running'
  PROVE  OrderInv'
  BY LogUnchanged DEF OrderInv

\* The same, after a status.
LEMMA OrderStatus ==
  ASSUME TypeOK, OrderInv, Running, NEW status \in FinalKinds, StopAfterStatus(status)
  PROVE  OrderInv'
  <1>1. DeliveryOrder' /\ FinalStatusIsLast'
    BY FinalAppended DEF OrderInv, Numbering, TypeOK
  <1>2. ~Running'
    BY DEF StopAfterStatus, Running
  <1> QED BY <1>1, <1>2 DEF OrderInv

\* Delivering the next message from the buffer or from the channel.
LEMMA OrderDelivered ==
  ASSUME TypeOK, OrderInv, Running, pc # "continue", NEW e \in Events,
         e.n = Seen + 1, Seen' = Seen + 1, Deliver(e),
         \A i \in 1..Len(buffer)' : buffer'[i].n = Seen' + i,
         \A i \in 1..Len(chan)' : chan'[i].n = Seen' + Len(buffer)' + i,
         pc = "loop" => buffer' = <<>>
  PROVE  OrderInv'
  <1>1. PICK k \in Nat : k = Seen
    BY DEF OrderInv, Numbering
  <1>2. Covered(k) /\ e.n = k + 1 /\ Seen' = k + 1 /\ DeliveryOrder /\ FinalStatusIsLast
        /\ \A i \in 1..Len(log) : log[i].kind \notin FinalKinds
    BY <1>1 DEF OrderInv, Numbering, Covered
  <1>3. /\ DeliveryOrder' /\ FinalStatusIsLast'
        /\ \/ pc' = "terminate"
           \/ /\ UNCHANGED <<pc, active>> /\ Covered(k + 1)'
              /\ \A i \in 1..Len(log') : log'[i].kind \notin FinalKinds
    BY <1>2, DeliverOrder DEF TypeOK
  <1>4. CASE pc' = "terminate"
    BY <1>3, <1>4 DEF OrderInv, Running
  <1>5. CASE UNCHANGED <<pc, active>> /\ Covered(k + 1)'
             /\ \A i \in 1..Len(log') : log'[i].kind \notin FinalKinds
    <2>1. Covered(Seen)'
      BY <1>2, <1>5 DEF Covered
    <2>2. Seen' \in Nat
      BY <1>2
    <2>3. Numbering'
      BY <1>5, <2>1, <2>2 DEF Numbering
    <2> QED BY <1>3, <2>3 DEF OrderInv
  <1> QED BY <1>3, <1>4, <1>5

LEMMA OrderStep == TypeOK /\ OrderInv /\ [Next]_vars => OrderInv'
  <1> SUFFICES ASSUME TypeOK, OrderInv, [Next]_vars PROVE OrderInv'
    OBVIOUS
  <1>1. CASE Process
    <2>1. CASE Continue
      <3>1. CASE StopAfterStatus("transport_down")
        BY <2>1, <3>1, OrderStatus DEF Continue, Running, FinalKinds
      <3>2. CASE StopSilently("receiver_down")
        BY <3>2, OrderStopped DEF StopSilently, Running, rVars
      <3>3. CASE pc' = "loop" /\ UNCHANGED rVars
        <4>1. Running /\ Running' /\ Seen' = Seen /\ UNCHANGED <<buffer, chan, log, dropped, ralive>>
          BY <2>1, <3>3 DEF Continue, Running, Seen, tVars, rVars
        <4>2. Numbering /\ buffer = <<>>
          BY <2>1, <4>1 DEF OrderInv, Numbering, Continue
        <4>3. Covered(Seen)'
          BY <4>1, <4>2, LogUnchanged DEF Numbering, Covered
        <4>4. Numbering'
          BY <4>1, <4>2, <4>3 DEF Numbering
        <4> QED BY <4>1, <4>4, LogUnchanged DEF OrderInv
      <3> QED BY <2>1, <3>1, <3>2, <3>3 DEF Continue
    <2>2. CASE HandleReady
      <3>1. Running /\ Running' /\ Seen' = Seen /\ pc' = "claiming"
            /\ UNCHANGED <<buffer, chan, log, dropped, ralive>>
        BY <2>2 DEF HandleReady, CallGuardian, Running, Seen, tVars, rVars
      <3>2. Covered(Seen) => Covered(Seen)'
        BY <3>1, LogUnchanged DEF Covered
      <3>3. Numbering'
        BY <3>1, <3>2 DEF OrderInv, Numbering
      <3> QED BY <3>1, <3>3, LogUnchanged DEF OrderInv
    <2>3. CASE Open
      <3>1. CASE ClaimOk
        <4>1. Running /\ Running' /\ Seen' = Seen /\ pc' = "flush"
              /\ UNCHANGED <<buffer, chan, log, dropped, ralive>>
          BY <2>3, <3>1 DEF Open, ClaimOk, CallReturns, Running, Seen, tVars, rVars
        <4>2. Covered(Seen) => Covered(Seen)'
          BY <4>1, LogUnchanged DEF Covered
        <4>3. Numbering'
          BY <4>1, <4>2 DEF OrderInv, Numbering
        <4> QED BY <4>1, <4>3, LogUnchanged DEF OrderInv
      <3>2. CASE ClaimError \/ ClaimNone
        BY <3>2, OrderStatus DEF ClaimError, ClaimNone, CallReturns, Running, FinalKinds
      <3> QED BY <2>3, <3>1, <3>2 DEF Open
    <2>4. CASE HandleTransport
      <3> DEFINE e == Head(chan)
      <3>1. /\ e \in Events /\ e = chan[1] /\ Len(chan') = Len(chan) - 1 /\ Len(chan) > 0
            /\ \A i \in 1..Len(chan') : chan'[i] = chan[i + 1]
            /\ chan' \in Seq(Events)
        BY <2>4, TailType DEF HandleTransport, TypeOK, DataTypes
      <3>2. Running /\ pc = "loop" /\ Numbering /\ UNCHANGED sent
        BY <2>4 DEF HandleTransport, Running, OrderInv
      <3>3. e.n = Seen + Len(buffer) + 1 /\ Seen \in Nat /\ Len(buffer) \in Nat /\ Len(chan) \in Nat /\ sent \in Nat
        BY <3>1, <3>2 DEF Numbering, TypeOK, DataTypes
      <3>4. CASE StopAfterStatus("session_lost")
        BY <3>2, <3>4, OrderStatus DEF FinalKinds
      <3>5. CASE ~active /\ BufferOpening(e) /\ UNCHANGED active
        <4>1. CASE StopAfterStatus("overloaded")
          BY <3>2, <4>1, OrderStatus DEF FinalKinds
        <4>2. CASE buffer' = Append(buffer, e) /\ UNCHANGED <<pc, reason, rVars>>
          <5>1. /\ Len(buffer') = Len(buffer) + 1
                /\ \A i \in 1..Len(buffer) : buffer'[i] = buffer[i]
                /\ buffer'[Len(buffer) + 1] = e
            BY <3>1, <4>2, AppendType DEF TypeOK, DataTypes
          <5>2. Seen' = Seen
            BY <3>1, <3>2, <3>3, <5>1 DEF Seen, TypeOK, DataTypes
          <5>3. Running' /\ UNCHANGED <<pc, ralive, log, dropped>>
            BY <3>2, <4>2 DEF Running, rVars
          <5>4. Covered(Seen)'
            BY <3>2, <5>2, <5>3, LogUnchanged DEF Numbering, Covered
          <5>5. \A i \in 1..Len(buffer') : buffer'[i].n = Seen' + i
            <6>1. ASSUME NEW i \in 1..Len(buffer') PROVE buffer'[i].n = Seen' + i
              <7>1. CASE i = Len(buffer) + 1
                BY <3>3, <5>1, <5>2, <7>1
              <7>2. CASE i # Len(buffer) + 1
                <8>1. i \in 1..Len(buffer)
                  BY <3>3, <5>1, <6>1, <7>2
                <8>2. buffer[i].n = Seen + i
                  BY <3>2, <8>1 DEF Numbering
                <8> QED BY <5>1, <5>2, <8>1, <8>2
              <7> QED BY <7>1, <7>2
            <6> QED BY <6>1
          <5>6. \A i \in 1..Len(chan') : chan'[i].n = Seen' + Len(buffer') + i
            BY <3>1, <3>2, <3>3, <5>1, <5>2 DEF Numbering
          <5>7. Numbering'
            BY <3>2, <3>3, <3>5, <5>2, <5>3, <5>4, <5>5, <5>6 DEF Numbering
          <5> QED BY <5>3, <5>7, LogUnchanged DEF OrderInv
        <4> QED BY <3>5, <4>1, <4>2 DEF BufferOpening
      <3>6. CASE active /\ Deliver(e) /\ UNCHANGED buffer
        <4>1. buffer = <<>> /\ Len(buffer) = 0
          BY <3>2, <3>6 DEF Numbering
        <4>2. Seen' = Seen + 1
          BY <3>1, <3>2, <3>3, <3>6, <4>1 DEF Seen
        <4>3. /\ \A i \in 1..Len(buffer)' : buffer'[i].n = Seen' + i
              /\ \A i \in 1..Len(chan)' : chan'[i].n = Seen' + Len(buffer)' + i
          BY <3>1, <3>2, <3>3, <3>6, <4>1, <4>2 DEF Numbering
        <4> QED BY <3>1, <3>2, <3>3, <3>6, <4>1, <4>2, <4>3, OrderDelivered
      <3> QED BY <2>4, <3>4, <3>5, <3>6 DEF HandleTransport
    <2>5. CASE Flush
      <3>1. Running /\ Numbering /\ UNCHANGED <<chan, sent>> /\ pc = "flush"
        BY <2>5 DEF Flush, Running, OrderInv, tVars
      <3>2. CASE buffer = <<>> /\ pc' = "loop" /\ UNCHANGED <<buffer, active, reason, rVars>>
        <4>1. Running' /\ Seen' = Seen /\ UNCHANGED <<ralive, log, dropped>>
          BY <3>1, <3>2 DEF Running, Seen, rVars
        <4>2. Covered(Seen)'
          BY <3>1, <4>1, LogUnchanged DEF Numbering, Covered
        <4>3. Numbering'
          BY <3>1, <3>2, <4>1, <4>2 DEF Numbering
        <4> QED BY <4>1, <4>3, LogUnchanged DEF OrderInv
      <3>3. CASE buffer # <<>> /\ buffer' = Tail(buffer) /\ Deliver(Head(buffer))
        <4> DEFINE e == Head(buffer)
        <4>1. /\ e \in Events /\ e = buffer[1] /\ Len(buffer') = Len(buffer) - 1
              /\ Len(buffer) \in Nat /\ Len(buffer) > 0
              /\ \A i \in 1..Len(buffer') : buffer'[i] = buffer[i + 1]
          BY <3>3, TailType DEF TypeOK, DataTypes
        <4>2. Seen \in Nat /\ Len(chan) \in Nat /\ sent \in Nat
          BY <3>1 DEF Numbering, TypeOK, DataTypes
        <4>3. e.n = Seen + 1
          BY <3>1, <4>1, <4>2 DEF Numbering
        <4>4. Seen' = Seen + 1
          BY <3>1, <4>1, <4>2 DEF Seen
        <4>5. \A i \in 1..Len(buffer)' : buffer'[i].n = Seen' + i
          BY <3>1, <4>1, <4>2, <4>4 DEF Numbering
        <4>6. \A i \in 1..Len(chan)' : chan'[i].n = Seen' + Len(buffer)' + i
          BY <3>1, <4>1, <4>2, <4>4 DEF Numbering
        <4> QED BY <3>1, <3>3, <4>1, <4>3, <4>4, <4>5, <4>6, OrderDelivered
      <3> QED BY <2>5, <3>2, <3>3 DEF Flush
    <2>6. CASE \E s \in {"tdown", "gdown", "exit", "rdown", "shutdown"} : HandleSignal(s)
      <3>1. PICK s : HandleSignal(s)
        BY <2>6
      <3>2. CASE StopAfterStatus("transport_down")
        BY <3>1, <3>2, OrderStatus DEF HandleSignal, Running, FinalKinds
      <3>3. CASE StopSilently("receiver_down") \/ StopSilently("shutdown")
        BY <3>3, OrderStopped DEF StopSilently, Running, rVars
      <3> QED BY <3>1, <3>2, <3>3 DEF HandleSignal
    <2>7. CASE \E c \in Stoppers : HandleStop(c)
      <3>1. UNCHANGED <<log, dropped>> /\ ~Running'
        BY <2>7 DEF HandleStop, CallGuardian, Running, rVars
      <3> QED BY <3>1, OrderStopped
    <2>8. CASE Terminate \/ CloseOpening \/ Unsubscribe
      <3>1. UNCHANGED <<log, dropped>> /\ ~Running'
        BY <2>8 DEF Terminate, CloseOpening, CloseDone, Unsubscribe, CallGuardian, Running, rVars
      <3> QED BY <3>1, OrderStopped
    <2>9. CASE Exit \/ Kill
      <3>1. UNCHANGED <<log, dropped>> /\ ~Running'
        BY <2>9 DEF Exit, Kill, Die, Running, rVars
      <3> QED BY <3>1, OrderStopped
    <2> QED BY <1>1, <2>1, <2>2, <2>3, <2>4, <2>5, <2>6, <2>7, <2>8, <2>9 DEF Process
  <1>2. CASE Guardian
    <2>1. UNCHANGED <<pc, active, buffer, chan, sent, log, dropped, ralive>>
      BY <1>2 DEF Guardian, GClaim, GCancel, GOwnerDown, GStopWorker, GCancelled, GExited, GResult,
                  GTransportDown, GWorkerDown, GuardianCrash, sVars, tVars, rVars
    <2> QED BY <2>1, OrderUnchanged
  <1>3. CASE Worker
    <2>1. UNCHANGED <<pc, active, buffer, chan, sent, log, dropped, ralive>>
      BY <1>3 DEF Worker, CallbackReturns, WorkerDies, WorkerCrash, WorkerEnds, TransportExit,
                  sVars, tVars, rVars
    <2> QED BY <2>1, OrderUnchanged
  <1>4. CASE Environment
    <2>1. CASE \E kind \in {"data", "reconnected", "lost"} : TransportSend(kind)
      <3>1. PICK kind \in {"data", "reconnected", "lost"} : TransportSend(kind)
        BY <2>1
      <3>2. [n |-> sent + 1, kind |-> kind] \in Events
        BY DEF Events, TypeOK, DataTypes
      <3>3. /\ Len(chan') = Len(chan) + 1
            /\ \A i \in 1..Len(chan) : chan'[i] = chan[i]
            /\ chan'[Len(chan) + 1].n = sent + 1
            /\ sent' = sent + 1 /\ UNCHANGED <<sVars, rVars>>
        BY <3>1, <3>2, AppendType DEF TransportSend, TypeOK, DataTypes
      <3>4. Len(chan) \in Nat /\ Len(buffer) \in Nat /\ sent \in Nat
        BY DEF TypeOK, DataTypes
      <3>5. Seen' = Seen /\ Running' = Running /\ UNCHANGED <<pc, active, buffer, log, dropped, ralive>>
        BY <3>3, <3>4 DEF Seen, Running, sVars, rVars
      <3>6. Covered(Seen) => Covered(Seen)'
        BY <3>5, LogUnchanged DEF Covered
      <3>7. ASSUME Numbering PROVE \A i \in 1..Len(chan') : chan'[i].n = Seen' + Len(buffer') + i
        <4>1. sent = Seen + Len(buffer) + Len(chan) /\ Seen \in Nat
          BY <3>4, <3>7 DEF Numbering, Seen
        <4>2. buffer' = buffer /\ Seen' = Seen
          BY <3>5
        <4>3. TAKE i \in 1..Len(chan')
        <4>4. CASE i \in 1..Len(chan)
          BY <3>3, <3>4, <3>7, <4>2, <4>4 DEF Numbering
        <4>5. CASE i = Len(chan) + 1
          BY <3>3, <3>4, <4>1, <4>2, <4>5
        <4> QED BY <3>3, <3>4, <4>4, <4>5
      <3>8. Numbering => Numbering'
        BY <3>5, <3>6, <3>7 DEF Numbering
      <3> QED BY <3>5, <3>8, LogUnchanged DEF OrderInv
    <2>2. CASE \E s \in {"exit", "shutdown"} : Signal(s)
      <3>1. UNCHANGED <<pc, active, buffer, chan, sent, log, dropped, ralive>>
        BY <2>2 DEF Signal, sVars, tVars, rVars
      <3> QED BY <3>1, OrderUnchanged
    <2>3. CASE ReceiverReads \/ ReceiverDies
      <3>1. UNCHANGED <<pc, active, buffer, chan, sent, log, dropped>> /\ (ralive' => ralive)
        BY <2>3 DEF ReceiverReads, ReceiverDies, sVars, tVars
      <3> QED BY <3>1, OrderUnchanged
    <2>4. CASE \E c \in Stoppers : CallStop(c) \/ StopTimeout(c)
      <3>1. UNCHANGED <<pc, active, buffer, chan, sent, log, dropped, ralive>>
        BY <2>4 DEF CallStop, StopTimeout, sVars, tVars, rVars
      <3> QED BY <3>1, OrderUnchanged
    <2> QED BY <1>4, <2>1, <2>2, <2>3, <2>4 DEF Environment
  <1>5. CASE UNCHANGED vars
    <2>1. UNCHANGED <<pc, active, buffer, chan, sent, log, dropped, ralive>>
      BY <1>5 DEF vars, sVars, tVars, rVars
    <2> QED BY <2>1, OrderUnchanged
  <1> QED BY <1>1, <1>2, <1>3, <1>4, <1>5 DEF Next

LEMMA OrderInit == Init => OrderInv
  BY DEF Init, OrderInv, DeliveryOrder, FinalStatusIsLast, Forwarded, Running, Numbering,
         Covered, Seen

\* The receiver sees what the transport sent in order, without duplicates,
\* without silent gaps and with nothing behind a final status, for every
\* buffer limit, overflow policy and fault.
THEOREM DeliveredInOrder == Spec => []Delivery
  <1>1. OrderInv => Delivery
    BY DEF OrderInv, Delivery
  <1> QED BY <1>1, TypeCorrect, OrderInit, OrderStep, PTL DEF Spec

-----------------------------------------------------------------------------
(* Custody of the handle *)

\* A pid as receiver, an answer of the guardian within its 1000 ms and the
\* death of a killed worker within 100 ms; the guardian and the worker may
\* crash and the process may be killed.
Reliable == ~NamedReceiver /\ Faults \cap {"call_timeout", "slow_kill"} = {}

Killed == pc = "dead" /\ reason = "killed"

\* Nothing is being acquired and what was acquired has been given back.
Settled == worker # "call" /\ (wres = "ok" => unsubs = 1)

\* Which processes exist, and what a missing one implies.
Lifecycle ==
    /\ gpc = "none" <=> worker = "none"
    /\ opening <=> gpc # "none"
    /\ pc = "continue" => ~opening
    /\ pc \in {"loop", "claiming", "flush"} => opening
    /\ ~GAlive => gbox = {}
    /\ gpc = "none" => ~claimed /\ result = "pending"
    /\ worker \in {"none", "call"} => wres = "none"
    /\ worker = "proxy" => wres # "none"
    /\ GAlive /\ (~gworker \/ "wdown" \in gbox) => worker = "dead"
    /\ GAlive /\ ~gworker => "result" \notin gbox
    /\ gpc = "exiting" \/ "odown" \in gbox => pc = "dead"

\* Before it is claimed, the worker's result is on its way to the guardian or
\* held by it.
InGuardian ==
    /\ GAlive /\ ~claimed =>
         result = IF "result" \in gbox \/ wres = "none" THEN "pending" ELSE wres
    /\ GAlive /\ claimed => worker # "call"
    /\ gpc = "none" => "ready" \notin sig
    /\ "ready" \in sig /\ pc = "loop" /\ ~active /\ GAlive => ~claimed /\ result # "pending"

\* A claim or cancel that the guardian has not answered has a caller that
\* waits for it, and what the guardian answered is what the worker reported.
Handover ==
    /\ "claim" \in gbox =>
         /\ ~claimed /\ result # "pending"
         /\ Killed \/ (pc = "claiming" /\ reply = "waiting")
    /\ gpc = "cancelling" => gbox \cap {"claim", "cancel"} = {}
    /\ "cancel" \in gbox \/ gpc = "cancelling" =>
         Killed \/ (pc = "cancelling" /\ reply = "waiting")
    /\ reply # "waiting" => pc \in {"claiming", "cancelling"}
    /\ reply \in {"ok", "error"} => reply = wres
    /\ pc = "claiming" /\ GAlive /\ reply # "waiting" => claimed /\ reply # "none"
    /\ pc = "cancelling" /\ gpc # "dead" => opening /\ (reply # "waiting" => claimed)
    /\ pc = "cancelling" => ~active
    /\ active \/ pc = "unsub" => wres = "ok"
    /\ pc = "flush" => active

\* Once the guardian has given the handle away, the answer, the subscription's
\* state or the unsubscribe has it.
InHands ==
    GAlive /\ claimed /\ wres = "ok" =>
        reply = "ok" \/ active \/ pc = "unsub" \/ unsubs = 1 \/ Killed

\* The process ends only when nothing is left to give back.
Concluded ==
    /\ closed \/ (pc \in {"exit", "dead"} /\ ~Killed) => gpc = "dead" \/ Settled
    /\ \A c \in Stoppers : stopper[c] = "ok" => pc = "dead" /\ (gpc = "dead" \/ Settled)

CustodyInv == Lifecycle /\ InGuardian /\ Handover /\ InHands /\ Concluded

LEMMA CustodyStep ==
  ASSUME Reliable, TypeOK, UnsubscribeInv, CustodyInv, [Next]_vars
  PROVE  CustodyInv'
  <1> USE DEF CustodyInv, Lifecycle, InGuardian, Handover, InHands, Concluded,
              Killed, Settled, GAlive, TypeOK, ControlTypes, GuardianTypes, CallerTypes,
              UnsubscribeInv, Reliable, sVars, gVars, wVars, tVars, rVars, cVars
  <1>1. CASE Process
    <2>1. CASE Continue
      <3>1. Lifecycle'
        BY <2>1 DEF Continue, StopSilently, StopAfterStatus
      <3>2. InGuardian'
        BY <2>1 DEF Continue, StopSilently, StopAfterStatus
      <3>3. Handover'
        BY <2>1 DEF Continue, StopSilently, StopAfterStatus
      <3>4. InHands'
        BY <2>1 DEF Continue, StopSilently, StopAfterStatus
      <3>5. Concluded'
        BY <2>1 DEF Continue, StopSilently, StopAfterStatus
      <3> QED BY <3>1, <3>2, <3>3, <3>4, <3>5
    <2>2. CASE HandleReady
      BY <2>2 DEF HandleReady, CallGuardian
    <2>3. CASE Open
      <3>1. Lifecycle'
        BY <2>3 DEF Open, CallReturns, ClaimOk, ClaimError, ClaimNone, StopAfterStatus, ForwardRaises
      <3>2. InGuardian'
        BY <2>3 DEF Open, CallReturns, ClaimOk, ClaimError, ClaimNone, StopAfterStatus, ForwardRaises
      <3>3. Handover'
        BY <2>3 DEF Open, CallReturns, ClaimOk, ClaimError, ClaimNone, StopAfterStatus, ForwardRaises
      <3>4. InHands'
        BY <2>3 DEF Open, CallReturns, ClaimOk, ClaimError, ClaimNone, StopAfterStatus, ForwardRaises
      <3>5. Concluded'
        BY <2>3 DEF Open, CallReturns, ClaimOk, ClaimError, ClaimNone, StopAfterStatus, ForwardRaises
      <3> QED BY <3>1, <3>2, <3>3, <3>4, <3>5
    <2>4. CASE HandleTransport
      BY <2>4 DEF HandleTransport, StopAfterStatus, BufferOpening, Deliver, Forward, ForwardRaises
    <2>5. CASE Flush
      BY <2>5 DEF Flush, StopAfterStatus, Deliver, Forward, ForwardRaises
    <2>6. CASE \E s \in {"tdown", "gdown", "exit", "rdown", "shutdown"} : HandleSignal(s)
      BY <2>6 DEF HandleSignal, StopAfterStatus, StopSilently
    <2>7. CASE \E c \in Stoppers : HandleStop(c)
      <3>1. /\ pc = "loop" /\ opening /\ pc' \in {"unsub", "cancelling"}
            /\ gbox' = gbox \/ (GAlive /\ gbox' = gbox \cup {"cancel"})
            /\ UNCHANGED <<opening, gpc, claimed, result, worker, wres, gworker>>
        BY <2>7 DEF HandleStop, CallGuardian
      <3>2. Lifecycle'
        BY <3>1
      <3>3. InGuardian' /\ InHands'
        BY <2>7 DEF HandleStop, CallGuardian
      <3>4. Handover'
        BY <2>7 DEF HandleStop, CallGuardian
      <3>5. Concluded'
        BY <2>7 DEF HandleStop, CallGuardian
      <3> QED BY <3>2, <3>3, <3>4, <3>5
    <2>8. CASE Terminate
      BY <2>8 DEF Terminate, CallGuardian
    <2>9. CASE CloseOpening
      BY <2>9 DEF CloseOpening, CallReturns, CloseDone
    <2>10. CASE Unsubscribe
      BY <2>10 DEF Unsubscribe, CloseDone
    <2>11. CASE Exit \/ Kill
      BY <2>11 DEF Exit, Kill, Die, StopOutcome
    <2> QED BY <1>1, <2>1, <2>2, <2>3, <2>4, <2>5, <2>6, <2>7, <2>8, <2>9, <2>10, <2>11 DEF Process
  <1>2. CASE Guardian
    <2>1. CASE GClaim
      BY <2>1 DEF GClaim, ReplyTo
    <2>2. CASE GCancel \/ GOwnerDown
      BY <2>2 DEF GCancel, GOwnerDown, GStopWorker
    <2>3. CASE GCancelled
      <3> DEFINE r == IF claimed \/ StoppedResult = "pending" THEN "none" ELSE StoppedResult
      <3>1. /\ worker = "dead" /\ r \in {"none", "ok", "error"} /\ (r # "none" => r = wres)
            /\ wres = "ok" /\ ~claimed => r = "ok"
        BY <2>3 DEF GCancelled, WorkerStopped, StoppedResult
      <3>2. /\ UNCHANGED <<sVars, sig, wVars, tVars, unsubs, rVars, cVars>>
            /\ gpc = "cancelling" /\ gpc' = "loop" /\ result' = "nil" /\ claimed' = TRUE
            /\ gworker' = FALSE /\ gbox' = gbox \ {"wdown", "result"}
            /\ reply' = IF pc = "cancelling" THEN r ELSE reply
        BY <2>3 DEF GCancelled, ReplyTo
      <3> HIDE DEF r
      <3>3. Lifecycle' /\ InGuardian' /\ Concluded'
        BY <3>1, <3>2
      <3>4. Handover'
        BY <3>1, <3>2
      <3>5. InHands'
        BY <3>1, <3>2
      <3> QED BY <3>3, <3>4, <3>5
    <2>4. CASE GExited
      BY <2>4 DEF GExited, WorkerStopped
    <2>5. CASE GResult
      BY <2>5 DEF GResult, Notify
    <2>6. CASE GTransportDown \/ GWorkerDown \/ GuardianCrash
      BY <2>6 DEF GTransportDown, GWorkerDown, GuardianCrash, Notify
    <2> QED BY <1>2, <2>1, <2>2, <2>3, <2>4, <2>5, <2>6 DEF Guardian
  <1>3. CASE Worker
    <2>1. CASE \E r \in {"ok", "error"} : CallbackReturns(r)
      BY <2>1 DEF CallbackReturns, ToGuardian
    <2>2. CASE WorkerDies \/ WorkerCrash
      <3>1. Lifecycle'
        BY <2>2 DEF WorkerDies, WorkerCrash, WorkerEnds
      <3>2. InGuardian'
        BY <2>2 DEF WorkerDies, WorkerCrash, WorkerEnds
      <3>3. Handover'
        BY <2>2 DEF WorkerDies, WorkerCrash, WorkerEnds
      <3>4. InHands'
        BY <2>2 DEF WorkerDies, WorkerCrash, WorkerEnds
      <3>5. Concluded'
        BY <2>2 DEF WorkerDies, WorkerCrash, WorkerEnds
      <3> QED BY <3>1, <3>2, <3>3, <3>4, <3>5
    <2>3. CASE TransportExit
      BY <2>3 DEF TransportExit, ToGuardian
    <2> QED BY <1>3, <2>1, <2>2, <2>3 DEF Worker
  <1>4. CASE Environment
    <2>1. CASE \E kind \in {"data", "reconnected", "lost"} : TransportSend(kind)
      BY <2>1 DEF TransportSend
    <2>2. CASE \E s \in {"exit", "shutdown"} : Signal(s)
      BY <2>2 DEF Signal
    <2>3. CASE ReceiverReads
      BY <2>3 DEF ReceiverReads
    <2>4. CASE ReceiverDies
      BY <2>4 DEF ReceiverDies
    <2>5. CASE \E c \in Stoppers : CallStop(c)
      BY <2>5 DEF CallStop
    <2>6. CASE \E c \in Stoppers : StopTimeout(c)
      BY <2>6 DEF StopTimeout
    <2> QED BY <1>4, <2>1, <2>2, <2>3, <2>4, <2>5, <2>6 DEF Environment
  <1>5. CASE UNCHANGED vars
    BY <1>5 DEF vars
  <1> QED BY <1>1, <1>2, <1>3, <1>4, <1>5 DEF Next

LEMMA CustodyInit == Init => CustodyInv
  BY DEF Init, CustodyInv, Lifecycle, InGuardian, Handover, InHands, Concluded, Killed,
         Settled, GAlive

\* Whoever ends the subscription and however far the handover from worker to
\* guardian to subscription has come, the handle is unsubscribed exactly once
\* before the process ends, and a caller of stop/2 that reads :ok may rely on
\* it: for every number of callers and messages, with crashes of guardian and
\* worker and kills.  A registered receiver, a late answer of the guardian and a
\* slow kill are excluded: each of them alone can lose the handle.
THEOREM HandleInCustody ==
  ASSUME Reliable
  PROVE  Spec => []Custody
  <1>1. TypeOK /\ UnsubscribeInv /\ CustodyInv /\ [Next]_vars => CustodyInv'
    BY CustodyStep
  <1>2. UnsubscribeInv /\ CustodyInv => Custody
    BY DEF UnsubscribeInv, CustodyInv, Concluded, Killed, Settled, GAlive, Custody,
           UnsubscribeOnce, HandleReleased, StopOkReleased, Lifecycle
  <1> QED BY <1>1, <1>2, CustodyInit, TypeCorrect, UnsubscribeAlways, PTL DEF Spec

-----------------------------------------------------------------------------
(* The buffer of early messages and the receiver's queue *)

\* The handle the subscription acts on is the one the callback returned, and
\* only with it does anything but a status reach the receiver.
BufferInv ==
    /\ BufferDiscipline
    /\ pc = "flush" => active
    /\ active \/ reply = "ok" => wres = "ok" /\ claimed
    /\ result \in {"ok", "error"} => result = wres
    /\ worker \in {"none", "call"} => wres = "none"
    /\ pc = "continue" => worker = "none"

LEMMA StatusIsNoMessage ==
  ASSUME DataTypes, NEW status \in FinalKinds, StopAfterStatus(status)
  PROVE  Forwarded' = Forwarded /\ UNCHANGED <<ralive, rq, dropped>> /\ pc' = "terminate"
  <1>1. UNCHANGED <<ralive, rq, dropped>> /\ pc' = "terminate"
    BY DEF StopAfterStatus
  <1>2. CASE log' = log
    BY <1>1, <1>2 DEF Forwarded
  <1>3. CASE log' = Append(log, Final(status))
    <2>1. Final(status) \in Entries /\ Final(status).kind = status /\ log \in Seq(Entries)
      BY DEF Final, Entries, DataTypes
    <2>2. /\ Len(log') = Len(log) + 1 /\ Len(log) \in Nat
          /\ \A i \in 1..Len(log) : log'[i] = log[i]
          /\ log'[Len(log) + 1].kind = status
      BY <1>3, <2>1, AppendType
    <2> QED BY <1>1, <2>2 DEF Forwarded
  <1> QED BY <1>2, <1>3 DEF StopAfterStatus

\* deliver/2 stays within max_queue_length.
LEMMA DeliverBounded ==
  ASSUME TypeOK, BufferInv, NEW e \in Events, Deliver(e), pc \in {"loop", "flush"}, active
  PROVE  /\ Overflow # "none" => rq' <= MaxQueue
         /\ active' => active
         /\ pc' = "flush" => active'
         /\ pc' \in {pc, "terminate"}
  <1>1. rq \in Nat /\ MaxQueue \in Nat
    BY ConstantsAssumption DEF TypeOK, DataTypes
  <1>2. Overflow # "none" => rq <= MaxQueue
    BY DEF BufferInv, BufferDiscipline
  <1>3. CASE e.kind = "data" /\ HasRoom /\ Forward(e)
    <2>1. CASE ForwardRaises
      BY <1>2, <1>3, <2>1 DEF Forward, rVars
    <2>2. CASE ~ForwardRaises
      <3>1. rq' = (IF ralive THEN rq + 1 ELSE rq) /\ UNCHANGED <<pc, active>>
        BY <1>3, <2>2 DEF Forward
      <3>2. Overflow # "none" /\ ralive => rq < MaxQueue
        BY <1>3 DEF HasRoom
      <3>3. Overflow # "none" => rq' <= MaxQueue
        BY <1>1, <1>2, <3>1, <3>2
      <3> QED BY <3>1, <3>3
    <2> QED BY <2>1, <2>2
  <1>4. CASE e.kind = "reconnected" /\ Forward(e)
    BY <1>1, <1>2, <1>4 DEF Forward, rVars
  <1>5. CASE UNCHANGED <<pc, reason, active, ralive, rq, log>>
    BY <1>2, <1>5
  <1>6. CASE StopAfterStatus("overloaded") /\ UNCHANGED active
    BY <1>2, <1>6 DEF StopAfterStatus
  <1> QED BY <1>3, <1>4, <1>5, <1>6 DEF Deliver

LEMMA BufferStep == TypeOK /\ BufferInv /\ [Next]_vars => BufferInv'
  <1> SUFFICES ASSUME TypeOK, BufferInv, [Next]_vars PROVE BufferInv'
    OBVIOUS
  <1> USE DEF BufferInv
  <1>0. /\ DataTypes /\ GuardianTypes /\ buffer \in Seq(Events) /\ chan \in Seq(Events)
        /\ active \in BOOLEAN /\ claimed \in BOOLEAN
        /\ OpeningLimit \in Nat /\ Len(<<>>) = 0 /\ <<>> \in Seq(Events)
    BY ConstantsAssumption DEF TypeOK, DataTypes, ControlTypes, GuardianTypes
  <1>1. CASE HandleTransport
    <2> DEFINE e == Head(chan)
    <2>1. e \in Events /\ pc = "loop"
      BY <1>0, <1>1, TailType DEF HandleTransport
    <2>2. UNCHANGED <<closed, reply, claimed, result, worker, wres>>
      BY <1>1 DEF HandleTransport, gVars, wVars
    <2>3. CASE StopAfterStatus("session_lost") /\ UNCHANGED <<active, buffer>>
      <3>1. Forwarded' = Forwarded /\ UNCHANGED rq /\ pc' = "terminate"
        BY <1>0, <2>3, StatusIsNoMessage DEF FinalKinds
      <3> QED BY <2>2, <2>3, <3>1 DEF BufferDiscipline
    <2>4. CASE ~active /\ BufferOpening(e) /\ UNCHANGED active
      <3>1. CASE Len(buffer) < OpeningLimit
        <4>1. buffer' = Append(buffer, e) /\ UNCHANGED <<pc, rq, log>>
          BY <2>4, <3>1 DEF BufferOpening, rVars
        <4>2. Len(buffer') <= OpeningLimit
          BY <1>0, <2>1, <3>1, <4>1
        <4>3. Forwarded' = Forwarded
          BY <4>1 DEF Forwarded
        <4> QED BY <2>2, <2>4, <4>1, <4>2, <4>3 DEF BufferDiscipline
      <3>2. CASE ~(Len(buffer) < OpeningLimit)
        <4>1. StopAfterStatus("overloaded") /\ UNCHANGED buffer
          BY <2>4, <3>2 DEF BufferOpening
        <4>2. Forwarded' = Forwarded /\ UNCHANGED rq /\ pc' = "terminate"
          BY <1>0, <4>1, StatusIsNoMessage DEF FinalKinds
        <4> QED BY <2>2, <2>4, <4>1, <4>2 DEF BufferDiscipline
      <3> QED BY <3>1, <3>2
    <2>5. CASE active /\ Deliver(e) /\ UNCHANGED buffer
      <3>1. /\ Overflow # "none" => rq' <= MaxQueue
            /\ pc' = "flush" => active'
            /\ pc' \in {"loop", "terminate"}
        BY <2>1, <2>5, DeliverBounded
      <3>2. wres = "ok" /\ claimed /\ buffer = <<>> /\ Len(buffer) <= OpeningLimit
        BY <2>1, <2>5 DEF BufferDiscipline
      <3> QED BY <2>2, <2>5, <3>1, <3>2 DEF BufferDiscipline
    <2> QED BY <1>1, <2>3, <2>4, <2>5 DEF HandleTransport
  <1>2. CASE Flush
    <2>1. UNCHANGED <<closed, reply, claimed, result, worker, wres>> /\ pc = "flush"
      BY <1>2 DEF Flush, gVars, wVars
    <2>2. active /\ wres = "ok" /\ claimed
      BY <2>1
    <2>3. CASE buffer = <<>> /\ pc' = "loop" /\ UNCHANGED <<buffer, active, reason, rVars>>
      <3>1. UNCHANGED rq /\ buffer' = <<>>
        BY <2>3 DEF rVars
      <3> QED BY <2>1, <2>2, <2>3, <3>1 DEF BufferDiscipline
    <2>4. CASE buffer # <<>> /\ buffer' = Tail(buffer) /\ Deliver(Head(buffer))
      <3>1. Head(buffer) \in Events /\ Len(buffer') = Len(buffer) - 1 /\ Len(buffer) \in Nat
        BY <1>0, <2>4, TailType
      <3> HIDE DEF BufferInv
      <3>2. /\ Overflow # "none" => rq' <= MaxQueue
            /\ pc' = "flush" => active'
            /\ pc' \in {"flush", "terminate"}
        BY <2>1, <2>2, <2>4, <3>1, DeliverBounded
      <3>3. Len(buffer') <= OpeningLimit
        BY <1>0, <3>1 DEF BufferInv, BufferDiscipline
      <3> QED BY <2>1, <2>2, <3>2, <3>3 DEF BufferInv, BufferDiscipline
    <2> QED BY <1>2, <2>3, <2>4 DEF Flush
  <1>3. CASE Open
    <2>1. UNCHANGED <<buffer, claimed, result, worker, wres>> /\ reply' = "waiting"
      BY <1>3 DEF Open, ClaimOk, ClaimError, ClaimNone, CallReturns, gVars, wVars
    <2>2. CASE ClaimOk
      <3>1. reply = "ok" /\ pc' = "flush" /\ active' = TRUE /\ UNCHANGED <<log, rq>>
        BY <2>2 DEF ClaimOk, CallReturns, rVars
      <3> QED BY <2>1, <3>1 DEF BufferDiscipline, Forwarded
    <2>3. CASE ClaimError \/ ClaimNone
      <3>1. PICK status \in FinalKinds : StopAfterStatus(status) /\ UNCHANGED active
        BY <2>3 DEF ClaimError, ClaimNone, FinalKinds
      <3>2. Forwarded' = Forwarded /\ UNCHANGED rq /\ pc' = "terminate"
        BY <1>0, <3>1, StatusIsNoMessage
      <3> QED BY <2>1, <3>1, <3>2 DEF BufferDiscipline
    <2> QED BY <1>3, <2>2, <2>3 DEF Open
  <1>4. CASE Continue \/ \E s \in {"tdown", "gdown", "exit", "rdown", "shutdown"} : HandleSignal(s)
    <2>1. UNCHANGED <<buffer, active, reply, claimed, result, wres>>
      BY <1>4 DEF Continue, HandleSignal, gVars, wVars
    <2>2. Forwarded' = Forwarded /\ UNCHANGED rq
      <3>1. CASE UNCHANGED rVars
        BY <3>1 DEF rVars, Forwarded
      <3>2. CASE \E status \in FinalKinds : StopAfterStatus(status)
        BY <1>0, <3>2, StatusIsNoMessage
      <3> QED BY <1>4, <3>1, <3>2 DEF Continue, HandleSignal, StopSilently, FinalKinds
    <2>3. /\ pc' \in {"loop", "terminate"} /\ worker' \in {worker, "call"}
          /\ worker' # worker => pc = "continue"
          /\ pc' = "loop" => pc = "continue"
      BY <1>4 DEF Continue, HandleSignal, StopSilently, StopAfterStatus, wVars
    <2>4. pc = "continue" => wres = "none"
      OBVIOUS
    <2> QED BY <2>1, <2>2, <2>3, <2>4 DEF BufferDiscipline
  <1>5. CASE \/ HandleReady \/ Terminate \/ CloseOpening \/ Unsubscribe
             \/ \E c \in Stoppers : HandleStop(c)
    <2>1. /\ UNCHANGED <<active, buffer, claimed, result, wres, worker, log, rq>>
          /\ reply' \in {reply, "waiting"} /\ pc' \notin {"loop", "flush", "continue"}
      BY <1>5 DEF HandleReady, Terminate, CloseOpening, Unsubscribe, HandleStop, CallGuardian,
                  CallReturns, CloseDone, gVars, wVars, rVars
    <2> QED BY <2>1 DEF BufferDiscipline, Forwarded
  <1>6. CASE Exit \/ Kill
    <2>1. /\ UNCHANGED <<active, claimed, result, wres, worker, log, rq>> /\ buffer' = <<>>
          /\ reply' = "waiting" /\ pc' = "dead"
      BY <1>6 DEF Exit, Kill, Die, wVars, rVars
    <2> QED BY <1>0, <2>1 DEF BufferDiscipline, Forwarded
  <1>7. CASE Guardian
    <2>1. UNCHANGED <<sVars, worker, wres, log, rq>>
      BY <1>7 DEF Guardian, GClaim, GCancel, GOwnerDown, GStopWorker, GCancelled, GExited,
                  GResult, GTransportDown, GWorkerDown, GuardianCrash, wVars, rVars
    <2>2. claimed => claimed'
      BY <1>7 DEF Guardian, GClaim, GCancel, GOwnerDown, GStopWorker, GCancelled, GExited,
                  GResult, GTransportDown, GWorkerDown, GuardianCrash
    <2>3. result' \in {"ok", "error"} => result' = wres
      BY <1>7 DEF Guardian, GClaim, GCancel, GOwnerDown, GStopWorker, GCancelled, GExited,
                  GResult, GTransportDown, GWorkerDown, GuardianCrash
    <2>4. reply' = "ok" => reply = "ok" \/ (wres = "ok" /\ claimed')
      BY <1>7 DEF Guardian, GClaim, GCancel, GOwnerDown, GStopWorker, GCancelled, GExited,
                  GResult, GTransportDown, GWorkerDown, GuardianCrash, ReplyTo, StoppedResult
    <2> QED BY <2>1, <2>2, <2>3, <2>4 DEF BufferDiscipline, Forwarded, sVars
  <1>8. CASE Worker
    <2>1. UNCHANGED <<sVars, reply, claimed, result, log, rq>>
      BY <1>8 DEF Worker, CallbackReturns, WorkerDies, WorkerCrash, WorkerEnds, TransportExit,
                  rVars
    <2>2. worker' \in {worker, "proxy", "dead"} /\ (wres' # wres => worker = "call")
      BY <1>8 DEF Worker, CallbackReturns, WorkerDies, WorkerCrash, WorkerEnds, TransportExit,
                  wVars
    <2>3. worker = "none" => worker' = "none"
      BY <1>8 DEF Worker, CallbackReturns, WorkerDies, WorkerCrash, WorkerEnds, TransportExit,
                  wVars
    <2>4. worker' \in {"none", "call"} => wres' = wres /\ worker' = worker
      BY <1>8 DEF Worker, CallbackReturns, WorkerDies, WorkerCrash, WorkerEnds, TransportExit,
                  wVars
    <2> QED BY <2>1, <2>2, <2>3, <2>4 DEF BufferDiscipline, Forwarded, sVars
  <1>9. CASE Environment
    <2>1. /\ UNCHANGED <<sVars, reply, claimed, result, worker, wres, log>>
          /\ rq' = rq \/ rq' = 0 \/ (rq > 0 /\ rq' = rq - 1)
      BY <1>9 DEF Environment, TransportSend, Signal, ReceiverReads, ReceiverDies, CallStop,
                  StopTimeout, gVars, wVars, rVars
    <2>2. Overflow # "none" => rq' <= MaxQueue
      BY <1>0, <2>1, ConstantsAssumption DEF BufferDiscipline, DataTypes
    <2> QED BY <2>1, <2>2 DEF BufferDiscipline, Forwarded, sVars
  <1>10. CASE UNCHANGED vars
    BY <1>10 DEF vars, sVars, gVars, wVars, rVars, BufferDiscipline, Forwarded
  <1> QED BY <1>1, <1>2, <1>3, <1>4, <1>5, <1>6, <1>7, <1>8, <1>9, <1>10 DEF Next, Process

\* For every limit and every fault: at most 64 (OpeningLimit) early messages
\* are kept, none is left behind a later one, nothing but statuses reaches the
\* receiver before the callback's handle is claimed, and the receiver's backlog
\* stays within max_queue_length (buffer_opening/2, open/2, overflow/1).
THEOREM BufferAlwaysDisciplined == Spec => []BufferDiscipline
  <1>1. Init => BufferInv
    BY ConstantsAssumption DEF Init, BufferInv, BufferDiscipline, Forwarded
  <1>2. BufferInv => BufferDiscipline
    BY DEF BufferInv
  <1> QED BY <1>1, <1>2, TypeCorrect, BufferStep, PTL DEF Spec
=============================================================================
