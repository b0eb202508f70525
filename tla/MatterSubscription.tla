------------------------- MODULE MatterSubscription -------------------------
(***************************************************************************)
(* One native subscription of the Matter host: SubscriptionBuffer and      *)
(* SubscriptionRecovery (subscription.cpp) and the lock-protected parts of *)
(* NativeSubscription (controller.cpp) as operators on one record.  A      *)
(* subscription has one attribute path; a report is the number n of the    *)
(* value it carries.                                                       *)
(***************************************************************************)
EXTENDS Naturals, Sequences

CONSTANTS BufferLimit,   \* queue_limit as SubscriptionBuffer uses it
          MaxAttempts    \* SubscriptionRecovery::kMaximumAttempts, 5

ASSUME BufferAssumption == BufferLimit \in Nat \ {0} /\ MaxAttempts \in Nat \ {0}

\* listed   held by Impl::subscriptions_, so the object exists
\* client   none | connect | sent | live: the SDK's ReadClient and session setup
\* pub, ok  published_, response_.ok
\* csched   cancel_scheduled_
\* gen, recov, attempt, timer   SubscriptionRecovery and its deadline timer
\* active, est, act, init, buf, ready   SubscriptionBuffer
NewSubscription ==
    [listed |-> FALSE, client |-> "none", pub |-> FALSE, ok |-> FALSE,
     canc |-> FALSE, failEm |-> FALSE, csched |-> FALSE, done |-> FALSE,
     gen |-> 1, recov |-> FALSE, attempt |-> 0, timer |-> FALSE,
     active |-> TRUE, est |-> FALSE, act |-> FALSE, init |-> FALSE,
     buf |-> <<>>, ready |-> <<>>]

\* SuppressedDuplicate: an initial snapshot holds a path once.
Suppressed(s) == ~s.est /\ s.init

Full(s) == Len(s.buf) + Len(s.ready) >= BufferLimit

\* BeginReport and Add of one value.
AddAccepted(s) == s.active /\ (Suppressed(s) \/ ~Full(s))

Add(s, r) ==
    IF ~s.active \/ Suppressed(s) THEN s
    ELSE IF Full(s) THEN [s EXCEPT !.active = FALSE]
    ELSE [s EXCEPT !.init = @ \/ ~s.est,
                   !.buf = IF s.act THEN @ ELSE Append(@, r),
                   !.ready = IF s.act THEN Append(@, r) ELSE @]

CanEstablish(s) == s.active /\ ~s.est

Establish(s) == IF CanEstablish(s) THEN [s EXCEPT !.est = TRUE] ELSE [s EXCEPT !.active = FALSE]

BufferActivate(s) ==
    IF s.active /\ s.est /\ ~s.act
    THEN [s EXCEPT !.act = TRUE, !.ready = s.ready \o s.buf, !.buf = <<>>]
    ELSE s

TakeReady(s) == [s EXCEPT !.ready = <<>>]

BufferCancel(s) == [s EXCEPT !.active = FALSE, !.buf = <<>>, !.ready = <<>>]

\* SubscriptionRecovery::Next: the first call of a window advances the
\* generation, every call counts an attempt until they are exhausted.
NextAttempt(s) == IF s.recov THEN s.attempt + 1 ELSE 1

Retries(s) == NextAttempt(s) <= MaxAttempts

NextGeneration(s) == IF s.recov THEN s.gen ELSE s.gen + 1

\* PrepareRecovery clears the buffer for the next delivery generation.
PrepareRecovery(s) ==
    [s EXCEPT !.est = FALSE, !.act = FALSE, !.init = FALSE, !.buf = <<>>, !.ready = <<>>]

Recover(s) ==
    LET t == [s EXCEPT !.gen = NextGeneration(s), !.recov = TRUE, !.attempt = NextAttempt(s)]
    IN IF s.recov THEN t ELSE PrepareRecovery([t EXCEPT !.timer = TRUE])

RecoveryEstablished(s) == [s EXCEPT !.recov = FALSE, !.attempt = 0]

\* FailActive up to its unlock: delivery stops, and a request still waiting is
\* answered with the error.
FailActive(s) == [BufferCancel(s) EXCEPT !.failEm = TRUE, !.pub = TRUE]

PublishFailure(s) == [s EXCEPT !.pub = TRUE]

SchedulesCancel(s) == ~s.csched /\ ~s.done

\* Mutant: the recovery timer stays armed.
CancelKeepsTimer(s) ==
    [BufferCancel(s) EXCEPT !.canc = TRUE, !.recov = FALSE, !.attempt = 0,
                            !.client = "none", !.done = TRUE]

CancelOnSdkThread(s) ==
    [BufferCancel(s) EXCEPT !.canc = TRUE, !.recov = FALSE, !.attempt = 0,
                            !.timer = FALSE, !.client = "none", !.done = TRUE]
=============================================================================
