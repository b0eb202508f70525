---------------------------- MODULE Subscription ----------------------------
(***************************************************************************)
(* One Property observation or Event subscription of wotex-runtime: the    *)
(* subscription process (subscription.ex), its opening guardian, the       *)
(* callback worker the guardian links and monitors, and the worker's       *)
(* watcher (subscription_opening.ex).  Transport, receiver, supervisor and *)
(* the callers of stop/2 are the environment.                              *)
(*                                                                         *)
(* Erlang orders signals per pair of processes only, so a mailbox is what  *)
(* its process may receive next: a FIFO sequence for the transport's       *)
(* messages (chan), and sets of pending signals, with guards for the       *)
(* senders' order, for everything else (sig, gbox).                        *)
(***************************************************************************)
EXTENDS Naturals, Sequences, FiniteSets

CONSTANTS
    OpeningLimit,   \* early messages buffered before the open completes (64)
    Overflow,       \* "none" (no max_queue_length), "drop" or "stop"
    MaxQueue,       \* max_queue_length, when Overflow # "none"
    NamedReceiver,  \* the receiver is a registered name rather than a pid
    Stoppers,       \* callers of stop/2
    Faults,         \* the faults of FaultKinds that may happen
    MaxEvents       \* bound: messages the transport sends

FaultKinds ==
    {"call_timeout", "slow_kill", "guardian_crash", "worker_crash", "brutal_kill"}

ASSUME ConstantsAssumption ==
    /\ OpeningLimit \in Nat
    /\ Overflow \in {"none", "drop", "stop"}
    /\ MaxQueue \in Nat
    /\ NamedReceiver \in BOOLEAN
    /\ Faults \subseteq FaultKinds
    /\ MaxEvents \in Nat

VARIABLES
    pc,          \* where the subscription process is
    active,      \* active?
    closed,      \* closed?
    opening,     \* opening is not nil
    buffer,      \* opening_buffer
    reason,      \* exit reason once the process is stopping
    stopping,    \* the caller whose :stop is being handled, as a set
    closeResult, \* what close/1 returned to that :stop
    sig,         \* signals pending for the process, other than chan's
    reply,       \* reply to its outstanding guardian call
    gpc, result, claimed, gworker, gbox,   \* guardian and its mailbox
    worker, kill, wres,                    \* worker, kill in flight, its result
    chan, sent,                            \* transport to subscription
    unsubs,                                \* unsubscribe/4 calls made
    ralive, rq, log, dropped,              \* receiver, its data backlog, history
    stops, stopper                         \* :stop messages, outcomes of stop/2

sVars == <<pc, active, closed, opening, buffer, reason, stopping, closeResult>>
gVars == <<gpc, result, claimed, gworker, gbox>>
wVars == <<worker, kill, wres>>
tVars == <<chan, sent>>
rVars == <<ralive, rq, log, dropped>>
cVars == <<stops, stopper>>
vars == <<sVars, sig, reply, gVars, wVars, tVars, unsubs, rVars, cVars>>

Events == [n : Nat, kind : {"data", "reconnected", "lost"}]
FinalKinds == {"error", "transport_down", "session_lost", "overloaded"}
Entries == [n : Nat, kind : {"data", "reconnected"} \cup FinalKinds]
Final(status) == [n |-> 0, kind |-> status]

Init ==
    /\ pc = "continue" /\ active = FALSE /\ closed = FALSE /\ opening = FALSE
    /\ buffer = <<>> /\ reason = "none" /\ stopping = {} /\ closeResult = "none"
    /\ sig = {} /\ reply = "waiting"
    /\ gpc = "none" /\ result = "pending" /\ claimed = FALSE /\ gworker = FALSE
    /\ gbox = {}
    /\ worker = "none" /\ kill = FALSE /\ wres = "none"
    /\ chan = <<>> /\ sent = 0 /\ unsubs = 0
    /\ ralive = TRUE /\ rq = 0 /\ log = <<>> /\ dropped = {}
    /\ stops = {} /\ stopper = [c \in Stoppers |-> "idle"]

-----------------------------------------------------------------------------
(* The subscription process *)

GAlive == gpc \notin {"none", "dead"}

\* send/2 to a registered name raises once the name is gone; to a dead pid
\* it is silently lost.
ForwardRaises == NamedReceiver /\ ~ralive

\* Mutant: the status is sent and the process carries on.
StopAfterStatusContinuing(status) ==
    /\ pc' = "loop"
    /\ log' = IF ralive THEN Append(log, Final(status)) ELSE log
    /\ UNCHANGED <<reason, ralive, rq, dropped>>

\* stop_after_status: tell the receiver, then stop with {:shutdown, status}.
StopAfterStatus(status) ==
    /\ pc' = "terminate"
    /\ reason' = IF ForwardRaises THEN "crash" ELSE status
    /\ log' = IF ralive THEN Append(log, Final(status)) ELSE log
    /\ UNCHANGED <<ralive, rq, dropped>>

\* {:stop, reason, state} without a message to the receiver.
StopSilently(why) == pc' = "terminate" /\ reason' = why /\ UNCHANGED rVars

\* handle_continue(:subscribe): the receiver is gone, or the guardian starts
\* and spawns its worker, or it does not start.
Continue ==
    /\ pc = "continue"
    /\ \/ /\ ~ralive
          /\ StopSilently("receiver_down")
          /\ closed' = TRUE
          /\ UNCHANGED <<opening, gpc, gworker, worker>>
       \/ /\ ralive
          /\ opening' = TRUE /\ pc' = "loop"
          /\ gpc' = "loop" /\ gworker' = TRUE /\ worker' = "call"
          /\ UNCHANGED <<closed, reason, rVars>>
       \/ /\ ralive
          /\ StopAfterStatus("transport_down")
          /\ UNCHANGED <<closed, opening, gpc, gworker, worker>>
    /\ UNCHANGED <<active, buffer, stopping, closeResult, sig, reply, result,
                   claimed, gbox, kill, wres, tVars, unsubs, cVars>>

\* GenServer.call to the guardian: the request, then the blocked caller.
CallGuardian(request, where) ==
    /\ pc' = where
    /\ gbox' = IF GAlive THEN gbox \cup {request} ELSE gbox

\* What the call returns: the guardian's reply, or :none when the guardian is
\* dead or the 1000 ms timeout fires (a later reply goes to a dead alias).
CallReturns(where, r) ==
    /\ pc = where
    /\ \/ reply # "waiting" /\ r = reply
       \/ r = "none" /\ (gpc = "dead" \/ "call_timeout" \in Faults)
    /\ reply' = "waiting"

\* {:wotex_opening, reference, :ready}
HandleReady ==
    /\ pc = "loop" /\ "ready" \in sig /\ ~active
    /\ sig' = sig \ {"ready"}
    /\ CallGuardian("claim", "claiming")
    /\ UNCHANGED <<active, closed, opening, buffer, reason, stopping, closeResult,
                   reply, gpc, result, claimed, gworker, wVars, tVars, unsubs,
                   rVars, cVars>>

\* open/2: activate and flush, report the error, or give up.
ClaimOk ==
    /\ CallReturns("claiming", "ok")
    /\ active' = TRUE /\ pc' = "flush"
    /\ UNCHANGED <<closed, reason, rVars>>

ClaimError ==
    /\ CallReturns("claiming", "error")
    /\ StopAfterStatus("error")
    /\ closed' = ~ForwardRaises
    /\ UNCHANGED active

ClaimNone ==
    /\ CallReturns("claiming", "none")
    /\ StopAfterStatus("transport_down")
    /\ UNCHANGED <<active, closed>>

Open ==
    /\ ClaimOk \/ ClaimError \/ ClaimNone
    /\ UNCHANGED <<opening, buffer, stopping, closeResult, sig, gVars, wVars,
                   tVars, unsubs, cVars>>

\* forward/2 of an event.  When it raises, terminate/2 runs with the state the
\* callback was entered with: inside flush_opening that is the state before
\* open/2 set the handle and active?.
Forward(e) ==
    IF ForwardRaises
    THEN /\ pc' = "terminate" /\ reason' = "crash"
         /\ active' = (pc # "flush")
         /\ UNCHANGED rVars
    ELSE /\ log' = IF ralive THEN Append(log, e) ELSE log
         /\ rq' = IF ralive /\ e.kind = "data" THEN rq + 1 ELSE rq
         /\ UNCHANGED <<pc, reason, active, ralive, dropped>>

\* Mutant: overflow/1 compares with > instead of >=.
HasRoomOffByOne == Overflow = "none" \/ ~ralive \/ rq <= MaxQueue

\* overflow/1 answers :ok.  The mailbox length it reads is at least rq (other
\* senders add to it), or nil for a dead receiver.
HasRoom == Overflow = "none" \/ ~ralive \/ rq < MaxQueue

\* deliver/2 and the :reconnected clause.
Deliver(e) ==
    \/ /\ e.kind = "data"
       /\ HasRoom
       /\ Forward(e)
    \/ /\ e.kind = "reconnected"
       /\ Forward(e)
    \/ /\ e.kind = "data"      \* decode_frame/3 returned :ignore, or dropped
       /\ dropped' = dropped \cup {e.n}
       /\ UNCHANGED <<pc, reason, active, ralive, rq, log>>
    \/ /\ e.kind = "data" /\ Overflow = "stop" /\ ralive
       /\ StopAfterStatus("overloaded")
       /\ UNCHANGED active

\* buffer_opening/2
BufferOpening(e) ==
    IF Len(buffer) < OpeningLimit
    THEN buffer' = Append(buffer, e) /\ UNCHANGED <<pc, reason, rVars>>
    ELSE StopAfterStatus("overloaded") /\ UNCHANGED buffer

\* The next frame, delivery or status of the transport.
HandleTransport ==
    /\ pc = "loop" /\ chan # <<>>
    /\ chan' = Tail(chan)
    /\ LET e == Head(chan) IN
       \/ e.kind = "lost" /\ StopAfterStatus("session_lost") /\ UNCHANGED <<active, buffer>>
       \/ e.kind # "lost" /\ ~active /\ BufferOpening(e) /\ UNCHANGED active
       \/ e.kind # "lost" /\ active /\ Deliver(e) /\ UNCHANGED buffer
    /\ UNCHANGED <<closed, opening, stopping, closeResult, sig, reply, gVars,
                   wVars, sent, unsubs, cVars>>

\* flush_opening/1, one buffered message per step; a stop halts it.
Flush ==
    /\ pc = "flush"
    /\ \/ buffer = <<>> /\ pc' = "loop" /\ UNCHANGED <<buffer, active, reason, rVars>>
       \/ buffer # <<>> /\ buffer' = Tail(buffer) /\ Deliver(Head(buffer))
    /\ UNCHANGED <<closed, opening, stopping, closeResult, sig, reply, gVars,
                   wVars, tVars, unsubs, cVars>>

\* opening :transport_down, the guardian's DOWN, an abnormal EXIT, the
\* receiver's DOWN and the parent's EXIT.
HandleSignal(s) ==
    /\ pc = "loop" /\ s \in sig
    /\ sig' = sig \ {s}
    /\ \/ s = "tdown" /\ "ready" \notin sig /\ StopAfterStatus("transport_down")
       \/ s = "gdown" /\ sig \cap {"ready", "tdown"} = {} /\ StopAfterStatus("transport_down")
       \/ s = "exit" /\ StopAfterStatus("transport_down")
       \/ s = "rdown" /\ StopSilently("receiver_down")
       \/ s = "shutdown" /\ StopSilently("shutdown")
    /\ UNCHANGED <<active, closed, opening, buffer, stopping, closeResult, reply,
                   gVars, wVars, tVars, unsubs, cVars>>

\* handle_call(:stop) up to close/1's blocking call.
HandleStop(c) ==
    /\ pc = "loop" /\ c \in stops
    /\ stops' = stops \ {c}
    /\ stopping' = {c}
    /\ IF active THEN pc' = "unsub" /\ UNCHANGED gbox
                 ELSE CallGuardian("cancel", "cancelling")
    /\ UNCHANGED <<active, closed, opening, buffer, reason, closeResult, sig, reply,
                   gpc, result, claimed, gworker, wVars, tVars, unsubs, rVars, stopper>>

\* terminate/2
Terminate ==
    /\ pc = "terminate"
    /\ \/ /\ closed \/ (~active /\ ~opening)
          /\ pc' = "exit" /\ UNCHANGED gbox
       \/ /\ ~closed /\ active
          /\ pc' = "unsub" /\ UNCHANGED gbox
       \/ /\ ~closed /\ ~active /\ opening
          /\ CallGuardian("cancel", "cancelling")
    /\ UNCHANGED <<active, closed, opening, buffer, reason, stopping, closeResult,
                   sig, reply, gpc, result, claimed, gworker, wVars, tVars, unsubs,
                   rVars, cVars>>

\* close/1 is over: handle_call stops the process with closed? set, so that
\* terminate/2 closes nothing; terminate/2 itself just ends.
CloseDone(res) ==
    IF stopping # {}
    THEN /\ closed' = TRUE /\ closeResult' = res
         /\ pc' = "terminate" /\ reason' = "normal"
    ELSE pc' = "exit" /\ UNCHANGED <<closed, closeResult, reason>>

\* close_opening/1: a recovered handle is closed, anything else is :ok.
CloseOpening ==
    /\ \E r \in {"ok", "error", "none"} :
         /\ CallReturns("cancelling", r)
         /\ IF r = "ok" THEN pc' = "unsub" /\ UNCHANGED <<closed, closeResult, reason>>
                        ELSE CloseDone("ok")
    /\ UNCHANGED <<active, opening, buffer, stopping, sig, gVars, wVars, tVars,
                   unsubs, rVars, cVars>>

\* The unsubscribe/4 port call returns; a credential error is an error too.
Unsubscribe ==
    /\ pc = "unsub"
    /\ unsubs' = unsubs + 1
    /\ \E res \in {"ok", "error"} : CloseDone(res)
    /\ UNCHANGED <<active, opening, buffer, stopping, sig, reply, gVars, wVars,
                   tVars, rVars, cVars>>

\* What stop/2 returns to a caller that still waits when the process exits.
StopOutcome(c, why) ==
    CASE c \in stopping /\ closed -> closeResult
      [] ~(c \in stopping /\ closed) /\ why \in {"shutdown", "crash", "killed"} -> "stop_failed"
      [] OTHER -> "not_running"

\* The process is gone: its mailbox with it, its monitors fire.
Die(why) ==
    /\ pc' = "dead" /\ reason' = why
    /\ buffer' = <<>> /\ chan' = <<>> /\ sig' = {} /\ stops' = {} /\ reply' = "waiting"
    /\ gbox' = IF GAlive THEN gbox \cup {"odown"} ELSE gbox
    /\ stopper' = [c \in Stoppers |->
                     IF stopper[c] = "waiting" THEN StopOutcome(c, why) ELSE stopper[c]]
    /\ UNCHANGED <<active, closed, opening, stopping, closeResult, gpc, result,
                   claimed, gworker, wVars, sent, unsubs, rVars>>

Exit == pc = "exit" /\ Die(reason)

Kill == pc # "dead" /\ "brutal_kill" \in Faults /\ Die("killed")

-----------------------------------------------------------------------------
(* The guardian *)

Notify(s) == sig' = IF pc = "dead" THEN sig ELSE sig \cup {s}

\* A reply reaches the caller only while it waits for that very call.
ReplyTo(where, r) == reply' = IF pc = where THEN r ELSE reply

GClaim ==
    /\ gpc = "loop" /\ "claim" \in gbox
    /\ gbox' = gbox \ {"claim"}
    /\ IF ~claimed /\ result # "pending"
       THEN ReplyTo("claiming", result) /\ result' = "nil" /\ claimed' = TRUE
       ELSE ReplyTo("claiming", "none") /\ UNCHANGED <<result, claimed>>
    /\ UNCHANGED <<sVars, sig, gpc, gworker, wVars, tVars, unsubs, rVars, cVars>>

\* :cancel and the owner's DOWN both begin with stop_worker: kill, then wait.
GStopWorker(request, where, before) ==
    /\ gpc = "loop" /\ request \in gbox /\ gbox \cap before = {}
    /\ gpc' = where
    /\ gbox' = gbox \ {request}
    /\ kill' = (kill \/ gworker)
    /\ UNCHANGED <<sVars, sig, reply, result, claimed, gworker, worker, wres,
                   tVars, unsubs, rVars, cVars>>

GCancel == GStopWorker("cancel", "cancelling", {"claim"})

GOwnerDown == GStopWorker("odown", "exiting", {"claim", "cancel"})

\* The wait ends with the worker's DOWN or after 100 ms.
WorkerStopped == ~gworker \/ "wdown" \in gbox \/ "slow_kill" \in Faults

\* Mutant: a result in the mailbox is left there.
StoppedResultUndrained == result

\* A result already in the mailbox is taken after the wait.
StoppedResult == IF gworker /\ "result" \in gbox THEN wres ELSE result

GCancelled ==
    /\ gpc = "cancelling" /\ WorkerStopped
    /\ gpc' = "loop"
    /\ ReplyTo("cancelling",
               IF claimed \/ StoppedResult = "pending" THEN "none" ELSE StoppedResult)
    /\ result' = "nil" /\ claimed' = TRUE /\ gworker' = FALSE
    /\ gbox' = gbox \ {"wdown", "result"}
    /\ UNCHANGED <<sVars, sig, wVars, tVars, unsubs, rVars, cVars>>

GExited ==
    /\ gpc = "exiting" /\ WorkerStopped
    /\ gpc' = "dead" /\ gbox' = {} /\ gworker' = FALSE
    /\ UNCHANGED <<sVars, sig, reply, result, claimed, wVars, tVars, unsubs, rVars, cVars>>

\* {:opening_result, reference, result}
GResult ==
    /\ gpc = "loop" /\ "result" \in gbox
    /\ gbox' = gbox \ {"result"}
    /\ IF ~claimed /\ result = "pending"
       THEN Notify("ready") /\ result' = wres
       ELSE UNCHANGED <<sig, result>>
    /\ UNCHANGED <<sVars, reply, gpc, claimed, gworker, wVars, tVars, unsubs, rVars, cVars>>

\* {:opening_transport_down, reference} and the worker's DOWN
GTransportDown ==
    /\ gpc = "loop" /\ "tdown" \in gbox /\ "result" \notin gbox
    /\ gbox' = gbox \ {"tdown"}
    /\ Notify("tdown")
    /\ UNCHANGED <<sVars, reply, gpc, result, claimed, gworker, wVars, tVars, unsubs,
                   rVars, cVars>>

GWorkerDown ==
    /\ gpc = "loop" /\ "wdown" \in gbox /\ gbox \cap {"result", "tdown"} = {}
    /\ gbox' = gbox \ {"wdown"} /\ gworker' = FALSE
    /\ Notify("tdown")
    /\ UNCHANGED <<sVars, reply, gpc, result, claimed, wVars, tVars, unsubs, rVars, cVars>>

GuardianCrash ==
    /\ GAlive /\ "guardian_crash" \in Faults
    /\ gpc' = "dead" /\ gbox' = {} /\ gworker' = FALSE
    /\ Notify("gdown")
    /\ UNCHANGED <<sVars, reply, result, claimed, wVars, tVars, unsubs, rVars, cVars>>

-----------------------------------------------------------------------------
(* The worker and its watcher *)

ToGuardian(s) == gbox' = IF GAlive THEN gbox \cup {s} ELSE gbox

\* subscribe/2 (credentials, then the port) returns; the worker reports and
\* stays as the transport's link endpoint.  A kill in flight may still lose.
CallbackReturns(r) ==
    /\ worker = "call"
    /\ worker' = "proxy" /\ wres' = r
    /\ ToGuardian("result")
    /\ UNCHANGED <<sVars, sig, reply, gpc, result, claimed, gworker, kill, tVars,
                   unsubs, rVars, cVars>>

WorkerEnds ==
    /\ worker \in {"call", "proxy"}
    /\ worker' = "dead"
    /\ gbox' = IF GAlive /\ gworker THEN gbox \cup {"wdown"} ELSE gbox
    /\ UNCHANGED <<sVars, sig, reply, gpc, result, claimed, gworker, kill, wres,
                   tVars, unsubs, rVars, cVars>>

\* Mutant: no watcher.
WorkerDiesUnwatched == kill /\ WorkerEnds

\* The guardian's kill, or the watcher's (proxy's EXIT) once it is dead.
WorkerDies == (kill \/ gpc = "dead") /\ WorkerEnds

WorkerCrash == "worker_crash" \in Faults /\ WorkerEnds

\* A process the transport linked to the worker exits abnormally.
TransportExit ==
    /\ worker = "proxy" /\ GAlive
    /\ ToGuardian("tdown")
    /\ UNCHANGED <<sVars, sig, reply, gpc, result, claimed, gworker, wVars, tVars,
                   unsubs, rVars, cVars>>

-----------------------------------------------------------------------------
(* Environment: transport, receiver, supervisor, callers of stop/2 *)

TransportSend(kind) ==
    /\ worker # "none" /\ pc # "dead" /\ sent < MaxEvents
    /\ sent' = sent + 1
    /\ chan' = Append(chan, [n |-> sent + 1, kind |-> kind])
    /\ UNCHANGED <<sVars, sig, reply, gVars, wVars, unsubs, rVars, cVars>>

\* A linked process's abnormal EXIT, or the supervisor's shutdown.
Signal(s) ==
    /\ pc # "dead" /\ worker # "none"
    /\ sig' = sig \cup {s}
    /\ UNCHANGED <<sVars, reply, gVars, wVars, tVars, unsubs, rVars, cVars>>

ReceiverReads ==
    /\ ralive /\ rq > 0
    /\ rq' = rq - 1
    /\ UNCHANGED <<sVars, sig, reply, gVars, wVars, tVars, unsubs, ralive, log,
                   dropped, cVars>>

ReceiverDies ==
    /\ ralive
    /\ ralive' = FALSE /\ rq' = 0
    /\ sig' = IF pc \in {"continue", "dead"} THEN sig ELSE sig \cup {"rdown"}
    /\ UNCHANGED <<sVars, reply, gVars, wVars, tVars, unsubs, log, dropped, cVars>>

CallStop(c) ==
    /\ stopper[c] = "idle"
    /\ IF pc = "dead"
       THEN stopper' = [stopper EXCEPT ![c] = "not_running"] /\ UNCHANGED stops
       ELSE stopper' = [stopper EXCEPT ![c] = "waiting"] /\ stops' = stops \cup {c}
    /\ UNCHANGED <<sVars, sig, reply, gVars, wVars, tVars, unsubs, rVars>>

\* The caller gives up; its :stop stays in the mailbox.
StopTimeout(c) ==
    /\ stopper[c] = "waiting"
    /\ stopper' = [stopper EXCEPT ![c] = "timeout"]
    /\ UNCHANGED <<sVars, sig, reply, gVars, wVars, tVars, unsubs, rVars, stops>>

-----------------------------------------------------------------------------
Process ==
    \/ Continue \/ HandleReady \/ Open \/ HandleTransport \/ Flush
    \/ \E s \in {"tdown", "gdown", "exit", "rdown", "shutdown"} : HandleSignal(s)
    \/ \E c \in Stoppers : HandleStop(c)
    \/ Terminate \/ CloseOpening \/ Unsubscribe \/ Exit \/ Kill

Guardian ==
    \/ GClaim \/ GCancel \/ GOwnerDown \/ GCancelled \/ GExited \/ GResult
    \/ GTransportDown \/ GWorkerDown \/ GuardianCrash

Worker ==
    \/ \E r \in {"ok", "error"} : CallbackReturns(r)
    \/ WorkerDies \/ WorkerCrash \/ TransportExit

Environment ==
    \/ \E kind \in {"data", "reconnected", "lost"} : TransportSend(kind)
    \/ \E s \in {"exit", "shutdown"} : Signal(s)
    \/ ReceiverReads \/ ReceiverDies
    \/ \E c \in Stoppers : CallStop(c) \/ StopTimeout(c)

Next == Process \/ Guardian \/ Worker \/ Environment

Spec == Init /\ [][Next]_vars

(***************************************************************************)
(* The BEAM schedules every runnable process and delivers every signal.    *)
(* Nothing is assumed of the environment: not of the transport callbacks   *)
(* (CallbackReturns, Unsubscribe), the receiver or the callers.            *)
(***************************************************************************)
Fairness ==
    /\ WF_vars(Continue) /\ WF_vars(Open) /\ WF_vars(Flush)
    /\ \A s \in {"rdown", "shutdown"} : WF_vars(HandleSignal(s))
    /\ \A c \in Stoppers : WF_vars(HandleStop(c))
    /\ WF_vars(Terminate) /\ WF_vars(CloseOpening) /\ WF_vars(Exit)
    /\ WF_vars(GClaim) /\ WF_vars(GCancel) /\ WF_vars(GOwnerDown)
    /\ WF_vars(GCancelled) /\ WF_vars(GExited)
    /\ WF_vars(WorkerDies)

FairSpec == Spec /\ Fairness

-----------------------------------------------------------------------------
(* Properties *)

ControlTypes ==
    /\ pc \in {"continue", "loop", "claiming", "flush", "terminate", "cancelling",
               "unsub", "exit", "dead"}
    /\ active \in BOOLEAN /\ closed \in BOOLEAN /\ opening \in BOOLEAN
    /\ reason \in {"none", "receiver_down", "normal", "shutdown", "crash", "killed"}
                  \cup FinalKinds
    /\ sig \subseteq {"ready", "tdown", "gdown", "rdown", "exit", "shutdown"}
    /\ reply \in {"waiting", "ok", "error", "none"}

GuardianTypes ==
    /\ gpc \in {"none", "loop", "cancelling", "exiting", "dead"}
    /\ result \in {"pending", "ok", "error", "nil"}
    /\ claimed \in BOOLEAN /\ gworker \in BOOLEAN
    /\ gbox \subseteq {"result", "tdown", "wdown", "claim", "cancel", "odown"}
    /\ worker \in {"none", "call", "proxy", "dead"} /\ kill \in BOOLEAN
    /\ wres \in {"none", "ok", "error"}
    /\ result = "nil" => claimed
    /\ "result" \in gbox => wres \in {"ok", "error"}

DataTypes ==
    /\ buffer \in Seq(Events) /\ chan \in Seq(Events)
    /\ sent \in Nat /\ unsubs \in Nat
    /\ ralive \in BOOLEAN /\ rq \in Nat
    /\ log \in Seq(Entries) /\ dropped \subseteq Nat

CallerTypes ==
    /\ stopping \subseteq Stoppers /\ stops \subseteq Stoppers
    /\ closeResult \in {"none", "ok", "error"}
    /\ closed => pc \in {"terminate", "exit", "dead"}
    /\ stopping # {} => closed \/ pc \in {"unsub", "cancelling", "dead"}
    /\ stopping # {} /\ closed => closeResult # "none"
    /\ stopper \in [Stoppers -> {"idle", "waiting", "timeout", "ok", "error",
                                 "not_running", "stop_failed"}]

\* Every variable ranges over the values the code can give it; the guardian
\* never reads a result the worker did not send, and a caller of stop/2 never
\* a close result that was not computed.
TypeOK == ControlTypes /\ GuardianTypes /\ DataTypes /\ CallerTypes

Forwarded == {i \in 1..Len(log) : log[i].kind \notin FinalKinds}

\* The receiver sees the transport's messages in the order they were sent,
\* none twice, and misses one before a later one only if it was ignored or
\* dropped: buffering during the open and the flush at its end reorder nothing.
DeliveryOrder ==
    /\ \A i, j \in Forwarded : i < j => log[i].n < log[j].n
    /\ \A i \in Forwarded : \A n \in 1..(log[i].n - 1) :
         n \in dropped \/ \E j \in Forwarded : log[j].n = n

\* After a final status or the open error (stop_after_status, open/2) the
\* receiver gets nothing more, not even the rest of a flush.
FinalStatusIsLast ==
    \A i \in 1..Len(log) : log[i].kind \in FinalKinds => i = Len(log)

\* Events reach the receiver only from an active subscription, a live loop
\* never holds an undelivered early message behind a later one, and
\* max_queue_length bounds what this subscription leaves unread.
BufferDiscipline ==
    /\ Len(buffer) <= OpeningLimit
    /\ active /\ pc = "loop" => buffer = <<>>
    /\ Forwarded # {} => wres = "ok" /\ claimed
    /\ Overflow # "none" => rq <= MaxQueue

\* What the receiver sees is the transport's sequence, bounded, in order and
\* closed by the final status, however the open, its flush, an overflow and a
\* stop interleave.
Delivery == DeliveryOrder /\ FinalStatusIsLast

\* unsubscribe/4 is called at most once, whatever stops the process.
UnsubscribeOnce == unsubs <= 1

\* A handle the transport returned is unsubscribed before the process ends,
\* whoever ended it and however far the handover had come, unless the process
\* was killed or the guardian that held the handle crashed.
HandleReleased ==
    pc = "dead" /\ reason # "killed" /\ wres = "ok" /\ GAlive => unsubs = 1

\* stop/2 returns :ok only when nothing is being acquired any more and what
\* was acquired has been unsubscribed, if the guardian lived to tell.
StopOkReleased ==
    \A c \in Stoppers :
        stopper[c] = "ok" /\ gpc # "dead" => worker # "call" /\ (wres = "ok" => unsubs = 1)

\* The handle is in exactly one pair of hands until it is given back, once.
Custody == UnsubscribeOnce /\ HandleReleased /\ StopOkReleased

\* After its receiver exits, or once asked to stop, the process reaches the
\* unsubscribe exchange or its end, even if the subscribe callback never returns.
StopCompletes == (pc # "dead" /\ (stops # {} \/ ~ralive)) ~> pc \in {"unsub", "dead"}

\* When the subscription is gone, its guardian and worker go too, even if the
\* callback is blocked or the guardian crashed.
NoOrphans == pc = "dead" ~> (gpc \in {"none", "dead"} /\ worker \in {"none", "dead"})

\* Whatever stops the subscription stops all of it.
Ends == StopCompletes /\ NoOrphans
=============================================================================
