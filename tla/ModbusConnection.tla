-------------------------- MODULE ModbusConnection --------------------------
(***************************************************************************)
(* One Modbus TCP connection of wotex-modbus (connection.ex): the process  *)
(* that owns the socket, its connect worker and its send workers, its      *)
(* callers, and a peer that answers requests, late, twice or not at all.   *)
(* Exchanges are serialized: one active call, the others queued, each with *)
(* an absolute deadline.  What a caller is told about the effect of a      *)
(* write is the point of the model.                                        *)
(*                                                                         *)
(* The socket delivers what the peer sent in order.  A chunk of bytes that *)
(* completes no frame changes nothing but the buffer and is left out.      *)
(***************************************************************************)
EXTENDS Integers, FiniteSets, Queues

CONSTANTS
    Calls,         \* calls of request/3, one caller each
    Writes,        \* those whose command is a write
    MaxPending,    \* admitted calls (64)
    Transactions,  \* transaction identifiers (65536)
    FirstId,       \* the transaction_id option
    MaxFrames,     \* bound: response frames the peer sends
    NoCall

ASSUME ConnectionAssumption ==
    /\ Writes \subseteq Calls /\ NoCall \notin Calls
    /\ MaxPending \in Nat \ {0} /\ Transactions \in Nat \ {0} /\ MaxFrames \in Nat
    /\ FirstId \in 0..(Transactions - 1)

VARIABLES
    starter, readyCall, readyFrom,   \* start_link/1, its :ready, who waits
    phase,                           \* state.phase, then terminate/2 and the end
    exitReason,                      \* "normal" or "killed", once dead
    mode,                            \* "next" while next/1 is still to run
    calls, queue, active,            \* state.calls, .queue, .active
    transaction, tid,                \* state.transaction, per call
    worker,                          \* state.worker: the call it sends for
    senders, killed, smsgs,          \* live send workers, kills, their messages
    transmitted, rx, frames,         \* wire: requests sent, frames to read, count
    cpc, reqs, admitted, inbox, got, \* callers: control, messages, result
    live, expired,
    replies, answeredBy              \* history: replies sent, frame used

startVars == <<starter, readyCall, readyFrom>>
workVars == <<calls, queue, active, transaction, tid, worker>>
senderVars == <<senders, killed, smsgs>>
wireVars == <<transmitted, rx, frames>>
callerVars == <<cpc, reqs, admitted, got, live, expired>>
replyVars == <<inbox, replies>>
vars == <<startVars, phase, exitReason, mode, workVars, senderVars, wireVars,
          callerVars, replyVars, answeredBy>>

Init ==
    /\ starter = "calling" /\ readyCall = TRUE /\ readyFrom = FALSE
    /\ phase = "connecting" /\ exitReason = "none" /\ mode = "loop"
    /\ calls = {} /\ queue = <<>> /\ active = NoCall
    /\ transaction = FirstId
    /\ tid = [c \in Calls |-> -1] /\ worker = NoCall
    /\ senders = {} /\ killed = {} /\ smsgs = {}
    /\ transmitted = {} /\ rx = <<>> /\ frames = 0
    /\ cpc = [c \in Calls |-> "idle"] /\ reqs = {} /\ admitted = {}
    /\ inbox = [c \in Calls |-> "none"] /\ got = [c \in Calls |-> "none"]
    /\ live = Calls /\ expired = {}
    /\ replies = [c \in Calls |-> 0]
    /\ answeredBy = [c \in Calls |-> NoCall]

-----------------------------------------------------------------------------
(* Startup: init/1, startup/2 and the :ready call of await_start/2 *)

\* {:stop, :normal, state}: terminate/2 is next.
Stop == phase' = "terminate"

StartupOk ==
    /\ phase = "connecting" /\ phase' = "ready"
    /\ starter' = IF readyFrom THEN "ok" ELSE starter
    /\ readyFrom' = FALSE
    /\ UNCHANGED <<readyCall, exitReason, mode, workVars, senderVars, wireVars,
                   callerVars, replyVars, answeredBy>>

\* The connect failed or timed out, its worker was lost, or setopts failed.
StartupError ==
    /\ phase = "connecting"
    /\ IF readyFrom THEN starter' = "error" /\ Stop
                    ELSE phase' = "failed" /\ UNCHANGED starter
    /\ UNCHANGED <<readyCall, readyFrom, exitReason, mode, workVars, senderVars,
                   wireVars, callerVars, replyVars, answeredBy>>

FailedReady == starter' = "error" /\ Stop /\ UNCHANGED readyFrom

HandleReady ==
    /\ readyCall /\ readyCall' = FALSE
    /\ \/ phase = "connecting" /\ readyFrom' = TRUE /\ UNCHANGED <<starter, phase>>
       \/ phase = "ready" /\ starter' = "ok" /\ UNCHANGED <<phase, readyFrom>>
       \/ phase = "failed" /\ FailedReady
    /\ UNCHANGED <<exitReason, mode, workVars, senderVars, wireVars, callerVars,
                   replyVars, answeredBy>>

\* The process is gone, with its mailbox and its socket.
Die(why) ==
    /\ phase' = "dead" /\ exitReason' = why
    /\ starter' = IF starter = "calling" THEN "error" ELSE starter
    /\ readyCall' = FALSE /\ readyFrom' = FALSE /\ mode' = "loop"
    /\ calls' = {} /\ queue' = <<>> /\ active' = NoCall /\ worker' = NoCall
    /\ transaction' = FirstId /\ tid' = [c \in Calls |-> -1]
    /\ reqs' = {} /\ smsgs' = {} /\ rx' = <<>>
    /\ UNCHANGED <<senders, killed, transmitted, frames, cpc, admitted, got, live,
                   expired, answeredBy>>

\* await_start/2 or close/1 gave up waiting and killed it.
Kill ==
    /\ phase # "dead" /\ Die("killed") /\ UNCHANGED replyVars

-----------------------------------------------------------------------------
(* Callers: request/3 and call/4 *)

Finished(c, result) ==
    /\ cpc' = [cpc EXCEPT ![c] = "done"]
    /\ got' = [got EXCEPT ![c] = result]

\* effect/2: an error after which a write may have reached the peer.
Effect(c) == IF c \in Writes THEN "unknown" ELSE "error"

\* owner_status/1, then GenServer.call.
Request(c) ==
    /\ cpc[c] = "idle" /\ starter = "ok"
    /\ IF phase = "dead"
       THEN Finished(c, "error") /\ UNCHANGED reqs
       ELSE /\ cpc' = [cpc EXCEPT ![c] = "called"] /\ reqs' = reqs \cup {c}
            /\ UNCHANGED got
    /\ UNCHANGED <<startVars, phase, exitReason, mode, workVars, senderVars, wireVars,
                   admitted, live, expired, replyVars, answeredBy>>

\* The result of the call when the process exits before replying.
ExitResult(c) ==
    IF exitReason = "normal" /\ c \notin admitted THEN "error" ELSE Effect(c)

Return(c) ==
    /\ cpc[c] = "called" /\ c \in live
    /\ \/ inbox[c] # "none" /\ Finished(c, inbox[c])
       \/ inbox[c] = "none" /\ phase = "dead" /\ Finished(c, ExitResult(c))
       \/ inbox[c] = "none" /\ phase # "dead" /\ c \in expired /\ Finished(c, Effect(c))
    /\ UNCHANGED <<startVars, phase, exitReason, mode, workVars, senderVars, wireVars,
                   reqs, admitted, live, expired, replyVars, answeredBy>>

\* Deadline and death of a caller that has no answer yet.
Expire(c) ==
    /\ cpc[c] = "called" /\ inbox[c] = "none" /\ expired' = expired \cup {c}
    /\ UNCHANGED <<startVars, phase, exitReason, mode, workVars, senderVars, wireVars,
                   cpc, reqs, admitted, got, live, replyVars, answeredBy>>

CallerDies(c) ==
    /\ cpc[c] = "called" /\ inbox[c] = "none" /\ live' = live \ {c}
    /\ UNCHANGED <<startVars, phase, exitReason, mode, workVars, senderVars, wireVars,
                   cpc, reqs, admitted, got, expired, replyVars, answeredBy>>

-----------------------------------------------------------------------------
(* The connection: admission and activation *)

\* reply/2
Reply(c, result) ==
    /\ replies' = [replies EXCEPT ![c] = @ + 1]
    /\ inbox' = IF cpc[c] = "called" THEN [inbox EXCEPT ![c] = result] ELSE inbox

\* finish/3, for a call still in state.calls
Finish(c, result) ==
    /\ Reply(c, result)
    /\ calls' = calls \ {c}
    /\ queue' = Without(queue, c)

Loop == phase = "ready" /\ mode = "loop"

\* handle_call({:request, ...}): refused, or admit/5 up to next/1.
HandleRequest(c) ==
    /\ Loop /\ c \in reqs
    /\ reqs' = reqs \ {c}
    /\ \/ /\ c \in expired \/ Cardinality(calls) >= MaxPending
          /\ Reply(c, "error")
          /\ UNCHANGED <<mode, calls, queue, admitted>>
       \/ /\ c \notin expired /\ Cardinality(calls) < MaxPending
          /\ calls' = calls \cup {c} /\ queue' = Append(queue, c)
          /\ admitted' = admitted \cup {c}
          /\ mode' = "next"
          /\ UNCHANGED replyVars
    /\ UNCHANGED <<startVars, phase, exitReason, active, transaction, tid, worker,
                   senderVars, wireVars, cpc, got, live, expired, answeredBy>>

NextTransaction(t) == (t + 1) % Transactions

\* activate/2: skip a call that expired or lost its caller, or send.
Skip(c) ==
    /\ c \in expired \/ c \notin live
    /\ Finish(c, "error")
    /\ UNCHANGED <<mode, active, transaction, tid, worker, senders>>

Activate(c) ==
    /\ c \notin expired /\ c \in live
    /\ active' = c /\ queue' = Tail(queue)
    /\ tid' = [tid EXCEPT ![c] = transaction]
    /\ transaction' = NextTransaction(transaction)
    /\ worker' = c /\ senders' = senders \cup {c}
    /\ mode' = "loop"
    /\ UNCHANGED <<calls, replyVars>>

\* Mutant: the active call is not looked at.
MayActivateAlways == queue # <<>>

MayActivate == active = NoCall /\ queue # <<>>

\* next/1
NextCall ==
    /\ phase = "ready" /\ mode = "next"
    /\ \/ MayActivate /\ (Skip(Head(queue)) \/ Activate(Head(queue)))
       \/ /\ ~MayActivate /\ mode' = "loop"
          /\ UNCHANGED <<workVars, senders, replyVars>>
    /\ UNCHANGED <<startVars, phase, exitReason, killed, smsgs, wireVars, callerVars,
                   answeredBy>>

-----------------------------------------------------------------------------
(* Send workers and the peer *)

\* A worker ends: the bytes went out, or an error or a crash left it open
\* whether they did.  A killed process leaves it the socket for a moment.
SenderEnds(c, kind) ==
    /\ c \in senders /\ exitReason # "normal"
    /\ senders' = senders \ {c}
    /\ transmitted' \in {transmitted \cup {c}} \cup (IF kind = "ok" THEN {} ELSE {transmitted})
    /\ smsgs' = IF phase = "dead" THEN {} ELSE smsgs \cup {[call |-> c, kind |-> kind]}
    /\ UNCHANGED <<startVars, phase, exitReason, mode, workVars, killed, rx, frames,
                   callerVars, replyVars, answeredBy>>

SenderKilled(c) ==
    /\ c \in senders /\ (c \in killed \/ phase = "dead")
    /\ senders' = senders \ {c}
    /\ UNCHANGED <<startVars, phase, exitReason, mode, workVars, killed, smsgs,
                   wireVars, callerVars, replyVars, answeredBy>>

\* The peer answers a request it received, perhaps again.  "invalid": a frame
\* that does not decode, does not fit the command or has bytes behind it.
PeerSends(c, status) ==
    /\ c \in transmitted /\ frames < MaxFrames /\ phase = "ready"
    /\ rx' = Append(rx, [call |-> c, status |-> status])
    /\ frames' = frames + 1
    /\ UNCHANGED <<startVars, phase, exitReason, mode, workVars, senderVars,
                   transmitted, callerVars, replyVars, answeredBy>>

-----------------------------------------------------------------------------
(* The connection: messages *)

\* fail/2
Fail ==
    /\ Stop
    /\ IF active = NoCall THEN UNCHANGED <<calls, queue, replyVars>>
                          ELSE Finish(active, Effect(active))

\* {:sent, ref, result} of the active call, the EXIT of the current worker
HandleSent(m) ==
    /\ Loop /\ m \in smsgs
    /\ smsgs' = smsgs \ {m}
    /\ \/ /\ m.kind = "ok" \/ (m.kind = "error" /\ active # m.call)
             \/ (m.kind = "exit" /\ worker # m.call)
          /\ worker' = IF m.kind = "ok" /\ active = m.call THEN NoCall ELSE worker
          /\ UNCHANGED <<phase, calls, queue, replyVars>>
       \/ m.kind = "error" /\ active = m.call /\ Fail /\ worker' = NoCall
       \/ m.kind = "exit" /\ worker = m.call /\ Fail /\ worker' = NoCall
    /\ UNCHANGED <<startVars, exitReason, mode, active, transaction, tid, senders, killed,
                   wireVars, callerVars, answeredBy>>

\* Codec.response/3 correlates by the transaction identifier.
Correlated(f) == tid[f.call] = tid[active]

Accepted(f) ==
    active # NoCall /\ active \notin expired /\ f.status # "invalid" /\ Correlated(f)

\* complete/2.  Re-arming the socket may fail.
Complete(f) ==
    /\ Finish(active, IF f.status = "ok" THEN "ok" ELSE Effect(active))
    /\ answeredBy' = [answeredBy EXCEPT ![active] = f.call]
    /\ killed' = IF worker = NoCall THEN killed ELSE killed \cup {worker}
    /\ active' = NoCall /\ worker' = NoCall
    /\ (mode' = "next" /\ UNCHANGED phase) \/ (Stop /\ UNCHANGED mode)

\* {:tcp, socket, bytes}: receive_bytes/2 and respond/3
HandleBytes ==
    /\ Loop /\ rx # <<>>
    /\ rx' = Tail(rx)
    /\ \/ Accepted(Head(rx)) /\ Complete(Head(rx))
       \/ ~Accepted(Head(rx)) /\ Fail /\ UNCHANGED <<mode, active, worker, killed, answeredBy>>
    /\ UNCHANGED <<startVars, exitReason, transaction, tid, senders, smsgs, transmitted,
                   frames, callerVars>>

\* {:tcp_closed, _}, {:tcp_error, _, _}, or setopts after incomplete bytes fails
HandleSocketLost ==
    /\ Loop /\ Fail
    /\ UNCHANGED <<startVars, exitReason, mode, active, transaction, tid, worker,
                   senderVars, wireVars, callerVars, answeredBy>>

\* Mutant: only queued calls have a deadline.
HandleDeadlineQueued(c) ==
    /\ Loop /\ c \in calls \cap expired /\ c # active
    /\ Finish(c, "error") /\ UNCHANGED phase
    /\ UNCHANGED <<startVars, exitReason, mode, active, transaction, tid, worker,
                   senderVars, wireVars, callerVars, answeredBy>>

\* {:deadline, ref}; the timer of a finished call changes nothing.
HandleDeadline(c) ==
    /\ Loop /\ c \in calls \cap expired
    /\ \/ c = active /\ Fail
       \/ c # active /\ Finish(c, "error") /\ UNCHANGED phase
    /\ UNCHANGED <<startVars, exitReason, mode, active, transaction, tid, worker,
                   senderVars, wireVars, callerVars, answeredBy>>

\* caller_down/2
HandleCallerDown(c) ==
    /\ Loop /\ c \in calls \ live
    /\ \/ c = active /\ Stop /\ UNCHANGED <<calls, queue, replyVars>>
       \/ c # active /\ Finish(c, "error") /\ UNCHANGED phase
    /\ UNCHANGED <<startVars, exitReason, mode, active, transaction, tid, worker,
                   senderVars, wireVars, callerVars, answeredBy>>

\* The owner or the creator is down, or close/1 asks to stop.
HandleStop ==
    /\ phase \in {"connecting", "ready", "failed"} /\ mode = "loop" /\ Stop
    /\ UNCHANGED <<startVars, exitReason, mode, workVars, senderVars, wireVars,
                   callerVars, replyVars, answeredBy>>

\* terminate/2: kill the worker, then close the socket and answer the rest.
Terminate ==
    /\ phase = "terminate" /\ phase' = "closing"
    /\ killed' = IF worker = NoCall THEN killed ELSE killed \cup {worker}
    /\ UNCHANGED <<startVars, exitReason, mode, workVars, senders, smsgs, wireVars,
                   callerVars, replyVars, answeredBy>>

\* Mutant: all calls are answered as if unsent.
TerminateResultUnsent(c) == "error"

TerminateResult(c) == IF c = active THEN Effect(c) ELSE "error"

Terminated ==
    /\ phase = "closing" /\ Die("normal")
    /\ replies' = [c \in Calls |-> IF c \in calls THEN replies[c] + 1 ELSE replies[c]]
    /\ inbox' = [c \in Calls |-> IF c \in calls /\ cpc[c] = "called"
                                 THEN TerminateResult(c) ELSE inbox[c]]

-----------------------------------------------------------------------------
Startup == StartupOk \/ StartupError \/ HandleReady

CallerStep(c) == Request(c) \/ Return(c) \/ Expire(c) \/ CallerDies(c)

Wire ==
    \E c \in Calls :
        \/ \E kind \in {"ok", "error", "exit"} : SenderEnds(c, kind)
        \/ SenderKilled(c)
        \/ \E status \in {"ok", "exception", "invalid"} : PeerSends(c, status)

Server ==
    \/ \E c \in Calls : HandleRequest(c) \/ HandleDeadline(c) \/ HandleCallerDown(c)
    \/ \E m \in smsgs : HandleSent(m)
    \/ NextCall \/ HandleBytes \/ HandleSocketLost \/ HandleStop
    \/ Terminate \/ Terminated \/ Kill

Next == Startup \/ (\E c \in Calls : CallerStep(c)) \/ Wire \/ Server

Spec == Init /\ [][Next]_vars

(***************************************************************************)
(* The process is scheduled and deadlines pass.  Nothing is assumed of the *)
(* peer, the socket, the connect or the callers.                           *)
(***************************************************************************)
FairSpec ==
    /\ Spec
    /\ WF_vars(HandleReady) /\ WF_vars(NextCall) /\ WF_vars(Terminate) /\ WF_vars(Terminated)
    /\ \A c \in Calls : WF_vars(Expire(c)) /\ WF_vars(HandleDeadline(c))

-----------------------------------------------------------------------------
(* Properties *)

Queued == Elements(queue)
Result == {"none", "ok", "error", "unknown"}

\* Every variable ranges over the values the code can give it; transaction
\* identifiers fit the 16-bit field.
TypeOK ==
    /\ starter \in {"calling", "ok", "error"} /\ readyCall \in BOOLEAN /\ readyFrom \in BOOLEAN
    /\ phase \in {"connecting", "ready", "failed", "terminate", "closing", "dead"}
    /\ exitReason \in {"none", "normal", "killed"} /\ mode \in {"loop", "next"}
    /\ calls \subseteq Calls /\ queue \in Seq(Calls) /\ active \in Calls \cup {NoCall}
    /\ transaction \in 0..(Transactions - 1)
    /\ tid \in [Calls -> -1..(Transactions - 1)]
    /\ worker \in Calls \cup {NoCall}
    /\ senders \subseteq Calls /\ killed \subseteq Calls
    /\ smsgs \subseteq [call : Calls, kind : {"ok", "error", "exit"}]
    /\ transmitted \subseteq Calls /\ frames \in Nat
    /\ rx \in Seq([call : Calls, status : {"ok", "exception", "invalid"}])
    /\ cpc \in [Calls -> {"idle", "called", "done"}]
    /\ reqs \subseteq Calls /\ admitted \subseteq Calls
    /\ inbox \in [Calls -> Result] /\ got \in [Calls -> Result]
    /\ live \subseteq Calls /\ expired \subseteq Calls
    /\ replies \in [Calls -> Nat] /\ answeredBy \in [Calls -> Calls \cup {NoCall}]

\* Between messages the calls are the active one and the queued ones, each
\* queued once, and none waits while nothing is active.
Bookkeeping ==
    Loop =>
        /\ calls = Queued \cup ({active} \ {NoCall}) /\ active \notin Queued
        /\ Distinct(queue)
        /\ active = NoCall => queue = <<>>

\* One exchange at a time: nobody but the active call's worker can write to
\* the socket, and no sent request but the active one lacks its answer.
OneExchange ==
    phase = "ready" =>
        /\ senders \subseteq {active}
        /\ \A c \in transmitted : c = active \/ replies[c] = 1

\* The calls in the state and the exchange on the wire are the same ones.
Serialized == TypeOK /\ Bookkeeping /\ OneExchange

\* "A transmitted write reports an unknown effect when its response does not
\* establish the outcome": a write whose caller was told it had no effect has
\* not been transmitted, and never is afterwards.
EffectHonest ==
    \A c \in Writes : "error" \in {got[c], inbox[c]} => c \notin transmitted

\* A call is completed by the peer's answer to that very call.
Attribution == \A c \in Calls : answeredBy[c] \in {NoCall, c}

\* Nobody is answered twice, and a process that ended by itself has answered
\* every call it admitted.
AnsweredOnce ==
    \A c \in Calls :
        /\ replies[c] <= 1
        /\ phase = "dead" /\ exitReason = "normal" /\ c \in admitted => replies[c] = 1

\* What a caller is told is true of the peer, said once, and by the peer's
\* answer to this call.
HonestAnswers == EffectHonest /\ Attribution /\ AnsweredOnce

\* The connection always comes to rest: every admitted call ends although peer
\* and socket stay silent, and a start_link/1 that returned an error leaves no
\* process behind.
EveryCallEnds == []<>(phase = "dead" \/ (calls = {} /\ starter # "error"))
=============================================================================
