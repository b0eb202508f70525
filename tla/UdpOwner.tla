------------------------------ MODULE UdpOwner ------------------------------
(***************************************************************************)
(* One UDP socket owner of wotex-udp (owner.ex) with its callers and its   *)
(* admission queue.  A caller publishes a complete request in the queue,   *)
(* wakes the owner if it was the first since the last take, and waits for  *)
(* a reply.  The owner takes what is published, on the wakeup or on its    *)
(* ten-millisecond sweep, serves one request at a time with non-blocking   *)
(* socket calls, and watches deadlines and callers.                        *)
(*                                                                         *)
(* A handler of the owner is split where another process can change what   *)
(* it reads next (the queue, a deadline, a caller's life); the queue is    *)
(* that of Admission, whose atomic steps AdmissionCAS implements.          *)
(***************************************************************************)
EXTENDS AdmissionQueue, Queues

CONSTANTS
    BatchMax,     \* datagrams a batch asks for
    MaxDeaths,    \* bound: callers that die
    MaxSelects,   \* bound: socket selects armed
    None          \* no request

VARIABLES
    adm, outcome,          \* the admission queue
    cpc, inbox, live,      \* callers: control, reply received, alive
    wakeNote,              \* notification a caller still has to send
    expired,               \* requests whose deadline has passed
    opc,                   \* the owner's control
    alias,                 \* its active notification alias, -1 while none
    wakes,                 \* wakeups in its mailbox
    batch,                 \* taken requests not yet ingested
    pending, queue, active,
    sel, count,            \* per request: select reference (0: nil), datagrams
    refs, armed, events,   \* socket: references used, armed, messages sent
    replies,               \* responses sent per request
    crashed                \* the owner died without a close

queueVars == <<adm, outcome>>
callerVars == <<cpc, inbox, live, wakeNote>>
workVars == <<pending, queue, active, sel, count>>
socketVars == <<refs, armed, events>>
vars == <<queueVars, callerVars, expired, opc, alias, wakes, batch, workVars,
          socketVars, replies, crashed>>

Q == INSTANCE Admission

ASSUME OwnerAssumption ==
    /\ BatchMax \in Nat \ {0} /\ MaxDeaths \in Nat /\ MaxSelects \in Nat
    /\ None \notin Requests

Init ==
    /\ Q!Init
    /\ cpc = [r \in Requests |-> "idle"]
    /\ inbox = [r \in Requests |-> "none"]
    /\ live = Requests
    /\ wakeNote = [r \in Requests |-> -1]
    /\ expired = {}
    /\ opc = "idle" /\ alias = 0 /\ wakes = {} /\ batch = {}
    /\ pending = {} /\ queue = <<>> /\ active = None
    /\ sel = [r \in Requests |-> 0] /\ count = [r \in Requests |-> 0]
    /\ refs = 0 /\ armed = {} /\ events = {}
    /\ replies = [r \in Requests |-> 0]
    /\ crashed = FALSE

-----------------------------------------------------------------------------
(* Callers: submit/4, await_reply/6 and await_closed/4 *)

Finished(r) == cpc' = [cpc EXCEPT ![r] = "done"]

\* enqueue/2 and its answer.  The table dies with its owner.
Submit(r) ==
    /\ cpc[r] = "idle" /\ r \in live
    /\ \/ /\ opc = "dead"
          /\ Finished(r)
          /\ UNCHANGED <<queueVars, wakeNote>>
       \/ /\ opc # "dead" /\ Q!Enqueue(r)
          /\ wakeNote' = [wakeNote EXCEPT ![r] = IF adm.notified THEN -1 ELSE adm.note]
          /\ cpc' = [cpc EXCEPT ![r] = IF adm.notified THEN "waiting" ELSE "wake"]
       \/ /\ opc # "dead" /\ (Q!Refuse(r) \/ Q!Contend(r))
          /\ Finished(r)
          /\ UNCHANGED wakeNote
    /\ UNCHANGED <<inbox, live, expired, opc, alias, wakes, batch, workVars,
                   socketVars, replies, crashed>>

\* send(notification, ...): lost unless the alias is still active.
Wake(r) ==
    /\ cpc[r] = "wake" /\ r \in live
    /\ wakes' = IF opc # "dead" /\ alias = wakeNote[r] THEN wakes \cup {alias} ELSE wakes
    /\ wakeNote' = [wakeNote EXCEPT ![r] = -1]
    /\ cpc' = [cpc EXCEPT ![r] = "waiting"]
    /\ UNCHANGED <<queueVars, inbox, live, expired, opc, alias, batch,
                   workVars, socketVars, replies, crashed>>

\* What await_reply/6 and await_closed/4 wait for: the reply and, once a close
\* is acknowledged, the owner's end as well.
Answered(r) == inbox[r] # "none" /\ (inbox[r] = "owner_closed" => opc = "dead")

\* A reply, the owner's DOWN behind any reply, or else the time limit.
Return(r) ==
    /\ cpc[r] = "waiting" /\ r \in live
    /\ Answered(r) \/ opc = "dead" \/ r \in expired
    /\ Finished(r)
    /\ UNCHANGED <<queueVars, inbox, live, wakeNote, expired, opc, alias, wakes, batch,
                   workVars, socketVars, replies, crashed>>

\* A caller dies before its reply; later, nobody would notice.
CallerDies(r) ==
    /\ r \in live /\ cpc[r] \in {"wake", "waiting"} /\ inbox[r] = "none"
    /\ Cardinality(Requests \ live) < MaxDeaths
    /\ live' = live \ {r}
    /\ UNCHANGED <<queueVars, cpc, inbox, wakeNote, expired, opc, alias, wakes,
                   batch, workVars, socketVars, replies, crashed>>

\* Time passes the deadline of a request somebody still waits for.
Expire(r) ==
    /\ cpc[r] \in {"wake", "waiting"} /\ ~Answered(r) /\ r \notin expired
    /\ expired' = expired \cup {r}
    /\ UNCHANGED <<queueVars, callerVars, opc, alias, wakes, batch, workVars,
                   socketVars, replies, crashed>>

-----------------------------------------------------------------------------
(* The owner: pump/1 and ingest/2 *)

\* respond/3, to the alias of a caller that still waits.
Respond(r, result) ==
    /\ replies' = [replies EXCEPT ![r] = @ + 1]
    /\ inbox' = IF cpc[r] \in {"wake", "waiting"} /\ inbox[r] = "none"
                THEN [inbox EXCEPT ![r] = result] ELSE inbox
    /\ UNCHANGED <<cpc, live, wakeNote>>

\* pump/1 begins: the old alias goes, with its wakeup.
StartPump ==
    /\ opc' = "take" /\ alias' = -1 /\ wakes' = {}
    /\ UNCHANGED <<queueVars, callerVars, expired, batch, workVars, socketVars,
                   replies, crashed>>

Wakeup == opc = "idle" /\ alias \in wakes /\ StartPump

\* Mutant: no sweep.
SweepNever == FALSE /\ StartPump

\* The sweep.  One that finds nothing published only renumbers the alias, and
\* is left out.
Sweep == opc = "idle" /\ Unclaimed(adm) # {} /\ StartPump

\* Admission.take/2 under a fresh alias.
TakeWork ==
    /\ opc = "take" /\ opc' = "ingest"
    /\ Q!Take
    /\ alias' = adm.note + 1
    /\ batch' = Unclaimed(adm)
    /\ UNCHANGED <<callerVars, expired, wakes, workVars, socketVars, replies, crashed>>

\* The batch is sorted by sequence.
NextOfBatch(r) ==
    r \in batch /\ \A q \in batch : adm.requests[r].seq <= adm.requests[q].seq

Reject(r, result) ==
    /\ adm' = Released(adm, r) /\ UNCHANGED outcome
    /\ Respond(r, result)

Ingest(r) ==
    /\ opc = "ingest" /\ NextOfBatch(r)
    /\ \/ /\ r \notin live \/ r \in expired
          /\ Reject(r, IF r \notin live THEN "closed" ELSE "timeout")
          /\ batch' = batch \ {r}
          /\ UNCHANGED <<opc, pending, queue>>
       \/ /\ r \in live /\ r \notin expired /\ Op[r] = "close"
          /\ opc' = "closing"
          /\ UNCHANGED <<queueVars, callerVars, batch, pending, queue, replies>>
       \/ /\ r \in live /\ r \notin expired /\ Op[r] # "close"
          /\ pending' = pending \cup {r} /\ queue' = Append(queue, r)
          /\ batch' = batch \ {r}
          /\ UNCHANGED <<opc, queueVars, callerVars, replies>>
    /\ UNCHANGED <<expired, alias, wakes, active, sel, count, socketVars, crashed>>

\* Mutant: the select is left armed.
DisarmForgotten(r) == UNCHANGED armed

\* Backend.cancel/2
Disarm(r) == armed' = armed \ {sel[r]}

\* finish/3: disarm, release, respond, forget.
Finish(r, result) ==
    /\ Disarm(r)
    /\ adm' = Released(adm, r) /\ UNCHANGED outcome
    /\ Respond(r, result)
    /\ pending' = pending \ {r}
    /\ queue' = Without(queue, r)
    /\ active' = IF active = r THEN None ELSE active
    /\ sel' = [sel EXCEPT ![r] = 0]
    /\ UNCHANGED <<expired, alias, wakes, batch, count, refs, crashed>>

\* A close finishes everything pending, closes the socket and stops the owner.
CloseOne(r) ==
    /\ opc = "closing" /\ r \in pending
    /\ Finish(r, "closed")
    /\ UNCHANGED <<opc, events>>

Closed(r) ==
    /\ opc = "closing" /\ pending = {} /\ NextOfBatch(r)
    /\ Respond(r, "owner_closed")
    /\ opc' = "dead" /\ batch' = batch \ {r}
    /\ UNCHANGED <<queueVars, expired, alias, wakes, workVars, socketVars, crashed>>

-----------------------------------------------------------------------------
(* The owner: advance/1, step/1, accept/4 *)

\* The next request, after a batch is ingested or a request is finished.
Advance ==
    /\ opc = "advance" \/ (opc = "ingest" /\ batch = {})
    /\ IF active = None /\ queue # <<>>
       THEN active' = Head(queue) /\ queue' = Tail(queue) /\ opc' = "step"
       ELSE opc' = "idle" /\ UNCHANGED <<active, queue>>
    /\ UNCHANGED <<queueVars, callerVars, expired, alias, wakes, batch, pending, sel,
                   count, socketVars, replies, crashed>>

\* timeout_result/1: a batch keeps what it has collected.
TimeoutResult(r) == IF Op[r] = "batch" /\ count[r] > 0 THEN "ok" ELSE "timeout"

\* advance(finish(...))
FinishAndAdvance(r, result) == Finish(r, result) /\ opc' = "advance"

Abandon ==
    /\ opc = "step" /\ (active \in expired \/ active \notin live)
    /\ FinishAndAdvance(active, TimeoutResult(active)) /\ UNCHANGED events

Dispatchable == opc = "step" /\ active \in live /\ active \notin expired

\* The socket would block: wait for its select message.
DispatchSelect ==
    /\ Dispatchable
    /\ Op[active] \in {"send", "recv", "batch"} /\ ~Poll[active] /\ refs < MaxSelects
    /\ refs' = refs + 1
    /\ armed' = armed \cup {refs + 1}
    /\ sel' = [sel EXCEPT ![active] = refs + 1]
    /\ opc' = "idle"
    /\ UNCHANGED <<queueVars, callerVars, expired, alias, wakes, batch, pending, queue,
                   active, count, events, replies, crashed>>

\* A datagram of a batch that is not complete yet: receive again.
DispatchMore ==
    /\ Dispatchable
    /\ Op[active] = "batch" /\ count[active] + 1 < BatchMax
    /\ count' = [count EXCEPT ![active] = @ + 1]
    /\ sel' = [sel EXCEPT ![active] = 0]
    /\ UNCHANGED <<queueVars, callerVars, expired, opc, alias, wakes, batch, pending,
                   queue, active, socketVars, replies, crashed>>

\* Success (of a batch, its last datagram), a socket error, the timeout of a
\* poll, or any result that arrived after the deadline.
DispatchDone ==
    /\ Dispatchable
    /\ \E result \in {"ok", "error", TimeoutResult(active)} :
          /\ result = "ok" /\ Op[active] = "batch" =>
                count[active] + 1 = BatchMax \/ TimeoutResult(active) = "ok"
          /\ FinishAndAdvance(active, result)
    /\ UNCHANGED events

-----------------------------------------------------------------------------
(* The owner: messages *)

\* Mutant: a late timer of a finished request is not recognised.
DeadlineUnchecked(r) ==
    /\ opc = "idle" /\ r \in expired
    /\ FinishAndAdvance(r, TimeoutResult(r)) /\ UNCHANGED events

\* {:deadline, id} and the caller's DOWN, for a request still pending
Deadline(r) ==
    /\ opc = "idle" /\ r \in pending \cap expired
    /\ FinishAndAdvance(r, TimeoutResult(r)) /\ UNCHANGED events

CallerDown(r) ==
    /\ opc = "idle" /\ r \in pending \ live
    /\ FinishAndAdvance(r, "closed") /\ UNCHANGED events

Selected(ref) == active # None /\ sel[active] = ref

\* {:"$socket", ...}: of the active request, retried or failed; else ignored.
SocketMessage(e) ==
    /\ opc = "idle" /\ e \in events
    /\ events' = events \ {e}
    /\ IF Selected(e.ref) /\ e.kind = "abort"
       THEN FinishAndAdvance(active, "error")
       ELSE /\ opc' = IF Selected(e.ref) THEN "step" ELSE "idle"
            /\ UNCHANGED <<queueVars, callerVars, expired, alias, wakes, batch,
                           workVars, refs, armed, replies, crashed>>

\* The socket fires an armed select, or aborts it; once.
SocketFires(ref, kind) ==
    /\ opc # "dead" /\ ref \in armed
    /\ armed' = armed \ {ref}
    /\ events' = events \cup {[ref |-> ref, kind |-> kind]}
    /\ UNCHANGED <<queueVars, callerVars, expired, opc, alias, wakes, batch, workVars,
                   refs, replies, crashed>>

\* The owner dies with everything it keeps in memory.
OwnerCrash ==
    /\ opc # "dead" /\ opc' = "dead" /\ crashed' = TRUE
    /\ alias' = -1 /\ wakes' = {} /\ batch' = {} /\ pending' = {} /\ queue' = <<>>
    /\ active' = None /\ armed' = {} /\ events' = {}
    /\ sel' = [r \in Requests |-> 0] /\ count' = [r \in Requests |-> 0]
    /\ UNCHANGED <<queueVars, callerVars, expired, refs, replies>>

-----------------------------------------------------------------------------
Caller(r) == Submit(r) \/ Wake(r) \/ Return(r) \/ CallerDies(r) \/ Expire(r)

OwnerOf(r) == Ingest(r) \/ CloseOne(r) \/ Closed(r) \/ Deadline(r) \/ CallerDown(r)

Dispatch == DispatchSelect \/ DispatchMore \/ DispatchDone

Socket ==
    \/ \E e \in events : SocketMessage(e)
    \/ \E ref \in armed, kind \in {"select", "abort"} : SocketFires(ref, kind)

Next ==
    \/ \E r \in Requests : Caller(r) \/ OwnerOf(r)
    \/ Wakeup \/ Sweep \/ TakeWork \/ Advance \/ Abandon \/ Dispatch
    \/ Socket \/ OwnerCrash

Spec == Init /\ [][Next]_vars

(***************************************************************************)
(* The owner's process is scheduled, its sweep timer repeats and time      *)
(* passes deadlines.  Nothing is assumed of callers or of the socket: a    *)
(* caller may die before its wakeup, a datagram may never come.            *)
(***************************************************************************)
FairSpec ==
    /\ Spec
    /\ \A r \in Requests : WF_vars(Expire(r)) /\ WF_vars(OwnerOf(r))
    /\ WF_vars(Sweep) /\ WF_vars(TakeWork) /\ WF_vars(Advance)
    /\ WF_vars(Abandon) /\ WF_vars(Dispatch)

-----------------------------------------------------------------------------
(* Properties *)

Results == {"none", "ok", "error", "timeout", "closed", "owner_closed"}

\* Every variable ranges over the values the code can give it; the owner's
\* mailbox never holds a wakeup for an alias it has given up.
TypeOK ==
    /\ IsQueue(adm) /\ outcome \in [Requests -> Outcomes]
    /\ cpc \in [Requests -> {"idle", "wake", "waiting", "done"}]
    /\ inbox \in [Requests -> Results]
    /\ live \subseteq Requests /\ expired \subseteq Requests
    /\ wakeNote \in [Requests -> Nat \cup {-1}]
    /\ opc \in {"idle", "take", "ingest", "closing", "advance", "step", "dead"}
    /\ opc # "dead" => alias \in {-1, adm.note} /\ wakes \subseteq {alias}
    /\ batch \subseteq Requests /\ pending \subseteq Requests
    /\ queue \in Seq(Requests) /\ active \in Requests \cup {None}
    /\ sel \in [Requests -> Nat] /\ count \in [Requests -> Nat]
    /\ refs \in Nat /\ armed \subseteq 1..refs
    /\ events \subseteq [ref : 1..refs, kind : {"select", "abort"}]
    /\ replies \in [Requests -> Nat] /\ crashed \in BOOLEAN

Queued == Elements(queue)

\* Nothing is lost between the queue's entries and the owner's maps: what the
\* owner has taken is pending or about to be ingested, and what is pending is
\* either active or queued once.
Bookkeeping ==
    opc # "dead" =>
        /\ {r \in Held(adm) : adm.requests[r].claimed} = pending \cup batch
        /\ pending \cap batch = {}
        /\ pending = Queued \cup ({active} \ {None})
        /\ active \notin Queued
        /\ Distinct(queue)
        /\ opc = "step" => active # None

\* A request is served after every request admitted before it.
FifoService ==
    opc # "dead" =>
        /\ \A i, j \in 1..Len(queue) :
             i < j => adm.requests[queue[i]].seq < adm.requests[queue[j]].seq
        /\ active # None =>
             \A q \in Queued : adm.requests[active].seq < adm.requests[q].seq

\* The socket is armed for the active request only: a finished or abandoned
\* one leaves no select behind that could serve the next.
SelectOwnership ==
    opc # "dead" => armed \subseteq (IF active = None THEN {} ELSE {sel[active]})

\* The owner's maps, the queue's entries and the socket agree on what is being
\* served, and it is served in the order of admission.
ServiceDiscipline == TypeOK /\ Bookkeeping /\ FifoService /\ SelectOwnership

\* No request is answered twice, whatever races with its completion.
AnsweredOnce == \A r \in Requests : replies[r] <= 1

\* An owner stopped by a close has answered every request it ever admitted.
CloseAnswersAll ==
    opc = "dead" /\ ~crashed =>
        \A r \in Requests : outcome[r] = "ok" => replies[r] = 1

\* One answer for every admitted request, also across a close.
Answers == AnsweredOnce /\ CloseAnswersAll

\* The owner always catches up: every admitted request is answered or the
\* owner ends, even if the caller that owed the wakeup died.
Served == []<>(opc = "dead" \/ \A r \in Requests : outcome[r] = "ok" => replies[r] = 1)
=============================================================================
