----------------------------- MODULE MatterHost -----------------------------
(***************************************************************************)
(* The native Matter controller process: the input thread that runs        *)
(* RunHost, HostProtocol::ProcessLine and the cooperative waits of the     *)
(* controller backend (protocol.cpp, controller.cpp), the SDK event-loop   *)
(* thread with its work queue and callbacks, the writer thread             *)
(* (BoundedOutput) and the lifetime monitor (input_lifetime.hpp).          *)
(*                                                                         *)
(*   p     what HostProtocol::subscription_mutex_ and the writer's mutex   *)
(*         guard: protocol state, credit manager, subscription table,      *)
(*         channel failure, writer; and hist, the frames of each stream in *)
(*         the order the writer took them                                  *)
(*   h     the input thread: a stack of requests (a cancellation may nest  *)
(*         in a waiting request through the control pump), flags, phase    *)
(*   sub   the native subscriptions                                        *)
(*   sdk   the SDK thread: its handler's position and its FIFO work queue  *)
(*   n     reports the peers have produced                                 *)
(*                                                                         *)
(* A step is one critical section.  Deadlines are nondeterministic: a wait *)
(* may time out whenever its result is not there.                          *)
(***************************************************************************)
EXTENDS MatterFlow, MatterSubscription, MatterRequests

CONSTANTS Ids,         \* subscription identities, each used once
          MaxReports,  \* bound on reports from the peers
          MaxGen,      \* bound on delivery generations
          WriterLimit  \* BoundedOutput's report frames, 64

\* The bounds are numbers, and a stream has a first generation.
ASSUME BoundsAssumption == MaxReports \in Nat /\ MaxGen \in Nat \ {0}

VARIABLES p, h, sub, sdk, n

vars == <<p, h, sub, sdk, n>>

\* A stream that is not in the subscription table.
None == [gen |-> 0, recov |-> FALSE, attempt |-> 0]

Init ==
    /\ p = [st |-> "AwaitFlow", flow |-> NewFlow, subs |-> [i \in Ids |-> None],
            failed |-> FALSE, healthy |-> TRUE, frames |-> 0, written |-> 0,
            counting |-> FALSE, hist |-> <<>>]
    /\ h = [stack |-> <<>>, closeReq |-> FALSE, running |-> TRUE,
            phase |-> "run", eof |-> FALSE]
    /\ sub = [i \in Ids |-> NewSubscription]
    /\ sdk = [pc |-> [k |-> "loop"], work |-> <<>>]
    /\ n = 0

-----------------------------------------------------------------------------
(* Frames to the BEAM side.                                                *)

\* A frame of stream <<i, g>>; n is its sequence number, or the last one before
\* a barrier.
Event(t, i, g, m) == [t |-> t, i |-> i, g |-> g, n |-> m]

Log(q, e) == [q EXCEPT !.hist = Append(@, e)]

Healthy(q) == ~q.failed

\* WriteFrame of a control frame; FailChannel when the writer refuses it.
WriteControl(q, e) ==
    IF q.healthy THEN Log(q, e) ELSE [q EXCEPT !.failed = TRUE]

\* EnqueueReport for every frame the credit manager sent.  A full reservation
\* fails the writer and with it the channel.
SendReports(q, f) ==
    LET frames == f.sent
        out == [f EXCEPT !.sent = <<>>]
        ev(e) == Event("report", e.k[1], e.k[2], e.seq)
    IN IF frames = <<>> THEN [q EXCEPT !.flow = f]
       ELSE IF ~q.healthy \/ q.frames + Len(frames) > WriterLimit
       THEN [q EXCEPT !.flow = out, !.failed = TRUE, !.healthy = FALSE]
       ELSE [q EXCEPT !.flow = out, !.frames = @ + Len(frames),
                      !.hist = @ \o [j \in 1..Len(frames) |-> ev(frames[j])]]

Barrier(q, i, g) ==
    WriteControl(q, Event("retired", i, g, LastTransmitted(q.flow, <<i, g>>)))

RetireStream(q, i, g) ==
    LET b == Barrier(q, i, g) IN IF b.failed THEN b ELSE SendReports(b, Retire(b.flow, <<i, g>>))

Accepting(q) == Healthy(q) /\ q.st = "Open"

\* Mutant: the error follows the barrier.
RetireThenError(q, i, g) ==
    LET r == RetireStream(q, i, g)
    IN IF r.failed THEN r ELSE [WriteControl(r, Event("error", i, g, 0)) EXCEPT !.subs[i] = None]

ErrorAndRetire(q, i, g) ==
    LET e == WriteControl(q, Event("error", i, g, 0))
    IN IF e.failed THEN e
       ELSE [RetireStream(e, i, g) EXCEPT !.subs[i] = None]

EmitReportOk(q, i, g) ==
    /\ Accepting(q) /\ IsLive(q.flow, <<i, g>>)
    /\ SubmitResult(q.flow, <<i, g>>) # "overflow"
    /\ Healthy(SendReports(q, Submit(q.flow, <<i, g>>, 0)))

EmitReport(q, i, g, r) ==
    IF ~Accepting(q) \/ ~IsLive(q.flow, <<i, g>>) THEN q
    ELSE IF SubmitResult(q.flow, <<i, g>>) = "overflow" THEN ErrorAndRetire(q, i, g)
    ELSE SendReports(q, Submit(q.flow, <<i, g>>, r))

EmitFailure(q, i, g) ==
    IF Accepting(q) /\ IsLive(q.flow, <<i, g>>) THEN ErrorAndRetire(q, i, g) ELSE q

\* EmitStatus for a retry: the first one of a window retires the old generation
\* and opens the next (BeginRecovery).
FirstStatus(q, i, g, a) == ~q.subs[i].recov /\ g = q.subs[i].gen + 1 /\ a = 1

LaterStatus(q, i, g, a) == q.subs[i].recov /\ g = q.subs[i].gen /\ a = q.subs[i].attempt + 1

EmitResubscribing(q, i, g, a) ==
    LET s == WriteControl(q, Event("resubscribing", i, g, 0))
        old == q.subs[i].gen
        r == RetireStream(s, i, old)
    IN IF ~Accepting(q) \/ q.subs[i] = None THEN q
       ELSE IF LaterStatus(q, i, g, a) THEN [s EXCEPT !.subs[i].attempt = a]
       ELSE IF ~FirstStatus(q, i, g, a) \/ s.failed THEN s
       ELSE IF ~IsLive(q.flow, <<i, old>>) \/ r.failed \/ ~CanAddStream(r.flow, <<i, g>>)
       THEN [r EXCEPT !.failed = TRUE]
       ELSE [r EXCEPT !.flow = AddStream(@, <<i, g>>),
                      !.subs[i] = [gen |-> g, recov |-> TRUE, attempt |-> a]]

EmitResubscribingOk(q, i, g, a) ==
    /\ Accepting(q) /\ q.subs[i] # None
    /\ FirstStatus(q, i, g, a) \/ LaterStatus(q, i, g, a)
    /\ Healthy(EmitResubscribing(q, i, g, a))

EmitResubscribedOk(q, i, g, a) ==
    /\ Accepting(q) /\ q.healthy
    /\ q.subs[i] # None /\ q.subs[i].recov /\ q.subs[i].gen = g /\ q.subs[i].attempt = a

EmitResubscribed(q, i, g, a) ==
    IF EmitResubscribedOk(q, i, g, a)
    THEN [Log(q, Event("resubscribed", i, g, 0))
            EXCEPT !.subs[i].recov = FALSE, !.subs[i].attempt = 0]
    ELSE q

-----------------------------------------------------------------------------
(* The input thread.                                                       *)

Depth == Len(h.stack)

Top == h.stack[Depth]

Waiting == Depth > 0 /\ Top.pc = "wait"

\* A line is dispatched between requests, or by the control pump of a waiting one.
CanDispatch ==
    /\ h.phase = "run" /\ h.running /\ ~h.eof /\ ~h.closeReq
    /\ Healthy(p) /\ p.healthy
    /\ Depth = 0 \/ (Waiting /\ Depth = 1)

Push(f) == h' = [h EXCEPT !.stack = Append(@, f)]

Pop(g) == [g EXCEPT !.stack = Front(@)]

AtTop(pc) == Depth > 0 /\ Top.pc = pc /\ h.phase = "run"

SetTop(g, pc) == [g EXCEPT !.stack[Len(g.stack)].pc = pc]

Schedule(item) == sdk' = [sdk EXCEPT !.work = Append(@, item)]

Cancels(s, i) == IF SchedulesCancel(s) THEN <<<<"cancel", i>>>> ELSE <<>>

\* Close: deferred while a nested request runs, otherwise the state is closed
\* and the backend's shutdown work goes to the SDK thread.
Close(g, q) ==
    IF Len(g.stack) > 1
    THEN /\ h' = [Pop(g) EXCEPT !.closeReq = TRUE, !.running = FALSE]
         /\ p' = [q EXCEPT !.st = "Closing"]
         /\ UNCHANGED sdk
    ELSE /\ h' = [g EXCEPT !.stack = <<>>, !.running = FALSE, !.phase = "closing"]
         /\ p' = [q EXCEPT !.st = "Closed"]
         /\ IF q.st \in {"Open", "Closing"} THEN Schedule(<<"shutdown", 0>>) ELSE UNCHANGED sdk

FlowOpen ==
    /\ CanDispatch /\ p.st = "AwaitFlow"
    /\ p' = [p EXCEPT !.st = "AwaitOpen"]
    /\ UNCHANGED <<h, sub, sdk, n>>

\* The open request: the controller starts and the state opens, or the process
\* closes after its failure reply.  Here and below one request stands for those
\* the parser admits; a refused one is answered and changes nothing.
Open ==
    /\ CanDispatch /\ p.st = "AwaitOpen"
    /\ \/ /\ OpenOptions(OpenRequest)
          /\ p' = [p EXCEPT !.st = "Open"] /\ UNCHANGED <<h, sdk>>
       \/ Close(h, p)
    /\ UNCHANGED <<sub, n>>

\* A line that is not one bounded JSON object, or not a request in order.
MalformedLine ==
    /\ CanDispatch
    /\ Close(h, p)
    /\ UNCHANGED <<sub, n>>

CloseRequest ==
    /\ CanDispatch /\ p.st = "Open"
    /\ Close(h, p)
    /\ UNCHANGED <<sub, n>>

\* A stale or invented acknowledgement also fails the channel.
BadAcknowledgement ==
    /\ CanDispatch /\ p.st = "Open"
    /\ Close(h, [p EXCEPT !.failed = TRUE])
    /\ UNCHANGED <<sub, n>>

\* The end of the input ends the loop, or the pump of a waiting request.
EndOfInput ==
    /\ h.phase = "run" /\ ~h.eof
    /\ Depth = 0 \/ Waiting
    /\ IF Depth = 0
       THEN Close([h EXCEPT !.eof = TRUE], p)
       ELSE /\ h' = [h EXCEPT !.eof = TRUE, !.running = FALSE, !.closeReq = TRUE]
            /\ p' = [p EXCEPT !.st = "Closing"]
            /\ UNCHANGED sdk
    /\ UNCHANGED <<sub, n>>

\* The acknowledgement of reports the peer has read.
ReportAck(seq) ==
    /\ CanDispatch /\ p.st = "Open"
    /\ seq <= p.written
    /\ CanAcknowledge(p.flow, seq)
    /\ p' = SendReports(p, Acknowledge(p.flow, seq))
    /\ UNCHANGED <<h, sub, sdk, n>>

\* A request whose dispatch finds close_requested_ or a failed channel is
\* dropped without a reply; at the outermost level it closes the host.
Dropped == h.closeReq \/ ~Healthy(p) \/ ~p.healthy

Drop ==
    IF Depth = 1 THEN Close(h, p)
    ELSE /\ h' = [Pop(h) EXCEPT !.closeReq = TRUE, !.running = FALSE]
         /\ p' = [p EXCEPT !.st = "Closing"]
         /\ UNCHANGED sdk

\* The work queue may refuse a new subscription; it is assumed to take every
\* later item of one it accepted.
StartSubscribe(i) ==
    /\ CanDispatch /\ Depth = 0 /\ p.st = "Open"
    /\ sub[i] = NewSubscription
    /\ SubscriptionParameters(Subscribe("attribute", <<Path(6, 0)>>))
    /\ Push([op |-> "subscribe", id |-> i, g |-> 1, pc |-> "wait", reps |-> <<>>])
    /\ \/ /\ sub' = [sub EXCEPT ![i].listed = TRUE]
          /\ Schedule(<<"start", i>>)
       \/ /\ sub' = [sub EXCEPT ![i].listed = TRUE, ![i].pub = TRUE, ![i].done = TRUE]
          /\ Schedule(<<"reap", i>>)
    /\ UNCHANGED <<p, n>>

\* Wait returns with the published response, or times out (or is told to unwind)
\* and schedules the cancellation.
SubscribeReturns ==
    /\ AtTop("wait") /\ Top.op = "subscribe"
    /\ LET i == Top.id
           late == ~sub[i].pub
       IN /\ sub' = IF late THEN [sub EXCEPT ![i] = [@ EXCEPT !.pub = TRUE, !.csched = TRUE]]
                            ELSE sub
          /\ LET w == [sdk EXCEPT !.work = @ \o (IF late THEN Cancels(sub[i], i) ELSE <<>>)]
             IN IF Dropped
                THEN /\ h' = [h EXCEPT !.stack = <<>>, !.running = FALSE, !.phase = "closing"]
                     /\ p' = [p EXCEPT !.st = "Closed"]
                     /\ sdk' = [w EXCEPT !.work = Append(@, <<"shutdown", 0>>)]
                ELSE /\ h' = IF sub[i].ok /\ ~late THEN SetTop(h, "add") ELSE Pop(h)
                     /\ sdk' = w /\ UNCHANGED p
    /\ UNCHANGED n

\* AddStream and the subscription table; a refused stream is cancelled and the
\* request answered subscription_busy.
SubscribeAdd ==
    /\ AtTop("add")
    /\ LET i == Top.id IN
       IF CanAddStream(p.flow, <<i, 1>>)
       THEN /\ p' = [p EXCEPT !.flow = AddStream(@, <<i, 1>>),
                              !.subs[i] = [gen |-> 1, recov |-> FALSE, attempt |-> 0]]
            /\ h' = SetTop(h, "reply")
            /\ UNCHANGED <<sub, sdk>>
       ELSE /\ h' = [h EXCEPT !.stack[Depth].op = "refused", !.stack[Depth].pc = "wait"]
            /\ sub' = [sub EXCEPT ![i].csched = TRUE]
            /\ sdk' = [sdk EXCEPT !.work = @ \o Cancels(sub[i], i)]
            /\ UNCHANGED p
    /\ UNCHANGED n

\* dispatch: the success reply, if the channel still stands.
SubscribeReply ==
    /\ AtTop("reply")
    /\ IF Dropped THEN Drop
       ELSE /\ p' = Log(p, Event("subscribed", Top.id, 1, 0))
            /\ h' = SetTop(h, "activate")
            /\ UNCHANGED sdk
    /\ UNCHANGED <<sub, n>>

\* ActivateSubscription: a subscription that has ended, or moved to another
\* generation, since it was established ends the dispatch loop.
SubscribeActivate ==
    /\ AtTop("activate")
    /\ LET i == Top.id
           s == BufferActivate(sub[i])
       IN IF Healthy(p) /\ sub[i].listed /\ sub[i].gen = 1 /\ ~sub[i].done
             /\ sub[i].ok /\ ~sub[i].canc
          THEN /\ sub' = [sub EXCEPT ![i] = TakeReady(s)]
               /\ h' = [SetTop(h, "emit") EXCEPT !.stack[Depth].reps = s.ready]
               /\ UNCHANGED <<p, sdk>>
          ELSE Close(h, p) /\ UNCHANGED sub
    /\ UNCHANGED n

\* Activate's Emit, after the subscription's mutex is released.
SubscribeEmit ==
    /\ AtTop("emit")
    /\ LET i == Top.id IN
       IF Top.reps = <<>>
       THEN h' = Pop(h) /\ UNCHANGED <<p, sub, sdk>>
       ELSE /\ LET q == EmitReport(p, i, 1, Head(Top.reps)) IN
               IF EmitReportOk(p, i, 1)
               THEN /\ p' = q
                    /\ h' = [h EXCEPT !.stack[Depth].reps = Tail(@)]
                    /\ UNCHANGED <<sub, sdk>>
               ELSE /\ sub' = [sub EXCEPT ![i].csched = TRUE]
                    /\ p' = [q EXCEPT !.st = "Closed"]
                    /\ h' = [h EXCEPT !.stack = <<>>, !.running = FALSE, !.phase = "closing"]
                    /\ sdk' = [sdk EXCEPT !.work = @ \o Cancels(sub[i], i)
                                                     \o <<<<"shutdown", 0>>>>]
    /\ UNCHANGED n

\* An interaction, a commissioning or a window request (MatterInteraction): here
\* it waits, its wait pumps controls, and it returns.
StartInteraction ==
    /\ CanDispatch /\ Depth = 0 /\ p.st = "Open"
    /\ \/ InteractionParameters(Interaction("read", <<Path(6, 0)>>))
       \/ CommissioningParameters(Commission) \/ CommissioningWindowParameters(Window)
    /\ Push([op |-> "interaction", id |-> "none", g |-> 0, pc |-> "wait", reps |-> <<>>])
    /\ UNCHANGED <<p, sub, sdk, n>>

InteractionReturns ==
    /\ AtTop("wait") /\ Top.op = "interaction"
    /\ IF Dropped THEN Drop ELSE h' = Pop(h) /\ UNCHANGED <<p, sdk>>
    /\ UNCHANGED <<sub, n>>

\* An unsubscribe request for a live stream: CancelSubscription looks the native
\* subscription up and schedules its cancellation.
StartCancel(i, g) ==
    /\ CanDispatch /\ p.st = "Open"
    /\ Depth = 1 => Top.op # "cancel"
    /\ UnsubscribeParameters(Unsubscribe)
    /\ p.subs[i] # None => p.subs[i].gen = g
    /\ IsLive(p.flow, <<i, g>>)
    /\ LET found == sub[i].listed /\ sub[i].gen = g /\ ~sub[i].done IN
       /\ Push([op |-> "cancel", id |-> i, g |-> g,
                pc |-> IF found THEN "wait" ELSE "lost", reps |-> <<>>])
       /\ IF found
          THEN /\ sub' = [sub EXCEPT ![i].csched = TRUE]
               /\ sdk' = [sdk EXCEPT !.work = @ \o Cancels(sub[i], i)]
          ELSE UNCHANGED <<sub, sdk>>
    /\ UNCHANGED <<p, n>>

\* An unsubscribe request that crosses a retirement succeeds at once.
CancelRetired(i, g) ==
    /\ CanDispatch /\ p.st = "Open"
    /\ Depth = 1 => Top.op # "cancel"
    /\ p.subs[i] # None => p.subs[i].gen = g
    /\ IsRetired(p.flow, <<i, g>>)
    /\ Event("cancelled", i, g, 0) \notin Range(p.hist)
    /\ p' = Log(p, Event("cancelled", i, g, 0))
    /\ UNCHANGED <<h, sub, sdk, n>>

\* Mutant: a completed cancellation is confirmed before the stream is retired.
CancelReturnsEarly ==
    /\ AtTop("wait") /\ Top.op = "cancel" /\ ~Dropped
    /\ IF sub[Top.id].done
       THEN /\ p' = Log(p, Event("cancelled", Top.id, Top.g, 0))
            /\ h' = SetTop(h, "retire")
       ELSE h' = Pop(h) /\ UNCHANGED p
    /\ UNCHANGED <<sub, sdk, n>>

\* CancelAndWait returns; the stream may have been retired meanwhile.  A refused
\* subscribe request is answered busy after its own CancelAndWait.
CancelReturns ==
    /\ AtTop("wait") \/ AtTop("lost")
    /\ Top.op \in {"cancel", "refused"}
    /\ LET i == Top.id
           g == Top.g
           gone == p.subs[i] = None \/ (p.subs[i].gen = g /\ IsRetired(p.flow, <<i, g>>))
           ok == Top.pc = "wait" /\ sub[i].done
       IN IF Dropped THEN Drop
          ELSE IF Top.op = "refused" THEN h' = Pop(h) /\ UNCHANGED <<p, sdk>>
          ELSE /\ IF gone THEN p' = Log(p, Event("cancelled", i, g, 0)) ELSE UNCHANGED p
               /\ h' = IF gone \/ ~ok THEN Pop(h) ELSE SetTop(h, "retire")
               /\ UNCHANGED sdk
    /\ UNCHANGED <<sub, n>>

\* The retirement after a completed cancellation, or Close if the stream is no
\* longer live.
CancelRetire ==
    /\ AtTop("retire")
    /\ LET i == Top.id
           g == Top.g
           q == RetireStream(p, i, g)
       IN IF IsLive(p.flow, <<i, g>>) /\ Healthy(q)
          THEN /\ p' = Log([q EXCEPT !.subs[i] = None], Event("cancelled", i, g, 0))
               /\ h' = Pop(h) /\ UNCHANGED sdk
          ELSE Close(h, IF IsLive(p.flow, <<i, g>>) THEN q ELSE p)
    /\ UNCHANGED <<sub, n>>

\* The loop notices a writer or channel that failed when the next line or an
\* interrupted poll wakes it up.
LoopEnds ==
    /\ h.phase = "run" /\ Depth = 0 /\ (~Healthy(p) \/ ~p.healthy)
    /\ Close(h, p)
    /\ UNCHANGED <<sub, n>>

\* Cleanup after the shutdown work: the flow and the tables are released, then
\* Stop lets the writer drain.
CloseFinish ==
    /\ h.phase = "closing"
    /\ <<"shutdown", 0>> \notin Range(sdk.work) /\ sdk.pc.k = "loop"
    /\ h' = [h EXCEPT !.phase = "stopping"]
    /\ sub' = [i \in Ids |-> [sub[i] EXCEPT !.listed = FALSE]]
    /\ sdk' = [sdk EXCEPT !.pc = [k |-> "stopped"], !.work = <<>>]
    /\ p' = [p EXCEPT !.flow = NewFlow, !.subs = [i \in Ids |-> None]]
    /\ UNCHANGED n

\* The process is gone with its memory; what the peer was sent remains.
Gone ==
    /\ h' = [stack |-> <<>>, closeReq |-> FALSE, running |-> FALSE,
             phase |-> "exited", eof |-> h.eof]
    /\ p' = [st |-> "Closed", flow |-> NewFlow, subs |-> [i \in Ids |-> None],
             failed |-> p.failed, healthy |-> FALSE, frames |-> 0, written |-> 0,
             counting |-> FALSE, hist |-> p.hist]
    /\ sub' = [i \in Ids |-> NewSubscription]
    /\ sdk' = [pc |-> [k |-> "stopped"], work |-> <<>>]
    /\ UNCHANGED n

Exit ==
    /\ h.phase = "stopping"
    /\ ~p.healthy \/ p.frames = 0
    /\ Gone

\* InputLifetime: 750 ms after the end of the input or a channel failure the
\* process is terminated wherever its threads are.
Terminate ==
    /\ h.phase # "exited"
    /\ h.eof \/ ~Healthy(p) \/ ~p.healthy
    /\ Gone

-----------------------------------------------------------------------------
(* The SDK thread.                                                         *)

SdkIdle == sdk.pc.k = "loop" /\ h.phase # "exited"

Loop == [k |-> "loop"]

\* The work item at the head of the queue.
Runs(kind, x) == SdkIdle /\ sdk.work # <<>> /\ Head(sdk.work) = <<kind, x>>

Reaps(s, i) == IF s.done THEN <<>> ELSE <<<<"reap", i>>>>

\* NativeSubscription::Start, a connection result and OnConnected.  A setup that
\* fails publishes the error and marks the subscription done.
SetupFails(i, work) ==
    /\ sub' = [sub EXCEPT ![i] = [PublishFailure(@) EXCEPT !.done = TRUE, !.client = "none"]]
    /\ sdk' = [sdk EXCEPT !.work = work \o Reaps(sub[i], i)]

RunStart(i) ==
    /\ Runs("start", i)
    /\ \/ /\ sub' = [sub EXCEPT ![i].client = "connect"]
          /\ sdk' = [sdk EXCEPT !.work = Tail(@)]
       \/ SetupFails(i, Tail(sdk.work))
    /\ UNCHANGED <<p, h, n>>

Connected(i) ==
    /\ SdkIdle /\ sub[i].client = "connect"
    /\ \/ sub' = [sub EXCEPT ![i].client = "sent"] /\ UNCHANGED sdk
       \/ SetupFails(i, sdk.work)
    /\ UNCHANGED <<p, h, n>>

\* FailActive: the failure is recorded under the subscription's mutex; the sink
\* is called after it is released.  then says whether OnDone follows.
Failing(s, i, work, then) ==
    IF s.failEm
    THEN sub' = [sub EXCEPT ![i] = s]
         /\ sdk' = [pc |-> IF then = "done" THEN [k |-> "done", id |-> i] ELSE Loop, work |-> work]
    ELSE sub' = [sub EXCEPT ![i] = FailActive(s)]
         /\ sdk' = [pc |-> [k |-> "fail", id |-> i, g |-> s.gen, emit |-> s.ok, then |-> then],
                    work |-> work]

FailEmit ==
    /\ sdk.pc.k = "fail" /\ h.phase # "exited"
    /\ LET i == sdk.pc.id IN
       /\ p' = IF sdk.pc.emit THEN EmitFailure(p, i, sdk.pc.g) ELSE p
       /\ sub' = [sub EXCEPT ![i].csched = TRUE]
       /\ sdk' = [pc |-> IF sdk.pc.then = "done" THEN [k |-> "done", id |-> i] ELSE Loop,
                  work |-> sdk.work \o Cancels(sub[i], i)]
    /\ UNCHANGED <<h, n>>

\* Mutant: no reap is scheduled.
ClientDoneUnreaped ==
    /\ sdk.pc.k = "done" /\ h.phase # "exited"
    /\ sub' = [sub EXCEPT ![sdk.pc.id] = [@ EXCEPT !.client = "none", !.timer = FALSE, !.done = TRUE]]
    /\ sdk' = [sdk EXCEPT !.pc = Loop]
    /\ UNCHANGED <<p, h, n>>

\* OnDone: the client is released and the subscription marked done.
ClientDone ==
    /\ sdk.pc.k = "done" /\ h.phase # "exited"
    /\ LET i == sdk.pc.id IN
       /\ sub' = [sub EXCEPT ![i] = [@ EXCEPT !.client = "none", !.timer = FALSE, !.done = TRUE]]
       /\ sdk' = [pc |-> Loop, work |-> sdk.work \o Reaps(sub[i], i)]
    /\ UNCHANGED <<p, h, n>>

\* OnReportBegin and OnAttributeData with a decodable value, or with a status,
\* schema or limit failure.
ReportData(i) ==
    /\ SdkIdle /\ sub[i].client \in {"sent", "live"} /\ n < MaxReports
    /\ n' = n + 1
    /\ \/ /\ AddAccepted(sub[i])
          /\ sub' = [sub EXCEPT ![i] = Add(@, n')]
          /\ sdk' = [sdk EXCEPT !.pc = [k |-> "end", id |-> i]]
       \/ Failing(Add(sub[i], n'), i, sdk.work, "loop")
    /\ UNCHANGED <<p, h>>

\* OnReportEnd: the ready reports leave the buffer under the mutex and are
\* emitted after it.
ReportEnd ==
    /\ sdk.pc.k = "end" /\ h.phase # "exited"
    /\ LET i == sdk.pc.id IN
       /\ sub' = [sub EXCEPT ![i] = TakeReady(@)]
       /\ sdk' = [sdk EXCEPT !.pc = [k |-> "emit", id |-> i, g |-> sub[i].gen,
                                     reps |-> sub[i].ready]]
    /\ UNCHANGED <<p, h, n>>

Emit ==
    /\ sdk.pc.k = "emit" /\ h.phase # "exited"
    /\ LET i == sdk.pc.id
           g == sdk.pc.g
       IN IF sdk.pc.reps = <<>>
          THEN sdk' = [sdk EXCEPT !.pc = Loop] /\ UNCHANGED <<p, sub>>
          ELSE /\ p' = EmitReport(p, i, g, Head(sdk.pc.reps))
               /\ IF EmitReportOk(p, i, g)
                  THEN sdk' = [sdk EXCEPT !.pc.reps = Tail(@)] /\ UNCHANGED sub
                  ELSE /\ sub' = [sub EXCEPT ![i].csched = TRUE]
                       /\ sdk' = [pc |-> Loop, work |-> sdk.work \o Cancels(sub[i], i)]
    /\ UNCHANGED <<h, n>>

\* OnSubscriptionEstablished of a first establishment publishes the response; it
\* does so even when the waiting request has timed out.
Established(i) ==
    /\ SdkIdle /\ sub[i].client = "sent" /\ ~sub[i].recov
    /\ IF CanEstablish(sub[i])
       THEN /\ sub' = [sub EXCEPT ![i] = [Establish(@) EXCEPT !.client = "live",
                                              !.ok = TRUE, !.pub = TRUE]]
            /\ UNCHANGED sdk
       ELSE /\ sub' = [sub EXCEPT ![i] = [Establish(@) EXCEPT !.client = "live", !.pub = TRUE,
                                              !.csched = TRUE]]
            /\ sdk' = [sdk EXCEPT !.work = @ \o Cancels(sub[i], i)]
    /\ UNCHANGED <<p, h, n>>

\* The reporting intervals of an establishment are unusable.
EstablishedInvalid(i) ==
    /\ SdkIdle /\ sub[i].client = "sent"
    /\ IF sub[i].ok THEN Failing([sub[i] EXCEPT !.client = "live"], i, sdk.work, "loop")
       ELSE /\ sub' = [sub EXCEPT ![i] = [PublishFailure(@) EXCEPT !.csched = TRUE,
                                                   !.client = "live"]]
            /\ sdk' = [sdk EXCEPT !.work = @ \o Cancels(sub[i], i)]
    /\ UNCHANGED <<p, h, n>>

\* The establishment of a recovered subscription: the new snapshot is taken out
\* of the buffer before the status is emitted.
Reestablished(i) ==
    /\ SdkIdle /\ sub[i].client = "sent" /\ sub[i].recov
    /\ LET s == BufferActivate(Establish(sub[i])) IN
       IF CanEstablish(sub[i])
       THEN /\ sub' = [sub EXCEPT ![i] = [TakeReady(s) EXCEPT !.client = "live", !.timer = FALSE]]
            /\ sdk' = [sdk EXCEPT !.pc = [k |-> "resubscribed", id |-> i, g |-> s.gen,
                                          a |-> s.attempt, reps |-> s.ready]]
       ELSE Failing([Establish(sub[i]) EXCEPT !.client = "live"], i, sdk.work, "loop")
    /\ UNCHANGED <<p, h, n>>

StatusResubscribed ==
    /\ sdk.pc.k = "resubscribed" /\ h.phase # "exited"
    /\ LET i == sdk.pc.id
           ok == EmitResubscribedOk(p, i, sdk.pc.g, sdk.pc.a)
       IN /\ p' = EmitResubscribed(p, i, sdk.pc.g, sdk.pc.a)
          /\ IF ok
             THEN /\ sub' = [sub EXCEPT ![i] = RecoveryEstablished(@)]
                  /\ sdk' = [sdk EXCEPT !.pc = [k |-> "emit", id |-> i, g |-> @.g, reps |-> @.reps]]
             ELSE Failing(sub[i], i, sdk.work, "loop")
    /\ UNCHANGED <<h, n>>

\* OnResubscriptionNeeded after the session to the device is lost.
ResubscriptionNeeded(i) ==
    /\ SdkIdle
    /\ sub[i].client = "live" \/ (sub[i].client = "sent" /\ sub[i].recov)
    /\ sub[i].ok /\ ~sub[i].canc /\ ~sub[i].done
    /\ NextGeneration(sub[i]) <= MaxGen
    /\ IF Retries(sub[i]) /\ (sub[i].recov \/ sub[i].active)
       THEN /\ sub' = [sub EXCEPT ![i] = [Recover(@) EXCEPT !.client = "sent"]]
            /\ sdk' = [sdk EXCEPT !.pc = [k |-> "resubscribing", id |-> i,
                                          g |-> NextGeneration(sub[i]), a |-> NextAttempt(sub[i])]]
       ELSE Failing(sub[i], i, sdk.work, "loop")
    /\ UNCHANGED <<p, h, n>>

StatusResubscribing ==
    /\ sdk.pc.k = "resubscribing" /\ h.phase # "exited"
    /\ LET i == sdk.pc.id
           ok == EmitResubscribingOk(p, i, sdk.pc.g, sdk.pc.a)
       IN /\ p' = EmitResubscribing(p, i, sdk.pc.g, sdk.pc.a)
          /\ IF ok THEN sdk' = [sdk EXCEPT !.pc = Loop] /\ UNCHANGED sub
             ELSE Failing(sub[i], i, sdk.work, "loop")
    /\ UNCHANGED <<h, n>>

\* OnError, which OnDone follows, and the recovery deadline.
SessionLost(i) ==
    /\ SdkIdle /\ sub[i].client \in {"sent", "live"}
    /\ Failing(sub[i], i, sdk.work, "done")
    /\ UNCHANGED <<p, h, n>>

RecoveryDeadline(i) ==
    /\ SdkIdle /\ sub[i].timer
    /\ Failing([sub[i] EXCEPT !.timer = FALSE], i, sdk.work, "loop")
    /\ UNCHANGED <<p, h, n>>

RunCancel(i) ==
    /\ Runs("cancel", i)
    /\ sub' = [sub EXCEPT ![i] = CancelOnSdkThread(@)]
    /\ sdk' = [sdk EXCEPT !.work = Tail(@) \o Reaps(sub[i], i)]
    /\ UNCHANGED <<p, h, n>>

RunReap(i) ==
    /\ Runs("reap", i)
    /\ sub' = [sub EXCEPT ![i].listed = @ /\ ~sub[i].done]
    /\ sdk' = [sdk EXCEPT !.work = Tail(@)]
    /\ UNCHANGED <<p, h, n>>

\* Work(Shutdown): every subscription is cancelled.
RunShutdown ==
    /\ Runs("shutdown", 0)
    /\ sub' = [i \in Ids |-> IF sub[i].listed THEN CancelOnSdkThread(sub[i]) ELSE sub[i]]
    /\ sdk' = [sdk EXCEPT !.work = Tail(@)]
    /\ UNCHANGED <<p, h, n>>

-----------------------------------------------------------------------------
(* The writer thread.  It counts a report as retained until after the write *)
(* has returned, when the peer may already have read the frame.            *)

WriteReport ==
    /\ p.healthy /\ h.phase # "exited" /\ ~p.counting /\ p.frames > 0
    /\ p' = [p EXCEPT !.written = @ + 1, !.counting = TRUE]
    /\ UNCHANGED <<h, sub, sdk, n>>

WriteCounted ==
    /\ p.counting /\ p.healthy /\ h.phase # "exited"
    /\ p' = [p EXCEPT !.counting = FALSE, !.frames = @ - 1]
    /\ UNCHANGED <<h, sub, sdk, n>>

WriteFails ==
    /\ p.healthy /\ h.phase # "exited" /\ p.st # "AwaitFlow"
    /\ p' = [p EXCEPT !.healthy = FALSE]
    /\ UNCHANGED <<h, sub, sdk, n>>

-----------------------------------------------------------------------------
InputThread ==
    \/ SubscribeReturns \/ SubscribeAdd \/ SubscribeReply
    \/ SubscribeActivate \/ SubscribeEmit \/ CancelReturns \/ CancelRetire
    \/ InteractionReturns \/ CloseFinish \/ Exit

Peer ==
    \/ FlowOpen \/ Open \/ CloseRequest \/ MalformedLine \/ BadAcknowledgement \/ EndOfInput \/ LoopEnds
    \/ \E seq \in 1..MaxReports : ReportAck(seq)
    \/ StartInteraction \/ \E i \in Ids : StartSubscribe(i)
    \/ \E i \in Ids, g \in 1..MaxGen : StartCancel(i, g) \/ CancelRetired(i, g)

SdkWork ==
    \/ \E i \in Ids : RunStart(i) \/ RunCancel(i) \/ RunReap(i)
    \/ FailEmit \/ ClientDone \/ ReportEnd \/ Emit \/ StatusResubscribed
    \/ StatusResubscribing \/ RunShutdown

Device ==
    \E i \in Ids :     \/ Connected(i) \/ ReportData(i) \/ Established(i)
                      \/ EstablishedInvalid(i) \/ Reestablished(i)
                      \/ ResubscriptionNeeded(i) \/ SessionLost(i) \/ RecoveryDeadline(i)

Writer == WriteReport \/ WriteCounted

Next == InputThread \/ Peer \/ SdkWork \/ Device \/ Writer \/ WriteFails \/ Terminate

Spec == Init /\ [][Next]_vars

-----------------------------------------------------------------------------
Keys == Ids \X (1..MaxGen)

Kinds == {"subscribed", "report", "error", "retired", "cancelled", "resubscribing", "resubscribed"}

\* The shape of the state.
TypeOK ==
    /\ p.st \in {"AwaitFlow", "AwaitOpen", "Open", "Closing", "Closed"}
    /\ DOMAIN p.flow.streams \subseteq Keys /\ p.flow.sent = <<>>
    /\ \A j \in DOMAIN p.hist : p.hist[j].t \in Kinds /\ p.hist[j].i \in Ids
    /\ h.phase \in {"run", "closing", "stopping", "exited"} /\ Depth <= 2
    /\ \A i \in Ids : sub[i].client \in {"none", "connect", "sent", "live"}
    /\ n \in 0..MaxReports

\* A barrier closes its stream: EmitFailure, EmitStatus and a cancellation on
\* three threads retire a generation once, no report or error of it follows, and
\* the barrier names the last report that was handed to the writer.
BarrierLast ==
    \A j \in DOMAIN p.hist : p.hist[j].t = "retired" =>
        LET e == p.hist[j]
            of(t) == {l \in DOMAIN p.hist : p.hist[l].t = t /\ p.hist[l].i = e.i /\ p.hist[l].g = e.g}
            seqs == {p.hist[l].n : l \in of("report")}
        IN /\ of("retired") = {j}
           /\ \A l \in of("report") \cup of("error") : l < j
           /\ e.n \in seqs \cup {0}
           /\ \A s \in seqs : s <= e.n

\* A cancellation is confirmed only after the barrier of its generation, also
\* when the stream ended by itself while the cancellation waited.
CancelAfterBarrier ==
    \A j \in DOMAIN p.hist : p.hist[j].t = "cancelled" =>
        \E l \in 1..(j - 1) :
            p.hist[l].t = "retired" /\ p.hist[l].i = p.hist[j].i /\ p.hist[l].g = p.hist[j].g

\* Credit: the window and the queue hold what the streams account for, and a
\* report waits only while some acknowledgement is owed that will release it.
CreditBalance ==
    LET f == p.flow
    IN /\ TypeOK
       /\ Healthy(p) =>
        /\ Len(f.outst) <= SessionCredit
        /\ \A k \in DOMAIN f.streams :
              /\ f.streams[k].out = Of(f.outst, k) /\ f.streams[k].q = Of(f.queued, k)
              /\ f.streams[k].live \/ f.streams[k].out > 0
        /\ f.queued # <<>> => IsLive(f, f.queued[1].k) /\ ~CanTransmit(f, f.queued[1].k)

\* A context is freed only when nothing on the SDK thread can still call it: no
\* client, timer, running handler, or work item but the reap itself.
NoDanglingContext ==
    h.phase \in {"run", "closing"} => \A i \in Ids :
        (~sub[i].listed /\ sub[i].done) =>
            /\ sub[i].client = "none" /\ ~sub[i].timer
            /\ sdk.pc.k = "loop" \/ sdk.pc.id # i
            /\ \A w \in {"start", "cancel"} : <<w, i>> \notin Range(sdk.work)

\* A cancelled subscription is on its way to be freed: ScheduleCancel of several
\* threads, OnDone, the work queue and the reap lose none of them.
CancelNotLost ==
    h.phase = "run" => \A i \in Ids : sub[i].listed =>
        /\ sub[i].csched /\ ~sub[i].done => <<"cancel", i>> \in Range(sdk.work)
        /\ sub[i].done => <<"reap", i>> \in Range(sdk.work)

\* What the parser admits, the value table describes and the SDK decodes agree:
\* a subscription names exactly the members the table marks so, and its reports
\* are accepted; what is converted for a member is an element accepted for it,
\* as the answer to a read too, so that the host never refuses its own backend's
\* result (invalid_backend_result); the decoder of a readable member yields what
\* its schema converts, every writable attribute has an encoder, and what is
\* written reads back the same, a list of access control with the widths the wire
\* has dropped.  The tables are constants: it is enough to look before anything
\* happens.
SchemasAgree ==
    p.st = "AwaitFlow" =>
    /\ ListsReadBack
    /\ \A d \in Descriptors :
         /\ DecoderFits(d)
         /\ d.kind # "command" => AdmittedRecipe(d.kind, d.cluster, d.member) = ("subscribe" \in d.ops)
         /\ \A op \in d.ops, value \in NativeValues : Decoded(d, op, value)
    /\ \A r \in {x \in Reads : InteractionParameters(x)}, d \in Descriptors, value \in NativeValues :
         AnswerAccepted(r, d, value)
    /\ \A r \in {x \in Writes : InteractionParameters(x)} : ReadableOnceWritten(r)
    /\ \A r \in {x \in Subscribes : SubscriptionParameters(x)} : ReportsAccepted(r)
=============================================================================
