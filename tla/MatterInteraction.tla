-------------------------- MODULE MatterInteraction --------------------------
(***************************************************************************)
(* The interactions of the native Matter controller (controller.cpp):      *)
(* Pending (read, write, invoke), PendingCommissioning and PendingWindow,  *)
(* from the request on the input thread to the callbacks of the SDK thread *)
(* and back.  The input thread serves one interaction at a time; what a    *)
(* timed out one left behind stays with the SDK thread.                    *)
(*                                                                         *)
(*   op    one record per interaction                                      *)
(*     st      where the SDK has it: new, start, connect, sent, case, over *)
(*     late    its deadline has passed                                     *)
(*     may     submitted_ or fabric_mutation_may_have_started_             *)
(*     sent    the device was asked to change                              *)
(*     err     overall_error_, by its effect;  resp  mutation_responses_   *)
(*     pub     the published response, by its effect;  done, listed        *)
(*     reply   what the peer was told                                      *)
(*   h     the interaction waited for, whether its abort is still to be    *)
(*         scheduled, and the life of the host                             *)
(*   sdk   the handler the SDK thread is in, and its FIFO work queue       *)
(***************************************************************************)
EXTENDS Naturals, Sequences, FiniteSets, SequencesExt

CONSTANTS Ops,         \* interactions, each used once
          KindOf,      \* [Ops -> {"read", "write", "commission", "window"}]
          MaxPending   \* retained interactions, 64

VARIABLES op, h, sdk

vars == <<op, h, sdk>>

Controls == {o \in Ops : KindOf[o] \in {"commission", "window"}}

IsMutation(o) == KindOf[o] # "read"

NewOp == [st |-> "new", late |-> FALSE, may |-> FALSE, sent |-> FALSE, err |-> "no", resp |-> 0,
          pub |-> "no", done |-> FALSE, listed |-> FALSE, reply |-> "no"]

Init ==
    /\ op = [o \in Ops |-> NewOp]
    /\ h = [wait |-> "nobody", abort |-> FALSE, phase |-> "run", unwind |-> FALSE]
    /\ sdk = [at |-> "loop", work |-> <<>>]

-----------------------------------------------------------------------------
(* The input thread.                                                       *)

Pendings == {o \in Ops \ Controls : op[o].listed}

\* Interact, Commission and OpenWindow: the limits, the one controller
\* operation at a time, and the work item.
Busy(o) ==
    \/ Cardinality(Pendings) >= MaxPending
    \/ o \in Controls /\ \E c \in Controls : op[c].listed

Request(o) ==
    /\ h.phase = "run" /\ h.wait = "nobody" /\ op[o] = NewOp
    /\ IF Busy(o)
       THEN op' = [op EXCEPT ![o].st = "over", ![o].reply = "none"] /\ UNCHANGED <<h, sdk>>
       ELSE /\ h' = [h EXCEPT !.wait = o]
            /\ op' = [op EXCEPT ![o].st = "start", ![o].listed = TRUE]
            /\ sdk' = [sdk EXCEPT !.work = Append(@, <<"start", o>>)]

\* ScheduleWork refuses the start: an interaction is reaped at once, a
\* controller operation through the queue.
RequestUnavailable(o) ==
    /\ h.phase = "run" /\ h.wait = "nobody" /\ op[o] = NewOp /\ ~Busy(o)
    /\ h' = [h EXCEPT !.wait = o]
    /\ op' = [op EXCEPT ![o].st = "over", ![o].pub = "none", ![o].done = TRUE,
                        ![o].listed = o \in Controls]
    /\ sdk' = IF o \in Controls THEN [sdk EXCEPT !.work = Append(@, <<"reap", o>>)] ELSE sdk

Effect(o) == IF op[o].may /\ IsMutation(o) THEN "unknown" ELSE "none"

\* Wait without a result: past the deadline, or because the host unwinds.  The
\* answer is classified by what has been submitted by then.
WaitFails ==
    /\ h.wait # "nobody" /\ op[h.wait].pub = "no" /\ (op[h.wait].late \/ h.unwind)
    /\ op' = [op EXCEPT ![h.wait].pub = Effect(h.wait)]
    /\ h' = [h EXCEPT !.abort = h.wait \in Controls]
    /\ UNCHANGED sdk

\* Once Wait has released its mutex, a controller operation is aborted through
\* the queue; a refused ScheduleWork leaves it to the SDK.
ScheduleAbort(accepted) ==
    /\ h.abort
    /\ h' = [h EXCEPT !.abort = FALSE]
    /\ sdk' = IF accepted THEN [sdk EXCEPT !.work = Append(@, <<"abort", h.wait>>)] ELSE sdk
    /\ UNCHANGED op

WaitReturns ==
    /\ h.wait # "nobody" /\ op[h.wait].pub # "no" /\ ~h.abort
    /\ op' = [op EXCEPT ![h.wait].reply = IF h.unwind THEN "no" ELSE op[h.wait].pub]
    /\ h' = [h EXCEPT !.wait = "nobody"]
    /\ UNCHANGED sdk

Expire(o) ==
    /\ op[o].st \notin {"new", "over"} /\ ~op[o].late
    /\ op' = [op EXCEPT ![o].late = TRUE]
    /\ UNCHANGED <<h, sdk>>

\* The peer closes or its input ends: a waiting interaction unwinds first, then
\* Cleanup puts the shutdown on the queue.
EndOfSession ==
    /\ h.phase = "run" /\ ~h.unwind
    /\ h' = [h EXCEPT !.unwind = TRUE]
    /\ UNCHANGED <<op, sdk>>

Cleanup ==
    /\ h.phase = "run" /\ h.unwind /\ h.wait = "nobody"
    /\ h' = [h EXCEPT !.phase = "closing"]
    /\ sdk' = [sdk EXCEPT !.work = Append(@, <<"shutdown", "all">>)]
    /\ UNCHANGED op

\* The event loop is stopped after the shutdown work; the tables are cleared.
StopEventLoop ==
    /\ h.phase = "closing" /\ sdk.at = "loop" /\ <<"shutdown", "all">> \notin Range(sdk.work)
    /\ h' = [h EXCEPT !.phase = "closed"]
    /\ op' = [o \in Ops |-> [op[o] EXCEPT !.listed = FALSE]]
    /\ sdk' = [sdk EXCEPT !.work = <<>>]

-----------------------------------------------------------------------------
(* The SDK thread.                                                         *)

Idle == sdk.at = "loop" /\ h.phase # "closed"

Runs(kind, o) == Idle /\ sdk.work # <<>> /\ Head(sdk.work) = <<kind, o>>

\* Publish keeps the first response; MarkDone schedules one reap.
Published(o, effect) == IF op[o].pub = "no" THEN effect ELSE op[o].pub

ReapUnanswered(o) == IF op[o].pub # "no" THEN <<>> ELSE <<<<"reap", o>>>>

Reap(o) == IF op[o].done THEN <<>> ELSE <<<<"reap", o>>>>

Over(o, effect, work) ==
    /\ op' = [op EXCEPT ![o] = [@ EXCEPT !.st = "over", !.pub = Published(o, effect), !.done = TRUE]]
    /\ sdk' = [at |-> "loop", work |-> work \o Reap(o)]
    /\ UNCHANGED h

\* Start: nothing is submitted after the deadline.
Start(o) ==
    /\ Runs("start", o) /\ ~op[o].late /\ KindOf[o] # "window"
    /\ op' = [op EXCEPT ![o].st = "connect"]
    /\ sdk' = [sdk EXCEPT !.work = Tail(@)]
    /\ UNCHANGED h

StartWindow(o) ==
    /\ Runs("start", o) /\ ~op[o].late /\ KindOf[o] = "window"
    /\ sdk' = [at |-> o, work |-> Tail(sdk.work)]
    /\ UNCHANGED <<op, h>>

StartFails(o) ==
    /\ Runs("start", o)
    /\ Over(o, "none", Tail(sdk.work))

\* mutation_.Submit() and submitted_: marked before the request is handed to the
\* SDK, some time after the deadline was looked at.
MarkSubmitted ==
    /\ sdk.at \in Ops /\ IsMutation(sdk.at) /\ ~op[sdk.at].may
    /\ op' = [op EXCEPT ![sdk.at].may = TRUE]
    /\ UNCHANGED <<h, sdk>>

\* OpenCommissioningWindow; when it is refused, submitted_ is taken back.
WindowSubmit(sends) ==
    /\ sdk.at \in Ops /\ KindOf[sdk.at] = "window" /\ op[sdk.at].may
    /\ LET o == sdk.at IN
       IF sends
       THEN /\ op' = [op EXCEPT ![o].sent = TRUE, ![o].st = "sent"]
            /\ sdk' = [sdk EXCEPT !.at = "loop"]
            /\ UNCHANGED h
       ELSE /\ op' = [op EXCEPT ![o] = [@ EXCEPT !.st = "over", !.may = FALSE,
                                              !.pub = Published(o, "none"), !.done = TRUE]]
            /\ sdk' = [at |-> "loop", work |-> sdk.work \o Reap(o)]
            /\ UNCHANGED h

\* OnConnected: the remaining time is read here ...
Connected(o) ==
    /\ Idle /\ op[o].st = "connect" /\ o \notin Controls /\ ~op[o].late
    /\ sdk' = [sdk EXCEPT !.at = o]
    /\ UNCHANGED <<op, h>>

\* ... and the request leaves here: StartRead, StartWrite, StartInvoke.
SubmitUnmarked ==
    /\ sdk.at \in Ops \ Controls
    /\ op' = [op EXCEPT ![sdk.at].st = "sent", ![sdk.at].sent = IsMutation(sdk.at)]
    /\ sdk' = [sdk EXCEPT !.at = "loop"]
    /\ UNCHANGED h

Submit ==
    /\ sdk.at \in Ops \ Controls /\ (IsMutation(sdk.at) => op[sdk.at].may)
    /\ op' = [op EXCEPT ![sdk.at].st = "sent", ![sdk.at].sent = IsMutation(sdk.at)]
    /\ sdk' = [sdk EXCEPT !.at = "loop"]
    /\ UNCHANGED h

\* A value that cannot be encoded, or a request the SDK refuses to send; the
\* answer is none, whether the mutation was marked or not.
SubmitFails ==
    /\ sdk.at \in Ops \ Controls
    /\ Over(sdk.at, "none", sdk.work)

\* ConnectionFailed, or OnConnected past the deadline.
ConnectionFails(o) ==
    /\ Idle /\ op[o].st = "connect" /\ o \notin Controls
    /\ Over(o, "none", sdk.work)

\* OnResponse, OnError, OnNoResponse of a sent interaction: an error is kept by
\* its effect, a matching response is counted, up to the second, which is one too
\* many already.
Respond(o, good) ==
    /\ Idle /\ op[o].st = "sent" /\ o \notin Controls
    /\ op[o].err = "no" /\ op[o].resp < 2
    /\ op' = IF good THEN [op EXCEPT ![o].resp = @ + 1]
             ELSE [op EXCEPT ![o].err = Effect(o)]
    /\ UNCHANGED <<h, sdk>>

\* FinishRead; FinishMutation, which wants exactly one response.
Answer(o) ==
    IF op[o].err # "no" THEN op[o].err
    ELSE IF IsMutation(o) /\ op[o].resp # 1 THEN "unknown" ELSE "ok"

ClientDone(o) ==
    /\ Idle /\ op[o].st = "sent" /\ o \notin Controls
    /\ Over(o, Answer(o), sdk.work)

\* Commissioning: a mutating stage, the end of the pairing, the CASE probe.
Commissioning(o, st) == Idle /\ KindOf[o] = "commission" /\ op[o].st = st

StageStarted(o) ==
    /\ Commissioning(o, "connect") /\ ~op[o].sent
    /\ op' = [op EXCEPT ![o].may = TRUE, ![o].sent = TRUE]
    /\ UNCHANGED <<h, sdk>>

CommissioningComplete(o) ==
    /\ Commissioning(o, "connect") /\ op[o].sent
    /\ op' = [op EXCEPT ![o].st = "case"]
    /\ UNCHANGED <<h, sdk>>

CommissioningFails(o) ==
    /\ Commissioning(o, "connect")
    /\ Over(o, Effect(o), sdk.work)

CaseProbe(o, ok) ==
    /\ Commissioning(o, "case")
    /\ Over(o, IF ok THEN "ok" ELSE "unknown", sdk.work)

\* Opened.
WindowOpened(o, ok) ==
    /\ Idle /\ KindOf[o] = "window" /\ op[o].st = "sent"
    /\ Over(o, IF ok THEN "ok" ELSE "unknown", sdk.work)

Aborted(o) ==
    [op[o] EXCEPT !.st = "over", !.pub = Published(o, Effect(o)), !.done = TRUE]

RunAbortReleases(o) ==
    /\ Runs("abort", o)
    /\ op' = [op EXCEPT ![o] = [Aborted(o) EXCEPT !.listed = FALSE]]
    /\ sdk' = [sdk EXCEPT !.work = Tail(@)]
    /\ UNCHANGED h

RunAbort(o) ==
    /\ Runs("abort", o)
    /\ op' = [op EXCEPT ![o] = Aborted(o)]
    /\ sdk' = [sdk EXCEPT !.work = Tail(@) \o Reap(o)]
    /\ UNCHANGED h

RunReap(o) ==
    /\ Runs("reap", o)
    /\ op' = [op EXCEPT ![o].listed = FALSE]
    /\ sdk' = [sdk EXCEPT !.work = Tail(@)]
    /\ UNCHANGED h

RunShutdown ==
    /\ Runs("shutdown", "all")
    /\ op' = [o \in Ops |-> IF op[o].listed THEN Aborted(o) ELSE op[o]]
    /\ sdk' = [sdk EXCEPT !.work = Tail(@)]
    /\ UNCHANGED h

-----------------------------------------------------------------------------
Next ==
    \/ WaitFails \/ WaitReturns \/ EndOfSession \/ Cleanup \/ StopEventLoop
    \/ MarkSubmitted \/ Submit \/ SubmitFails \/ RunShutdown
    \/ \E b \in BOOLEAN : WindowSubmit(b) \/ ScheduleAbort(b)
    \/ \E o \in Ops : \/ Request(o) \/ RequestUnavailable(o) \/ Expire(o)
                      \/ Start(o) \/ StartWindow(o) \/ StartFails(o)
                      \/ Connected(o) \/ ConnectionFails(o) \/ ClientDone(o)
                      \/ StageStarted(o) \/ CommissioningComplete(o) \/ CommissioningFails(o)
                      \/ RunAbort(o) \/ RunReap(o)
                      \/ \E b \in BOOLEAN : Respond(o, b) \/ CaseProbe(o, b) \/ WindowOpened(o, b)

Spec == Init /\ [][Next]_vars

-----------------------------------------------------------------------------
(* MutationCompletion and the effect of an error: "none" tells the caller   *)
(* that a retry is safe.                                                    *)

\* An interaction answered with effect none has not changed the device, and does
\* not change it later.
EffectHonest == \A o \in Ops : op[o].reply = "none" => ~op[o].sent

\* A passed deadline is the only way around it: whatever the SDK thread answers,
\* and whatever a waiter classifies in time, none means that nothing was sent.
EffectHonestInTime == \A o \in Ops : op[o].reply = "none" /\ op[o].sent => op[o].late

\* Work items and SDK callbacks hold the bare address of an interaction ("Only that
\* callback may release its entry before the event loop has stopped", Interact): as
\* long as the event loop runs, whatever they may still reach is in the tables.
NoDanglingInteraction ==
    h.phase # "closed" =>
        \A o \in Ops :
            (\/ op[o].st \in {"connect", "sent", "case"} \/ sdk.at = o
             \/ {<<"start", o>>, <<"reap", o>>} \cap Range(sdk.work) # {})
                => op[o].listed

\* An interaction that is over gives its place back: while the host runs, a
\* finished entry that is still in the tables has exactly one reap on the queue,
\* so neither the 64 places nor the one controller operation are lost.
PlaceReturned ==
    h.phase = "run" =>
        \A o \in Ops : op[o].done /\ op[o].listed =>
            Cardinality({i \in DOMAIN sdk.work : sdk.work[i] = <<"reap", o>>}) = 1
=============================================================================
