------------------------------ MODULE BridgeHost ------------------------------
(***************************************************************************)
(* The native Matter bridge: RunBridgeProcess with the SDK driver, its     *)
(* receiver and its observation owner, over the store of MatterStore and   *)
(* the shared custody, output and session of BridgeCustody.                *)
(*                                                                         *)
(*   y   the process and its threads: main (ph), reader (rd), writer (wr), *)
(*       watcher, SDK loop (cb: the callback it is in), the worker that    *)
(*       answers commands (wk) and the one that applies observations (ob)  *)
(*   f   the directory of the store                                        *)
(*   w   consumer, peers and history: what was sent, answered and read     *)
(*                                                                         *)
(* The SDK stack lock is held by a callback that waits or answers (cb), by *)
(* a commit (job), by the command worker through a pass over its tickets   *)
(* (turn, taken) and by the application of an observation (app); every     *)
(* other holder takes and frees it within one step.                        *)
(* One fabric stands for all.  The consumer's frames are read as they are  *)
(* sent; sending later stands for a slow pipe.                             *)
(***************************************************************************)
EXTENDS MatterStore, BridgeCustody, BridgeChecks, FiniteSetsExt, TLC

CONSTANT Workloads \* records: configs, kinds, acts and the bounds gens, reqs, obs, sets, odd, crash

VARIABLES y, f, w

vars == <<y, f, w>>

\* A request in service: its peer request r, kind, ticket, endpoint, Thing,
\* fabric scope, and the outcome once it was taken from custody.
Idle == [r |-> 0, k |-> "none", t |-> 0, e |-> 0, th |-> "none", sc |-> 0, out |-> "none"]

NoJob == [k |-> "none", th |-> "none", to |-> Blank, i |-> 0]

\* No observation is being applied.
NoWork == [by |-> "none", id |-> 0, th |-> "none", e |-> 0, n |-> 0]

\* A process, at its first instruction.
NewProcess(cfg) ==
    [ph |-> "open", exit |-> "none", cfg |-> cfg, up |-> 0, started |-> FALSE,
     c |-> NewCustody, o |-> NewOutput, s |-> NewSession, now |-> 0,
     mem |-> Blank, open |-> FALSE, job |-> NoJob, kids |-> [t \in Things |-> 0],
     active |-> FALSE, epoch |-> 0, last |-> 0, cb |-> Idle, ctx |-> {}, tk |-> {}, wk |-> FALSE,
     turn |-> {}, taken |-> Idle, q |-> <<>>, app |-> NoWork, pubs |-> <<>>, ob |-> FALSE, stopping |-> FALSE, seen |-> 0,
     rd |-> "off", input |-> "open", wr |-> FALSE, half |-> "none"]

Gone(x, code) == [NewProcess(x.cfg) EXCEPT !.ph = "exited", !.exit = code]

FreshWorld ==
    [made |-> 0, ans |-> [r \in Tickets |-> <<>>], gone |-> {}, sent |-> [t \in Tickets |-> "none"],
     out |-> <<>>, applied |-> <<>>, lost |-> FALSE, eof |-> FALSE, sig |-> FALSE]

Init ==
    /\ y = Gone([cfg |-> [mode |-> "none"]], "never")
    /\ f = NewDisk
    /\ \E load \in Workloads :
          w = FreshWorld @@ [load |-> load, gens |-> 0, odd |-> 0, crash |-> 0, sets |-> 0, obs |-> 0,
                             acked |-> Blank, flight |-> Blank,
                             bound |-> [n \in FirstEndpoint..LastEndpoint |-> "none"]]

Running == y.ph \notin {"open", "exited"}
StackFree ==
    y.cb = Idle /\ y.job = NoJob /\ y.turn = {} /\ y.taken = Idle /\ y.app = NoWork
LoopOn == y.up >= 3 /\ y.ph # "exited"
OddLeft == w.odd < w.load.odd
Odd(v) == [v EXCEPT !.odd = @ + 1]

-----------------------------------------------------------------------------
(* Start, on the main thread.                                              *)

Launch ==
    /\ y.ph = "exited" /\ w.gens < w.load.gens
    /\ \E cfg \in w.load.configs : y' = NewProcess(cfg)
    /\ w' = FreshWorld @@ [w EXCEPT !.gens = @ + 1]
    /\ UNCHANGED f

\* Open: the consumer's first frame starts everything; bytes that are not one,
\* a signal or the startup deadline end the process before it has a thread.
OpenFrame(got) ==
    /\ y.ph = "open"
    /\ got # "frame" => OddLeft
    /\ y' = CASE w.sig -> Gone(y, "cancelled")
              [] ~w.sig /\ got = "frame" -> [y EXCEPT !.ph = "load"]
              [] OTHER -> Gone(y, IF got = "bad" THEN "input" ELSE "startup")
    /\ w' = IF got = "frame" THEN w ELSE Odd(w)
    /\ UNCHANGED f

\* Start gave up, or was told to: what is up is taken down again.
NotStarted(x) == [x EXCEPT !.ph = "stop", !.s = Fail(@, "startup")]

\* Start checks for a cancellation between its stages.
Stage(ph, next) ==
    /\ y.ph = ph
    /\ y' = IF y.s.cancel THEN NotStarted(y) ELSE next
    /\ UNCHANGED <<f, w>>

\* LoadBootstrap: private file, configuration and credentials.
Load == Stage("load", [y EXCEPT !.ph = "store"])

LoadRefused(flaw) ==
    /\ y.ph = "load" /\ flaw \in BootstrapChecks /\ OddLeft
    /\ y' = NotStarted(y)
    /\ w' = Odd(w)
    /\ UNCHANGED f

Job(k, th, to) == [k |-> k, th |-> th, to |-> to, i |-> 1]

\* A commit begins; the lock of the store is held.
Begin(x, job) ==
    /\ y' = [x EXCEPT !.job = job]
    /\ w' = [w EXCEPT !.flight = job.to]

\* BridgeStorage::Open.
OpenStorage ==
    /\ y.ph = "store"
    /\ CASE y.cfg.mode = "create" /\ Creatable(f.now) /\ ~y.s.cancel ->
              /\ f' = Create(f)
              /\ Begin([y EXCEPT !.open = TRUE, !.ph = "create"],
                       Job("create", "none", Fresh(y.cfg.id)))
         [] y.cfg.mode = "existing" /\ Openable(f.now, y.cfg.id) /\ ~y.s.cancel ->
              /\ y' = [y EXCEPT !.open = TRUE, !.mem = f.now.st, !.ph = "server"]
              /\ w' = [w EXCEPT !.acked = f.now.st, !.flight = f.now.st]
              /\ UNCHANGED f
         [] OTHER -> y' = NotStarted(y) /\ UNCHANGED <<f, w>>

\* An unknown interface, or a store that is not as it was left.
StoreRefused(flaw) ==
    /\ y.ph = "store" /\ flaw \in StoreChecks /\ OddLeft
    /\ y' = NotStarted(y)
    /\ w' = Odd(w)
    /\ UNCHANGED f

\* The platform, the server and its provider: partial startup is fatal.
ServerInit ==
    /\ y.ph = "server"
    /\ y' = [y EXCEPT !.ph = IF y.cfg.mode = "create" THEN "allocate" ELSE "bind"]
    /\ UNCHANGED <<f, w>>

ServerRefused(flaw) ==
    /\ y.ph = "server" /\ flaw \in ServerChecks /\ OddLeft
    /\ y' = Gone(y, "fatal")
    /\ w' = Odd(w)
    /\ UNCHANGED f

Devices(cfg) == {t \in Things : cfg.devs[t] # NoType}

\* A new store gets an endpoint for every configured device.
AllocateDevice ==
    /\ y.ph = "allocate" /\ y.job = NoJob
    /\ IF Devices(y.cfg) \subseteq Live(y.mem)
       THEN y' = [y EXCEPT !.ph = "bind"] /\ UNCHANGED w
       ELSE LET t == CHOOSE x \in Devices(y.cfg) \ Live(y.mem) : TRUE
            IN IF AllocateRefused(y.mem, t, y.cfg.devs[t])
               THEN y' = Gone(y, "fatal") /\ UNCHANGED w
               ELSE Begin(y, Job("allocate", t, Allocated(y.mem, t, y.cfg.devs[t])))
    /\ UNCHANGED f

\* Endpoints that are installed become known to the peers.
Bind(v, kids) ==
    [v EXCEPT !.bound = [n \in DOMAIN @ |->
        IF @[n] = "none" /\ \E t \in Things : kids[t] = n
        THEN CHOOSE t \in Things : kids[t] = n ELSE @[n]]]

\* SdkBridgeEndpointBinding::Init: the store must hold the configuration.
InstallEndpoints ==
    /\ y.ph = "bind"
    /\ IF Live(y.mem) = Devices(y.cfg) /\ \A t \in Live(y.mem) : y.mem.ty[t] = y.cfg.devs[t]
       THEN /\ y' = [y EXCEPT !.kids = y.mem.ep, !.up = 1, !.ph = "attach"]
            /\ w' = Bind(w, y.mem.ep)
       ELSE y' = Gone(y, "fatal") /\ UNCHANGED w
    /\ UNCHANGED f

\* Attach: fabric scopes and the command worker.
Attach ==
    Stage("attach", [y EXCEPT !.up = 2, !.ph = "loop", !.active = TRUE, !.wk = TRUE,
                              !.epoch = 1, !.last = 1])

StartLoop == Stage("loop", [y EXCEPT !.up = 3, !.ph = "observe"])

StartObservations ==
    Stage("observe", [y EXCEPT !.up = 4, !.ph = "ready", !.ob = TRUE, !.started = TRUE])

\* The ready frame is the first; reader and writer start behind it.
PublishReady ==
    /\ y.ph = "ready"
    /\ y' = IF y.s.cancel \/ w.sig \/ PushResult(y.o, "control") # "ok" THEN NotStarted(y)
            ELSE [y EXCEPT !.o = Push(@, "control", "queued", Frame("ready", 0)),
                           !.s = Phase(@, FALSE), !.rd = "run", !.wr = TRUE, !.ph = "serve"]
    /\ UNCHANGED <<f, w>>

-----------------------------------------------------------------------------
(* Commits.                                                                *)

\* What follows a durable commit.
Committed(x, k, th) ==
    CASE k = "create" -> [x EXCEPT !.ph = "server"]
      [] k = "add" -> [x EXCEPT !.kids[th] = x.mem.ep[th]]
      [] k = "remove" -> [x EXCEPT !.kids[th] = 0]
      [] OTHER -> x

\* A removal goes on to delete the attributes that were stored for its endpoint.
CommitStep ==
    /\ y.job # NoJob
    /\ f' = CommitEffect(f, Stages[y.job.i], y.job.to)
    /\ IF y.job.i < Len(Stages)
       THEN y' = [y EXCEPT !.job.i = @ + 1] /\ UNCHANGED w
       ELSE \E purge \in BOOLEAN :
              /\ purge => y.job.k = "remove"
              /\ y' = Committed([y EXCEPT !.job = IF purge THEN Job("set", "none", Stored(y.job.to))
                                                  ELSE NoJob, !.mem = y.job.to], y.job.k, y.job.th)
              /\ w' = [Bind(w, y'.kids) EXCEPT
                          !.acked = y.job.to, !.flight = IF purge THEN Stored(y.job.to) ELSE y.job.to]

\* A stage fails: the store is poisoned and the process does not go on.
CommitFails ==
    /\ y.job # NoJob /\ OddLeft
    /\ y' = IF y.job.k = "create" THEN NotStarted([y EXCEPT !.job = NoJob, !.open = FALSE])
            ELSE Gone(y, "store")
    /\ w' = Odd(w)
    /\ UNCHANGED f

\* The SDK stores a value of its own, from its loop.
StoreValue ==
    /\ LoopOn /\ StackFree /\ y.ph = "serve" /\ w.sets < w.load.sets
    /\ y' = [y EXCEPT !.job = Job("set", "none", Stored(y.mem))]
    /\ w' = [w EXCEPT !.sets = @ + 1, !.flight = Stored(y.mem)]
    /\ UNCHANGED f

\* Add and Remove of the endpoint binding, on the SDK thread.
ChangeEndpoint(k, th, ty) ==
    /\ k \in w.load.acts /\ LoopOn /\ StackFree /\ y.ph = "serve" /\ w.sets < w.load.sets
    /\ CASE k = "add" -> y.kids[th] = 0 /\ ~AllocateRefused(y.mem, th, ty)
         [] OTHER -> y.kids[th] # 0
    /\ LET to == IF k = "add" THEN Allocated(y.mem, th, ty) ELSE Removed(y.mem, th)
       IN /\ y' = [y EXCEPT !.job = Job(k, th, to)]
          /\ w' = [w EXCEPT !.sets = @ + 1, !.flight = to]
    /\ UNCHANGED f

-----------------------------------------------------------------------------
(* Peers, on the SDK loop.                                                 *)

Answer(v, r, res) == [v EXCEPT !.ans[r] = Append(@, res)]

\* BridgeOutputOwner::End by a thread that goes on to close the custody.
EndBy(x, thread, state) ==
    [x EXCEPT !.o = End(@, state), !.half = IF x.o.st = "open" THEN thread ELSE @]

\* Reserve and Push under the custody lock; a frame that cannot be encoded, a
\* push that finds the output mutex taken, or no room, ends the output.
Admitted(x, cb, fault) ==
    LET a == [x EXCEPT !.c = Reserve(@, x.now)]
    IN IF fault # "none" \/ PushResult(x.o, "request") # "ok" THEN EndBy(a, "loop", "ended")
       ELSE [a EXCEPT !.o = Push(@, "request", "queued", Frame("request", cb.t))]

\* A command's context is kept with its ticket until it is answered.
StartInvoke(x, cb, fault) ==
    [Admitted(x, cb, fault) EXCEPT !.ctx = @ \union {cb}, !.tk = @ \union {cb.t}]

\* Read, Write and Invoke of the receiver: refused at once, or admitted; a
\* command's context outlives the callback, the others wait in it.
RequestRefused(k, e, flaw) ==
    \/ ~y.active \/ y.epoch = 0 \/ flaw \in RequestChecks(k)
    \/ ~ \E t \in Things : y.kids[t] = e
    \/ Admission(y.c) # "ok"

\* What is kept of a request: its path and the scope it came under.
CaptureBridgeRequest(r, k, e) ==
    [r |-> r, k |-> k, t |-> y.c.last + 1, e |-> e,
     th |-> CHOOSE t \in Things : y.kids[t] = e, sc |-> y.epoch, out |-> "none"]

PeerRequest(k, e, flaw, fault) ==
    LET r == w.made + 1
        cb == CaptureBridgeRequest(r, k, e)
    IN /\ LoopOn /\ StackFree /\ y.half # "loop" /\ r <= w.load.reqs 
       /\ flaw # "none" => OddLeft /\ ~RequestRefused(k, e, "none")
       /\ fault # "none" => OddLeft /\ ~RequestRefused(k, e, flaw)
       /\ y' = CASE RequestRefused(k, e, flaw) -> y
                 [] ~RequestRefused(k, e, flaw) /\ k = "invoke" -> StartInvoke(y, cb, fault)
                 [] OTHER -> [Admitted(y, cb, fault) EXCEPT !.cb = cb]
       /\ w' = [IF RequestRefused(k, e, flaw) THEN Answer(w, r, "refused") ELSE w EXCEPT
                   !.made = r, !.odd = IF fault = "none" /\ flaw = "none" THEN @ ELSE @ + 1]
       /\ UNCHANGED f

\* Scope, endpoint and Thing as they were when the request came.
Current(x, cb) == x.epoch = cb.sc /\ x.epoch # 0 /\ x.kids[cb.th] = cb.e

Waiting == y.cb # Idle /\ y.cb.out = "none" /\ y.half # "loop" /\ y.app.by # "loop"

\* Wait returns: under the custody lock the outcome is taken, once and for all.
WaitTakes ==
    LET out == Outcome(y.c, y.cb.t, y.now)
    IN /\ Waiting /\ out # "none"
       /\ y' = [y EXCEPT !.c = Consume(@, y.cb.t), !.cb.out = out]
       /\ UNCHANGED <<f, w>>

\* Read and Write behind Wait: a completed request is validated against the
\* present, and the SDK's own answer decides what the peer reads.  Neither the
\* clock nor the custody is looked at again.
CallbackAnswers(native) ==
    LET good == y.cb.out = "completed" /\ y.active /\ Current(y, y.cb)
    IN /\ y.cb # Idle /\ y.cb.out # "none"
       /\ native # "ok" => good /\ native \in NativeRefusals(y.cb.k)
       /\ y' = [y EXCEPT !.cb = Idle]
       /\ w' = Answer(w, y.cb.r, IF good /\ native = "ok" THEN "ok" ELSE "refused")
       /\ UNCHANGED f

\* ApplyOne, first half: the oldest observation leaves the queue.
TakeWork(x, by) == [x EXCEPT !.q = Tail(@), !.app = Head(x.q) @@ [by |-> by]]

\* Advance: the callback that waits applies what the worker cannot.
WaitAdvances ==
    /\ Waiting /\ y.app = NoWork /\ y.q # <<>> /\ ~y.stopping
    /\ Outcome(y.c, y.cb.t, y.now) = "none"
    /\ y' = TakeWork(y, "loop")
    /\ UNCHANGED <<f, w>>

\* Observe: only the endpoint that is the Thing's now takes the value.
Observed(x, p) == IF x.kids[p.th] = p.e THEN "applied" ELSE "refused"

\* ApplyOne, second half: the observation is applied, refused, or dropped by a
\* closed custody; its receipt is left for the worker, unless it was told to
\* stop in the meantime.
ApplyOne ==
    /\ y.app # NoWork
    /\ y' = [y EXCEPT !.app = NoWork,
                      !.pubs = IF y.c.closed \/ y.stopping THEN @
                               ELSE Append(@, [id |-> y.app.id, res |-> Observed(y, y.app), n |-> y.app.n])]
    /\ w' = [w EXCEPT !.applied = IF y.c.closed THEN @ ELSE Append(@, y.app.id)]
    /\ UNCHANGED f

\* The fabric is updated or removed; a peer goes away with its handle.
FabricChanges(to) ==
    /\ LoopOn /\ StackFree /\ y.active /\ OddLeft
    /\ y' = IF to = "removed" THEN [y EXCEPT !.epoch = 0]
            ELSE [y EXCEPT !.epoch = y.last + 1, !.last = @ + 1]
    /\ w' = Odd(w)
    /\ UNCHANGED f

HandleLost(d) ==
    /\ LoopOn /\ StackFree /\ OddLeft /\ d \in y.ctx /\ d.r \notin w.gone
    /\ w' = [Odd(w) EXCEPT !.gone = @ \union {d.r}]
    /\ UNCHANGED <<y, f>>

-----------------------------------------------------------------------------
(* The workers.                                                            *)

\* Run of the command worker: it takes the stack lock while the receiver is
\* active and visits its tickets; active is not looked at again in the pass.
WorkerLocks ==
    /\ y.wk /\ y.active /\ y.half # "worker" /\ StackFree /\ y.tk # {}
    /\ y' = [y EXCEPT !.turn = y.tk]
    /\ UNCHANGED <<f, w>>

\* Respond: a pending ticket is passed over; else its outcome is taken.
WorkerTakes(d) ==
    LET out == Outcome(y.c, d.t, y.now)
        a == [y EXCEPT !.turn = @ \ {d.t}]
    IN /\ d.t \in y.turn /\ y.taken = Idle
       /\ y' = IF out = "none" THEN a
               ELSE [a EXCEPT !.c = Consume(@, d.t), !.taken = [d EXCEPT !.out = out]]
       /\ UNCHANGED <<f, w>>

\* Complete: a scope that is no longer valid is refused to the peer and ends
\* the session; so does a command the renderer cannot carry out or a status
\* that cannot be written, which leave no answer, and a reply that cannot be
\* encoded, which leaves a refusal.
WorkerAnswers(flaw) ==
    LET d == [y.taken EXCEPT !.out = "none"]
        completed == y.taken.out = "completed"
        current == y.epoch = d.sc /\ \E t \in Things : y.kids[t] = d.e
        served == d.r \notin w.gone
        a == [y EXCEPT !.taken = Idle, !.ctx = @ \ {d}]
    IN /\ y.taken # Idle
       /\ flaw # "none" => served /\ OddLeft /\ (flaw = "status") # (completed /\ current)
       /\ y' = IF flaw = "none" /\ (served /\ completed => current) THEN [a EXCEPT !.tk = @ \ {d.t}]
               ELSE [EndBy(a, "worker", "ended") EXCEPT !.wk = FALSE, !.turn = {}]
       /\ w' = CASE ~served -> w
                 [] served /\ flaw = "none" ->
                       Answer(w, d.r, IF completed /\ current THEN "ok" ELSE "refused")
                 [] OTHER -> IF flaw \in ReplyChecks THEN Odd(Answer(w, d.r, "refused")) ELSE Odd(w)
       /\ UNCHANGED f

WorkerReturns ==
    /\ y.wk /\ ~y.active /\ y.turn = {} /\ y.taken = Idle
    /\ y' = [y EXCEPT !.wk = FALSE]
    /\ UNCHANGED <<f, w>>

\* Run of the observation owner: receipts first, then work if the SDK is free.
CommitReceipt(x) ==
    LET p == Head(x.pubs)
        a == [x EXCEPT !.pubs = Tail(@)]
    IN IF Open(x.o)
       THEN [a EXCEPT !.o = CommitObservation(@, p.n, Frame(p.res, p.id))]
       ELSE [EndBy(a, "observer", "ended") EXCEPT !.ob = FALSE]

Observer ==
    /\ y.ob /\ y.half # "observer"
    /\ y.app.by # "observer"
    /\ \/ y.stopping /\ y' = [y EXCEPT !.ob = FALSE]
       \/ ~y.stopping /\ y.pubs # <<>> /\ y' = CommitReceipt(y)
       \/ ~y.stopping /\ y.pubs = <<>> /\ y.q # <<>> /\ StackFree /\ y' = TakeWork(y, "observer")
    /\ UNCHANGED <<f, w>>

\* The second half of End: custody first, then the session.
Notify ==
    /\ y.half # "none"
    /\ y' = [y EXCEPT !.half = "none", !.c = CloseCustody(@), !.s = SessionClosed(@)]
    /\ UNCHANGED <<f, w>>

-----------------------------------------------------------------------------
(* The reader.                                                             *)

\* Close of the input: only a requested one is not a failure.
CloseInput(x, state) ==
    [x EXCEPT !.rd = "closing", !.input = state, !.c = CloseCustody(@),
              !.s = SessionClosed(IF state = "requested" THEN @ ELSE Reason(@, "input"))]

Reads == y.rd = "run" /\ ~w.eof

\* A result: stored or late, ignored, or met by a closed custody.
ReadResult(t, outcome) ==
    /\ Reads /\ Frame("request", t) \in {w.out[i] : i \in DOMAIN w.out}
    /\ w.sent[t] # "none" => OddLeft
    /\ y' = CASE Resolution(y.c, t, y.now) = "closed" -> CloseInput(y, "ended")
              [] Resolution(y.c, t, y.now) = "stored" /\ ~y.active ->
                    CloseInput([y EXCEPT !.c = Resolve(@, t, outcome, y.now)], "sink")
              [] OTHER -> [y EXCEPT !.c = Resolve(@, t, outcome, y.now)]
    /\ w' = IF w.sent[t] = "none" THEN [w EXCEPT !.sent[t] = outcome] ELSE Odd(w)
    /\ UNCHANGED f

\* An observation needs a place in the queue and one for its receipt.
ReadObservation(th, e) ==
    LET id == y.seen + 1
    IN /\ Reads /\ w.obs < w.load.obs
       /\ y' = CASE y.c.closed -> CloseInput(y, "ended")
                 [] ~y.c.closed /\ (y.stopping \/ PushResult(y.o, "observation") # "ok") ->
                       CloseInput([y EXCEPT !.seen = id], "sink")
                 [] OTHER -> [y EXCEPT !.seen = id,
                                       !.o = Push(@, "observation", "reserved", Frame("none", 0)),
                                       !.q = Append(@, [id |-> id, th |-> th, e |-> e, n |-> y.o.next])]
       /\ w' = [w EXCEPT !.obs = @ + 1]
       /\ UNCHANGED f

\* A clock probe is answered by a control frame.
ReadProbe(busy) ==
    /\ Reads /\ OddLeft
    /\ y' = CASE y.c.closed -> CloseInput(y, "ended")
              [] ~y.c.closed /\ (busy \/ PushResult(y.o, "control") # "ok") -> CloseInput(y, "sink")
              [] OTHER -> [y EXCEPT !.o = Push(@, "control", "queued", Frame("clock", 0))]
    /\ w' = Odd(w)
    /\ UNCHANGED f

\* The close frame; the consumer may hang up right behind it.
ReadClose(hangs) ==
    /\ Reads
    /\ y' = CloseInput(y, "requested")
    /\ w' = [w EXCEPT !.eof = hangs]
    /\ UNCHANGED f

\* A malformed frame, or the end of the input.
ReadEnds(flaw) ==
    /\ Reads /\ OddLeft
    /\ y' = CloseInput(y, "ended")
    /\ w' = [Odd(w) EXCEPT !.eof = flaw \notin InputChecks]
    /\ UNCHANGED f

ReaderStopped ==
    /\ y.rd = "run" /\ y.s.rstop
    /\ y' = CloseInput(y, "cancelled")
    /\ UNCHANGED <<f, w>>

\* input_done, once Run has returned.
ReaderReturns ==
    /\ y.rd = "closing"
    /\ y' = [y EXCEPT !.rd = "done", !.s = SessionClosed(@)]
    /\ UNCHANGED <<f, w>>

-----------------------------------------------------------------------------
(* The writer.                                                             *)

WriterTakes ==
    /\ y.wr /\ y.half # "writer" /\ y.o.st = "open" /\ ~y.s.wstop
    /\ Writing(y.o) = {} /\ Queued(y.o, {"control", "request", "observation"}) # {}
    /\ y' = [y EXCEPT !.o = TakeSlot(@)]
    /\ UNCHANGED <<f, w>>

\* A whole frame is out; behind the last one the output ends.
WriterWrites ==
    /\ y.wr /\ y.half # "writer" /\ y.o.st = "open" /\ Writing(y.o) # {} /\ ~w.lost
    /\ LET slot == CHOOSE x \in Writing(y.o) : TRUE
       IN /\ y' = IF slot.n = y.o.term THEN EndBy([y EXCEPT !.o = Release(@)], "writer", "ended")
                  ELSE [y EXCEPT !.o = Release(@)]
          /\ w' = [w EXCEPT !.out = Append(@, slot.f)]
    /\ UNCHANGED f

\* Told to stop, or the pipe is broken.
WriterEnds ==
    /\ y.wr /\ y.half # "writer" /\ y.o.st = "open"
    /\ \/ y.s.wstop /\ y' = EndBy(y, "writer", "cancelled")
       \/ w.lost /\ y' = EndBy(y, "writer", "write")
    /\ UNCHANGED <<f, w>>

WriterReturns ==
    /\ y.wr /\ y.half # "writer" /\ y.o.st # "open"
    /\ y' = [y EXCEPT !.wr = FALSE, !.o = Release(@),
                      !.s = SessionClosed(IF y.o.st = "write" THEN Fail(@, "output") ELSE @)]
    /\ UNCHANGED <<f, w>>

-----------------------------------------------------------------------------
(* The watcher, the signals and the consumer's pipes.                      *)

Watched == Running /\ y.ph # "exited"

\* Watch: what it sees on each turn.
WatchFails(reason) ==
    /\ Watched
    /\ CASE reason = "cancelled" -> w.sig
         [] reason = "output" -> w.lost
         [] OTHER -> w.eof /\ y.rd # "done"
    /\ y.s # Fail(y.s, reason)
    /\ y' = [y EXCEPT !.s = Fail(@, reason)]
    /\ UNCHANGED <<f, w>>

\* Bytes before the ready frame.
EarlyInput ==
    /\ Watched /\ y.s.starting /\ OddLeft
    /\ y' = [y EXCEPT !.s = Fail(@, "input")]
    /\ w' = Odd(w)
    /\ UNCHANGED f

\* The startup or the cleanup deadline passed: the process ends at once.
Expires ==
    /\ Watched /\ (y.s.starting \/ y.s.cleaning) /\ OddLeft
    /\ y' = Gone(y, "cleanup")
    /\ w' = Odd(w)
    /\ UNCHANGED f

Signal ==
    /\ y.ph # "exited" /\ ~w.sig /\ OddLeft
    /\ w' = [Odd(w) EXCEPT !.sig = TRUE]
    /\ UNCHANGED <<y, f>>

ConsumerLost ==
    /\ y.ph = "serve" /\ ~w.lost /\ OddLeft
    /\ w' = [Odd(w) EXCEPT !.lost = TRUE]
    /\ UNCHANGED <<y, f>>

Tick ==
    /\ \E t \in Pending(y.c) : y.c.e[t].due > y.now
    /\ y' = [y EXCEPT !.now = @ + 1]
    /\ UNCHANGED <<f, w>>

-----------------------------------------------------------------------------
(* Stop, on the main thread.                                               *)

StopBegins ==
    /\ y.ph = "stop" \/ (y.ph = "serve" /\ y.s.cancel)
    /\ y' = [y EXCEPT !.ph = "join", !.s = [Phase(@, TRUE) EXCEPT !.rstop = TRUE]]
    /\ UNCHANGED <<f, w>>

\* The reader is joined, custody closed, the receiver told to retire.
ReaderJoined ==
    /\ y.ph = "join" /\ y.rd \in {"off", "done"}
    /\ y' = [y EXCEPT !.ph = "retire", !.c = CloseCustody(@), !.active = FALSE]
    /\ UNCHANGED <<f, w>>

WorkerJoined ==
    /\ y.ph = "retire" /\ ~y.wk /\ y.half # "worker"
    /\ y' = [y EXCEPT !.ph = "quiet", !.stopping = TRUE]
    /\ UNCHANGED <<f, w>>

ObserverJoined ==
    /\ y.ph = "quiet" /\ ~y.ob /\ y.half # "observer"
    /\ y' = [y EXCEPT !.ph = IF y.up = 0 THEN "release" ELSE "finish", !.q = <<>>, !.pubs = <<>>]
    /\ UNCHANGED <<f, w>>

Refuse(v, d) == IF d.r \in v.gone THEN v ELSE Answer(v, d.r, "refused")

\* Finish of the receiver, with the stack lock: what still waits is refused, and
\* custody must be empty then; a refusal that cannot be written ends the process.
ContextsFinish(flaw) ==
    /\ y.ph = "finish" /\ StackFree
    /\ flaw # "none" => OddLeft /\ \E d \in y.ctx : d.r \notin w.gone
    /\ IF flaw = "none" /\ Pending(y.c) = {d.t : d \in y.ctx}
       THEN /\ y' = [y EXCEPT !.ph = "loopstop", !.ctx = {}, !.tk = {}, !.epoch = 0,
                              !.c.e = [t \in Tickets |-> NoTicket]]
            /\ w' = FoldSet(LAMBDA d, v : Refuse(v, d), w, y.ctx)
       ELSE y' = Gone(y, "cleanup") /\ w' = IF flaw = "none" THEN w ELSE Odd(w)
    /\ UNCHANGED f

\* The loop is joined between callbacks.
LoopStops ==
    /\ y.ph = "loopstop" /\ StackFree /\ y.half # "loop"
    /\ y' = [y EXCEPT !.ph = "release", !.up = 1]
    /\ UNCHANGED <<f, w>>

\* The runtime is finished and the store given back.
RuntimeFinish ==
    /\ y.ph = "release"
    /\ y' = [y EXCEPT !.ph = "confirm", !.kids = [t \in Things |-> 0], !.open = FALSE, !.up = 0]
    /\ UNCHANGED <<f, w>>

\* Mutant: a start that worked is always confirmed.
MayConfirmStarted(x, sig) == x.started /\ ~sig

MayConfirm(x, sig) ==
    x.started /\ x.s.failure = "none" /\ ~sig /\ x.input = "requested"

\* The closed frame, or no more output.
Confirm ==
    /\ y.ph = "confirm"
    /\ LET a == [y EXCEPT !.ph = "last"]
       IN y' = CASE MayConfirm(y, w.sig) /\ Open(y.o) ->
                      [a EXCEPT !.o = Finish(@, Frame("closed", 0))]
                 [] MayConfirm(y, w.sig) /\ ~Open(y.o) ->
                      [a EXCEPT !.s = Fail(@, "output"), !.o = End(@, "ended")]
                 [] OTHER -> [a EXCEPT !.s.wstop = TRUE, !.o = End(@, "ended")]
    /\ UNCHANGED <<f, w>>

Exit ==
    /\ y.ph = "last" /\ ~y.wr /\ y.half # "writer"
    /\ y' = Gone(y, CASE y.s.failure # "none" -> y.s.failure
                      [] y.s.failure = "none" /\ y.o.term # 0 /\ y.o.st = "ended" -> "closed"
                      [] OTHER -> "startup")
    /\ UNCHANGED <<f, w>>

-----------------------------------------------------------------------------
(* Crashes.                                                                *)

Killed ==
    /\ y.ph # "exited" /\ w.crash < w.load.crash
    /\ y' = Gone(y, "killed")
    /\ w' = [w EXCEPT !.crash = @ + 1]
    /\ UNCHANGED f

PowerLost ==
    /\ w.crash < w.load.crash
    /\ y' = Gone(y, "killed")
    /\ f' \in AfterPowerLoss(f)
    /\ w' = [w EXCEPT !.crash = @ + 1]

Over ==
    /\ y.ph = "exited" /\ w.gens = w.load.gens
    /\ UNCHANGED vars

StartNext ==
    \/ Launch
    \/ \E got \in {"frame", "bad", "late"} : OpenFrame(got)
    \/ Load
    \/ y.ph = "load" /\ \E flaw \in BootstrapChecks : LoadRefused(flaw)
    \/ OpenStorage
    \/ y.ph = "store" /\ \E flaw \in StoreChecks : StoreRefused(flaw)
    \/ ServerInit
    \/ y.ph = "server" /\ \E flaw \in ServerChecks : ServerRefused(flaw)
    \/ AllocateDevice
    \/ InstallEndpoints
    \/ Attach
    \/ StartLoop
    \/ StartObservations
    \/ PublishReady

StopNext ==
    \/ StopBegins
    \/ ReaderJoined
    \/ WorkerJoined
    \/ ObserverJoined
    \/ \E flaw \in {"none", "status"} : ContextsFinish(flaw)
    \/ LoopStops
    \/ RuntimeFinish
    \/ Confirm
    \/ Exit
    \/ Killed
    \/ PowerLost
    \/ Over

SdkNext ==
    \/ CommitStep
    \/ CommitFails
    \/ StoreValue
    \/ \E k \in {"add", "remove"}, th \in Things, ty \in Types : ChangeEndpoint(k, th, ty)
    \/ LoopOn /\ StackFree /\ \E k \in w.load.kinds, e \in FirstEndpoint..LastEndpoint :
          \/ PeerRequest(k, e, "none", "none")
          \/ OddLeft /\ \E flaw \in RequestChecks(k) : PeerRequest(k, e, flaw, "none")
          \/ OddLeft /\ \E fault \in {"busy"} \union EncodeChecks : PeerRequest(k, e, "none", fault)
    \/ WaitTakes
    \/ y.cb # Idle /\ \E native \in {"ok"} \union ReadAnswers \union WriteAnswers :
          CallbackAnswers(native)
    \/ WaitAdvances
    \/ ApplyOne
    \/ \E to \in {"updated", "removed"} : FabricChanges(to)
    \/ \E d \in y.ctx : HandleLost(d)
    \/ WorkerLocks
    \/ \E d \in y.ctx : WorkerTakes(d)
    \/ \E flaw \in {"none", "status"} \union RenderChecks \union ReplyChecks : WorkerAnswers(flaw)
    \/ WorkerReturns
    \/ Observer
    \/ Notify

PipeNext ==
    \/ \E t \in Tickets, outcome \in {"completed", "denied"} : ReadResult(t, outcome)
    \/ \E th \in Things, e \in FirstEndpoint..LastEndpoint : ReadObservation(th, e)
    \/ \E busy \in BOOLEAN : ReadProbe(busy)
    \/ \E hangs \in BOOLEAN : ReadClose(hangs)
    \/ Reads /\ OddLeft /\ \E flaw \in InputChecks \union {"end of file"} : ReadEnds(flaw)
    \/ ReaderStopped
    \/ ReaderReturns
    \/ WriterTakes
    \/ WriterWrites
    \/ WriterEnds
    \/ WriterReturns
    \/ \E reason \in {"cancelled", "output", "input"} : WatchFails(reason)
    \/ EarlyInput
    \/ Expires
    \/ Signal
    \/ ConsumerLost
    \/ Tick

Next == StartNext \/ StopNext \/ SdkNext \/ PipeNext

Spec == Init /\ [][Next]_vars
-----------------------------------------------------------------------------
(* Properties.                                                             *)

Phases == {"exited", "open", "load", "store", "create", "server", "allocate", "bind", "attach",
           "loop", "observe", "ready", "serve", "stop", "join", "retire", "quiet", "finish",
           "loopstop", "release", "confirm", "last"}

\* Phases, flags and slots keep their types, and no table grows past its size.
TypeOK ==
    /\ y.ph \in Phases /\ y.up \in 0..4 /\ y.now \in Nat
    /\ y.half \in {"none", "loop", "worker", "observer", "writer"}
    /\ y.rd \in {"off", "run", "closing", "done"}
    /\ y.c.last \in 0..MaxTickets /\ y.tk \subseteq Tickets /\ y.turn \subseteq y.tk
    /\ \A k \in {"request", "control", "observation"} :
          Cardinality({x \in y.o.slots : x.k = k}) <= SlotsOf(k)
    /\ Cardinality(Writing(y.o)) <= 1
    /\ Len(y.q) + Len(y.pubs) <= ObservationSlots
    /\ y.job.i \in 0..Len(Stages)

\* Every ticket in custody has exactly one owner, the waiting callback or a
\* command context, no two owners share one, and what the command worker
\* scans are its contexts: the checks of the destructors and of Stop that end
\* the process on an unconsumed ticket cannot fail.
TicketCustody ==
    LET held == {d \in y.ctx \union {y.cb} : d # Idle /\ d.out = "none" /\ d.t # y.taken.t}
    IN /\ TypeOK
       /\ Pending(y.c) = {d.t : d \in held}
       /\ Cardinality(held) = Cardinality(Pending(y.c)) /\ Cardinality(held) <= Capacity
       /\ y.wk => y.tk = {d.t : d \in y.ctx}
       /\ y.ph \in {"loopstop", "release", "confirm", "last"} =>
             held = {} /\ y.cb = Idle /\ y.taken = Idle /\ y.c.closed

\* Requests whose outcome was taken and whose peer has no answer yet.
Taken(x) == {d \in {x.cb, x.taken} : d.out # "none"}

\* A completed outcome is taken from custody only if the consumer completed
\* the request, before its deadline and before a close (WMA.09: a result
\* consumed at or after expiry becomes a timeout, a close retires unconsumed
\* ones).  A peer reads success only for such an outcome and only if, when it
\* is answered, the fabric is the one the request came from and the endpoint
\* still is the Thing it named.
FreshSuccess ==
    [][/\ \A d \in Taken(y') \ Taken(y) : d.out = "completed" =>
             w.sent[d.t] = "completed" /\ ~y.c.closed /\ y.now < y.c.e[d.t].due
       /\ \A r \in Tickets :
             (w'.ans[r] # w.ans[r] /\ w'.ans[r] # <<>> /\ w'.ans[r][Len(w'.ans[r])] = "ok") =>
                \E d \in Taken(y) : /\ d.r = r /\ d.out = "completed"
                                    /\ y.epoch = d.sc /\ d.sc # 0 /\ y.kids[d.th] = d.e]_vars

\* A request is answered at most once.  The consumer's stream starts with the
\* ready frame, unless a close overtook it.  The closed frame is the last; it follows a requested close,
\* every request has its answer or lost its peer, the threads that could touch
\* the SDK are gone and the store is released.  Exit "closed" means that the
\* consumer was given that frame.
ReceiptHonest ==
    LET closing == {i \in DOMAIN w.out : w.out[i].t = "closed"}
    IN /\ \A r \in Tickets : Len(w.ans[r]) <= 1
       /\ w.out # <<>> => w.out[1].t \in {"ready", "closed"}
       /\ closing \subseteq {Len(w.out)}
       /\ closing # {} =>
             /\ \A r \in 1..w.made : w.ans[r] # <<>> \/ r \in w.gone
             /\ y.ph # "exited" =>
                   /\ y.input = "requested" /\ y.ctx = {} /\ y.cb = Idle /\ y.job = NoJob
                   /\ ~y.wk /\ ~y.ob /\ y.rd = "done" /\ ~y.open
       /\ y.exit = "closed" => closing # {}

\* Observations are applied in the order they were sent, and the receipts the
\* consumer reads name applied or refused ones in that order, each once.
ObservationOrder ==
    LET receipts == SelectSeq(w.out, LAMBDA x : x.t \in {"applied", "refused"})
    IN /\ \A i, j \in DOMAIN w.applied : i < j => w.applied[i] < w.applied[j]
       /\ Len(receipts) <= Len(w.applied)
       /\ \A i \in DOMAIN receipts : receipts[i].id = w.applied[i]

\* What a start would open is what the last commit acknowledged or the one
\* after it, whatever crashed in between; a confirmed stop leaves it durable
\* and open to the next start; and an endpoint means one Thing for ever.
StoreHonest ==
    /\ \A id \in 1..2 : Openable(f.now, id) => f.now.st \in {w.acked, w.flight}
    /\ y.exit = "closed" /\ w.crash = 0 =>
          Openable(f.now, y.cfg.id) /\ f.now.st = w.acked /\ f.safe.st = w.acked
    /\ \A t \in Things : y.kids[t] # 0 => w.bound[y.kids[t]] = t
    /\ y.open /\ y.mem # Blank => \A t \in Things : y.kids[t] \in {0, y.mem.ep[t]}
=============================================================================
