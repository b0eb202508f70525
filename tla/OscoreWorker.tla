---------------------------- MODULE OscoreWorker ----------------------------
(***************************************************************************)
(* The native OSCORE worker (worker.c): one thread that reads commands from*)
(* the BEAM, runs one protected exchange or one observation with a peer and*)
(* writes bounded output.  The peer may answer, refuse, notify, answer     *)
(* late, and its messages may be lost, duplicated and reordered.           *)
(***************************************************************************)
EXTENDS OscoreExchange, FiniteSets

CONSTANTS Workloads, \* bounds: [ops, max, notes], the operations the BEAM
                     \* asks for, their number and that of the peer's messages
          MaxCmds,   \* bound: commands of any workload
          MaxOdd,    \* bound: peer messages that are not "ok"
          Start,     \* the peer's first sequence number
          OutFrames  \* WCO_OUTPUT_FRAMES, 128

ASSUME WorkerAssumption ==
    /\ MaxCmds \in Nat /\ MaxOdd \in Nat /\ Start \in Nat
    /\ OutFrames \in Nat \ {0}
    /\ \A l \in Workloads : l.max \in 0..MaxCmds /\ l.notes \in Nat

VARIABLES
    s,    \* the worker
    peer, \* the peer: [tok, ep] it reports for (0: none), n sent, odd sent
    down, \* messages on their way to the worker
    got,  \* what the BEAM received: [ans, reports, ended]
    load  \* the workload, and the commands sent so far

vars == <<s, peer, down, got, load>>

NoReport == [n |-> 0, phase |-> "none"]

NewObservation == [used |-> FALSE, path |-> FALSE, established |-> FALSE, cancelling |-> FALSE,
                   event |-> FALSE, renew |-> FALSE, renewing |-> FALSE, written |-> FALSE]

NewWorker == [opened |-> FALSE, closing |-> FALSE, more |-> FALSE, failed |-> FALSE, gone |-> FALSE,
              req |-> 0, body |-> "none", stream |-> "none", out |-> <<>>,
              o |-> NewObservation, rep |-> NoReport, next |-> NoReport,
              fresh |-> NewFreshness, credit |-> NewCredit, x |-> NewExchange,
              taken |-> {}]

Kinds == {"ready", "ok", "err", "error", "begin", "chunk", "end", "result"}

Frame(k, id, n, seq) == [k |-> k, id |-> id, n |-> n, seq |-> seq]

Init ==
    /\ s = [NewWorker EXCEPT !.out = <<Frame("ready", 0, 0, 0)>>]
    /\ peer = [tok |-> 0, ep |-> 0, n |-> Start, odd |-> 0]
    /\ down = {} /\ got = [ans |-> [i \in 1..MaxCmds |-> 0], reports |-> <<>>, ended |-> FALSE]
    /\ load \in {[ops |-> l.ops, max |-> l.max, notes |-> l.notes, cmds |-> 0] : l \in Workloads}

\* append: a frame that does not fit ends the worker.
Put(w, f) ==
    IF Len(w.out) = OutFrames THEN [w EXCEPT !.failed = TRUE]
    ELSE [w EXCEPT !.out = Append(@, f)]

Answer(w, id, k) == Put(w, Frame(k, id, 0, 0))

\* Mutant: the answered request stays active.
FinishKeeps(w, k) == Answer(w, w.req, k)

\* The active request ends with an answer.
Finish(w, k) == [Answer(w, w.req, k) EXCEPT !.req = 0]

ClearReports(w) == [w EXCEPT !.rep = NoReport, !.next = NoReport]

Ended(w) ==
    [ClearReports(w) EXCEPT !.o.established = FALSE, !.o.cancelling = FALSE, !.o.renewing = FALSE]

\* terminal_observation_status
Terminal(w) ==
    Put([Ended(w) EXCEPT !.closing = TRUE, !.x = Cancelled(@)], Frame("error", 0, 0, 0))

-----------------------------------------------------------------------------
\* prepare_report accepts a success that carries Observe.
Large(m) == m.n % 2 = 0

Prepared(m) == Registered(m)

Report(m) == [n |-> m.n, phase |-> IF Large(m) THEN "begin" ELSE "result"]

Take(w, m) == [w EXCEPT !.fresh = Freshened(m), !.taken = @ \cup {m.n}]

InitialResponse(w, m) ==
    CASE w.req = 0 -> [w EXCEPT !.failed = TRUE]
      [] w.req # 0 /\ ~Prepared(m) -> [Finish(w, "err") EXCEPT !.closing = TRUE]
      [] OTHER -> [Finish(Take(w, m), "ok")
                     EXCEPT !.rep = Report(m), !.o.established = TRUE, !.o.used = TRUE]

\* Mutant: a newer event replaces the one not yet written.
PlaceReplacing(w, m) ==
    IF w.rep.phase \in {"chunk", "end"} THEN [w EXCEPT !.next = Report(m)]
    ELSE [w EXCEPT !.rep = Report(m)]

\* A report that is being written keeps its frames together; events never
\* replace each other.
Started(r) == r.phase \in {"chunk", "end"} \/ (r.phase = "result" /\ r.n % 2 = 0)

Place(w, m) ==
    CASE w.rep # NoReport /\ w.o.event -> Terminal(w)
      [] w.rep # NoReport /\ ~w.o.event /\ Started(w.rep) -> [w EXCEPT !.next = Report(m)]
      [] OTHER -> [w EXCEPT !.rep = Report(m)]

LaterReport(w, m, renewal) ==
    LET expected == w.o.established /\ ~w.o.cancelling /\ (renewal => w.o.renewing)
        admission == IF Prepared(m) THEN Freshness(w.fresh, m, renewal) ELSE "refused"
    IN CASE ~expected -> [w EXCEPT !.failed = TRUE]
         [] expected /\ admission \in {"refused", "changed"} -> Terminal(w)
         [] expected /\ admission = "stale" -> w
         [] OTHER -> Place([Take(w, m) EXCEPT !.o.renewing = @ /\ ~renewal], m)

CancelConfirmed(w, m) ==
    LET expected == w.req # 0 /\ w.o.established /\ w.o.cancelling
    IN CASE ~expected -> [w EXCEPT !.failed = TRUE]
         [] expected /\ m.q = "error" -> [Finish(w, "err") EXCEPT !.closing = TRUE]
         [] OTHER -> [Ended(Finish(w, "ok")) EXCEPT !.o.event = FALSE]

\* exchange_response: a large body is streamed, the others are one frame.
UnaryResponse(w, m) ==
    CASE w.req = 0 -> [w EXCEPT !.failed = TRUE]
      [] w.req # 0 /\ m.q = "error" -> Finish(w, "err")
      [] w.req # 0 /\ m.q # "error" /\ Large(m) -> [w EXCEPT !.stream = "begin"]
      [] OTHER -> Finish(w, "ok")

Callback(w, m, delivery) ==
    LET r == CASE delivery = "unary" -> UnaryResponse(w, m)
               [] delivery = "initial" -> InitialResponse(w, m)
               [] delivery \in {"report", "renewed"} -> LaterReport(w, m, delivery = "renewed")
               [] delivery = "intervening" ->
                     IF w.o.established /\ w.o.cancelling /\ Prepared(m) THEN w
                     ELSE [w EXCEPT !.failed = TRUE]
               [] OTHER -> CancelConfirmed(w, m)
    IN [r EXCEPT !.x.failed = @ \/ r.failed]

\* exchange_failure
FailureCallback(w) ==
    CASE w.o.established /\ w.req = 0 -> Terminal(w)
      [] ~w.o.established /\ w.req = 0 -> [w EXCEPT !.failed = TRUE]
      [] OTHER -> [Ended(Finish(w, "err")) EXCEPT !.closing = TRUE]

\* response_handler and event_handler for one datagram.
Received(w, m) ==
    CASE ~Correlated(w.x, m) -> w
      [] Correlated(w.x, m) /\ ~Verified(w.x, m) ->
            IF w.x.observing THEN w ELSE FailureCallback([w EXCEPT !.x = FailedExchange(@)])
      [] Correlated(w.x, m) /\ Verified(w.x, m) /\ m.q = "malformed" ->
            FailureCallback([w EXCEPT !.x = FailedExchange(@)])
      [] OTHER -> Callback([w EXCEPT !.x = Delivered(@, m)], m, Delivery(w.x, m))

-----------------------------------------------------------------------------
\* Commands.  Each operator gives the worker after the command id.
OpenCommand(w, id, ok) ==
    IF ok THEN Answer([w EXCEPT !.opened = TRUE], id, "ok") ELSE Answer(w, id, "err")

BodyCommand(w, id, op) ==
    LET body == BodyNext(w.body, op)
    IN IF body = "failed" THEN [w EXCEPT !.failed = TRUE]
       ELSE Answer([w EXCEPT !.body = body], id, "ok")

\* A refused send closes the worker when the exchange is gone with it.
Begin(w, id, k) ==
    LET x == Transmit(w.x, k)
    IN IF x.failed THEN [Answer(w, id, "err") EXCEPT !.x = x, !.closing = TRUE]
       ELSE [w EXCEPT !.x = x, !.req = id]

RequestCommand(w, id, body) ==
    LET fits == w.body = IF body THEN "complete" ELSE "none"
    IN CASE ~fits -> Answer(w, id, "err")
         [] fits /\ w.x.failed -> [Answer(w, id, "err") EXCEPT !.closing = TRUE, !.body = "none"]
         [] fits /\ ~w.x.failed /\ ~RequestAllowed(w.x) -> [Answer(w, id, "err") EXCEPT !.body = "none"]
         [] OTHER -> Begin([w EXCEPT !.body = "none"], id, "request")

ObserveCommand(w, id, event, renew) ==
    LET p == [w EXCEPT !.o.path = TRUE, !.o.renew = renew, !.o.event = event]
        refused == [Answer(p, id, "err") EXCEPT !.o.event = FALSE]
        fits == ~w.o.used /\ w.body = "none"
    IN CASE ~fits -> Answer(w, id, "err")
         [] fits /\ w.x.failed -> [refused EXCEPT !.closing = TRUE]
         [] fits /\ ~w.x.failed /\ ~RequestAllowed(w.x) -> refused
         [] OTHER -> Begin(p, id, "observe")

Live(w) == w.o.established /\ ~w.o.cancelling

CreditCommand(w, id, seq) ==
    CASE ~Live(w) -> Answer(w, id, "err")
      [] Live(w) /\ ~AckValid(w.credit, seq) -> [w EXCEPT !.failed = TRUE]
      [] OTHER -> Answer([w EXCEPT !.credit = Ack(@, seq)], id, "ok")

CancelCommand(w, id) ==
    LET p == [ClearReports(w) EXCEPT !.o.cancelling = TRUE, !.o.renewing = FALSE, !.req = id]
        x == Cancelled(w.x)
        sent == CancelAllowed(w.x) /\ ~x.failed
    IN CASE ~Live(w) -> Answer(w, id, "err")
         [] Live(w) /\ sent -> [p EXCEPT !.x = x]
         [] OTHER -> Answer([p EXCEPT !.x = x, !.req = 0, !.o.cancelling = FALSE,
                                      !.closing = TRUE], id, "err")

CloseCommand(w, id) == [Answer(ClearReports(w), id, "ok") EXCEPT !.closing = TRUE]

\* execute
Execute(w, id, c) ==
    LET busy == w.req # 0 \/ (w.o.established /\ c.op \notin {"credit", "cancel", "close"})
    IN CASE w.opened <=> c.op = "open" -> [w EXCEPT !.failed = TRUE]
         [] ~w.opened /\ c.op = "open" -> OpenCommand(w, id, c.flag)
         [] w.opened /\ c.op # "open" /\ busy -> Answer(w, id, "err")
         [] OTHER -> CASE c.op = "credit" -> CreditCommand(w, id, c.arg)
                       [] c.op = "cancel" -> CancelCommand(w, id)
                       [] c.op = "close" -> CloseCommand(w, id)
                       [] c.op = "request" -> RequestCommand(w, id, c.flag)
                       [] c.op = "observe" -> ObserveCommand(w, id, c.arg = 1, c.flag)
                       [] OTHER -> BodyCommand(w, id, c.op)

\* What wco_command_decode lets through, one record per shape the worker
\* distinguishes; a line it refuses ends the worker.
Commands(op) ==
    CASE op = "credit" -> [op : {op}, flag : {TRUE}, arg : 0..(s.credit.assigned + 1)]
      [] op = "observe" -> [op : {op}, flag : BOOLEAN, arg : {0, 1}]
      [] op \in {"open", "request"} -> [op : {op}, flag : BOOLEAN, arg : {0}]
      [] OTHER -> [op : {op}, flag : {TRUE}, arg : {0}]

Running == ~s.gone /\ ~s.failed

\* consume: lines of the read that closed the worker are still executed.
Command(op) ==
    /\ Running /\ (s.closing => s.more)
    /\ load.cmds < load.max /\ load' = [load EXCEPT !.cmds = @ + 1]
    /\ \E c \in Commands(op) : \E more \in BOOLEAN :
          LET w == Execute(s, load.cmds + 1, c)
          IN s' = [w EXCEPT !.more = w.closing /\ more]
    /\ UNCHANGED <<peer, down, got>>

MalformedLine ==
    /\ Running /\ (s.closing => s.more) /\ s' = [s EXCEPT !.failed = TRUE]
    /\ UNCHANGED <<peer, down, got, load>>

Idle == Running /\ ~s.more

\* wco_exchange_io processes one datagram; the network may keep a copy.
Receive ==
    /\ Idle /\ ~s.closing
    /\ \E m \in down, keep \in BOOLEAN :
          s' = Received(s, m) /\ down' = IF keep THEN down ELSE down \ {m}
    /\ UNCHANGED <<peer, got, load>>

\* nack_handler, and the events that end an exchange.
ExchangeFails ==
    /\ Idle /\ ~s.closing /\ ~s.x.failed /\ (s.x.active \/ s.x.observing)
    /\ s' = FailureCallback([s EXCEPT !.x = FailedExchange(@)])
    /\ UNCHANGED <<peer, down, got, load>>

\* The deadline of the active request, at the top of run().
RequestTimeout ==
    /\ Idle /\ s.req # 0
    /\ s' = IF s.stream # "none" THEN [s EXCEPT !.stream = "none", !.failed = TRUE]
            ELSE [Finish(s, "err") EXCEPT !.closing = TRUE]
    /\ UNCHANGED <<peer, down, got, load>>

\* maintain_observation: the representation outlived its Max-Age, or the
\* renewal its deadline.
Maintain ==
    /\ Idle /\ s.o.established /\ ~s.o.cancelling /\ s.o.written
    /\ s' = LET x == Transmit(s.x, "renew")
            IN CASE s.o.renewing \/ ~s.o.renew -> Terminal(s)
                 [] ~s.o.renewing /\ s.o.renew /\ (~RenewAllowed(s.x) \/ x.failed) ->
                       Terminal([s EXCEPT !.x = IF RenewAllowed(s.x) THEN x ELSE @])
                 [] OTHER -> [s EXCEPT !.x = x, !.o.renewing = TRUE]
    /\ s'.x.ep <= MaxCmds + 1
    /\ UNCHANGED <<peer, down, got, load>>

\* pump_stream, one frame
StreamNext == [begin |-> "chunk", chunk |-> "end", end |-> "result"]

PumpStream ==
    /\ Idle /\ s.stream # "none" /\ Len(s.out) < OutFrames
    /\ s' = IF s.stream = "result" THEN [Finish(s, "ok") EXCEPT !.stream = "none"]
            ELSE [Put(s, Frame(s.stream, s.req, 0, 0)) EXCEPT !.stream = StreamNext[@]]
    /\ UNCHANGED <<peer, down, got, load>>

\* pump_report: one frame of the pending report under the credit window.
PumpReport ==
    /\ Idle /\ s.rep # NoReport /\ CreditAvailable(s.credit) /\ Len(s.out) < OutFrames
    /\ s' = LET seq == s.credit.assigned + 1
                w == [Put(s, Frame(s.rep.phase, 0, s.rep.n, seq)) EXCEPT !.credit.assigned = seq]
            IN IF s.rep.phase = "result" THEN [w EXCEPT !.rep = s.next, !.next = NoReport]
               ELSE [w EXCEPT !.rep.phase = StreamNext[@]]
    /\ UNCHANGED <<peer, down, got, load>>

\* flush_output hands the first frame to the BEAM.
FlushOutput ==
    /\ Idle /\ s.out # <<>>
    /\ LET f == Head(s.out)
       IN /\ s' = [s EXCEPT !.out = Tail(@),
                            !.credit.written = IF f.seq > 0 THEN @ + 1 ELSE @,
                            !.o.written = @ \/ (f.seq > 0 /\ f.k = "result")]
          /\ got' = CASE f.k \in {"ok", "err"} -> [got EXCEPT !.ans[f.id] = @ + 1]
                      [] f.k = "error" -> [got EXCEPT !.ended = TRUE]
                      [] f.k \notin {"ok", "err", "error"} /\ f.seq > 0 ->
                            [got EXCEPT !.reports = Append(@, f)]
                      [] OTHER -> got
    /\ UNCHANGED <<peer, down, load>>

\* run() returns: failure, a flushed close, end of input, a termination
\* signal or an output deadline.  cancel_observation_on_exit follows.
Exit ==
    /\ ~s.gone /\ ~s.more
    /\ s' = [s EXCEPT !.gone = TRUE, !.out = <<>>,
                      !.x = IF s.opened /\ s.o.path THEN Abandoned(@) ELSE @]
    /\ UNCHANGED <<peer, down, got, load>>

-----------------------------------------------------------------------------
\* The store refuses the next reservation; it is poisoned from then on.
StoreFails ==
    /\ Idle /\ s.opened /\ s.x.store
    /\ s' = [s EXCEPT !.x.store = FALSE]
    /\ UNCHANGED <<peer, down, got, load>>

Message(tok, ep, obs, q) == [tok |-> tok, ep |-> ep, obs |-> obs, q |-> q, n |-> peer.n]

Emit(m) ==
    /\ peer.n < Start + load.notes /\ (m.q # "ok" => peer.odd < MaxOdd)
    /\ down' = down \cup {m}

Emitted(m) == [peer EXCEPT !.n = @ + 1, !.odd = IF m.q = "ok" THEN @ ELSE @ + 1]

\* The peer handles a request: it registers, refuses, answers or forgets.
PeerAnswers ==
    /\ ~s.gone
    /\ \E r \in s.x.up, q \in {"ok", "error", "malformed"}, accept \in BOOLEAN :
          LET obs == accept /\ r.k \in {"observe", "renew"} /\ q = "ok"
              m == Message(r.tok, r.ep, obs, q)
          IN /\ Emit(m)
             /\ (accept \/ r.k \in {"observe", "renew"})
             /\ s' = [s EXCEPT !.x.up = @ \ {r}]
             /\ peer' = CASE obs -> [Emitted(m) EXCEPT !.tok = r.tok, !.ep = r.ep]
                          [] ~obs /\ r.k # "request" /\ r.tok = peer.tok ->
                                [Emitted(m) EXCEPT !.tok = 0, !.ep = 0]
                          [] OTHER -> Emitted(m)
    /\ UNCHANGED <<got, load>>

\* A failure code in a notification ends the registration (RFC 7641, 4.2).
PeerNotifies ==
    /\ ~s.gone /\ peer.tok # 0
    /\ \E q \in {"ok", "changed", "error"} :
          LET m == Message(peer.tok, peer.ep, q # "error", q)
          IN Emit(m) /\ peer' = IF q = "error" THEN [Emitted(m) EXCEPT !.tok = 0, !.ep = 0]
                                 ELSE Emitted(m)
    /\ UNCHANGED <<s, got, load>>

LoseMessage ==
    /\ ~s.gone
    /\ \/ \E m \in down : down' = down \ {m} /\ s' = s
       \/ \E r \in s.x.up : s' = [s EXCEPT !.x.up = @ \ {r}] /\ down' = down
    /\ UNCHANGED <<peer, got, load>>

\* More than 128 s without a fresh report: nothing sent before is in flight.
Age ==
    /\ Idle /\ s.fresh.set /\ ~s.fresh.aged /\ down = {}
    /\ s' = [s EXCEPT !.fresh.aged = TRUE]
    /\ UNCHANGED <<peer, down, got, load>>

Next ==
    \/ \E op \in load.ops : Command(op)
    \/ MalformedLine \/ Receive \/ ExchangeFails \/ RequestTimeout \/ Maintain
    \/ PumpStream \/ PumpReport \/ FlushOutput \/ Exit \/ StoreFails
    \/ PeerAnswers \/ PeerNotifies \/ LoseMessage \/ Age

Spec == Init /\ [][Next]_vars

-----------------------------------------------------------------------------
\* The worker's fields have their types and the report credit is ordered:
\* acknowledged, written and assigned sequences within one window.
TypeOK ==
    /\ s.out \in Seq([k : Kinds, id : 0..MaxCmds, n : Nat, seq : Nat]) /\ Len(s.out) <= OutFrames
    /\ s.req \in 0..MaxCmds /\ s.body \in {"none", "active", "complete"}
    /\ s.credit.acked <= s.credit.written /\ s.credit.written <= s.credit.assigned
    /\ s.credit.assigned <= s.credit.acked + Window
    /\ s.x.pending \in {"none", "request", "observe", "renew", "cancel"}
    /\ s.x.active <=> s.x.pending # "none"

Queued(id) == Cardinality({j \in DOMAIN s.out : s.out[j].k \in {"ok", "err"} /\ s.out[j].id = id})

\* Every command the worker took is answered at most once, and while it runs
\* exactly once or it is the request in progress (execute, run).
AnsweredOnce ==
    /\ TypeOK
    /\ \A id \in 1..MaxCmds :
         /\ got.ans[id] + Queued(id) + (IF s.req = id THEN 1 ELSE 0) <= 1
         /\ (id <= load.cmds /\ Running) => got.ans[id] + Queued(id) + (IF s.req = id THEN 1 ELSE 0) = 1

Frames == got.reports \o SelectSeq(s.out, LAMBDA f : f.seq > 0)

\* The BEAM sees report frames numbered without a hole; a large report is
\* begin, chunk, end, result with nothing in between, and reports come in the
\* peer's order without repetition, whatever the network did to them.
ReportsInOrder ==
    LET fs == Frames
    IN /\ \A j \in DOMAIN fs : fs[j].seq = j
       /\ \A j \in 1..(Len(fs) - 1) :
             IF fs[j].k = "result"
             THEN fs[j + 1].n > fs[j].n /\ fs[j + 1].k \in {"begin", "result"}
             ELSE fs[j + 1].n = fs[j].n /\ fs[j + 1].k = StreamNext[fs[j].k]

\* An event the worker took is still queued or was written in full, unless
\* the stream ended with an error, a cancellation or a close.
EventsKept ==
    (Running /\ s.o.established /\ s.o.event /\ ~s.o.cancelling /\ ~s.closing) =>
        \A n \in s.taken :
            \/ s.rep.n = n
            \/ \E j \in DOMAIN Frames : Frames[j].n = n /\ Frames[j].k = "result"

\* What the BEAM reads of a stream: in the peer's order without a hole, and no
\* event the worker took is missing (admit_report, pump_report).
ReportsKept == ReportsInOrder /\ EventsKept

\* When the worker is gone and its exchange did not fail, a registration the
\* peer may hold has been followed by a cancellation (exit cleanup).
ObserverReleased ==
    (s.gone /\ ~s.x.failed /\ s.x.reg > s.x.cancel) =>
        peer.tok = 0 /\ \A r \in s.x.up : r.k \notin {"observe", "renew"}

=============================================================================
