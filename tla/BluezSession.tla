---------------------------- MODULE BluezSession ----------------------------
(***************************************************************************)
(* One BlueZ connection of the native process: the bus sender (bus.hpp,    *)
(* service.hpp), the discovery and link owner (discovery.hpp), the         *)
(* procedure, the pairing and the notification entries that use it.        *)
(* Callbacks run in the one thread of the process, so every operator maps  *)
(* the process record y to the record after the call returned.             *)
(*                                                                         *)
(*   host, opened, crep, status   the host: run, closing, finished         *)
(*   st, kind, tgt, ans           requests: state, kind, target, replies   *)
(*   late, due, dueE              deadlines passed: of requests, of        *)
(*                                cleanups (host, owner, pair, proc), of   *)
(*                                the cleanups of entries                  *)
(*   calls, stray                 calls awaiting a reply; calls forgotten  *)
(*                                locally that the daemon may still do     *)
(*   o, p, g, e                   link owner, procedure, pairing, entries  *)
(*   r                            reports and output                       *)
(***************************************************************************)
EXTENDS BluezReports

CONSTANTS Chars,  \* characteristics
          Boot,   \* bus calls of a start: Hello, AddMatch, GetNameOwner, two AddMatch
          Tries   \* snapshot attempts, 4

NoOne == [k |-> "none", d |-> 0]

NewOwner ==
    [st |-> "none", boot |-> 0, snap |-> FALSE, up |-> FALSE, dirty |-> FALSE, raced |-> FALSE,
     att |-> 0, linked |-> FALSE, owned |-> FALSE, tried |-> FALSE, link |-> FALSE,
     wait |-> FALSE, deliv |-> FALSE, pend |-> NoOne, cb |-> NoOne, lost |-> FALSE]

NewEntry ==
    [ph |-> "none", fail |-> FALSE, att |-> FALSE, exp |-> FALSE, own |-> FALSE,
     early |-> FALSE, comp |-> FALSE, cxl |-> 0]

NewPairing ==
    [ph |-> "idle", d |-> 0, reg |-> FALSE, regU |-> FALSE, pairU |-> FALSE, snd |-> FALSE,
     prompt |-> FALSE, fail |-> FALSE]

NewProcedure == [ph |-> "idle", d |-> 0, ok |-> FALSE]

\* Whose cancellation an entry carries: nobody, the host's close or a request.
ByHost == MaxIds + 1

-----------------------------------------------------------------------------
(* Requests and the bus.                                                   *)

Answer(y, d, a) ==
    [y EXCEPT !.ans[d] = Append(@, a), !.st[d] = "done",
              !.r = Put(@, IF y.kind[d] = "unsubscribe" /\ a = "ok" THEN y.tgt[d] ELSE d,
                        Frame("reply", IF a = "ok" THEN 1 ELSE 0))]

Send(y, op, d) ==
    [y EXCEPT !.calls = @ \cup {[op |-> op, d |-> d, done |-> FALSE]},
              !.disc = @ \/ op = "disconnect"]

\* Forgetting a call retracts nothing: what was sent may still take effect.
Forget(y, S) ==
    [y EXCEPT !.calls = @ \ S,
              !.stray = @ \cup {[op |-> c.op, d |-> c.d] : c \in {x \in S : ~x.done /\
                            x.op \in {"connect", "disconnect", "start", "stop", "write",
                                      "register", "unregister"}}}]

CallsOf(y, d, ops) == {c \in y.calls : c.d = d /\ c.op \in ops}

Live(n) == n.ph \in {"resolving", "starting", "active"}

ProcActive(y) == y.p.ph \in {"resolving", "active", "closing"}

PairActive(y) == y.g.ph \in {"discovering", "registering", "pairing", "closing"}

Entries(y) == {d \in Ids : y.e[d].ph \notin {"none", "finished"}}

\* cancel_refresh: the owner of a running refresh gives it up.
CancelRefresh(y) ==
    IF y.o.st = "active" /\ y.o.deliv /\ y.o.pend # NoOne
    THEN [Forget(y, {c \in y.calls : c.op = "query"}) EXCEPT !.o.pend = NoOne, !.o.att = 0]
    ELSE y

ProcComplete(y, a) == Answer([y EXCEPT !.p.ph = "finished"], y.p.d, a)

\* Pairing::complete: a success found after the deadline is a rejection.
PairComplete(y) ==
    Answer([y EXCEPT !.g = [@ EXCEPT !.ph = "finished", !.reg = FALSE, !.prompt = FALSE]], y.g.d,
           IF y.g.fail \/ y.g.d \in y.late THEN "err" ELSE "ok")

FailWaiting(y, d, n) == IF n.comp THEN Answer(y, d, "err") ELSE y

RetireExposed(y, d, n) == IF n.exp THEN [y EXCEPT !.r = Retire(@, d, n.fail)] ELSE y

AnswerCancel(y, n) ==
    IF n.cxl \in Ids THEN Answer(y, n.cxl, IF n.fail THEN "err" ELSE "ok") ELSE y

\* Calls and refresh of an entry are given up.
Detach(y, d, n) ==
    Forget(IF n.own THEN CancelRefresh(y) ELSE y, CallsOf(y, d, {"start", "stop"}))

\* Mutant: the cancellation is answered before the barrier.
FinishEntryReplyFirst(y, d) ==
    LET n == y.e[d]
        a == [Detach(y, d, n) EXCEPT !.e[d] = [NewEntry EXCEPT !.ph = "finished"]]
    IN IF d \notin Entries(y) THEN y
       ELSE RetireExposed(AnswerCancel(FailWaiting(a, d, n), n), d, n)

\* finish: the waiting subscribe fails, an exposed stream is retired, and
\* then the cancellation is answered.
FinishEntry(y, d) ==
    LET n == y.e[d]
        a == [Detach(y, d, n) EXCEPT !.e[d] = [NewEntry EXCEPT !.ph = "finished"]]
    IN IF d \notin Entries(y) THEN y
       ELSE AnswerCancel(RetireExposed(FailWaiting(a, d, n), d, n), n)

-----------------------------------------------------------------------------
(* What the components do when the sender is already gone.                 *)

EntryStopDown(y, d, failed) ==
    IF ~Live(y.e[d]) THEN y ELSE FinishEntry([y EXCEPT !.e[d].fail = failed], d)

ProcFailDown(y) == IF y.p.ph \in {"resolving", "active"} THEN ProcComplete(y, "err") ELSE y

PairFailDown(y) ==
    IF y.g.ph \in {"discovering", "registering", "pairing"}
    THEN PairComplete([y EXCEPT !.g.fail = TRUE]) ELSE y

ActiveId(y) == {d \in Ids : y.st[d] = "active"}

\* close of the host, up to the components: it happens once; what waits
\* fails, and the streams fall silent.
HostCloseBase(y, reply, status) ==
    LET waiting == SetToSortSeq({d \in Ids : y.st[d] = "queued"}, <)
        a == FoldLeft(LAMBDA x, d : Answer(x, d, "err"), y, waiting)
    IN [a EXCEPT !.host = "closing", !.crep = reply, !.status = status,
                 !.r = FoldLeft(Silence, @, SetToSeq(Streams(@)))]

\* The entries a closing host cancels: its streams and an unfinished subscribe.
HostCancels(y) ==
    {d \in Entries(y) : y.e[d].cxl = 0 /\ (d \in Streams(y.r) \/ d \in ActiveId(y))}

Later(y, status) == IF y.crep THEN y ELSE [y EXCEPT !.status = IF status > @ THEN status ELSE @]

CancelStreamsDown(y) ==
    FoldLeft(LAMBDA x, d : EntryStopDown([x EXCEPT !.e[d].cxl = ByHost], d, FALSE), y,
             SetToSortSeq(HostCancels(y), <))

HostCloseDown(y, status) ==
    IF y.host # "run" THEN Later(y, status)
    ELSE ProcFailDown(PairFailDown(CancelStreamsDown(HostCloseBase(y, FALSE, status))))

\* The callback of the operation that waits for the owner, with an error.
Refused(y, who) ==
    CASE who.k = "open" /\ y.host = "run" -> HostCloseDown(Answer(y, who.d, "err"), 1)
      [] who.k = "discover" /\ y.host = "run" -> Answer(y, who.d, "err")
      [] who.k = "proc" /\ y.p.ph = "resolving" -> ProcComplete(y, "err")
      [] who.k = "pair" /\ y.g.ph = "discovering" -> PairFailDown(y)
      [] who.k = "sub" /\ y.e[who.d].ph = "resolving" -> EntryStopDown(y, who.d, TRUE)
      [] OTHER -> y

-----------------------------------------------------------------------------
(* LiveDiscovery: closing.                                                 *)

\* force_close: sender, calls and snapshot are gone.
ForceClose(y) ==
    [Forget(y, y.calls) EXCEPT
        !.o = [@ EXCEPT !.st = "closed", !.pend = NoOne, !.cb = NoOne, !.lost = FALSE,
                        !.snap = FALSE, !.link = FALSE],
        !.alive = FALSE]

\* finish_close, and the callbacks fail() left for this moment.
FinishClose(y) ==
    IF y.o.lost THEN HostCloseDown(Refused(ForceClose(y), y.o.cb), 1)
    ELSE Refused(ForceClose(y), y.o.cb)

\* The owner stops being used: its calls are forgotten.
Closing(y, cb, lost) ==
    [Forget(y, y.calls) EXCEPT
        !.o = [@ EXCEPT !.st = "closing", !.wait = FALSE, !.pend = NoOne, !.cb = cb,
                        !.lost = lost],
        !.due = @ \ {"owner"}]

\* Mutant: the link is given up only once it was seen connected.
CloseWithConfirmed(y, cb, lost, cut) ==
    IF cut \/ ~y.o.link \/ ~y.o.linked \/ ~y.o.snap \/ ~y.alive
    THEN FinishClose(Closing(y, cb, lost))
    ELSE Send(Closing(y, cb, lost), "disconnect", 0)

\* close: a link this owner made is disconnected before the sender goes.
CloseWith(y, cb, lost, cut) ==
    IF cut \/ ~y.o.link \/ ~y.o.snap \/ ~y.alive THEN FinishClose(Closing(y, cb, lost))
    ELSE Send(Closing(y, cb, lost), "disconnect", 0)

\* close(stop_by) by a component or the host: no callback is left.  cut says
\* that stop_by has passed; a close under way takes the earlier deadline.
OwnerClose(y, cut) ==
    CASE y.o.st = "active" -> CloseWith(y, NoOne, FALSE, cut)
      [] y.o.st = "closing" /\ cut -> [y EXCEPT !.due = @ \cup {"owner"}]
      [] OTHER -> y

\* fail: the waiting operation and, once delivered, the host are told after
\* the cleanup.
OwnerFail(y) == IF y.o.st = "active" THEN CloseWith(y, y.o.pend, y.o.deliv, FALSE) ELSE y

-----------------------------------------------------------------------------
(* Stopping a component while the sender may still be open.                *)

FinishIfClosed(y, d) == IF y.o.st # "closing" THEN FinishEntry(y, d) ELSE y

\* force_close: the sender goes within the entry's own cleanup deadline.
EntryForceClose(y, d) ==
    FinishIfClosed(OwnerClose([y EXCEPT !.e[d].fail = TRUE, !.e[d].ph = "closing"],
                              d \in y.dueE), d)

\* The entry stops: nothing of its start is awaited any more.  cut says that
\* the deadline its caller gave has passed.
Stopping(y, d, failed, cut) ==
    [Detach(y, d, y.e[d]) EXCEPT
        !.e[d] = [@ EXCEPT !.fail = failed, !.early = FALSE, !.own = FALSE, !.ph = "stopping"],
        !.dueE = IF cut THEN @ \cup {d} ELSE @ \ {d}]

\* Mutant: an unanswered StartNotify needs no StopNotify.
EntryStopEstablished(y, d, failed, cut) ==
    LET a == Stopping(y, d, failed, cut)
    IN CASE ~Live(y.e[d]) -> IF cut THEN [y EXCEPT !.dueE = @ \cup {d}] ELSE y
         [] Live(y.e[d]) /\ y.o.st = "closing" -> [a EXCEPT !.e[d].ph = "closing"]
         [] Live(y.e[d]) /\ (y.o.st = "closed" \/ ~y.e[d].exp) -> FinishEntry(a, d)
         [] OTHER -> IF cut THEN EntryForceClose(a, d) ELSE Send(a, "stop", d)

\* stop: without a sender wait for its end; an attempted StartNotify is
\* undone, or, with no time left for it, costs the sender.
EntryStopBy(y, d, failed, cut) ==
    LET a == Stopping(y, d, failed, cut)
    IN CASE ~Live(y.e[d]) -> IF cut THEN [y EXCEPT !.dueE = @ \cup {d}] ELSE y
         [] Live(y.e[d]) /\ y.o.st = "closing" -> [a EXCEPT !.e[d].ph = "closing"]
         [] Live(y.e[d]) /\ (y.o.st = "closed" \/ ~y.e[d].att) -> FinishEntry(a, d)
         [] OTHER -> IF cut THEN EntryForceClose(a, d) ELSE Send(a, "stop", d)

\* The stops of the entry itself: 500 ms from now.
EntryStop(y, d, failed) == EntryStopBy(y, d, failed, FALSE)

ProcEnd(y) == IF y.o.st = "closing" THEN y ELSE ProcComplete(y, "err")

\* fail of the procedure: a terminal failure gives up the sender.
ProcFailBy(y, terminal, cut) ==
    CASE y.p.ph = "closing" -> IF cut THEN [y EXCEPT !.due = @ \cup {"proc"}] ELSE y
      [] y.p.ph \in {"resolving", "active"} /\ ~terminal -> ProcComplete(y, "err")
      [] y.p.ph \in {"resolving", "active"} /\ terminal ->
            ProcEnd(OwnerClose([y EXCEPT !.p.ph = "closing",
                                         !.due = IF cut THEN @ \cup {"proc"} ELSE @ \ {"proc"}],
                               cut))
      [] OTHER -> y

ProcFail(y, terminal) == ProcFailBy(y, terminal, FALSE)

PairEnd(y) == IF y.o.st = "closing" THEN y ELSE PairComplete(y)

\* finish_cleanup: what may be left at the daemon ends with the sender.
FinishCleanup(y) ==
    IF y.g.snd THEN PairEnd(OwnerClose([y EXCEPT !.g.fail = TRUE], "pair" \in y.due))
    ELSE PairComplete(y)

\* The prompt is rejected and the cleanup begins.
PairClosing(y, failed, snd, cut) ==
    [y EXCEPT !.due = IF cut THEN @ \cup {"pair"} ELSE @ \ {"pair"},
              !.g = [@ EXCEPT !.fail = failed, !.ph = "closing", !.prompt = FALSE,
                              !.snd = @ \/ snd]]

\* close of the pairing: the agent is unregistered while there is time, and an
\* unconfirmed registration or Pair costs the sender.
PairCloseBy(y, failed, cut) ==
    LET g == y.g
        here == y.o.st = "active" /\ y.alive /\ ~cut
        snd == g.ph = "discovering" \/ g.regU \/ g.pairU \/ (g.reg /\ ~here)
        a == PairClosing(y, failed, snd, cut)
    IN CASE g.ph = "closing" -> IF cut THEN [y EXCEPT !.due = @ \cup {"pair"}] ELSE y
         [] g.ph \in {"discovering", "registering", "pairing"} ->
               IF g.reg /\ here THEN Send(a, "unregister", g.d) ELSE FinishCleanup(a)
         [] OTHER -> y

PairClose(y, failed) == PairCloseBy(y, failed, FALSE)

PairFail(y) == PairClose(y, TRUE)

CancelStreams(y) ==
    FoldLeft(LAMBDA x, d : EntryStopBy([x EXCEPT !.e[d].cxl = ByHost], d, FALSE, "host" \in x.due),
             y, SetToSortSeq(HostCancels(y), <))

\* close of the host: streams and an unfinished subscribe are cancelled, then
\* the pairing, then the procedure, all within the host's deadline.
HostClose(y, reply, status) ==
    LET cut == "host" \in y.due
    IN IF y.host # "run" THEN Later(y, status)
       ELSE ProcFailBy(PairCloseBy(CancelStreams(HostCloseBase(y, reply, status)), TRUE, cut),
                       TRUE, cut)

-----------------------------------------------------------------------------
(* LiveDiscovery: snapshot and link.                                       *)

\* query: at most Tries attempts within the deadline of the waiting request.
Query(y) ==
    CASE y.o.st # "active" \/ y.o.pend = NoOne -> y
      [] OTHER -> IF y.o.pend.d \in y.late \/ y.o.att = Tries THEN OwnerFail(y)
                  ELSE Send([y EXCEPT !.o.att = @ + 1, !.o.raced = FALSE], "query", 0)

\* refresh: one at a time, and only with a snapshot to refresh.
CanRefresh(y) == y.o.st = "active" /\ y.o.snap /\ y.o.pend = NoOne

Refresh(y, who) == Query([y EXCEPT !.o.pend = who, !.o.att = 0])

AcceptLink(y) == y.o.st = "active" /\ ~y.o.dirty /\ y.o.pend = NoOne /\ y.o.snap /\ y.o.up

\* invalidate: a reply under way is raced, and a waiting connect looks again.
Invalidate(y) ==
    IF y.o.wait
    THEN Query([y EXCEPT !.o.dirty = TRUE, !.o.wait = FALSE, !.o.att = 0])
    ELSE [y EXCEPT !.o.dirty = TRUE, !.o.raced = TRUE]

\* Procedure dispatch on the refreshed snapshot: target refused, or submitted;
\* write_submitted precedes the call.
ProcDispatch(y, found) ==
    CASE ~AcceptLink(y) -> ProcFail(y, TRUE)
      [] AcceptLink(y) /\ ~found -> ProcFail(y, FALSE)
      [] OTHER -> IF y.p.d \in y.late THEN ProcFail(y, TRUE)
                  ELSE Send([y EXCEPT !.p.ph = "active"], y.kind[y.p.d], y.p.d)

RegisterAgent(y) ==
    IF ~AcceptLink(y) \/ y.g.d \in y.late THEN PairFail(y)
    ELSE Send([y EXCEPT !.g = [@ EXCEPT !.ph = "registering", !.reg = TRUE, !.regU = TRUE]],
              "register", y.g.d)

PathTaken(y, d) ==
    \E x \in Entries(y) \ {d} : y.tgt[x] = y.tgt[d] /\ y.e[x].ph # "resolving"

\* Notification dispatch: one entry for a path, then StartNotify.
EntryDispatch(y, d, found) ==
    IF ~AcceptLink(y) \/ ~found \/ PathTaken(y, d) \/ d \in y.late THEN EntryStop(y, d, TRUE)
    ELSE Send([y EXCEPT !.e[d].ph = "starting", !.e[d].att = TRUE], "start", d)

\* complete: the waiting operation goes on.
Complete(y, found) ==
    LET who == y.o.pend
        a == [y EXCEPT !.o.deliv = TRUE, !.o.pend = NoOne]
    IN CASE who.k = "open" /\ y.host = "run" -> Answer([a EXCEPT !.opened = TRUE], who.d, "ok")
         [] who.k = "discover" /\ y.host = "run" ->
                Answer(a, who.d, IF found THEN "ok" ELSE "err")
         [] who.k = "proc" /\ y.p.ph = "resolving" -> ProcDispatch(a, found)
         [] who.k = "pair" /\ y.g.ph = "discovering" -> RegisterAgent(a)
         [] who.k = "sub" /\ y.e[who.d].ph = "resolving" ->
                EntryDispatch([a EXCEPT !.e[who.d].own = FALSE], who.d, found)
         [] OTHER -> a

\* advance_connection: only an owned, disconnected device is connected, once;
\* the link counts as made before Connect is acknowledged.
Advance(y, link) ==
    CASE link = "resolved" -> Complete([y EXCEPT !.o.linked = TRUE], TRUE)
      [] link # "resolved" /\ ~y.o.owned -> OwnerFail(y)
      [] OTHER -> IF link = "up" \/ y.o.tried THEN [y EXCEPT !.o.wait = TRUE]
                  ELSE IF y.o.pend.d \in y.late THEN OwnerFail(y)
                  ELSE Send([y EXCEPT !.o.tried = TRUE, !.o.link = TRUE], "connect", 0)

\* The reply to GetManagedObjects; link is what it shows.
Snapshot(y, link, found) ==
    CASE y.o.raced -> Query(y)
      [] ~y.o.raced /\ y.o.linked /\ link # "resolved" -> OwnerFail(y)
      [] OTHER -> LET a == [y EXCEPT !.o.snap = TRUE, !.o.dirty = FALSE,
                                     !.o.up = (link = "resolved")]
                  IN IF ~y.o.deliv THEN Advance(a, link) ELSE Complete(a, found)

=============================================================================
