------------------------------ MODULE BluezHost ------------------------------
(***************************************************************************)
(* The native BlueZ process: host.hpp with the loop of main.cpp over the   *)
(* session of BluezSession, the daemon behind the bus and the BEAM side.   *)
(*                                                                         *)
(*   y   the process, see BluezSession                                     *)
(*   w   the daemon and the device: link, notification sessions and agent  *)
(*       of this sender, writes done; load is what the BEAM side requests  *)
(*       and what else may happen                                          *)
(*                                                                         *)
(* A deadline passes at any time; a cleanup's deadline passes only while   *)
(* the cleanup lasts.  A signal and a reply arrive as they are produced:   *)
(* the bus is first in, first out, and a forgotten call may still take     *)
(* effect.  Request 1 is open; flow_open has been received.                *)
(***************************************************************************)
EXTENDS BluezSession

CONSTANT Workloads \* records: owned, link, kinds, chars and the bounds ids, odd, values

VARIABLES y, w

vars == <<y, w>>

InitHost ==
    [host |-> "run", opened |-> FALSE, crep |-> FALSE, status |-> 0, input |-> TRUE,
     st |-> [d \in Ids |-> "none"], kind |-> [d \in Ids |-> "none"], tgt |-> [d \in Ids |-> 0],
     ans |-> [d \in Ids |-> <<>>], closed |-> "no", late |-> {}, due |-> {}, dueE |-> {},
     calls |-> {}, stray |-> {}, alive |-> FALSE, disc |-> FALSE,
     o |-> NewOwner, p |-> NewProcedure, g |-> NewPairing, e |-> [d \in Ids |-> NewEntry],
     r |-> NewReports]

Init ==
    /\ y = InitHost
    /\ \E load \in Workloads :
          w = [load |-> load, link |-> load.link, made |-> FALSE, notify |-> {}, agent |-> FALSE,
               lost |-> FALSE, odd |-> 0, prompts |-> 0, values |-> 0]

-----------------------------------------------------------------------------
(* Requests.                                                               *)

NextId == Cardinality({d \in Ids : y.st[d] # "none"}) + 1

\* stop: end of input, malformed input or a signal; a close under way goes on.
Stop(x) == HostClose([x EXCEPT !.input = FALSE], FALSE, 1)

\* control, for the reply to a pairing prompt: it answers the prompt or ends
\* the pairing.
AgentReply(x, d, accept) ==
    CASE ~PairActive(x) -> Answer(x, d, "err")
      [] PairActive(x) /\ (x.g.ph # "pairing" \/ ~x.g.prompt \/ x.g.d \in x.late) ->
            Answer(PairFail(x), d, "err")
      [] OTHER -> LET a == [x EXCEPT !.g.prompt = FALSE]
                  IN Answer(IF accept THEN a ELSE PairFail(a), d, "ok")

\* control, for an unsubscribe: the stream falls silent, its entry is stopped
\* within the deadline of the request, which may pass after control saw it.
Unsubscribe(x, d, cut) ==
    LET t == x.tgt[d]
        a == [x EXCEPT !.r = Silence(@, t)]
    IN IF t \notin Streams(x.r) \/ t \notin Entries(x) \/ x.e[t].cxl # 0 THEN Answer(a, d, "err")
       ELSE EntryStopBy([a EXCEPT !.st[d] = "control", !.e[t].cxl = d], t, FALSE, cut)

Ready(x) == x.opened /\ x.o.st = "active"

Control(x, d, accept) ==
    CASE ~Ready(x) -> Answer(x, d, "err")
      [] Ready(x) /\ x.kind[d] = "agent_reply" -> AgentReply(x, d, accept)
      [] OTHER -> Unsubscribe(x, d, ~accept)

\* receive: every request reserves its reply first; controls run at once.
\* accept: the decision of an agent_reply; an unsubscribe is still in time.
Receive(k, t, accept) ==
    LET d == NextId
        a == [y EXCEPT !.kind[d] = k, !.tgt[d] = t, !.st[d] = "queued", !.r.slots = @ + 1]
    IN /\ y.input /\ y.host = "run" /\ d \in Ids
       /\ IF d = 1 THEN k = "open" ELSE d <= w.load.ids /\ k \in w.load.kinds
       /\ CASE k = "subscribe" -> t \in w.load.chars
            [] k = "unsubscribe" -> t \in 2..(d - 1) /\ y.kind[t] = "subscribe"
            [] OTHER -> t = 0
       /\ k \in {"agent_reply", "unsubscribe"} \/ accept
       /\ k = "unsubscribe" /\ ~accept => w.odd < w.load.odd
       /\ y' = CASE y.r.slots = ReplyLimit -> Stop(y)
                 [] OTHER -> IF k \in {"agent_reply", "unsubscribe"} THEN Control(a, d, accept)
                             ELSE a
       /\ w' = [w EXCEPT !.odd = IF k = "unsubscribe" /\ ~accept THEN @ + 1 ELSE @]

\* close; its deadline may pass before the components are told.
ReceiveClose(cut) ==
    /\ y.input /\ y.host = "run"
    /\ cut => w.odd < w.load.odd
    /\ y' = HostClose([y EXCEPT !.due = IF cut THEN @ \cup {"host"} ELSE @], TRUE, 0)
    /\ w' = [w EXCEPT !.odd = IF cut THEN @ + 1 ELSE @]

\* End of input, a malformed line, or a signal.
InputEnds ==
    /\ y.input /\ y.host # "finished" /\ w.odd < w.load.odd
    /\ y' = Stop(y)
    /\ w' = [w EXCEPT !.odd = @ + 1]

Ack(n) ==
    /\ y.input /\ n \in (y.r.ack + 1)..y.r.tx
    /\ y' = [y EXCEPT !.r = Acknowledge(@, n)]
    /\ UNCHANGED w

\* A turn writes what is queued, or nothing into a full pipe.
Written ==
    /\ y.r.out # <<>>
    /\ y' = [y EXCEPT !.r = Flush(@)]
    /\ UNCHANGED w

-----------------------------------------------------------------------------
(* The turn of the loop: poll of the components, then the host's part.     *)

OwnerTick(x) ==
    CASE x.o.st = "closing" -> IF "owner" \in x.due \/ ~x.alive THEN FinishClose(x) ELSE x
      [] x.o.st = "active" /\ ~x.o.deliv /\ 1 \in x.late -> OwnerFail(x)
      [] OTHER -> x

ProcTick(x) ==
    CASE x.p.ph = "closing" -> ProcEnd(IF "proc" \in x.due THEN OwnerClose(x, TRUE) ELSE x)
      [] x.p.ph \in {"resolving", "active"} ->
            IF x.o.st # "active" \/ x.p.d \in x.late THEN ProcFail(x, TRUE) ELSE x
      [] OTHER -> x

PairTick(x) ==
    CASE x.g.ph = "closing" ->
            IF "pair" \in x.due
            THEN PairEnd(OwnerClose([x EXCEPT !.g.snd = TRUE, !.g.fail = TRUE], TRUE))
            ELSE IF x.o.st = "closed" THEN FinishCleanup(x) ELSE x
      [] x.g.ph \in {"discovering", "registering", "pairing"} ->
            IF x.o.st # "active" \/ x.g.d \in x.late THEN PairFail(x) ELSE x
      [] OTHER -> x

EntryTick(x, d) ==
    CASE d \notin Entries(x) -> x
      [] d \in Entries(x) /\ x.o.st = "closed" -> FinishEntry(EntryStop(x, d, TRUE), d)
      [] d \in Entries(x) /\ x.o.st = "closing" -> EntryStop(x, d, TRUE)
      [] OTHER ->
            IF x.e[d].ph = "stopping" /\ d \in x.dueE THEN EntryForceClose(x, d)
            ELSE IF x.e[d].ph \in {"resolving", "starting"} /\ d \in x.late
            THEN EntryStop(x, d, TRUE) ELSE x

EntryTicks(x) == FoldLeft(EntryTick, x, SetToSortSeq(Entries(x), <))

Busy(x) == PairActive(x) \/ ProcActive(x) \/ Entries(x) # {}

Left(x) == Busy(x) \/ x.o.st \in {"active", "closing"}

FailAll(x, states) ==
    FoldLeft(LAMBDA v, d : Answer(v, d, "err"), x,
             SetToSortSeq({d \in Ids : x.st[d] \in states}, <))

\* Mutant: controls that wait for a stream are forgotten.
FinishedKeepsControls(x) ==
    [ForceClose(FailAll(x, {"active"})) EXCEPT
        !.host = "finished", !.status = IF Left(x) THEN 1 ELSE @, !.p = NewProcedure,
        !.g = NewPairing, !.e = [d \in Ids |-> NewEntry],
        !.closed = IF x.crep THEN IF Left(x) \/ x.status = 1 THEN "err" ELSE "ok" ELSE "no"]

\* What still waits fails; then the close itself is answered and the
\* components go without a further callback.
Finished(x) ==
    LET status == IF Left(x) THEN 1 ELSE x.status
    IN [ForceClose(FailAll(x, {"active", "control"})) EXCEPT
           !.host = "finished", !.status = status, !.p = NewProcedure, !.g = NewPairing,
           !.e = [d \in Ids |-> NewEntry],
           !.closed = IF x.crep THEN IF status = 0 THEN "ok" ELSE "err" ELSE "no"]

FinishedWhenDone(x) == IF Left(x) /\ "host" \notin x.due THEN x ELSE Finished(x)

\* complete_close: after the components the link, then the rest.
CompleteClose(x) ==
    FinishedWhenDone(IF Busy(x) THEN x ELSE OwnerClose(x, "host" \in x.due))

StartPairing(x, d) ==
    LET a == [x EXCEPT !.g = [NewPairing EXCEPT !.ph = "discovering", !.d = d]]
    IN CASE ~x.o.snap -> Answer(x, d, "err")
         [] x.o.snap /\ x.o.dirty ->
               IF CanRefresh(a) THEN Refresh(a, [k |-> "pair", d |-> d]) ELSE PairFail(a)
         [] OTHER -> RegisterAgent(a)

StartProcedure(x, d) ==
    LET a == [x EXCEPT !.p = [NewProcedure EXCEPT !.ph = "resolving", !.d = d]]
    IN CASE x.kind[d] = "health" -> Send([a EXCEPT !.p.ph = "active"], "health", d)
         [] OTHER -> IF CanRefresh(a) THEN Refresh(a, [k |-> "proc", d |-> d])
                     ELSE ProcFail(a, FALSE)

StartEntry(x, d) ==
    LET a == [x EXCEPT !.e[d] = [NewEntry EXCEPT !.ph = "resolving", !.comp = TRUE, !.own = TRUE]]
    IN IF CanRefresh(a) THEN Refresh(a, [k |-> "sub", d |-> d])
       ELSE EntryStop([a EXCEPT !.e[d].own = FALSE], d, TRUE)

\* open: a private bus connection, then the calls of the start.
StartOwner(x, d) ==
    Send([x EXCEPT !.o = [NewOwner EXCEPT !.st = "active", !.owned = w.load.owned,
                                          !.pend = [k |-> "open", d |-> d]], !.alive = TRUE],
         "boot", 0)

\* dispatch: the next request, once nothing is active.
Dispatch(x) ==
    LET queued == {d \in Ids : x.st[d] = "queued"}
        d == CHOOSE i \in queued : \A j \in queued : i <= j
        a == [x EXCEPT !.st[d] = "active"]
        k == x.kind[d]
    IN IF queued = {} \/ ActiveId(x) # {} THEN x
       ELSE CASE k = "open" -> StartOwner(a, d)
              [] k # "open" /\ ~Ready(x) -> Answer(a, d, "err")
              [] Ready(x) /\ k = "discover" ->
                    IF CanRefresh(a) THEN Refresh(a, [k |-> "discover", d |-> d])
                    ELSE Answer(a, d, "err")
              [] Ready(x) /\ k = "pair" -> StartPairing(a, d)
              [] Ready(x) /\ k = "subscribe" -> StartEntry(a, d)
              [] OTHER -> StartProcedure(a, d)

\* Queued requests expire one by one.
ExpireQueued(x) ==
    FoldLeft(LAMBDA v, d : Answer(v, d, "err"), x,
             SetToSortSeq({d \in x.late : x.st[d] = "queued"}, <))

HostTurn(x) == IF x.host = "closing" THEN CompleteClose(x) ELSE Dispatch(ExpireQueued(x))

Poll ==
    /\ y.host # "finished"
    /\ y' = HostTurn(EntryTicks(PairTick(ProcTick(OwnerTick(y)))))
    /\ y' # y
    /\ UNCHANGED w

-----------------------------------------------------------------------------
(* Replies of the bus.                                                     *)

StopUnless(took, x, d) == IF took THEN x ELSE EntryStop(x, d, TRUE)

\* value: the first value before the confirmation is kept, a second ends the
\* entry; afterwards it is published, or the stream overflows.
Value(x, d) ==
    CASE x.e[d].ph = "starting" ->
            StopUnless(~x.e[d].early, [x EXCEPT !.e[d].early = TRUE], d)
      [] x.e[d].ph = "active" ->
            StopUnless(Publish(x.r, d).s[d].n > x.r.s[d].n, [x EXCEPT !.r = Publish(@, d)], d)
      [] OTHER -> x

\* StartNotify is confirmed: the stream opens, the subscribe is answered, and
\* a value that came first follows.
Established(x, d) ==
    LET a == Answer([x EXCEPT !.e[d] = [@ EXCEPT !.ph = "active", !.exp = TRUE, !.comp = FALSE,
                                                 !.early = FALSE],
                              !.r = OpenStream(@, d)], d, "ok")
    IN IF x.e[d].early THEN Value(a, d) ELSE a

StartReply(x, d, res) ==
    CASE x.e[d].ph # "starting" -> x
      [] x.e[d].ph = "starting" /\ res = "ok" /\ d \notin x.late -> Established(x, d)
      [] OTHER -> EntryStop([x EXCEPT !.e[d].att = (res # "remote" \/ d \in x.late)], d, TRUE)

StopReply(x, d, res) ==
    CASE x.e[d].ph # "stopping" -> x
      [] x.e[d].ph = "stopping" /\ res = "ok" -> FinishEntry(x, d)
      [] OTHER -> EntryForceClose(x, d)

ProcReply(x, d, res) ==
    CASE x.p.ph # "active" \/ x.p.d # d -> x
      [] x.p.ph = "active" /\ x.p.d = d /\ (res = "bad" \/ d \in x.late) -> ProcFail(x, TRUE)
      [] OTHER -> IF res = "ok" THEN ProcComplete(x, "ok") ELSE ProcFail(x, FALSE)

RegisterReply(x, res) ==
    CASE x.g.ph # "registering" -> x
      [] x.g.ph = "registering" /\ res = "ok" /\ x.g.d \notin x.late ->
            Send([x EXCEPT !.g = [@ EXCEPT !.regU = FALSE, !.ph = "pairing", !.pairU = TRUE]],
                 "pair", x.g.d)
      [] OTHER -> LET known == res = "remote" /\ x.g.d \notin x.late
                  IN PairFail([x EXCEPT !.g.reg = ~known, !.g.regU = ~known])

PairReply(x, res) ==
    LET a == [x EXCEPT !.g.pairU = FALSE]
    IN CASE x.g.ph # "pairing" -> x
         [] x.g.ph = "pairing" /\ (res = "bad" \/ x.g.d \in x.late) -> PairFail(x)
         [] OTHER -> IF res = "remote" THEN PairFail(a)
                     ELSE IF x.g.prompt THEN PairFail([a EXCEPT !.g.snd = TRUE])
                     ELSE PairClose(a, FALSE)

UnregisterReply(x, res) ==
    IF x.g.ph # "closing" THEN x
    ELSE FinishCleanup([x EXCEPT !.g.reg = FALSE, !.g.snd = @ \/ res # "ok"])

\* The calls of a start follow each other; the last leads to the snapshot.
BootReply(x, res) ==
    CASE x.o.st # "active" -> x
      [] x.o.st = "active" /\ res # "ok" -> OwnerFail(x)
      [] OTHER -> LET a == [x EXCEPT !.o.boot = @ + 1]
                  IN IF a.o.boot = Boot THEN Query(a) ELSE Send(a, "boot", 0)

ConnectReply(x, res) ==
    CASE x.o.st # "active" -> x
      [] x.o.st = "active" /\ res = "ok" -> Query([x EXCEPT !.o.att = 0])
      [] OTHER -> OwnerFail([x EXCEPT !.o.link = (res # "remote")])

Handle(x, c, res) ==
    CASE c.op = "boot" -> BootReply(x, res)
      [] c.op = "query" -> IF res = "bad" THEN OwnerFail(x) ELSE Snapshot(x, w.link, res = "ok")
      [] c.op = "connect" -> ConnectReply(x, res)
      [] c.op = "disconnect" -> IF x.o.st = "closing" THEN FinishClose(x) ELSE x
      [] c.op = "start" -> StartReply(x, c.d, res)
      [] c.op = "stop" -> StopReply(x, c.d, res)
      [] c.op = "register" -> RegisterReply(x, res)
      [] c.op = "pair" -> PairReply(x, res)
      [] c.op = "unregister" -> UnregisterReply(x, res)
      [] OTHER -> ProcReply(x, c.d, res)

-----------------------------------------------------------------------------
(* The daemon.                                                             *)

\* What a call does at the daemon.
Effect(v, c) ==
    CASE c.op = "connect" /\ v.link = "down" -> [v EXCEPT !.link = "up", !.made = TRUE]
      [] c.op = "disconnect" -> [v EXCEPT !.link = "down", !.made = FALSE]
      [] c.op = "start" -> [v EXCEPT !.notify = @ \cup {c.d}]
      [] c.op = "stop" -> [v EXCEPT !.notify = {x \in @ : y.tgt[x] # y.tgt[c.d]}]
      [] c.op = "register" -> [v EXCEPT !.agent = TRUE]
      [] c.op = "unregister" -> [v EXCEPT !.agent = FALSE]
      [] OTHER -> v

Opposite(op) ==
    CASE op = "stop" -> "start" [] op = "unregister" -> "register"
      [] op = "disconnect" -> "connect" [] OTHER -> "none"

\* A stop is not taken before the start that was sent ahead of it.
InTurn(c) ==
    /\ [op |-> Opposite(c.op), d |-> c.d] \notin y.stray
    /\ [op |-> Opposite(c.op), d |-> c.d, done |-> FALSE] \notin y.calls

\* A call takes effect before its reply, or with nobody waiting for one.
TakesEffect ==
    \/ \E c \in {x \in y.calls : ~x.done} :
          /\ InTurn(c) /\ Effect(w, c) # w /\ y.alive
          /\ y' = [y EXCEPT !.calls = (@ \ {c}) \cup {[c EXCEPT !.done = TRUE]}]
          /\ w' = Effect(w, c)
    \/ \E c \in y.stray :
          /\ InTurn(c)
          /\ y' = [y EXCEPT !.stray = @ \ {c}]
          /\ w' = IF y.alive \/ c.op \in {"connect", "disconnect"} THEN Effect(w, c) ELSE w

\* The reply to a call; an error reply named by the daemon means no effect.
Reply(c, res) ==
    /\ c \in y.calls /\ InTurn(c)
    /\ res = "remote" => ~c.done
    /\ res # "ok" => w.odd < w.load.odd
    /\ y' = Handle([y EXCEPT !.calls = @ \ {c}], c, res)
    /\ w' = [IF c.done \/ res # "ok" THEN w ELSE Effect(w, c) EXCEPT
                !.odd = IF res = "ok" THEN @ ELSE @ + 1]

\* A call whose deadline passed is answered by the library itself.
CallTimeout(c) ==
    /\ c \in y.calls
    /\ CASE c.op \in {"boot", "query", "connect"} -> y.o.pend.d \in y.late
         [] c.op = "disconnect" -> "owner" \in y.due
         [] c.op = "stop" -> c.d \in y.dueE
         [] c.op = "unregister" -> TRUE
         [] OTHER -> c.d \in y.late
    /\ y' = LET a == Forget(y, {c}) IN Handle(a, c, "bad")
    /\ UNCHANGED w

-----------------------------------------------------------------------------
(* Signals, agent calls and time.                                          *)

\* A value of a characteristic with a notification session.
ValueSignal(d) ==
    /\ y.alive /\ d \in w.notify /\ w.values < w.load.values
    /\ y' = FoldLeft(Value, y, SetToSortSeq({x \in Entries(y) : y.tgt[x] = y.tgt[d]}, <))
    /\ w' = [w EXCEPT !.values = @ + 1]

StopOn(x, ch) ==
    FoldLeft(LAMBDA v, d : EntryStop(v, d, TRUE), x,
             SetToSortSeq({d \in Entries(x) : x.tgt[d] = ch /\ x.e[d].ph # "resolving"}, <))

\* Metadata of a characteristic changed, or its notification ended: the owner
\* looks again, the entries on it stop.
CharSignal(ch, meta) ==
    /\ y.alive /\ y.o.boot = Boot /\ w.odd < w.load.odd
    /\ \E d \in Entries(y) : y.tgt[d] = ch
    /\ y' = IF y.o.st # "active" THEN y
            ELSE StopOn(IF meta THEN Invalidate(y) ELSE y, ch)
    /\ w' = [w EXCEPT !.odd = @ + 1,
                      !.notify = IF meta THEN @ ELSE {x \in @ : y.tgt[x] # ch}]

\* The device connects, resolves its services or disconnects.
LinkSignal(to) ==
    /\ CASE to = "resolved" -> w.link = "up"
         [] to = "up" -> w.link = "down"
         [] OTHER -> w.link # "down"
    /\ to = "resolved" \/ w.odd < w.load.odd
    /\ w' = [w EXCEPT !.link = to, !.made = @ /\ to # "down",
                      !.odd = IF to = "resolved" THEN @ ELSE @ + 1]
    /\ y' = CASE y.o.st # "active" \/ y.o.boot < Boot -> y
              [] OTHER -> IF y.o.linked /\ to # "resolved" THEN OwnerFail(y) ELSE Invalidate(y)

\* The bus connection fails or org.bluez changes its owner.
SenderLost ==
    /\ y.alive /\ w.odd < w.load.odd
    /\ y' = OwnerFail([Forget(y, y.calls) EXCEPT !.alive = FALSE])
    /\ w' = [w EXCEPT !.odd = @ + 1, !.lost = TRUE]

\* BlueZ asks the agent; an overlapping or early question ends the pairing.
Prompt ==
    /\ w.agent /\ y.alive /\ y.g.ph \in {"registering", "pairing"} /\ w.prompts < 2
    /\ y' = IF y.g.ph # "pairing" \/ y.g.prompt \/ y.g.d \in y.late THEN PairFail(y)
            ELSE [y EXCEPT !.g.prompt = TRUE]
    /\ w' = [w EXCEPT !.prompts = @ + 1]

\* BlueZ releases the agent or cancels the question.
AgentEnds(release) ==
    /\ w.agent /\ y.alive /\ y.g.ph \in {"registering", "pairing"} /\ w.odd < w.load.odd
    /\ y' = PairFail([y EXCEPT !.g.prompt = FALSE,
                               !.g.reg = @ /\ ~(release /\ y.g.ph = "pairing")])
    /\ w' = [w EXCEPT !.odd = @ + 1, !.agent = ~release]

RequestExpires(d) ==
    /\ y.st[d] \in {"queued", "active"} /\ d \notin y.late /\ w.odd < w.load.odd
    /\ y' = [y EXCEPT !.late = @ \cup {d}]
    /\ w' = [w EXCEPT !.odd = @ + 1]

\* Cleanups under way, besides the host's own.
Cleanups ==
    {x \in {"owner", "proc", "pair"} : CASE x = "owner" -> y.o.st = "closing"
                                         [] x = "proc" -> y.p.ph = "closing"
                                         [] OTHER -> y.g.ph = "closing"}

StoppingEntries == {d \in Entries(y) : y.e[d].ph \in {"stopping", "closing"}}

\* The deadline of one cleanup; the host's does not come before the others.
CleanupExpires ==
    /\ w.odd < w.load.odd
    /\ \/ \E x \in Cleanups \ y.due : y' = [y EXCEPT !.due = @ \cup {x}]
       \/ \E d \in StoppingEntries \ y.dueE : y' = [y EXCEPT !.dueE = @ \cup {d}]
       \/ /\ y.host = "closing" /\ "host" \notin y.due
          /\ y' = [y EXCEPT !.due = @ \cup Cleanups \cup {"host"}, !.dueE = @ \cup StoppingEntries]
    /\ w' = [w EXCEPT !.odd = @ + 1]

Next ==
    \/ \E k \in {"open"} \cup w.load.kinds, t \in 0..MaxIds, a \in BOOLEAN : Receive(k, t, a)
    \/ \E cut \in BOOLEAN : ReceiveClose(cut)
    \/ InputEnds
    \/ \E n \in 1..y.r.tx : Ack(n)
    \/ Written \/ Poll
    \/ TakesEffect
    \/ \E c \in y.calls : (\E res \in {"ok", "remote", "bad"} : Reply(c, res)) \/ CallTimeout(c)
    \/ \E d \in Ids : ValueSignal(d) \/ RequestExpires(d)
    \/ \E ch \in Chars, meta \in BOOLEAN : CharSignal(ch, meta)
    \/ \E to \in {"down", "up", "resolved"} : LinkSignal(to)
    \/ SenderLost \/ Prompt
    \/ \E release \in BOOLEAN : AgentEnds(release)
    \/ CleanupExpires

Spec == Init /\ [][Next]_vars

-----------------------------------------------------------------------------
(* Properties.                                                             *)

\* Every request is in a known state, and the bounds of the output and of the
\* report credit are kept (output.hpp, credit.hpp, report_queue.hpp).
TypeOK ==
    /\ y.host \in {"run", "closing", "finished"}
    /\ \A d \in Ids : y.st[d] \in {"none", "queued", "active", "control", "done"}
    /\ y.o.st \in {"none", "active", "closing", "closed"}
    /\ y.r.slots \in 0..ReplyLimit
    /\ Len(y.r.recs) = y.r.seq - y.r.ack
    /\ Len(y.r.recs) <= Frames /\ Len(y.r.queue) <= QueueFrames
    /\ \A d \in Ids : Outstanding(y.r, d) <= Window /\ Queued(y.r, d) <= QueueLimit
    /\ Cardinality(ActiveId(y)) <= 1

\* A request reserves its reply when it is received and gets exactly one,
\* whatever happens to the sender, the link and the close around it: none is
\* answered twice, and none is left when the process ends (host.hpp).
AnsweredOnce ==
    /\ TypeOK
    /\ \A d \in Ids :
         /\ Len(y.ans[d]) = IF y.st[d] = "done" THEN 1 ELSE 0
         /\ y.host = "finished" => y.st[d] \in {"none", "done"}

\* A link found connected is never disconnected, and a link made by Connect,
\* acknowledged or not, gets Disconnect before the process ends, unless the
\* sender was lost or a cleanup ran out of its own time (discovery.hpp).
LinkCustody ==
    /\ y.disc => y.o.tried /\ w.load.owned
    /\ y.host = "finished" /\ w.made => y.disc \/ w.lost \/ y.due # {} \/ y.dueE # {}

\* WBL.04:80-87, 232-233: a failed or stalled StopNotify closes the sender
\* within the cleanup grace, which for a link this owner established also
\* bounds the submission of Disconnect.  So an owner that closed under a host
\* that goes on, with its bus connection intact, has sent Disconnect.  This is
\* what the document says; the code breaks it, and LinkCustody is what it keeps.
LinkReleased ==
    y.o.st = "closed" /\ y.host = "run" /\ w.made => y.disc \/ w.lost

\* While the sender is in use, every notification session it holds at the
\* daemon has an entry that will stop it, also when StartNotify took effect
\* after its request had been given up (notifications.hpp), and an agent
\* registered at the daemon has a pairing that will unregister it: a pairing
\* reported as done left none behind (pairing.hpp).
DaemonCustody ==
    y.o.st = "active" /\ y.alive =>
        /\ \A d \in w.notify : d \in Entries(y) /\ y.e[d].att
        /\ w.agent => PairActive(y)

\* What the BEAM side sees of a stream: its subscribe reply, then the values
\* it accepted in order and none missing under increasing report sequences,
\* then at most one error, then one barrier that names the last report; the
\* cancellation is confirmed after the barrier.  A report waits only while its
\* stream has no credit (reports.hpp, report_queue.hpp, notifications.hpp).
StreamDiscipline ==
    /\ \A i \in DOMAIN y.r.queue : ~HasCredit(y.r, y.r.queue[i].d)
    /\ \A d \in {x \in Ids : y.kind[x] = "subscribe" /\ y.r.hist[x] # <<>>} :
          LET h == y.r.hist[d]
              At(t) == {i \in DOMAIN h : h[i].t = t}
              values == SelectSeq(h, LAMBDA f : f.t = "value")
              last == IF values = <<>> THEN 0 ELSE values[Len(values)].n
          IN /\ h[1].t = "reply"
             /\ \A i \in DOMAIN values :
                   values[i].v = i /\ (i > 1 => values[i - 1].n < values[i].n)
             /\ Cardinality(At("error")) <= 1 /\ Cardinality(At("barrier")) <= 1
             /\ \A j \in At("barrier") :
                   /\ h[j].n = last
                   /\ \A i \in At("value") \cup At("error") : i < j
             /\ \A i \in At("error"), j \in At("value") : j < i
             /\ \A i \in At("reply") \ {1} : h[i].n = 1 => \E j \in At("barrier") : j < i

=============================================================================
