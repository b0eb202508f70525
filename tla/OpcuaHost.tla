------------------------------ MODULE OpcuaHost ------------------------------
(***************************************************************************)
(* The native OPC UA process: the owner of owner.c with its request slots, *)
(* the bounded output of output.c and the loop of main.c, over the session *)
(* of OpcuaSession, with the server behind the SDK.                        *)
(*                                                                         *)
(*   z   the process: session phase, slots, queued output frames with      *)
(*       their credit, fin (how it ended), the session record s, and the   *)
(*       history: replies per request, mutations sent, reports per         *)
(*       subscription                                                      *)
(*   w   the environment: what the BEAM side requests (load), and the      *)
(*       server's continuation points (stray: those of a Browse without    *)
(*       allow_continuation), subscriptions, and how many messages each    *)
(*       has published                                                     *)
(*   pc  position in the loop: input lines, then the tick: dispatch, the   *)
(*       SDK's callbacks, completion slot by slot, reports                 *)
(*                                                                         *)
(* The process is single-threaded.  Requests are numbered in the order of  *)
(* their arrival, which is the order of operation.sequence.  A deadline    *)
(* may be found expired whenever it is looked at.  A frame is written as   *)
(* soon as it has credit; a blocked pipe looks like missing credit.        *)
(***************************************************************************)
EXTENDS OpcuaSession

CONSTANTS Workloads, \* what the BEAM side and the server do, each a record of
                     \* the kinds of operations, the bounds on requests (ids) and
                     \* on messages of all subscriptions (msgs), and how many of
                     \* a subscription are lost, repeated or unusable (odd)
          MaxIds,    \* bound on requests
          MaxHandle, \* request handles before the wrap, 99999
          OutFrames, \* queued output frames, 64
          Credit     \* credit granted at the start, at most 16

VARIABLES z, w, pc

vars == <<z, w, pc>>

Ids == 1..MaxIds

FreeSlot == [st |-> "free", kind |-> "none", id |-> 0, handle |-> 0]

Event(t, from, n) == [t |-> t, from |-> from, n |-> n]

NewServer(load) ==
    [conts |-> {}, stray |-> {}, remotes |-> {}, high |-> [d \in Ids |-> 0], odd |-> [d \in Ids |-> 0],
     load |-> load]

At(p) == [at |-> p, i |-> 0]

Init ==
    /\ z = [sess |-> "idle", slot |-> [i \in Slots |-> FreeSlot], q |-> 0, credit |-> Credit,
            used |-> 0, fin |-> "no", next |-> 1, handle |-> 1, s |-> NewSession,
            ans |-> [d \in Ids |-> <<>>], mut |-> {}, hist |-> [d \in Ids |-> <<>>]]
    /\ \E load \in Workloads : w = NewServer(load)
    /\ pc = At("input")

-----------------------------------------------------------------------------
(* Output: output.c, emit, replies and the terminal control.               *)

Finish(y, how) == [y EXCEPT !.fin = how]

\* The terminal control drops the queued frames.
Terminal(y) == IF y.fin # "no" THEN y ELSE [Finish(y, "terminal") EXCEPT !.q = 0]

\* wop_output_flush: credited frames leave in order.
Flush(y) ==
    LET m == IF y.q < y.credit THEN y.q ELSE y.credit
    IN [y EXCEPT !.q = @ - m, !.credit = @ - m, !.used = @ + m]

\* emit: a full queue ends the process.
Emit(y) == IF y.q = OutFrames THEN Terminal(y) ELSE Flush([y EXCEPT !.q = @ + 1])

Ended(y) == y.fin # "no"

Reply(y, d, a) ==
    LET e == Emit(y)
    IN IF Ended(y) \/ Ended(e) \/ d = 0 THEN e ELSE [e EXCEPT !.ans[d] = Append(@, a)]

Failure(unknown) == IF unknown THEN "unknown" ELSE "none"

-----------------------------------------------------------------------------
(* Slots.                                                                  *)

InState(y, S) == {i \in Slots : y.slot[i].st \in S}

\* Mutant: a slot is free as soon as its request is retired.
RetireFrees(y, i) ==
    [y EXCEPT !.s = RetireOp(y.s, i, y.slot[i].st = "queued"), !.slot[i] = FreeSlot]

\* retire: SDK work that still has a callback to come keeps its slot.
Retire(y, i) ==
    LET r == RetireOp(y.s, i, y.slot[i].st = "queued")
    IN [y EXCEPT !.s = r,
                 !.slot[i] = IF @.st = "dispatched" /\ ~Released(r, i)
                             THEN [@ EXCEPT !.st = "abandoned", !.id = 0]
                             ELSE FreeSlot]

RetireAll(y) ==
    FoldLeft(LAMBDA v, i : IF v.slot[i].st \in {"queued", "dispatched"} THEN Retire(v, i) ELSE v,
             y, SetToSortSeq(Slots, LAMBDA a, b : a < b))

HandleUsed(y, h) == \E i \in Slots : y.slot[i].st # "free" /\ y.slot[i].handle = h

\* next_handle: the first unused handle from next_handle on, around the wrap.
NextHandle(y) ==
    LET from(k) == ((y.handle + k - 1) % MaxHandle) + 1
        k == CHOOSE a \in 0..MaxHandle - 1 :
                ~HandleUsed(y, from(a)) /\ \A b \in 0..a - 1 : HandleUsed(y, from(b))
    IN from(k)

-----------------------------------------------------------------------------
(* Input lines: handle_line and its handlers.  Several may be read before  *)
(* the next tick.                                                          *)

Reading == pc.at = "input" /\ ~Ended(z)

\* A request that cannot be admitted: the session is not open, its deadline
\* has passed, every slot is taken, or its parameters are refused.
Refuse ==
    /\ Reading
    /\ z.next <= w.load.ids
    /\ z' = [Reply(z, z.next, "none") EXCEPT !.next = @ + 1]
    /\ UNCHANGED <<w, pc>>

\* handle_operation with what prepare makes of the session for each slot.
Admit(kind, prepared) ==
    /\ Reading
    /\ kind \in w.load.kinds
    /\ z.sess = "open"
    /\ z.next <= w.load.ids
    /\ InState(z, {"free"}) # {}
    /\ LET i == CHOOSE f \in InState(z, {"free"}) : \A g \in InState(z, {"free"}) : f <= g
           h == NextHandle(z)
       IN /\ ~z.s.op[i].pending
          /\ z' = [z EXCEPT !.slot[i] = [st |-> "queued", kind |-> kind, id |-> z.next, handle |-> h],
                            !.next = @ + 1, !.handle = (h % MaxHandle) + 1, !.s = prepared[i]]
    /\ UNCHANGED <<w, pc>>

RequestValue ==
    \E kind \in {"read", "write", "call"} : Admit(kind, [i \in Slots |-> PrepareValue(z.s, i, kind)])

RequestBrowse ==
    FreeChains(z.s) # {} /\ Admit("browse", [i \in Slots |-> PrepareBrowse(z.s, i)])

RequestSingle == Admit("single", [i \in Slots |-> PrepareSingle(z.s, i)])

RequestNext ==
    \E c \in Chains, kind \in {"next", "release"} :
        NamesLive(z.s, c) /\ Admit(kind, [i \in Slots |-> PrepareNext(z.s, i, kind, c)])

RequestSubscribe ==
    Reserved(z.s) < Cardinality(Subs) /\ Admit("subscribe", [i \in Slots |-> PrepareSubscribe(z.s, i)])

RequestUnsubscribe ==
    \E k \in Subs :
        CanUnsubscribe(z.s, k) /\ Admit("unsubscribe", [i \in Slots |-> PrepareUnsubscribe(z.s, i, k)])

\* handle_open: a second open, invalid parameters or credentials, or a passed
\* deadline end the process.
Open ==
    /\ Reading
    /\ \/ z' = Terminal(z)
       \/ z.sess = "idle" /\ z' = [z EXCEPT !.sess = "opening", !.s = SessionOpen(z.s)]
    /\ UNCHANGED <<w, pc>>

\* Mutant: a dispatched mutation that is canceled counts as not sent.
CancelNone ==
    /\ Reading
    /\ \E i \in InState(z, {"queued", "dispatched"}) :
          z' = Reply(Reply(Retire(z, i), z.slot[i].id, "none"), 0, "ok")
    /\ UNCHANGED <<w, pc>>

\* Mutant: a canceled request that was sent is answered again by its response.
CancelKeeps ==
    /\ Reading
    /\ \E i \in InState(z, {"queued", "dispatched"}) :
          LET sent == z.slot[i].st = "dispatched"
              a == Failure(sent /\ Mutation(z.slot[i].kind))
          IN z' = Reply(Reply(IF sent THEN z ELSE Retire(z, i), z.slot[i].id, a), 0, "ok")
    /\ UNCHANGED <<w, pc>>

\* handle_cancel of an outstanding request: its own reply, then the cancel's.
Cancel ==
    /\ Reading
    /\ \E i \in InState(z, {"queued", "dispatched"}) :
          LET sent == z.slot[i].st = "dispatched"
              a == Failure(sent /\ Mutation(z.slot[i].kind))
          IN z' = Reply(Reply(Retire(z, i), z.slot[i].id, a), 0, "ok")
    /\ UNCHANGED <<w, pc>>

\* handle_cancel of a request that is no longer outstanding, or too late.
CancelNothing ==
    /\ Reading
    /\ z' = Reply(z, 0, "ok")
    /\ UNCHANGED <<w, pc>>

\* handle_close: the session goes first, then the reply.
Close ==
    /\ Reading
    /\ LET y == [RetireAll(z) EXCEPT !.sess = "closed", !.s = CloseSession,
                                     !.slot = [i \in Slots |-> FreeSlot]]
           r == Reply(y, 0, "ok")
       IN z' \in {Terminal(y), IF Ended(r) THEN r ELSE Finish(r, "ok")}
    /\ w' = [w EXCEPT !.conts = {}, !.stray = {}, !.remotes = {}]
    /\ UNCHANGED pc

\* A malformed line, a second request with an outstanding id, an invalid
\* credit or an unfinished last line.
BadLine == Reading /\ z' = Terminal(z) /\ UNCHANGED <<w, pc>>

Eof == Reading /\ z' = Finish(z, "ok") /\ UNCHANGED <<w, pc>>

\* wop_output_credit: at most what was used comes back.
GrantCredit ==
    /\ Reading
    /\ \E m \in 1..z.used : z' = Flush([z EXCEPT !.credit = @ + m, !.used = @ - m])
    /\ UNCHANGED <<w, pc>>

-----------------------------------------------------------------------------
(* The tick: open_tick or dispatch_queued, the SDK, complete_dispatched    *)
(* and emit_reports.                                                       *)

\* open_tick with session_step and session_opened.
OpenTick ==
    /\ Reading
    /\ z.sess = "opening"
    /\ \/ z' = Terminal(z)
       \/ z.s.st = "connecting" /\ z' = [z EXCEPT !.s = RequestNamespaces(z.s)]
       \/ /\ z.s.st = "namespaces"
          /\ z' = Reply([z EXCEPT !.s = ReceiveNamespaces(z.s), !.sess = "open"], 0, "ok")
    /\ UNCHANGED <<w, pc>>

Tick ==
    /\ Reading
    /\ z.sess = "open"
    /\ InState(z, {"queued"}) # {}
    /\ pc' = At("dispatch")
    /\ UNCHANGED <<z, w>>

Oldest(y) == CHOOSE i \in InState(y, {"queued"}) :
                \A j \in InState(y, {"queued"}) : y.slot[i].id <= y.slot[j].id

Dispatch ==
    /\ pc.at = "dispatch" /\ ~Ended(z)
    /\ InState(z, {"queued"}) # {}
    /\ LET i == Oldest(z)
           c == z.slot[i]
           sent == [z EXCEPT !.slot[i].st = "dispatched", !.s = Send(z.s, i, <<c.id, 0>>),
                             !.mut = IF Mutation(c.kind) THEN @ \cup {c.id} ELSE @]
           refused == [z EXCEPT !.s = DispatchRefused(z.s, i)]
       IN z' \in {sent,                                                 \* handed to the SDK
                  Reply(Retire(z, i), c.id, "none"),                    \* deadline passed
                  Reply(Retire(refused, i), c.id, Failure(Mutation(c.kind)))}
    /\ UNCHANGED <<w, pc>>

\* The queue is empty: session_pressure, then session_step, which ends a
\* session that may have left a continuation behind.
Dispatched ==
    /\ pc.at \in {"input", "dispatch"} /\ ~Ended(z)
    /\ z.sess = "open"
    /\ InState(z, {"queued"}) = {}
    /\ IF z.s.lostB
       THEN z' = Terminal(z) /\ UNCHANGED pc
       ELSE z' = [z EXCEPT !.s.frames = z.q] /\ pc' = At("sdk")
    /\ UNCHANGED w

InSdk == pc.at = "sdk" /\ ~Ended(z)

Points == w.conts \cup {z.s.op[i].point : i \in Slots} \cup {z.s.op[i].page : i \in Slots}
            \cup {z.s.chain[c].point : c \in Chains}

NewPoint == CHOOSE p \in 1..Cardinality(Points) + 1 : p \notin Points

Outcomes == {"good", "bad", "timeout", "transport", "invalid", "limit"}

\* What the server may have done with a Browse request when it is answered so.
Serve(r, res) ==
    LET fresh == w.conts \cup {NewPoint}
        old == w.conts \ {r.point}
    IN CASE r.kind \in {"browse", "single"} -> IF res = "bad" THEN {w.conts} ELSE {w.conts, fresh}
         [] r.kind = "next" -> IF res = "good" THEN {old, old \cup {NewPoint}}
                               ELSE {w.conts, old, old \cup {NewPoint}}
         [] r.kind = "release" -> IF res = "good" THEN {old} ELSE {w.conts, old}

Answer(r, res, page) == [z EXCEPT !.s = [Accept(z.s, r, res, page) EXCEPT !.flight = @ \ {r}]]

Requests(K) == {r \in z.s.flight : r.t = "op" /\ r.kind \in K}

\* The callback of a read, write, call, Browse, BrowseNext or release.
SdkAnswer ==
    /\ InSdk
    /\ \E res \in Outcomes :
          \/ /\ res # "limit"
             /\ \E r \in Requests({"read", "write", "call"}) : z' = Answer(r, res, 0)
             /\ UNCHANGED w
          \/ \E r \in Requests({"browse", "single", "next", "release"}) :
             \E conts \in Serve(r, res) :
                   /\ w' = [w EXCEPT !.conts = conts,
                                     !.stray = IF r.kind = "single" THEN @ \cup (conts \ w.conts)
                                               ELSE @ \cap conts]
                   /\ z' = Answer(r, res, IF NewPoint \in conts THEN NewPoint ELSE 0)
    /\ UNCHANGED pc

\* The callback of a stage of subscribe or unsubscribe.
SdkSubscriptionAnswer ==
    /\ InSdk
    /\ \E r \in Requests({"subscribe", "unsubscribe"}), res \in Outcomes \ {"limit"},
          done \in BOOLEAN :
          LET effect == IF res = "good" THEN TRUE ELSE IF res = "bad" THEN FALSE ELSE done
          IN /\ done => res # "bad"
             /\ z' = Answer(r, res, 0)
             /\ w' = CASE effect /\ r.kind = "subscribe" /\ r.stage = 0 ->
                               [w EXCEPT !.remotes = @ \cup {r.serial}]
                       [] effect /\ r.kind = "unsubscribe" /\ r.stage = 1 ->
                               [w EXCEPT !.remotes = @ \ {r.serial}]
                       [] OTHER -> w
    /\ UNCHANGED pc

Msg(d, n, good) == [seq |-> ((n - 1) % Ring) + 1, from |-> d, n |-> n, good |-> good]

\* The oddity of sending n now: how many messages before it are lost, one for a
\* repeated message, one for an unusable one.
Oddity(d, n, good) ==
    (IF n > w.high[d] THEN n - w.high[d] - 1 ELSE 1) + (IF good THEN 0 ELSE 1)

\* The messages the server may send now: the next one, or with some lost in
\* between, or one of the last two again.
Window(d) ==
    LET others == MapThenSumSet(LAMBDA e : w.high[e], Ids \ {d})
    IN {n \in 1..w.load.msgs - others : n + 1 >= w.high[d]}

\* receive_publish: a message of a live subscription.
SdkPublish ==
    /\ InSdk
    /\ z.s.pubs > 0
    /\ \E d \in w.remotes \ z.s.deleted, good \in BOOLEAN : \E n \in Window(d) :
          /\ w.odd[d] + Oddity(d, n, good) <= w.load.odd
          /\ z' = [z EXCEPT !.s.pubs = @ - 1,
                            !.s.inbox = Append(@, [serial |-> d, m |-> Msg(d, n, good)])]
          /\ w' = [w EXCEPT !.high[d] = IF n > @ THEN n ELSE @,
                            !.odd[d] = @ + Oddity(d, n, good)]
    /\ UNCHANGED pc

\* A keepalive, a timeout or another status that carries no message.
SdkKeepAlive ==
    /\ InSdk
    /\ z.s.pubs > 0
    /\ z' = [z EXCEPT !.s.pubs = @ - 1]
    /\ UNCHANGED <<w, pc>>

SdkRepublish ==
    /\ InSdk
    /\ \E r \in {f \in z.s.flight : f.t = "rep"}, ok \in BOOLEAN :
       \E n \in {x \in 1..w.high[r.rid[1]] : x + 2 >= w.high[r.rid[1]]} :
          z' = [z EXCEPT !.s = [ReceiveRepublish(z.s, r, ok, Msg(r.rid[1], n, TRUE)) EXCEPT !.flight = @ \ {r}]]
    /\ UNCHANGED <<w, pc>>

\* session_step and wop_subscription_step that fail: the connection, a
\* refused acknowledgement, a Publish fault, or server state left behind.
StepFails == InSdk /\ z' = Terminal(z) /\ UNCHANGED <<w, pc>>

Failed(s) == {k \in Subs : s.sub[k].used /\ s.sub[k].failed /\ ~s.sub[k].closing}

\* After slot i: the next slot with SDK work, else the reports, else input.
NextPhase(y, i) ==
    LET rest == {j \in InState(y, {"dispatched", "abandoned"}) : j > i}
    IN IF rest # {} THEN [at |-> "complete", i |-> Min(rest)]
       ELSE IF Failed(y.s) # {} \/ y.s.reports # <<>> THEN At("reports") ELSE At("input")

StepDone ==
    /\ InSdk
    /\ ~z.s.lostS
    /\ \E lost \in SUBSET Active(z.s) :
          /\ Cardinality(lost) <= 1
          /\ z' = [z EXCEPT !.s = SubscriptionStep(z.s, lost)]
    /\ pc' = NextPhase(z', 0)
    /\ UNCHANGED w

\* complete_dispatched, one slot: an answer first, the deadline after it.
CompleteSlot ==
    /\ pc.at = "complete" /\ ~Ended(z)
    /\ LET i == pc.i
           c == z.slot[i]
       IN \/ /\ c.st = "abandoned"
             /\ z' = IF Released(z.s, i) THEN [z EXCEPT !.slot[i] = FreeSlot] ELSE z
          \/ /\ c.st = "dispatched"
             /\ \E local \in Local, fits, expired \in BOOLEAN :
                   LET r == Complete(z.s, i, local)
                       y == [z EXCEPT !.s = r.s]
                       unknown == Mutation(c.kind)
                       y1 == IF c.kind = "unsubscribe" /\ r.v = "success"
                             THEN [y EXCEPT !.hist[z.s.sub[z.s.op[i].sub].serial] = Append(@, Event("end", 0, 0))]
                             ELSE y
                   IN z' = CASE r.v = "success" ->
                                   Retire(Reply(y1, c.id, IF fits THEN "ok" ELSE Failure(unknown)), i)
                              [] r.v = "failure" -> Retire(Reply(y, c.id, Failure(unknown)), i)
                              [] r.v = "terminal" -> Terminal(y)
                              [] OTHER -> IF expired
                                          THEN Reply(Retire(y, i), c.id, Failure(unknown))
                                          ELSE y
    /\ pc' = NextPhase(z', pc.i)
    /\ UNCHANGED w

\* error_report: the one terminal report of a failed subscription.
ReportError(y, k) ==
    LET d == y.s.sub[k].serial
        e == Emit([y EXCEPT !.s = FreeSubscription(DeleteRemote(y.s, d), k)])
    IN IF Ended(e) THEN e ELSE [e EXCEPT !.hist[d] = Append(@, Event("error", 0, 0))]

\* wop_subscription_report and emit_reports, one report.
EmitReport ==
    /\ pc.at = "reports" /\ ~Ended(z)
    /\ \/ /\ Failed(z.s) # {}
          /\ z' = ReportError(z, CHOOSE k \in Failed(z.s) : \A j \in Failed(z.s) : k <= j)
       \/ /\ Failed(z.s) = {} /\ z.s.reports # <<>>
          /\ LET r == Head(z.s.reports)
                 b == z.s.sub[r.sub]
                 y == [z EXCEPT !.s.reports = Tail(@)]
                 e == Emit(y)
             IN IF ~b.used \/ b.serial # r.serial \/ b.closing \/ b.failed
                THEN z' = y
                ELSE z' \in {ReportError(y, r.sub),
                             IF Ended(e) THEN e ELSE [e EXCEPT !.hist[r.serial] = Append(@, Event("data", r.from, r.n))]}
    /\ pc' = NextPhase(z', Cardinality(Slots))
    /\ UNCHANGED w

\* wop_owner_shutdown after the loop, and a pipe that closed (main.c).
Shutdown ==
    /\ pc.at # "done"
    /\ \/ Ended(z)
       \/ pc.at \in {"input", "dispatch"}
    /\ pc' = At("done")
    /\ z' = [z EXCEPT !.fin = IF @ = "no" THEN "closed" ELSE @, !.sess = "closed",
                      !.slot = [i \in Slots |-> FreeSlot], !.s = CloseSession, !.q = 0,
                      !.credit = 0, !.used = 0, !.next = 0, !.handle = 1, !.mut = {},
                      !.ans = [d \in Ids |-> <<>>], !.hist = [d \in Ids |-> <<>>]]
    /\ w' = NewServer(w.load)

Next ==
    \/ Refuse \/ RequestValue \/ RequestBrowse \/ RequestSingle \/ RequestNext
    \/ RequestSubscribe \/ RequestUnsubscribe
    \/ Open \/ Cancel \/ CancelNothing \/ Close \/ BadLine \/ Eof \/ GrantCredit
    \/ OpenTick \/ Tick \/ Dispatch \/ Dispatched
    \/ SdkAnswer \/ SdkSubscriptionAnswer \/ SdkPublish \/ SdkKeepAlive \/ SdkRepublish
    \/ StepFails \/ StepDone \/ CompleteSlot \/ EmitReport \/ Shutdown

Spec == Init /\ [][Next]_vars

-----------------------------------------------------------------------------
(* Properties.                                                             *)

Running == ~Ended(z)

\* The process is where the loop of main.c can be; credit and queued frames
\* stay within the output's bounds and a request is answered at most once.
TypeOK ==
    /\ z.sess \in {"idle", "opening", "open", "closed"}
    /\ z.fin \in {"no", "ok", "terminal", "closed"}
    /\ \A i \in Slots : z.slot[i].st \in {"free", "queued", "dispatched", "abandoned"}
    /\ z.q \in 0..OutFrames
    /\ z.credit \in 0..Credit
    /\ z.used \in 0..Credit
    /\ Len(z.s.inbox) + z.s.pubs <= PublishLimit
    /\ Len(z.s.reports) <= Ready
    /\ w.remotes \subseteq Ids

\* While the process runs, every request it read was answered exactly once or
\* waits in exactly one slot: whatever the order in which answers, cancels,
\* deadlines and refusals meet (handle_operation, handle_cancel,
\* dispatch_queued, complete_dispatched).
AnsweredOnce ==
    Running =>
        \A d \in 1..z.next - 1 :
            Len(z.ans[d])
                + Cardinality({i \in InState(z, {"queued", "dispatched"}) : z.slot[i].id = d}) = 1

\* An answer with effect none is given only for a mutation that the SDK never
\* sent (the effect of handle_cancel, the deadlines and session_complete).
EffectHonest == \A d \in z.mut : z.ans[d] # <<"none">>

\* Every request is answered once and with an effect that is true
\* (complete_dispatched, session_complete).
HonestAnswers == AnsweredOnce /\ EffectHonest

\* A callback of the SDK finds the storage of the request it was sent for: the
\* slot is held until then and its handle, by which the server cancels, is not
\* given to another request (retire, session_released, next_handle).
SlotCustody ==
    /\ TypeOK
    /\ \A r \in z.s.flight : r.t = "op" =>
          /\ z.s.op[r.slot].pending
          /\ z.s.op[r.slot].rid = r.rid
          /\ pc.at # "done" => z.slot[r.slot].st \in {"dispatched", "abandoned"}
    /\ \A i, j \in InState(z, {"queued", "dispatched", "abandoned"}) :
          z.slot[i].handle = z.slot[j].handle => i = j

Holders(p) ==
    Cardinality({c \in Chains : z.s.chain[c].active /\ z.s.chain[c].point = p})
        + Cardinality({i \in Slots : z.s.op[i].point = p \/ z.s.op[i].page = p})

\* Every continuation point the server keeps for a browse that allows one has
\* exactly one holder in the process: its chain, or the operation that consumes
\* or delivers it; else the session is about to end (the browse chains of
\* session_open.c).
ContinuationOwned == Running /\ ~z.s.lostB => \A p \in w.conts \ w.stray : Holders(p) = 1

\* "On release failure, lost Browse/BrowseNext response with possibly allocated
\* server state ... close the Session" (WOP.05): no continuation point, whatever
\* request allocated it, outlives its holder in a session that goes on.  This is
\* what the document says; the code breaks it, and ContinuationOwned is what it
\* keeps.
NoStrayContinuation == Running /\ ~z.s.lostB => \A p \in w.conts : Holders(p) = 1

Events(d) == SelectSeq(z.hist[d], LAMBDA e : e.t = "data")

Queued(d) == SelectSeq(z.s.reports, LAMBDA r : r.serial = d /\ Running /\ r.sub \in Active(z.s))

\* The reports of a subscription are the server's messages from the first on,
\* none missing, none twice and in order, across gaps, recovery and the wrap
\* of the sequence number; after its error or its end there is none; and only
\* a message that is among them is acknowledged.
StreamDiscipline ==
    \A d \in Ids :
        LET all == Events(d) \o Queued(d)
        IN /\ \A j \in DOMAIN all : all[j].n = j /\ all[j].from = d
           /\ \A j \in DOMAIN z.hist[d] : z.hist[d][j].t # "data" => j = Len(z.hist[d])
           /\ \A k \in Active(z.s) : Running /\ z.s.sub[k].serial = d =>
                 z.s.sub[k].acks \subseteq DOMAIN all

=============================================================================
