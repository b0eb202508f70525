---------------------------- MODULE OpcuaSession ----------------------------
(***************************************************************************)
(* The SDK side of the native OPC UA process (session_open.c and           *)
(* session_subscription.c) as operators on one session record:             *)
(*                                                                         *)
(*   st       connection progress: new, connecting, namespaces, ready      *)
(*   op       the per-slot SDK storage; the SDK's callbacks point into it  *)
(*   chain    browse continuation chains                                   *)
(*   lostB    browse_orphaned: a continuation may exist unowned            *)
(*   lostS    subscription_orphaned                                        *)
(*   sub      established subscriptions, serial their count                *)
(*   reports  validated notifications not yet emitted                      *)
(*   inbox    Publish responses of the last SDK iteration, pubs those due  *)
(*   frames   output frames that wait for credit (session_pressure)        *)
(*   flight   SDK requests whose callback is still to come                 *)
(*   deleted  subscriptions for which a deletion was sent                  *)
(*                                                                         *)
(* The server's id of a subscription is the serial of the operation that   *)
(* created it; a continuation point is a number, 0 for none.               *)
(***************************************************************************)
EXTENDS OpcuaSequence, FiniteSets, SequencesExt

CONSTANTS Slots,       \* owner slots, 1..WOP_OWNER_OPERATIONS
          Chains,      \* continuation chains, 1..WOP_SESSION_CONTINUATIONS
          Subs,        \* subscription slots, 1..WOP_SESSION_SUBSCRIPTIONS
          MaxPages,    \* pages of one chain, 64
          Ready,       \* reports awaiting emission, 256
          HeldLimit,   \* messages held during a recovery, 4
          PublishLimit \* outstanding Publish requests, 4

NewOp == [kind |-> "none", rid |-> <<0, 0>>, pending |-> FALSE, abandoned |-> FALSE,
          res |-> "none", chain |-> 0, point |-> 0, page |-> 0, stage |-> 0,
          serial |-> 0, created |-> 0, sub |-> 0]

NoChain == [used |-> FALSE, active |-> FALSE, busy |-> FALSE, point |-> 0, pages |-> 0]

NoSub == [used |-> FALSE, serial |-> 0, closing |-> FALSE, failed |-> FALSE, q |-> NewSequence,
          acks |-> {}, held |-> <<>>, asked |-> 0, got |-> <<>>]

NewSession ==
    [st |-> "new", op |-> [i \in Slots |-> NewOp], chain |-> [c \in Chains |-> NoChain],
     lostB |-> FALSE, lostS |-> FALSE, sub |-> [k \in Subs |-> NoSub], serial |-> 0,
     reports |-> <<>>, inbox |-> <<>>, pubs |-> 0, frames |-> 0, flight |-> {},
     deleted |-> {}]

Mutation(kind) == kind \in {"write", "call"}

\* chain_operation: a Browse that exposes its continuation, a BrowseNext and a
\* release work on a chain; a Browse without allow_continuation, "single", has none.
ChainKind(kind) == kind \in {"browse", "next", "release"}

ClearOp(s, i) ==
    [s EXCEPT !.op[i] = [NewOp EXCEPT !.rid = s.op[i].rid, !.pending = s.op[i].pending,
                                      !.abandoned = s.op[i].abandoned]]

DeleteRemote(s, serial) == IF serial = 0 THEN s ELSE [s EXCEPT !.deleted = @ \cup {serial}]

-----------------------------------------------------------------------------
(* Establishment: the connection, then the namespace array that every node *)
(* id is translated by.                                                    *)

SessionOpen(s) == [s EXCEPT !.st = "connecting"]

RequestNamespaces(s) == [s EXCEPT !.st = "namespaces"]

\* Ready once the array is valid and the SDK's own table holds all of it.
ReceiveNamespaces(s) == [s EXCEPT !.st = "ready"]

-----------------------------------------------------------------------------
(* Admission: session_prepare.                                             *)

\* The node ids and the value of a read, write or call are translated here;
\* whether they are valid is the caller's choice.
PrepareValue(s, i, kind) == [s EXCEPT !.op[i] = [NewOp EXCEPT !.rid = s.op[i].rid, !.kind = kind]]

FreeChains(s) == {c \in Chains : ~s.chain[c].used}

PrepareSingle(s, i) == PrepareValue(s, i, "single")

PrepareBrowse(s, i) ==
    LET c == CHOOSE f \in FreeChains(s) : \A g \in FreeChains(s) : f <= g
    IN [PrepareValue(s, i, "browse") EXCEPT
            !.op[i].chain = c,
            !.chain[c] = [NoChain EXCEPT !.used = TRUE, !.busy = TRUE]]

\* wop_session_browse_admit: the token names a live continuation of a chain no
\* operation uses; the operation takes it over.
NamesLive(s, c) == s.chain[c].active /\ ~s.chain[c].busy

PrepareNext(s, i, kind, c) ==
    [PrepareValue(s, i, kind) EXCEPT
        !.op[i].chain = c, !.op[i].point = s.chain[c].point,
        !.chain[c].point = 0, !.chain[c].active = FALSE, !.chain[c].busy = TRUE]

\* Subscriptions that exist or that an operation may still create.
Reserved(s) ==
    Cardinality({k \in Subs : s.sub[k].used})
        + Cardinality({i \in Slots : s.op[i].kind = "subscribe" /\ s.op[i].serial # 0})

PrepareSubscribe(s, i) ==
    [PrepareValue(s, i, "subscribe") EXCEPT
        !.serial = @ + 1, !.op[i].serial = s.serial + 1]

CanUnsubscribe(s, k) == s.sub[k].used /\ ~s.sub[k].closing /\ ~s.sub[k].failed

PrepareUnsubscribe(s, i, k) ==
    [PrepareValue(s, i, "unsubscribe") EXCEPT !.op[i].sub = k, !.sub[k].closing = TRUE]

-----------------------------------------------------------------------------
(* Dispatch, responses and completion of operations.                       *)

ChainIdle(s, i) ==
    LET c == s.op[i].chain
    IN IF c = 0 THEN s
       ELSE [s EXCEPT !.chain[c].busy = FALSE, !.chain[c].used = s.chain[c].active]

\* An asynchronous SDK request; its callback's argument is the slot's storage.
Send(s, i, rid) ==
    [s EXCEPT !.op[i].pending = TRUE, !.op[i].rid = rid, !.op[i].res = "none",
              !.flight = @ \cup {[t |-> "op", slot |-> i, rid |-> rid, kind |-> s.op[i].kind,
                                  stage |-> s.op[i].stage, point |-> s.op[i].point,
                                  serial |-> IF s.op[i].kind = "unsubscribe"
                                             THEN s.sub[s.op[i].sub].serial
                                             ELSE s.op[i].serial]}]

\* The second request of a subscribe or an unsubscribe.
SendStage(s, i) == Send([s EXCEPT !.op[i].stage = 1], i, <<s.op[i].rid[1], 1>>)

\* session_dispatch when the SDK refuses the request.
DispatchRefused(s, i) ==
    IF s.op[i].chain = 0 THEN s
    ELSE [ChainIdle(s, i) EXCEPT !.lostB = @ \/ s.op[i].kind # "browse"]

\* accept_response: a callback of a retired or foreign request changes nothing.
Accept(s, r, res, page) ==
    LET o == s.op[r.slot]
    IN IF ~o.pending \/ o.rid # r.rid THEN s
       ELSE IF o.abandoned THEN [s EXCEPT !.op[r.slot].pending = FALSE]
       ELSE [s EXCEPT !.op[r.slot].pending = FALSE, !.op[r.slot].res = res,
                      !.op[r.slot].page = page,
                      !.op[r.slot].created =
                          IF r.kind = "subscribe" /\ r.stage = 0 /\ res = "good"
                          THEN r.serial ELSE @]

Done(v, s) == [v |-> v, s |-> s]

\* The local work on a delivered answer, its namespaces and its encoding: done,
\* not publishable (invalid), or more than the output holds (limit).
Local == {"ok", "invalid", "limit"}

\* data_value_result, call_result and the write case of session_complete.
ValueComplete(s, i, local) ==
    Done(IF s.op[i].res = "good" /\ local = "ok" THEN "success" ELSE "failure", s)

\* wop_session_browse_capture: the page's continuation becomes the chain's.
Capture(s, i) ==
    LET c == s.op[i].chain
        p == s.op[i].page
    IN [s EXCEPT !.chain[c].point = p, !.chain[c].active = p # 0, !.chain[c].pages = @ + 1]

\* A page's continuation goes to its chain or ends the session: the chain is at
\* its limit, there is none, or the owner cannot be told of it.
BrowseComplete(s, i, local) ==
    LET o == s.op[i]
        idle == IF o.chain = 0 THEN s ELSE [s EXCEPT !.chain[o.chain].busy = FALSE]
        pages == IF o.chain = 0 THEN 0 ELSE s.chain[o.chain].pages
        keeps == o.chain # 0 /\ pages + 1 < MaxPages
        r == IF o.chain = 0 THEN s ELSE Capture(idle, i)
    IN CASE o.kind = "release" -> Done(IF o.res = "good" THEN "success" ELSE "terminal", ChainIdle(s, i))
         [] o.res = "limit" \/ pages = MaxPages -> Done("terminal", idle)
         [] o.res = "bad" -> Done(IF o.kind = "next" THEN "terminal" ELSE "failure", idle)
         [] o.res = "invalid" -> Done("terminal", idle)
         [] o.page # 0 /\ ~keeps -> Done("terminal", idle)
         [] local = "invalid" -> Done(IF o.page # 0 THEN "terminal" ELSE "failure", r)
         [] local = "limit" -> Done("terminal", r)
         [] OTHER -> Done("success", r)

\* subscribe_complete: CreateSubscription, then CreateMonitoredItems, then the
\* subscription is established in a free slot.
SubscribeComplete(s, i, local) ==
    LET o == s.op[i]
        undo == [DeleteRemote(s, o.created) EXCEPT !.op[i].created = 0]
        k == CHOOSE f \in Subs : ~s.sub[f].used /\ \A g \in Subs : ~s.sub[g].used => f <= g
    IN IF o.res # "good" \/ local # "ok" THEN Done("failure", undo)
       ELSE IF o.stage = 0
       THEN Done("pending", SendStage(s, i))
       ELSE Done("success", [s EXCEPT !.sub[k] = [NoSub EXCEPT !.used = TRUE, !.serial = o.serial],
                                      !.op[i].created = 0, !.op[i].serial = 0])

FreeSubscription(s, k) ==
    [s EXCEPT !.sub[k] = NoSub,
              !.reports = SelectSeq(@, LAMBDA r : r.sub # k \/ r.serial # s.sub[k].serial)]

\* unsubscribe_complete: DeleteMonitoredItems, then DeleteSubscriptions; only
\* a confirmed deletion keeps the session.
UnsubscribeComplete(s, i, local) ==
    LET o == s.op[i]
    IN IF o.res # "good" \/ local # "ok" THEN Done("terminal", s)
       ELSE IF o.stage = 0
       THEN Done("pending", SendStage(s, i))
       ELSE Done("success", FreeSubscription(s, o.sub))

\* session_complete.
Complete(s, i, local) ==
    LET o == s.op[i]
    IN CASE o.pending \/ o.res = "none" -> Done("pending", s)
         [] o.res = "transport" -> Done("terminal", ChainIdle(s, i))
         [] o.res = "timeout" -> Done("failure", [ChainIdle(s, i) EXCEPT !.lostB = @ \/ ChainKind(o.kind)])
         [] ChainKind(o.kind) \/ o.kind = "single" -> BrowseComplete(s, i, local)
         [] o.kind = "subscribe" -> SubscribeComplete(s, i, local)
         [] o.kind = "unsubscribe" -> UnsubscribeComplete(s, i, local)
         [] OTHER -> ValueComplete(s, i, local)

-----------------------------------------------------------------------------
(* Retirement: session_retire and wop_subscription_retire.                 *)

\* Mutant: a queued BrowseNext is retired without returning its continuation.
RetireChainDrops(s, i, queued) ==
    LET o == s.op[i]
    IN IF o.chain = 0 THEN s ELSE ChainIdle([s EXCEPT !.lostB = @ \/ o.pending], i)

\* A queued BrowseNext or release gives its continuation back to the chain;
\* one that was sent leaves it unowned.
RetireChain(s, i, queued) ==
    LET o == s.op[i]
        c == o.chain
        back == queued /\ ~s.lostB /\ o.point # 0 /\ ~s.chain[c].active
        r == IF back THEN [s EXCEPT !.chain[c].point = o.point, !.chain[c].active = TRUE,
                                    !.op[i].point = 0]
             ELSE s
    IN IF c = 0 THEN s ELSE ChainIdle([r EXCEPT !.lostB = @ \/ o.pending], i)

RetireSubscription(s, i) ==
    LET o == s.op[i]
    IN CASE o.kind = "subscribe" ->
              [DeleteRemote(s, o.created) EXCEPT
                  !.lostS = @ \/ (o.pending /\ o.stage = 0), !.op[i].created = 0]
         [] o.kind = "unsubscribe" /\ s.sub[o.sub].used ->
              IF o.pending \/ o.res # "none" \/ o.stage # 0
              THEN [s EXCEPT !.lostS = TRUE]
              ELSE [s EXCEPT !.sub[o.sub].closing = FALSE]
         [] OTHER -> s

RetireOp(s, i, queued) ==
    LET r == RetireSubscription(RetireChain(s, i, queued), i)
    IN ClearOp([r EXCEPT !.op[i].abandoned = r.op[i].pending], i)

Released(s, i) == ~s.op[i].pending

\* wop_session_close: deleting the client completes every callback before the
\* storage they point to is cleared; the server drops the session's state.
CloseSession == [NewSession EXCEPT !.st = "closed"]

-----------------------------------------------------------------------------
(* Publish, acknowledgement and Republish.                                 *)

FailSub(s, k) == [s EXCEPT !.sub[k].failed = TRUE]

\* enqueue: a message that is not a data change of this item fails the
\* subscription, and so does one that finds the report queue full.
Fits(s, m) == m.good /\ Len(s.reports) < Ready

Enqueue(s, k, m) ==
    IF Fits(s, m)
    THEN [s EXCEPT !.reports = Append(@, [sub |-> k, serial |-> s.sub[k].serial, from |-> m.from, n |-> m.n])]
    ELSE FailSub(s, k)

AddAck(s, k, m) == [s EXCEPT !.sub[k].acks = @ \cup {m.n}]

Deliver(s, k, m) ==
    LET e == Enqueue(s, k, m)
    IN IF e.sub[k].failed THEN e
       ELSE AddAck([e EXCEPT !.sub[k].q = Record(@, m)], k, m)

\* process_message.
ProcessMessage(s, k, m) ==
    LET b == s.sub[k]
    IN CASE b.failed \/ b.closing -> s
         [] b.q.recovering -> IF Len(b.held) = HeldLimit THEN FailSub(s, k)
                              ELSE [s EXCEPT !.sub[k].held = Append(@, m)]
         [] Classify(b.q, m) = "deliver" -> Deliver(s, k, m)
         [] Classify(b.q, m) = "duplicate" -> AddAck(s, k, m)
         [] Classify(b.q, m) = "gap" -> [s EXCEPT !.sub[k].q = Begin(@, m), !.sub[k].held = <<m>>]
         [] OTHER -> FailSub(s, k)

\* Mutant: what was held is delivered without looking at it again.
ReleaseHeldBlind(s, k) ==
    FoldLeft(LAMBDA z, m : Deliver(z, k, m), [s EXCEPT !.sub[k].held = <<>>], s.sub[k].held)

\* release_held: what was held is processed again in order of arrival; a new
\* gap among it starts a recovery of its own.
ReleaseHeld(s, k) ==
    FoldLeft(LAMBDA z, m : ProcessMessage(z, k, m), [s EXCEPT !.sub[k].held = <<>>], s.sub[k].held)

\* At most one Republish is outstanding.
AskRepublish(s, k) ==
    LET b == s.sub[k]
    IN IF b.q.left = 0 \/ b.asked # 0 THEN s
       ELSE [s EXCEPT !.sub[k].asked = b.q.next,
                      !.flight = @ \cup {[t |-> "rep", sub |-> k, rid |-> <<b.serial, b.q.next>>]}]

\* The answer to the outstanding Republish.  The last missing message is
\* followed by the held message that opened the gap, then by the later ones.
Recover(s, k) ==
    LET b == s.sub[k]
        g == Head(b.got)
        r == Republished(b.q, b.asked, g.ok, g.m)
        t == [s EXCEPT !.sub[k].got = <<>>, !.sub[k].asked = 0, !.sub[k].q = r.q]
        d == Enqueue(t, k, g.m)
        a == AddAck(d, k, g.m)
        h == [a EXCEPT !.sub[k].held = Tail(@)]
    IN CASE r.v = "failed" -> FailSub(t, k)
         [] d.sub[k].failed -> d
         [] r.v = "continue" -> AskRepublish(a, k)
         [] OTHER -> ReleaseHeld(Deliver(h, k, Head(b.held)), k)

AdvanceRecovery(s, k) ==
    LET b == s.sub[k]
    IN IF b.failed \/ ~b.q.recovering THEN s
       ELSE IF b.got # <<>> THEN Recover(s, k) ELSE AskRepublish(s, k)

ReceiveRepublish(s, r, ok, m) ==
    LET b == s.sub[r.sub]
    IN IF b.used /\ b.asked # 0 /\ b.got = <<>> /\ r.rid = <<b.serial, b.asked>>
       THEN [s EXCEPT !.sub[r.sub].got = <<[ok |-> ok, m |-> m]>>]
       ELSE s

\* process_publish of a response for the server's subscription serial.
ProcessPublish(s, r) ==
    IF \E k \in Subs : s.sub[k].used /\ s.sub[k].serial = r.serial
    THEN ProcessMessage(s, CHOOSE k \in Subs : s.sub[k].used /\ s.sub[k].serial = r.serial, r.m)
    ELSE s

Active(s) == {k \in Subs : s.sub[k].used /\ ~s.sub[k].closing /\ ~s.sub[k].failed}

\* send_publish, repeated: only when every earlier report was written.
SendPublishes(s) ==
    LET want == IF Cardinality(Active(s)) < PublishLimit THEN Cardinality(Active(s)) ELSE PublishLimit
    IN IF s.reports # <<>> \/ s.frames > 0 \/ s.pubs >= want THEN s
       ELSE [s EXCEPT !.pubs = want,
                      !.sub = [k \in Subs |-> [s.sub[k] EXCEPT !.acks = {}]]]

\* wop_subscription_step once its guards passed; lost are the subscriptions
\* whose lifetime ran out.
SubscriptionStep(s, lost) ==
    LET p == FoldLeft(ProcessPublish, [s EXCEPT !.inbox = <<>>], s.inbox)
        step(z, k) == LET r == IF z.sub[k].used THEN AdvanceRecovery(z, k) ELSE z
                      IN IF k \in lost /\ r.sub[k].used THEN FailSub(r, k) ELSE r
    IN SendPublishes(FoldLeft(step, p, SetToSortSeq(Subs, LAMBDA x, y : x < y)))

=============================================================================
