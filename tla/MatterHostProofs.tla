-------------------------- MODULE MatterHostProofs --------------------------
(***************************************************************************)
(* Proofs about MatterHost for every value of its constants.               *)
(*                                                                         *)
(*   Safe  who may still use a subscription's context: NoDanglingContext,  *)
(*         CancelNotLost                                                   *)
(*   Sync  what frames, streams, credit and waiting requests know of each  *)
(*         other: BarrierLast, CancelAfterBarrier, CreditBalance           *)
(***************************************************************************)
EXTENDS MatterHost, QueuesProofs, FiniteSetTheorems, SequenceTheorems

-----------------------------------------------------------------------------
(* Types.                                                                  *)

Phases == {"run", "closing", "stopping", "exited"}

Reports == Seq(Nat)

Clients == {"none", "connect", "sent", "live"}

SubType ==
    [listed : BOOLEAN, client : Clients, pub : BOOLEAN, ok : BOOLEAN,
     canc : BOOLEAN, failEm : BOOLEAN, csched : BOOLEAN, done : BOOLEAN,
     gen : Nat, recov : BOOLEAN, attempt : Nat, timer : BOOLEAN,
     active : BOOLEAN, est : BOOLEAN, act : BOOLEAN, init : BOOLEAN,
     buf : Reports, ready : Reports]

FrameType ==
    [op : {"subscribe", "refused", "interaction", "cancel"}, id : Ids \cup {"none"}, g : Nat,
     pc : {"wait", "add", "reply", "activate", "emit", "lost", "retire"}, reps : Reports]

HostType ==
    [stack : Seq(FrameType), closeReq : BOOLEAN, running : BOOLEAN, phase : Phases, eof : BOOLEAN]

\* The handlers of the SDK thread; one that is not about a subscription is idle.
IdleType == [k : {"loop", "stopped"}]

BusyType ==
         [k : {"done", "end"}, id : Ids]
    \cup [k : {"fail"}, id : Ids, g : Nat, emit : BOOLEAN, then : {"loop", "done"}]
    \cup [k : {"emit"}, id : Ids, g : Nat, reps : Reports]
    \cup [k : {"resubscribed"}, id : Ids, g : Nat, a : Nat, reps : Reports]
    \cup [k : {"resubscribing"}, id : Ids, g : Nat, a : Nat]

PcType == IdleType \cup BusyType

Items == ({"start", "cancel", "reap"} \X Ids) \cup {<<"shutdown", 0>>}

SdkType == [pc : PcType, work : Seq(Items)]

Shape == h \in HostType /\ sub \in [Ids -> SubType] /\ sdk \in SdkType /\ n \in Nat

-----------------------------------------------------------------------------
(* The custody of a subscription's context.                                *)

Has(w, x) == \E j \in 1..Len(w) : w[j] = x

\* A start is the first item of its subscription, and before a shutdown; no
\* cancellation follows the reap.
Order(w, i) ==
    \A a, b \in 1..Len(w) : a < b =>
        /\ w[b] = <<"start", i>> =>
              w[a] \notin {<<"start", i>>, <<"cancel", i>>, <<"shutdown", 0>>}
        /\ w[a] = <<"reap", i>> => w[b] # <<"cancel", i>>

Quiet(u) == u.client = "none" /\ ~u.timer

\* No recovery is under way before the first connection.
Armed(u) == u.client = "connect" => ~u.timer

\* What is known of subscription i, whose record is u: busy says that a handler
\* of the SDK thread is about it, w is the work queue.
Cust(i, u, busy, w, run) ==
    /\ Order(w, i) /\ Armed(u)
    /\ u.done => Quiet(u) /\ ~busy
    /\ ~u.listed /\ ~u.done =>
          Quiet(u) /\ ~busy /\ \A a \in {"start", "cancel", "reap"} : ~Has(w, <<a, i>>)
    /\ Has(w, <<"start", i>>) => u.listed /\ ~u.done /\ Quiet(u) /\ ~busy
    /\ Has(w, <<"cancel", i>>) => u.listed
    /\ Has(w, <<"reap", i>>) => u.done
    /\ run /\ u.listed /\ u.csched /\ ~u.done => Has(w, <<"cancel", i>>)
    /\ run /\ u.listed /\ u.done => Has(w, <<"reap", i>>)

\* The handler pc is about subscription i.
About(pc, i) == pc.k \notin {"loop", "stopped"} /\ pc.id = i

\* The request of a frame: a subscription it started is known to the host.
Known(f, s) ==
    /\ f.op # "interaction" => f.id \in Ids
    /\ f.op = "interaction" => f.pc = "wait"
    /\ f.op = "cancel" => f.pc \in {"wait", "lost", "retire"}
    /\ f.op \in {"subscribe", "refused"} => s[f.id].listed \/ s[f.id].done

AllKnown(st, s) == \A j \in 1..Len(st) : Known(st[j], s)

Custody ==
    /\ sdk.pc.k = "stopped" <=> h.phase \in {"stopping", "exited"}
    /\ h.phase \in {"run", "closing"} =>
          /\ Has(sdk.work, <<"shutdown", 0>>) => h.phase = "closing"
          /\ \A i \in Ids : Cust(i, sub[i], About(sdk.pc, i), sdk.work, h.phase = "run")
    /\ h.phase = "run" => AllKnown(h.stack, sub)

Safe == Shape /\ Custody

\* A subscription that was started is listed or done from then on.
Begun(s, i) == s[i].listed \/ s[i].done

Carried == h'.phase = "run" => \A i \in Ids : Begun(sub, i) => Begun(sub', i)

LEMMA HasAppend ==
  ASSUME NEW w \in Seq(Items), NEW x \in Items
  PROVE  /\ Append(w, x) \in Seq(Items)
         /\ \A y : Has(Append(w, x), y) <=> Has(w, y) \/ y = x
  <1> DEFINE v == Append(w, x)
  <1>1. /\ v \in Seq(Items) /\ Len(w) \in Nat /\ Len(v) = Len(w) + 1 /\ v[Len(v)] = x
        /\ \A j \in 1..Len(w) : v[j] = w[j] /\ j \in 1..Len(v)
        /\ \A j \in 1..Len(v) : j = Len(v) \/ j \in 1..Len(w)
        /\ Len(v) \in 1..Len(v)
    OBVIOUS
  <1> HIDE DEF v
  <1>2. \A y : Has(v, y) <=> Has(w, y) \/ y = x
    BY <1>1 DEF Has
  <1> QED BY <1>1, <1>2 DEF v

LEMMA HasTail ==
  ASSUME NEW w \in Seq(Items), w # <<>>
  PROVE  /\ Tail(w) \in Seq(Items) /\ Head(w) \in Items
         /\ \A y : Has(w, y) <=> Has(Tail(w), y) \/ y = Head(w)
  <1> DEFINE v == Tail(w)
  <1>1. /\ v \in Seq(Items) /\ Len(w) \in Nat \ {0} /\ Len(v) = Len(w) - 1 /\ Head(w) = w[1]
        /\ \A j \in 1..Len(v) : v[j] = w[j + 1] /\ j + 1 \in 1..Len(w)
        /\ \A j \in 1..Len(w) : j = 1 \/ (j - 1 \in 1..Len(v) /\ v[j - 1] = w[j])
        /\ 1 \in 1..Len(w) /\ w[1] \in Items
    OBVIOUS
  <1> HIDE DEF v
  <1>2. \A y : Has(w, y) <=> Has(v, y) \/ y = Head(w)
    BY <1>1 DEF Has
  <1> QED BY <1>1, <1>2 DEF v

LEMMA OrderAppend ==
  ASSUME NEW w \in Seq(Items), NEW x \in Items, NEW i, Order(w, i),
         x = <<"start", i>> => \A y \in {<<"start", i>>, <<"cancel", i>>, <<"shutdown", 0>>} : ~Has(w, y),
         x = <<"cancel", i>> => ~Has(w, <<"reap", i>>)
  PROVE  Order(Append(w, x), i)
  <1> DEFINE v == Append(w, x)
  <1>1. /\ v \in Seq(Items) /\ Len(w) \in Nat /\ Len(v) = Len(w) + 1 /\ v[Len(v)] = x
        /\ \A j \in 1..Len(w) : v[j] = w[j] /\ j \in 1..Len(v)
        /\ \A j \in 1..Len(v) : j = Len(v) \/ j \in 1..Len(w)
    OBVIOUS
  <1> HIDE DEF v
  <1> SUFFICES ASSUME NEW a \in 1..Len(v), NEW b \in 1..Len(v), a < b
               PROVE  /\ v[b] = <<"start", i>> =>
                            v[a] \notin {<<"start", i>>, <<"cancel", i>>, <<"shutdown", 0>>}
                      /\ v[a] = <<"reap", i>> => v[b] # <<"cancel", i>>
    BY DEF Order, v
  <1>2. a \in 1..Len(w) /\ v[a] = w[a] /\ Has(w, v[a])
    BY <1>1 DEF Has
  <1>3. CASE b \in 1..Len(w)
    BY <1>1, <1>2, <1>3 DEF Order
  <1>4. CASE b = Len(v)
    BY <1>1, <1>2, <1>4
  <1> QED BY <1>1, <1>3, <1>4

\* What is left of the queue when its head runs.
LEMMA OrderTail ==
  ASSUME NEW w \in Seq(Items), w # <<>>, NEW i, Order(w, i)
  PROVE  /\ Order(Tail(w), i)
         /\ Head(w) \in {<<"start", i>>, <<"cancel", i>>, <<"shutdown", 0>>} =>
               ~Has(Tail(w), <<"start", i>>)
         /\ Head(w) = <<"reap", i>> => ~Has(Tail(w), <<"cancel", i>>)
  <1> DEFINE v == Tail(w)
  <1>1. /\ v \in Seq(Items) /\ Len(w) \in Nat \ {0} /\ Len(v) = Len(w) - 1 /\ Head(w) = w[1]
        /\ \A j \in 1..Len(v) : v[j] = w[j + 1] /\ j + 1 \in 1..Len(w) /\ 1 < j + 1
        /\ \A a, b \in 1..Len(v) : a < b => a + 1 < b + 1
        /\ 1 \in 1..Len(w)
    OBVIOUS
  <1> HIDE DEF v
  <1>2. Order(v, i)
    BY <1>1 DEF Order
  <1>3. \A j \in 1..Len(v) : /\ v[j] = <<"start", i>> =>
                                 w[1] \notin {<<"start", i>>, <<"cancel", i>>, <<"shutdown", 0>>}
                             /\ w[1] = <<"reap", i>> => v[j] # <<"cancel", i>>
    BY <1>1 DEF Order
  <1> QED BY <1>1, <1>2, <1>3 DEF Has, v

\* A queue that gets nothing, or one item.
LEMMA ConcatNone ==
  ASSUME NEW w \in Seq(Items)
  PROVE  w \o <<>> = w
  OBVIOUS

LEMMA ConcatOne ==
  ASSUME NEW w \in Seq(Items), NEW x \in Items
  PROVE  w \o <<x>> = Append(w, x)
  OBVIOUS

OwnItems(i) == {<<"start", i>>, <<"cancel", i>>, <<"reap", i>>}

\* The queues w and v hold the same of subscription i.
SameFor(i, w, v) ==
    /\ Order(w, i) => Order(v, i)
    /\ \A y \in OwnItems(i) : Has(v, y) <=> Has(w, y)

\* What happens to another subscription leaves the custody of this one.
LEMMA CustOther ==
  ASSUME NEW i, NEW u, NEW b \in BOOLEAN, NEW c \in BOOLEAN, NEW r \in BOOLEAN, NEW e \in BOOLEAN,
         NEW w, NEW v, Cust(i, u, b, w, r), c => b, e => r, SameFor(i, w, v)
  PROVE  Cust(i, u, c, v, e)
  BY DEF Cust, SameFor, OwnItems

LEMMA SameAppend ==
  ASSUME NEW i, NEW w \in Seq(Items), NEW x \in Items, x \notin OwnItems(i)
  PROVE  SameFor(i, w, Append(w, x))
  <1>1. Order(w, i) => Order(Append(w, x), i)
    BY OrderAppend DEF OwnItems
  <1> QED BY <1>1, HasAppend DEF SameFor

LEMMA SameTail ==
  ASSUME NEW i, NEW w \in Seq(Items), w # <<>>, Head(w) \notin OwnItems(i)
  PROVE  SameFor(i, w, Tail(w))
  <1>1. Order(w, i) => Order(Tail(w), i)
    BY OrderTail
  <1> QED BY <1>1, HasTail DEF SameFor

LEMMA SameTwice ==
  ASSUME NEW i, NEW w, NEW v, NEW x, SameFor(i, w, v), SameFor(i, v, x)
  PROVE  SameFor(i, w, x)
  BY DEF SameFor

LEMMA SameSelf ==
  ASSUME NEW i, NEW w
  PROVE  SameFor(i, w, w)
  BY DEF SameFor

\* The cancellation or reap that is added for subscription i.
LEMMA QueueGrows ==
  ASSUME NEW i \in Ids, NEW u, NEW w \in Seq(Items)
  PROVE  \A v \in {w \o Cancels(u, i), w \o Reaps(u, i)} :
            /\ v \in Seq(Items)
            /\ \A j \in Ids \ {i} : SameFor(j, w, v)
            /\ Has(v, <<"shutdown", 0>>) <=> Has(w, <<"shutdown", 0>>)
  <1>1. \A x \in {<<"cancel", i>>, <<"reap", i>>} :
           /\ Append(w, x) \in Seq(Items) /\ w \o <<x>> = Append(w, x)
           /\ \A j \in Ids \ {i} : SameFor(j, w, Append(w, x))
           /\ Has(Append(w, x), <<"shutdown", 0>>) <=> Has(w, <<"shutdown", 0>>)
    <2> TAKE x \in {<<"cancel", i>>, <<"reap", i>>}
    <2>1. x \in Items /\ x # <<"shutdown", 0>> /\ \A j \in Ids \ {i} : x \notin OwnItems(j)
      BY DEF Items, OwnItems
    <2>2. \A j \in Ids \ {i} : SameFor(j, w, Append(w, x))
      BY <2>1, SameAppend
    <2> QED BY <2>1, <2>2, HasAppend, ConcatOne
  <1>2. w \o <<>> = w /\ \A j : SameFor(j, w, w)
    BY ConcatNone, SameSelf
  <1> QED BY <1>1, <1>2 DEF Cancels, Reaps

\* A subscription that the SDK can call is listed, not done and has started.
LEMMA CustAwake ==
  ASSUME NEW i, NEW u \in SubType, NEW b \in BOOLEAN, NEW r \in BOOLEAN, NEW w,
         Cust(i, u, b, w, r), u.client # "none" \/ u.timer \/ b
  PROVE  u.listed /\ ~u.done /\ ~Has(w, <<"start", i>>)
  BY DEF Cust, Quiet, SubType

\* A callback leaves it so, whatever it does to client and timer.
LEMMA CustCallback ==
  ASSUME NEW i, NEW u \in SubType, NEW t \in SubType, NEW b \in BOOLEAN, NEW c \in BOOLEAN,
         NEW r \in BOOLEAN, NEW w, Cust(i, u, b, w, r), u.client # "none" \/ u.timer \/ b,
         t.listed = u.listed, t.done = u.done, t.csched = u.csched, Armed(u) => Armed(t)
  PROVE  Cust(i, t, c, w, r)
  BY DEF Cust, Quiet, SubType

\* ScheduleCancel.
LEMMA CustSchedule ==
  ASSUME NEW i \in Ids, NEW u \in SubType, NEW t \in SubType, NEW b \in BOOLEAN, NEW c \in BOOLEAN,
         NEW r \in BOOLEAN, NEW w \in Seq(Items), Cust(i, u, b, w, r), u.listed \/ u.done,
         t.listed = u.listed, t.done = u.done, t.csched, Armed(u) => Armed(t),
         Quiet(u) /\ ~b => Quiet(t) /\ ~c
  PROVE  Cust(i, t, c, w \o Cancels(u, i), r)
  <1>1. <<"cancel", i>> \in Items
    BY DEF Items
  <1>2. CASE SchedulesCancel(u)
    <2>1. w \o Cancels(u, i) = Append(w, <<"cancel", i>>)
      BY <1>1, <1>2, ConcatOne DEF Cancels
    <2>2. ~u.done /\ u.listed /\ ~Has(w, <<"reap", i>>)
      BY <1>2 DEF Cust, SchedulesCancel
    <2>3. Order(Append(w, <<"cancel", i>>), i)
      BY <1>1, <2>2, OrderAppend DEF Cust
    <2>4. \A y : Has(Append(w, <<"cancel", i>>), y) <=> Has(w, y) \/ y = <<"cancel", i>>
      BY <1>1, HasAppend
    <2> HIDE DEF SchedulesCancel
    <2> QED BY <2>1, <2>2, <2>3, <2>4 DEF Cust
  <1>3. CASE ~SchedulesCancel(u)
    <2>1. w \o Cancels(u, i) = w
      BY <1>3, ConcatNone DEF Cancels
    <2> QED BY <1>3, <2>1 DEF Cust, SchedulesCancel, SubType
  <1> QED BY <1>2, <1>3

\* OnDone, a cancellation that ran, a setup that failed: the subscription is
\* done and its reap is in the queue.
LEMMA CustFinish ==
  ASSUME NEW i \in Ids, NEW u \in SubType, NEW t \in SubType, NEW r \in BOOLEAN,
         NEW w \in Seq(Items), Order(w, i), ~Has(w, <<"start", i>>),
         Has(w, <<"cancel", i>>) => u.listed, Has(w, <<"reap", i>>) => u.done,
         r /\ u.listed /\ u.done => Has(w, <<"reap", i>>),
         t.listed = u.listed, t.done, Quiet(t)
  PROVE  Cust(i, t, FALSE, w \o Reaps(u, i), r)
  <1>1. <<"reap", i>> \in Items
    BY DEF Items
  <1>2. CASE ~u.done
    <2>1. w \o Reaps(u, i) = Append(w, <<"reap", i>>)
      BY <1>1, <1>2, ConcatOne DEF Reaps
    <2>2. Order(Append(w, <<"reap", i>>), i)
      BY <1>1, OrderAppend
    <2>3. \A y : Has(Append(w, <<"reap", i>>), y) <=> Has(w, y) \/ y = <<"reap", i>>
      BY <1>1, HasAppend
    <2> QED BY <2>1, <2>2, <2>3 DEF Cust, Quiet, Armed
  <1>3. CASE u.done
    <2>1. w \o Reaps(u, i) = w
      BY <1>3, ConcatNone DEF Reaps
    <2> QED BY <1>3, <2>1 DEF Cust, Quiet, Armed
  <1> QED BY <1>2, <1>3 DEF SubType

-----------------------------------------------------------------------------
(* The operators on one subscription.                                      *)

\* t is u but for what only the deliveries of the subscription use.
SameCustody(u, t) ==
    t.listed = u.listed /\ t.done = u.done /\ t.csched = u.csched /\ (Armed(u) => Armed(t))

LEMMA ReportsShape ==
  /\ <<>> \in Reports
  /\ \A s, t \in Reports, r \in Nat : Append(s, r) \in Reports /\ s \o t \in Reports
  /\ \A s \in Reports : s # <<>> => Tail(s) \in Reports /\ Head(s) \in Nat
  BY DEF Reports

LEMMA NewShape == NewSubscription \in SubType
  BY ReportsShape DEF NewSubscription, SubType, Clients

LEMMA BufferShape ==
  ASSUME NEW s \in SubType, NEW r \in Nat
  PROVE  \A t \in {Add(s, r), Establish(s), BufferActivate(s), TakeReady(s), BufferCancel(s)} :
            t \in SubType /\ SameCustody(s, t)
  <1>1. Add(s, r) \in SubType /\ SameCustody(s, Add(s, r))
    <2> DEFINE b == IF s.act THEN s.buf ELSE Append(s.buf, r)
               y == IF s.act THEN Append(s.ready, r) ELSE s.ready
               e == s.init \/ ~s.est
    <2>1. b \in Reports /\ y \in Reports /\ e \in BOOLEAN
      BY ReportsShape DEF SubType
    <2>2. Add(s, r) \in {s, [s EXCEPT !.active = FALSE], [s EXCEPT !.init = e, !.buf = b, !.ready = y]}
      BY DEF Add
    <2> HIDE DEF b, y, e
    <2> QED BY <2>1, <2>2 DEF SubType, SameCustody, Armed
  <1>2. Establish(s) \in SubType /\ SameCustody(s, Establish(s))
    BY ReportsShape DEF Establish, SubType, SameCustody, Armed
  <1>3. BufferActivate(s) \in SubType /\ SameCustody(s, BufferActivate(s))
    <2> DEFINE y == s.ready \o s.buf
    <2>1. y \in Reports /\ <<>> \in Reports
      BY ReportsShape DEF SubType
    <2>2. BufferActivate(s) \in {s, [s EXCEPT !.act = TRUE, !.ready = y, !.buf = <<>>]}
      BY DEF BufferActivate
    <2> HIDE DEF y
    <2> QED BY <2>1, <2>2 DEF SubType, SameCustody, Armed
  <1>4. TakeReady(s) \in SubType /\ SameCustody(s, TakeReady(s))
    BY ReportsShape DEF TakeReady, SubType, SameCustody, Armed
  <1>5. BufferCancel(s) \in SubType /\ SameCustody(s, BufferCancel(s))
    BY ReportsShape DEF BufferCancel, SubType, SameCustody, Armed
  <1> QED BY <1>1, <1>2, <1>3, <1>4, <1>5

LEMMA RecoveryShape ==
  ASSUME NEW s \in SubType
  PROVE  /\ \A t \in {[Recover(s) EXCEPT !.client = "sent"], RecoveryEstablished(s), FailActive(s)} :
               t \in SubType /\ SameCustody(s, t)
         /\ NextGeneration(s) \in Nat /\ NextAttempt(s) \in Nat
  <1>1. NextGeneration(s) \in Nat /\ NextAttempt(s) \in Nat
    BY DEF NextGeneration, NextAttempt, SubType
  <1>2. LET t == [Recover(s) EXCEPT !.client = "sent"] IN t \in SubType /\ SameCustody(s, t)
    BY <1>1, ReportsShape DEF Recover, PrepareRecovery, SubType, SameCustody, Clients, Armed
  <1>3. RecoveryEstablished(s) \in SubType /\ SameCustody(s, RecoveryEstablished(s))
    BY DEF RecoveryEstablished, SubType, SameCustody, Armed
  <1>4. FailActive(s) \in SubType /\ SameCustody(s, FailActive(s))
    BY ReportsShape DEF FailActive, BufferCancel, SubType, SameCustody, Armed
  <1> QED BY <1>1, <1>2, <1>3, <1>4

LEMMA CancelShape ==
  ASSUME NEW s \in SubType
  PROVE  LET t == CancelOnSdkThread(s)
         IN t \in SubType /\ t.listed = s.listed /\ t.done /\ Quiet(t)
  BY ReportsShape DEF CancelOnSdkThread, BufferCancel, SubType, Clients, Quiet

LEMMA UpdateShape ==
  ASSUME NEW s \in SubType, NEW c \in Clients, NEW b \in BOOLEAN
  PROVE  /\ [s EXCEPT !.client = c] \in SubType
         /\ c # "connect" => SameCustody(s, [s EXCEPT !.client = c])
         /\ [s EXCEPT !.timer = FALSE] \in SubType /\ SameCustody(s, [s EXCEPT !.timer = FALSE])
         /\ [s EXCEPT !.csched = b] \in SubType
         /\ [s EXCEPT !.ok = b] \in SubType /\ SameCustody(s, [s EXCEPT !.ok = b])
         /\ [s EXCEPT !.pub = b] \in SubType /\ SameCustody(s, [s EXCEPT !.pub = b])
         /\ [s EXCEPT !.listed = b] \in SubType
  BY DEF SubType, SameCustody, Armed

LEMMA IdleShape == Loop \in PcType /\ [k |-> "stopped"] \in PcType /\ \A i : ~About(Loop, i)
  BY DEF Loop, PcType, IdleType, About

\* What the handler of each kind carries.
LEMMA HandlerShape ==
  ASSUME NEW pc \in PcType
  PROVE  /\ pc.k \notin {"loop", "stopped"} => pc.id \in Ids
         /\ pc.k = "fail" => pc.g \in Nat /\ pc.emit \in BOOLEAN /\ pc.then \in {"loop", "done"}
         /\ pc.k = "emit" => pc.g \in Nat /\ pc.reps \in Reports
         /\ pc.k = "resubscribed" => pc.g \in Nat /\ pc.a \in Nat /\ pc.reps \in Reports
         /\ pc.k = "resubscribing" => pc.g \in Nat /\ pc.a \in Nat
  BY DEF PcType, IdleType, BusyType

LEMMA HandlerMade ==
  ASSUME NEW i \in Ids, NEW g \in Nat, NEW a \in Nat, NEW b \in BOOLEAN, NEW e \in {"loop", "done"},
         NEW r \in Reports
  PROVE  \A pc \in {[k |-> "done", id |-> i], [k |-> "end", id |-> i],
                    [k |-> "fail", id |-> i, g |-> g, emit |-> b, then |-> e],
                    [k |-> "emit", id |-> i, g |-> g, reps |-> r],
                    [k |-> "resubscribed", id |-> i, g |-> g, a |-> a, reps |-> r],
                    [k |-> "resubscribing", id |-> i, g |-> g, a |-> a]} :
            pc \in PcType /\ pc.k \notin {"loop", "stopped"} /\ pc.id = i
  BY DEF PcType, IdleType, BusyType

-----------------------------------------------------------------------------
(* Steps of the SDK thread.                                                *)

Up == h.phase \in {"run", "closing"}

\* A step that is about subscription i.
LEMMA SdkStep ==
  ASSUME Safe, Up, NEW i \in Ids, NEW t \in SubType, NEW pc \in PcType, NEW w \in Seq(Items),
         sub' = [sub EXCEPT ![i] = t], sdk' = [pc |-> pc, work |-> w], UNCHANGED h, n' \in Nat,
         pc.k = "loop" \/ (pc.k # "stopped" /\ pc.id = i),
         \A j \in Ids \ {i} : SameFor(j, sdk.work, w),
         Has(w, <<"shutdown", 0>>) => Has(sdk.work, <<"shutdown", 0>>),
         Cust(i, t, About(pc, i), w, h.phase = "run"),
         sub[i].listed \/ sub[i].done => t.listed \/ t.done
  PROVE  Safe' /\ Carried
  <1>1. Shape' /\ sdk.pc.k # "stopped" /\ pc.k # "stopped" /\ sdk'.pc = pc /\ sdk'.work = w
    BY DEF Safe, Shape, SdkType, Custody, Up
  <1>2. sub'[i] = t /\ \A j \in Ids \ {i} : sub'[j] = sub[j] /\ About(pc, j) = FALSE
    BY DEF Safe, Shape, About
  <1>3. \A j \in Ids \ {i} : Cust(j, sub[j], FALSE, w, h.phase = "run")
    <2> TAKE j \in Ids \ {i}
    <2>1. Cust(j, sub[j], About(sdk.pc, j), sdk.work, h.phase = "run")
      BY DEF Safe, Custody, Up
    <2>2. About(sdk.pc, j) \in BOOLEAN
      BY DEF About
    <2> QED BY <2>1, <2>2, CustOther
  <1>4. \A j \in Ids : Cust(j, sub'[j], About(pc, j), w, h.phase = "run")
    BY <1>2, <1>3
  <1>5. AllKnown(h.stack, sub) => AllKnown(h.stack, sub')
    BY <1>2 DEF Known, AllKnown
  <1>6. Carried
    BY <1>2 DEF Carried, Begun
  <1> QED BY <1>1, <1>4, <1>5, <1>6 DEF Safe, Custody, Up

LEMMA Running ==
  ASSUME Safe
  PROVE  /\ sdk.pc.k # "stopped" => Up
         /\ sdk = [pc |-> sdk.pc, work |-> sdk.work]
         /\ sdk.pc \in PcType /\ sdk.work \in Seq(Items) /\ n \in Nat
         /\ \A i \in Ids : sub[i] \in SubType /\ About(sdk.pc, i) \in BOOLEAN
         /\ (h.phase = "run") \in BOOLEAN
         /\ Up => \A i \in Ids : Cust(i, sub[i], About(sdk.pc, i), sdk.work, h.phase = "run")
  <1>1. sdk.pc.k # "stopped" => Up
    BY DEF Safe, Shape, Custody, Up, HostType, Phases
  <1> QED BY <1>1 DEF Safe, Shape, SdkType, About, Custody, Up

\* The SDK can call into subscription i, or does.
Awake(i) == sub[i].client # "none" \/ sub[i].timer \/ About(sdk.pc, i)

LEMMA Callback ==
  ASSUME Safe, Up, NEW i \in Ids, NEW t \in SubType, NEW pc \in PcType,
         Awake(i), SameCustody(sub[i], t), pc.k = "loop" \/ (pc.k # "stopped" /\ pc.id = i),
         sub' = [sub EXCEPT ![i] = t], sdk' = [pc |-> pc, work |-> sdk.work], UNCHANGED h, n' \in Nat
  PROVE  Safe' /\ Carried
  <1>1. About(pc, i) \in BOOLEAN
    BY DEF About
  <1>2. Cust(i, t, About(pc, i), sdk.work, h.phase = "run")
    <2> DEFINE u == sub[i]
               b == About(sdk.pc, i)
               c == About(pc, i)
               r == h.phase = "run"
    <2>1. /\ u \in SubType /\ b \in BOOLEAN /\ c \in BOOLEAN /\ r \in BOOLEAN
          /\ Cust(i, u, b, sdk.work, r) /\ (u.client # "none" \/ u.timer \/ b)
          /\ t.listed = u.listed /\ t.done = u.done /\ t.csched = u.csched /\ (Armed(u) => Armed(t))
      BY <1>1, Running DEF Awake, SameCustody
    <2> HIDE DEF u, b, c, r
    <2>2. Cust(i, t, c, sdk.work, r)
      BY <2>1, CustCallback
    <2> QED BY <2>2 DEF c, r
  <1>3. \A j \in Ids \ {i} : SameFor(j, sdk.work, sdk.work)
    BY SameSelf
  <1> QED BY <1>2, <1>3, Running, SdkStep DEF SameCustody

LEMMA CallbackCancels ==
  ASSUME Safe, Up, NEW i \in Ids, NEW t \in SubType, NEW pc \in PcType,
         Awake(i), t.listed = sub[i].listed, t.done = sub[i].done, t.csched,
         Armed(sub[i]) => Armed(t),
         pc.k = "loop" \/ (pc.k # "stopped" /\ pc.id = i),
         sub' = [sub EXCEPT ![i] = t], sdk' = [pc |-> pc, work |-> sdk.work \o Cancels(sub[i], i)],
         UNCHANGED h, n' \in Nat
  PROVE  Safe' /\ Carried
  <1>1. About(pc, i) \in BOOLEAN /\ ~(Quiet(sub[i]) /\ ~About(sdk.pc, i))
    BY DEF About, Quiet, Awake
  <1>2. sub[i].listed
    BY Running, CustAwake DEF Awake
  <1> DEFINE w == sdk.work \o Cancels(sub[i], i)
  <1>3. Cust(i, t, About(pc, i), w, h.phase = "run")
    <2> DEFINE u == sub[i]
               b == About(sdk.pc, i)
               c == About(pc, i)
               r == h.phase = "run"
    <2>1. /\ u \in SubType /\ b \in BOOLEAN /\ c \in BOOLEAN /\ r \in BOOLEAN
          /\ sdk.work \in Seq(Items) /\ Cust(i, u, b, sdk.work, r) /\ (u.listed \/ u.done)
          /\ t.listed = u.listed /\ t.done = u.done /\ (Quiet(u) /\ ~b => Quiet(t) /\ ~c)
          /\ (Armed(u) => Armed(t))
      BY <1>1, <1>2, Running
    <2> HIDE DEF u, b, c, r
    <2>2. Cust(i, t, c, sdk.work \o Cancels(u, i), r)
      BY <2>1, CustSchedule
    <2> QED BY <2>2 DEF u, c, r
  <1>4. /\ w \in Seq(Items) /\ \A j \in Ids \ {i} : SameFor(j, sdk.work, w)
        /\ Has(w, <<"shutdown", 0>>) => Has(sdk.work, <<"shutdown", 0>>)
    BY Running, QueueGrows
  <1> HIDE DEF w
  <1>5. sdk' = [pc |-> pc, work |-> w]
    BY DEF w
  <1> QED BY <1>2, <1>3, <1>4, <1>5, SdkStep

LEMMA CallbackEnds ==
  ASSUME Safe, Up, NEW i \in Ids, NEW t \in SubType, NEW pc \in PcType, pc.k = "loop",
         Awake(i), t.listed = sub[i].listed, t.done, Quiet(t),
         sub' = [sub EXCEPT ![i] = t], sdk' = [pc |-> pc, work |-> sdk.work \o Reaps(sub[i], i)],
         UNCHANGED h, n' \in Nat
  PROVE  Safe' /\ Carried
  <1>1. Cust(i, sub[i], About(sdk.pc, i), sdk.work, h.phase = "run")
    BY Running
  <1>2. ~Has(sdk.work, <<"start", i>>)
    BY Running, CustAwake DEF Awake
  <1> DEFINE w == sdk.work \o Reaps(sub[i], i)
  <1>3. Cust(i, t, FALSE, w, h.phase = "run")
    BY <1>1, <1>2, Running, CustFinish DEF Cust
  <1>4. /\ w \in Seq(Items) /\ \A j \in Ids \ {i} : SameFor(j, sdk.work, w)
        /\ Has(w, <<"shutdown", 0>>) => Has(sdk.work, <<"shutdown", 0>>)
    BY Running, QueueGrows
  <1> HIDE DEF w
  <1>5. sdk' = [pc |-> pc, work |-> w] /\ About(pc, i) = FALSE
    BY DEF w, About
  <1>6. Cust(i, t, About(pc, i), w, h.phase = "run")
    BY <1>3, <1>5
  <1> QED BY <1>4, <1>5, <1>6, SdkStep

\* FailActive called from a handler of subscription i, which has set s.
LEMMA CallbackFails ==
  ASSUME Safe, Up, NEW i \in Ids, NEW s \in SubType, NEW then \in {"loop", "done"},
         Awake(i), SameCustody(sub[i], s), Failing(s, i, sdk.work, then), UNCHANGED h, n' \in Nat
  PROVE  Safe' /\ Carried
  <1> DEFINE t == IF s.failEm THEN s ELSE FailActive(s)
             pc == IF s.failEm THEN IF then = "done" THEN [k |-> "done", id |-> i] ELSE Loop
                   ELSE [k |-> "fail", id |-> i, g |-> s.gen, emit |-> s.ok, then |-> then]
  <1>1. t \in SubType /\ SameCustody(sub[i], t)
    BY RecoveryShape DEF SameCustody
  <1>2. s.gen \in Nat /\ s.ok \in BOOLEAN
    BY DEF SubType
  <1>3. pc \in PcType /\ (pc.k = "loop" \/ (pc.k # "stopped" /\ pc.id = i))
    <2>1. CASE s.failEm /\ then # "done"
      BY <2>1, IdleShape DEF Loop
    <2>2. CASE ~(s.failEm /\ then # "done")
      BY <1>2, <2>2, HandlerMade, ReportsShape
    <2> QED BY <2>1, <2>2
  <1>4. sub' = [sub EXCEPT ![i] = t] /\ sdk' = [pc |-> pc, work |-> sdk.work]
    BY DEF Failing
  <1> HIDE DEF t, pc
  <1> QED BY <1>1, <1>3, <1>4, Callback

\* The head of the queue is run: x is what it was.
LEMMA RunsHead ==
  ASSUME Safe, NEW kind, NEW x, Runs(kind, x)
  PROVE  LET v == Tail(sdk.work)
         IN /\ Up /\ sdk.pc.k = "loop" /\ sdk = [pc |-> sdk.pc, work |-> sdk.work]
            /\ v \in Seq(Items) /\ <<kind, x>> \in Items
            /\ \A y : Has(sdk.work, y) <=> Has(v, y) \/ y = <<kind, x>>
            /\ \A i \in Ids :
                  /\ Cust(i, sub[i], FALSE, sdk.work, h.phase = "run")
                  /\ Order(v, i)
                  /\ <<kind, x>> \in {<<"start", i>>, <<"cancel", i>>, <<"shutdown", 0>>} =>
                        ~Has(v, <<"start", i>>)
                  /\ <<kind, x>> = <<"reap", i>> => ~Has(v, <<"cancel", i>>)
                  /\ <<kind, x>> \notin OwnItems(i) => SameFor(i, sdk.work, v)
  <1>1. /\ sdk.pc.k = "loop" /\ sdk.work # <<>> /\ Head(sdk.work) = <<kind, x>>
        /\ \A i : About(sdk.pc, i) = FALSE
    BY DEF Runs, SdkIdle, About
  <1>2. Up /\ \A i \in Ids : Cust(i, sub[i], FALSE, sdk.work, h.phase = "run")
    BY <1>1, Running
  <1>3. \A i \in Ids : Order(sdk.work, i)
    BY <1>2 DEF Cust
  <1> QED BY <1>1, <1>2, <1>3, Running, HasTail, OrderTail, SameTail

\* A setup that fails, whose queue is w.
FailedSetup(u) == [PublishFailure(u) EXCEPT !.done = TRUE, !.client = "none"]

LEMMA FailedSetupShape ==
  ASSUME NEW u \in SubType, ~u.timer
  PROVE  LET t == FailedSetup(u) IN t \in SubType /\ t.listed = u.listed /\ t.done /\ Quiet(t)
  BY DEF FailedSetup, PublishFailure, SubType, Clients, Quiet

\* An item of i is run and i is done.
LEMMA ItemEnds ==
  ASSUME Safe, NEW i \in Ids, NEW kind \in {"start", "cancel"}, Runs(kind, i), NEW t \in SubType,
         t.listed = sub[i].listed, t.done, Quiet(t), UNCHANGED h, n' \in Nat,
         sub' = [sub EXCEPT ![i] = t], sdk' = [sdk EXCEPT !.work = Tail(sdk.work) \o Reaps(sub[i], i)]
  PROVE  Safe' /\ Carried
  <1> DEFINE v == Tail(sdk.work)
             w == v \o Reaps(sub[i], i)
             r == h.phase = "run"
  <1>1. /\ Up /\ sdk.pc.k = "loop" /\ v \in Seq(Items) /\ Order(v, i) /\ ~Has(v, <<"start", i>>)
        /\ \A y : Has(sdk.work, y) <=> Has(v, y) \/ y = <<kind, i>>
        /\ Cust(i, sub[i], FALSE, sdk.work, r)
        /\ <<kind, i>> # <<"shutdown", 0>>
        /\ \A j \in Ids \ {i} : SameFor(j, sdk.work, v)
    BY RunsHead DEF OwnItems
  <1>2. /\ Has(v, <<"cancel", i>>) => sub[i].listed
        /\ Has(v, <<"reap", i>>) => sub[i].done
        /\ r /\ sub[i].listed /\ sub[i].done => Has(v, <<"reap", i>>)
    BY <1>1 DEF Cust
  <1>3. sub[i] \in SubType /\ r \in BOOLEAN /\ sdk.pc \in PcType /\ sdk = [pc |-> sdk.pc, work |-> sdk.work]
    BY Running
  <1>4. /\ w \in Seq(Items) /\ \A j \in Ids \ {i} : SameFor(j, v, w)
        /\ Has(w, <<"shutdown", 0>>) => Has(v, <<"shutdown", 0>>)
    BY <1>1, QueueGrows
  <1>5. sdk' = [pc |-> sdk.pc, work |-> w] /\ About(sdk.pc, i) = FALSE
    BY <1>1, <1>3 DEF About
  <1> HIDE DEF v, r
  <1>6. Cust(i, t, FALSE, w, r)
    BY <1>1, <1>2, <1>3, CustFinish
  <1> HIDE DEF w
  <1>7. \A j \in Ids \ {i} : SameFor(j, sdk.work, w)
    BY <1>1, <1>4, SameTwice
  <1>8. Cust(i, t, About(sdk.pc, i), w, h.phase = "run")
    BY <1>5, <1>6 DEF r
  <1> QED BY <1>1, <1>3, <1>4, <1>5, <1>7, <1>8, SdkStep

LEMMA RunStartSafe ==
  ASSUME Safe, NEW i \in Ids, RunStart(i)
  PROVE  Safe' /\ Carried
  <1>1. Runs("start", i) /\ UNCHANGED <<h, n>> /\ n' \in Nat
    BY Running DEF RunStart
  <1>2. /\ sub[i] \in SubType /\ sub[i].listed /\ ~sub[i].done /\ Quiet(sub[i])
        /\ Cust(i, sub[i], FALSE, sdk.work, h.phase = "run")
    BY <1>1, Running, RunsHead DEF Cust
  <1>3. CASE sub' = [sub EXCEPT ![i].client = "connect"] /\ sdk' = [sdk EXCEPT !.work = Tail(@)]
    <2> DEFINE v == Tail(sdk.work)
               t == [sub[i] EXCEPT !.client = "connect"]
    <2>1. /\ Up /\ sdk.pc.k = "loop" /\ v \in Seq(Items) /\ Order(v, i) /\ ~Has(v, <<"start", i>>)
          /\ \A y : Has(sdk.work, y) <=> Has(v, y) \/ y = <<"start", i>>
          /\ \A j \in Ids \ {i} : SameFor(j, sdk.work, v)
      BY <1>1, RunsHead DEF OwnItems
    <2>2. t \in SubType /\ t.listed /\ ~t.done /\ Armed(t) /\ t.csched = sub[i].csched
      BY <1>2 DEF SubType, Clients, Armed, Quiet
    <2>3. sdk' = [pc |-> sdk.pc, work |-> v] /\ About(sdk.pc, i) = FALSE /\ sdk.pc \in PcType
      BY <1>3, <2>1, Running DEF About
    <2> HIDE DEF v, t
    <2>4. Cust(i, t, About(sdk.pc, i), v, h.phase = "run")
      BY <1>2, <2>1, <2>2, <2>3 DEF Cust
    <2>5. sub' = [sub EXCEPT ![i] = t]
      BY <1>3 DEF t
    <2> QED BY <1>1, <1>2, <2>1, <2>2, <2>3, <2>4, <2>5, SdkStep
  <1>4. CASE SetupFails(i, Tail(sdk.work))
    <2> DEFINE t == FailedSetup(sub[i])
    <2>1. t \in SubType /\ t.listed = sub[i].listed /\ t.done /\ Quiet(t)
      BY <1>2, FailedSetupShape DEF Quiet
    <2>2. sub' = [sub EXCEPT ![i] = t]
      BY <1>4 DEF SetupFails, FailedSetup
    <2>3. sdk' = [sdk EXCEPT !.work = Tail(sdk.work) \o Reaps(sub[i], i)]
      BY <1>4 DEF SetupFails
    <2> HIDE DEF t
    <2> QED BY <1>1, <2>1, <2>2, <2>3, ItemEnds
  <1> QED BY <1>3, <1>4 DEF RunStart

LEMMA RunCancelSafe ==
  ASSUME Safe, NEW i \in Ids, RunCancel(i)
  PROVE  Safe' /\ Carried
  <1> DEFINE t == CancelOnSdkThread(sub[i])
  <1>1. t \in SubType /\ t.listed = sub[i].listed /\ t.done /\ Quiet(t)
    BY Running, CancelShape
  <1>2. /\ Runs("cancel", i) /\ UNCHANGED <<h, n>> /\ n' \in Nat /\ sub' = [sub EXCEPT ![i] = t]
        /\ sdk' = [sdk EXCEPT !.work = Tail(sdk.work) \o Reaps(sub[i], i)]
    BY Running DEF RunCancel
  <1> HIDE DEF t
  <1> QED BY <1>1, <1>2, ItemEnds

LEMMA RunReapSafe ==
  ASSUME Safe, NEW i \in Ids, RunReap(i)
  PROVE  Safe' /\ Carried
  <1> DEFINE v == Tail(sdk.work)
             t == [sub[i] EXCEPT !.listed = FALSE]
  <1>1. Runs("reap", i) /\ UNCHANGED <<h, n>> /\ n' \in Nat
    BY Running DEF RunReap
  <1>2. /\ Up /\ sdk.pc.k = "loop" /\ v \in Seq(Items) /\ Order(v, i) /\ ~Has(v, <<"cancel", i>>)
        /\ \A y : Has(sdk.work, y) <=> Has(v, y) \/ y = <<"reap", i>>
        /\ \A j \in Ids \ {i} : SameFor(j, sdk.work, v)
        /\ Cust(i, sub[i], FALSE, sdk.work, h.phase = "run")
    BY <1>1, RunsHead DEF OwnItems
  <1>3. sub[i] \in SubType /\ sub[i].done
    BY <1>2, Running DEF Cust
  <1>4. sub' = [sub EXCEPT ![i] = t]
    BY <1>3 DEF RunReap
  <1>5. t \in SubType /\ ~t.listed /\ t.done /\ t.client = sub[i].client /\ t.timer = sub[i].timer
    BY <1>3 DEF SubType
  <1>6. sdk' = [pc |-> sdk.pc, work |-> v] /\ About(sdk.pc, i) = FALSE /\ sdk.pc \in PcType
    BY <1>2, Running DEF About, RunReap
  <1> HIDE DEF v, t
  <1>7. Cust(i, t, About(sdk.pc, i), v, h.phase = "run")
    BY <1>2, <1>3, <1>5, <1>6 DEF Cust, Quiet, Armed
  <1> QED BY <1>1, <1>2, <1>4, <1>5, <1>6, <1>7, SdkStep

LEMMA RunShutdownSafe ==
  ASSUME Safe, RunShutdown
  PROVE  Safe' /\ Carried
  <1> DEFINE v == Tail(sdk.work)
             s(i) == IF sub[i].listed THEN CancelOnSdkThread(sub[i]) ELSE sub[i]
  <1>1. Runs("shutdown", 0) /\ UNCHANGED <<h, n>> /\ sub' = [i \in Ids |-> s(i)]
    BY DEF RunShutdown
  <1>2. /\ Up /\ sdk.pc.k = "loop" /\ v \in Seq(Items) /\ Has(sdk.work, <<"shutdown", 0>>)
        /\ \A y : Has(v, y) => Has(sdk.work, y)
    BY <1>1, RunsHead
  <1>3. h.phase = "closing"
    BY <1>2 DEF Safe, Custody, Up
  <1>4. sdk' = [pc |-> sdk.pc, work |-> v] /\ \A i : About(sdk.pc, i) = FALSE
    BY <1>2, Running DEF About, RunShutdown
  <1>5. ASSUME NEW i \in Ids
        PROVE  s(i) \in SubType /\ Cust(i, s(i), FALSE, v, FALSE)
    <2>1. /\ Order(v, i) /\ ~Has(v, <<"start", i>>) /\ SameFor(i, sdk.work, v)
          /\ Cust(i, sub[i], FALSE, sdk.work, FALSE) /\ sub[i] \in SubType
      <3>1. <<"shutdown", 0>> \notin OwnItems(i)
        BY DEF OwnItems
      <3>2. Cust(i, sub[i], FALSE, sdk.work, h.phase = "run") /\ (h.phase = "run") = FALSE
        BY <1>1, <1>3, RunsHead
      <3> QED BY <1>1, <3>1, <3>2, Running, RunsHead
    <2>2. CASE sub[i].listed
      <3> DEFINE t == CancelOnSdkThread(sub[i])
      <3>1. s(i) = t /\ t \in SubType /\ t.listed = sub[i].listed /\ t.done /\ Quiet(t)
        BY <2>1, <2>2, CancelShape
      <3> HIDE DEF t, s
      <3> QED BY <2>1, <2>2, <3>1 DEF Cust, Quiet, Armed
    <2>3. CASE ~sub[i].listed
      BY <2>1, <2>3, CustOther
    <2> QED BY <2>2, <2>3
  <1> HIDE DEF v, s
  <1>6. Shape'
    BY <1>1, <1>2, <1>4, <1>5 DEF Safe, Shape, SdkType
  <1>7. \A i \in Ids : Cust(i, sub'[i], FALSE, v, FALSE)
    BY <1>1, <1>5
  <1>8. sdk'.pc = sdk.pc /\ sdk'.work = v /\ (h.phase = "run") = FALSE
    BY <1>3, <1>4
  <1>9. Carried
    BY <1>1, <1>3 DEF Carried
  <1> QED BY <1>1, <1>2, <1>3, <1>4, <1>6, <1>7, <1>8, <1>9 DEF Safe, Custody, Up

\* A callback of the device's, or the next part of a handler.
LEMMA HandlerRuns ==
  ASSUME Safe, NEW i \in Ids, Awake(i), sdk.pc.k # "stopped"
  PROVE  Up /\ sub[i] \in SubType /\ sub[i].listed /\ ~sub[i].done
  BY Running, CustAwake DEF Awake

LEMMA ConnectedSafe ==
  ASSUME Safe, NEW i \in Ids, Connected(i)
  PROVE  Safe' /\ Carried
  <1>1. /\ sdk.pc.k = "loop" /\ sub[i].client = "connect" /\ Awake(i) /\ UNCHANGED <<h, n>> /\ n' \in Nat
        /\ About(sdk.pc, i) = FALSE
    BY Running DEF Connected, SdkIdle, Awake, About
  <1>2. Up /\ sub[i] \in SubType /\ sub[i].listed /\ ~sub[i].done
    BY <1>1, HandlerRuns
  <1>3. CASE sub' = [sub EXCEPT ![i].client = "sent"] /\ UNCHANGED sdk
    <2> DEFINE t == [sub[i] EXCEPT !.client = "sent"]
    <2>1. t \in SubType /\ SameCustody(sub[i], t)
      BY <1>2, UpdateShape DEF Clients
    <2>2. sub' = [sub EXCEPT ![i] = t] /\ sdk' = [pc |-> sdk.pc, work |-> sdk.work] /\ sdk.pc \in PcType
      BY <1>3, Running
    <2> HIDE DEF t
    <2> QED BY <1>1, <1>2, <2>1, <2>2, Callback
  <1>4. CASE SetupFails(i, sdk.work)
    <2> DEFINE t == FailedSetup(sub[i])
    <2>1. ~sub[i].timer
      BY <1>1, <1>2, Running DEF Cust, Armed
    <2>2. t \in SubType /\ t.listed = sub[i].listed /\ t.done /\ Quiet(t)
      BY <1>2, <2>1, FailedSetupShape
    <2>3. sub' = [sub EXCEPT ![i] = t]
      BY <1>4 DEF SetupFails, FailedSetup
    <2>4. sdk' = [pc |-> sdk.pc, work |-> sdk.work \o Reaps(sub[i], i)]
      BY <1>4, Running DEF SetupFails
    <2>5. sdk.pc \in PcType
      BY Running
    <2> HIDE DEF t
    <2> QED BY <1>1, <1>2, <2>2, <2>3, <2>4, <2>5, CallbackEnds
  <1> QED BY <1>3, <1>4 DEF Connected

\* A step of a handler, or of the device towards a subscription with a client.
LEMMA HandlerSteps ==
  ASSUME Safe, NEW i \in Ids, About(sdk.pc, i) \/ (SdkIdle /\ (sub[i].client # "none" \/ sub[i].timer))
  PROVE  /\ Up /\ Awake(i) /\ sub[i] \in SubType /\ sub[i].listed /\ ~sub[i].done /\ n \in Nat
         /\ sdk.pc \in PcType /\ sdk = [pc |-> sdk.pc, work |-> sdk.work] /\ SameCustody(sub[i], sub[i])
         /\ Loop \in PcType /\ Loop.k = "loop"
  <1>1. Awake(i) /\ sdk.pc.k # "stopped"
    BY DEF Awake, About, SdkIdle
  <1> QED BY <1>1, HandlerRuns, Running, IdleShape DEF SameCustody, Loop

LEMMA ScheduledShape ==
  ASSUME NEW u \in SubType
  PROVE  LET t == [u EXCEPT !.csched = TRUE]
         IN /\ t \in SubType /\ t.listed = u.listed /\ t.done = u.done /\ t.csched /\ (Armed(u) => Armed(t))
            /\ t.client = u.client /\ t.timer = u.timer
  BY DEF SubType, Armed

LEMMA FailEmitSafe ==
  ASSUME Safe, FailEmit
  PROVE  Safe' /\ Carried
  <1> DEFINE i == sdk.pc.id
             t == [sub[i] EXCEPT !.csched = TRUE]
             pc == IF sdk.pc.then = "done" THEN [k |-> "done", id |-> i] ELSE Loop
  <1>1. sdk.pc \in PcType /\ sdk.pc.k = "fail"
    BY Running DEF FailEmit
  <1>2. i \in Ids /\ About(sdk.pc, i)
    BY <1>1, HandlerShape DEF About
  <1> HIDE DEF i
  <1>3. Up /\ Awake(i) /\ sub[i] \in SubType /\ n \in Nat
    BY <1>2, HandlerSteps
  <1>4. pc \in PcType /\ (pc.k = "loop" \/ (pc.k # "stopped" /\ pc.id = i))
    <2>1. CASE sdk.pc.then # "done"
      BY <2>1, IdleShape DEF Loop
    <2>2. CASE sdk.pc.then = "done"
      BY <1>2, <2>2, HandlerMade, ReportsShape
    <2> QED BY <2>1, <2>2
  <1>5. /\ sub' = [sub EXCEPT ![i] = t] /\ sdk' = [pc |-> pc, work |-> sdk.work \o Cancels(sub[i], i)]
        /\ UNCHANGED <<h, n>>
    BY DEF FailEmit, i
  <1>6. /\ t \in SubType /\ t.listed = sub[i].listed /\ t.done = sub[i].done /\ t.csched
        /\ (Armed(sub[i]) => Armed(t))
    BY <1>3, ScheduledShape
  <1> HIDE DEF t, pc
  <1> QED BY <1>2, <1>3, <1>4, <1>5, <1>6, CallbackCancels

LEMMA ClientDoneSafe ==
  ASSUME Safe, ClientDone
  PROVE  Safe' /\ Carried
  <1> DEFINE i == sdk.pc.id
             t == [sub[i] EXCEPT !.client = "none", !.timer = FALSE, !.done = TRUE]
  <1>1. sdk.pc \in PcType /\ sdk.pc.k = "done"
    BY Running DEF ClientDone
  <1>2. i \in Ids /\ About(sdk.pc, i)
    BY <1>1, HandlerShape DEF About
  <1>3. /\ sub' = [sub EXCEPT ![i] = t] /\ sdk' = [pc |-> Loop, work |-> sdk.work \o Reaps(sub[i], i)]
        /\ UNCHANGED <<h, n>>
    BY DEF ClientDone
  <1> HIDE DEF i
  <1>4. Up /\ Awake(i) /\ sub[i] \in SubType /\ n \in Nat /\ Loop \in PcType /\ Loop.k = "loop"
    BY <1>2, HandlerSteps
  <1>5. t \in SubType /\ t.listed = sub[i].listed /\ t.done /\ Quiet(t)
    BY <1>4 DEF SubType, Clients, Quiet
  <1> HIDE DEF t
  <1> QED BY <1>2, <1>3, <1>4, <1>5, CallbackEnds

LEMMA ReportDataSafe ==
  ASSUME Safe, NEW i \in Ids, ReportData(i)
  PROVE  Safe' /\ Carried
  <1>1. SdkIdle /\ sub[i].client # "none" /\ n' = n + 1 /\ UNCHANGED h
    BY DEF ReportData
  <1>2. /\ Up /\ Awake(i) /\ sub[i] \in SubType /\ n \in Nat
        /\ sdk = [pc |-> sdk.pc, work |-> sdk.work] /\ n' \in Nat
    BY <1>1, HandlerSteps
  <1> DEFINE t == Add(sub[i], n')
             pc == [k |-> "end", id |-> i]
  <1>3. t \in SubType /\ SameCustody(sub[i], t)
    BY <1>2, BufferShape
  <1>4. pc \in PcType /\ pc.k \notin {"loop", "stopped"} /\ pc.id = i
    BY HandlerMade, ReportsShape
  <1>5. CASE sub' = [sub EXCEPT ![i] = Add(@, n')] /\ sdk' = [sdk EXCEPT !.pc = [k |-> "end", id |-> i]]
    <2>1. sub' = [sub EXCEPT ![i] = t] /\ sdk' = [pc |-> pc, work |-> sdk.work]
      BY <1>2, <1>5
    <2> HIDE DEF t, pc
    <2> QED BY <1>1, <1>2, <1>3, <1>4, <2>1, Callback
  <1>6. CASE Failing(Add(sub[i], n'), i, sdk.work, "loop")
    <2>1. Failing(t, i, sdk.work, "loop")
      BY <1>6
    <2> HIDE DEF t
    <2> QED BY <1>1, <1>2, <1>3, <2>1, CallbackFails
  <1> QED BY <1>5, <1>6 DEF ReportData

LEMMA ReportEndSafe ==
  ASSUME Safe, ReportEnd
  PROVE  Safe' /\ Carried
  <1> DEFINE i == sdk.pc.id
             t == TakeReady(sub[i])
             pc == [k |-> "emit", id |-> i, g |-> sub[i].gen, reps |-> sub[i].ready]
  <1>1. sdk.pc \in PcType /\ sdk.pc.k = "end"
    BY Running DEF ReportEnd
  <1>2. i \in Ids /\ About(sdk.pc, i)
    BY <1>1, HandlerShape DEF About
  <1>3. /\ sub' = [sub EXCEPT ![i] = t] /\ sdk' = [pc |-> pc, work |-> sdk.work] /\ UNCHANGED <<h, n>>
    BY Running DEF ReportEnd
  <1> HIDE DEF i
  <1>4. Up /\ Awake(i) /\ sub[i] \in SubType /\ n \in Nat
    BY <1>2, HandlerSteps
  <1>5. t \in SubType /\ SameCustody(sub[i], t)
    BY <1>4, BufferShape
  <1>6. sub[i].gen \in Nat /\ sub[i].ready \in Reports
    BY <1>4 DEF SubType
  <1>7. pc \in PcType /\ pc.k \notin {"loop", "stopped"} /\ pc.id = i
    BY <1>2, <1>6, HandlerMade
  <1> HIDE DEF t, pc
  <1> QED BY <1>2, <1>3, <1>4, <1>5, <1>7, Callback

LEMMA EmitRest ==
  ASSUME NEW z, NEW i, NEW g, NEW r, NEW x, z = [k |-> "emit", id |-> i, g |-> g, reps |-> r]
  PROVE  [z EXCEPT !.reps = x] = [k |-> "emit", id |-> i, g |-> g, reps |-> x]
  OBVIOUS

LEMMA EmitSafe ==
  ASSUME Safe, Emit
  PROVE  Safe' /\ Carried
  <1> DEFINE i == sdk.pc.id
             t == [sub[i] EXCEPT !.csched = TRUE]
             pc == [k |-> "emit", id |-> i, g |-> sdk.pc.g, reps |-> Tail(sdk.pc.reps)]
  <1>1. sdk.pc \in PcType /\ sdk.pc.k = "emit" /\ UNCHANGED <<h, n>>
    BY Running DEF Emit
  <1>2. i \in Ids /\ About(sdk.pc, i) /\ sdk.pc.g \in Nat /\ sdk.pc.reps \in Reports
    BY <1>1, HandlerShape DEF About
  <1>3. sdk.pc = [k |-> "emit", id |-> i, g |-> sdk.pc.g, reps |-> sdk.pc.reps]
    BY <1>1 DEF PcType, IdleType, BusyType
  <1>4. \/ sdk' = [sdk EXCEPT !.pc = Loop] /\ UNCHANGED sub
        \/ sdk.pc.reps # <<>> /\ sdk' = [sdk EXCEPT !.pc.reps = Tail(@)] /\ UNCHANGED sub
        \/ sub' = [sub EXCEPT ![i] = t] /\ sdk' = [pc |-> Loop, work |-> sdk.work \o Cancels(sub[i], i)]
    BY DEF Emit
  <1>5. /\ Up /\ Awake(i) /\ sub[i] \in SubType /\ n \in Nat /\ SameCustody(sub[i], sub[i])
        /\ Loop \in PcType /\ Loop.k = "loop" /\ sdk = [pc |-> sdk.pc, work |-> sdk.work]
    BY <1>2, HandlerSteps
  <1>6. sub = [sub EXCEPT ![i] = sub[i]]
    BY <1>2 DEF Safe, Shape
  <1> HIDE DEF i
  <1>7. CASE sdk' = [sdk EXCEPT !.pc = Loop] /\ UNCHANGED sub
    <2>1. sub' = [sub EXCEPT ![i] = sub[i]] /\ sdk' = [pc |-> Loop, work |-> sdk.work]
      BY <1>5, <1>6, <1>7
    <2> QED BY <1>1, <1>2, <1>5, <2>1, Callback
  <1>8. CASE sdk.pc.reps # <<>> /\ sdk' = [sdk EXCEPT !.pc.reps = Tail(@)] /\ UNCHANGED sub
    <2>1. Tail(sdk.pc.reps) \in Reports
      BY <1>2, <1>8, ReportsShape
    <2>2. pc \in PcType /\ pc.k \notin {"loop", "stopped"} /\ pc.id = i
      BY <1>2, <2>1, HandlerMade
    <2>3. sdk' = [pc |-> pc, work |-> sdk.work] /\ sub' = [sub EXCEPT ![i] = sub[i]]
      <3>1. pc = [sdk.pc EXCEPT !.reps = Tail(sdk.pc.reps)]
        <4> DEFINE z == sdk.pc
                   g == sdk.pc.g
                   r == sdk.pc.reps
                   x == Tail(r)
        <4>1. z = [k |-> "emit", id |-> i, g |-> g, reps |-> r]
          BY <1>3
        <4> HIDE DEF z, g, r, x
        <4>2. [z EXCEPT !.reps = x] = [k |-> "emit", id |-> i, g |-> g, reps |-> x]
          BY <4>1, EmitRest
        <4> QED BY <4>2 DEF z, g, r, x
      <3> HIDE DEF pc
      <3> QED BY <1>5, <1>6, <1>8, <3>1
    <2> HIDE DEF pc
    <2> QED BY <1>1, <1>2, <1>5, <2>2, <2>3, Callback
  <1>9. CASE sub' = [sub EXCEPT ![i] = t] /\ sdk' = [pc |-> Loop, work |-> sdk.work \o Cancels(sub[i], i)]
    <2>1. /\ t \in SubType /\ t.listed = sub[i].listed /\ t.done = sub[i].done /\ t.csched
          /\ (Armed(sub[i]) => Armed(t))
      BY <1>5, ScheduledShape
    <2> HIDE DEF t
    <2> QED BY <1>1, <1>2, <1>5, <1>9, <2>1, CallbackCancels
  <1> QED BY <1>4, <1>7, <1>8, <1>9

LEMMA EstablishedSafe ==
  ASSUME Safe, NEW i \in Ids, Established(i)
  PROVE  Safe' /\ Carried
  <1>1. SdkIdle /\ sub[i].client # "none" /\ UNCHANGED <<h, n>> /\ sub[i].client = "sent" /\ sdk.pc.k = "loop"
    BY DEF Established, SdkIdle
  <1>2. /\ Up /\ Awake(i) /\ sub[i] \in SubType /\ n \in Nat
        /\ sdk.pc \in PcType /\ sdk = [pc |-> sdk.pc, work |-> sdk.work]
    BY <1>1, HandlerSteps
  <1> DEFINE e == Establish(sub[i])
             t == [e EXCEPT !.client = "live", !.ok = TRUE, !.pub = TRUE]
             c == [e EXCEPT !.client = "live", !.pub = TRUE, !.csched = TRUE]
  <1>3. e \in SubType /\ SameCustody(sub[i], e)
    BY <1>2, BufferShape
  <1>4. CASE sub' = [sub EXCEPT ![i] = t] /\ UNCHANGED sdk
    <2> HIDE DEF e
    <2>1. t \in SubType /\ SameCustody(sub[i], t)
      BY <1>3 DEF SubType, Clients, SameCustody, Armed
    <2> HIDE DEF t
    <2> QED BY <1>1, <1>2, <1>4, <2>1, Callback
  <1>5. CASE sub' = [sub EXCEPT ![i] = c] /\ sdk' = [sdk EXCEPT !.work = @ \o Cancels(sub[i], i)]
    <2> HIDE DEF e
    <2>1. c \in SubType /\ c.listed = sub[i].listed /\ c.done = sub[i].done /\ c.csched /\ Armed(c)
      BY <1>3 DEF SubType, Clients, SameCustody, Armed
    <2> HIDE DEF c
    <2>2. sdk' = [pc |-> sdk.pc, work |-> sdk.work \o Cancels(sub[i], i)]
      BY <1>2, <1>5
    <2> QED BY <1>1, <1>2, <1>5, <2>1, <2>2, CallbackCancels
  <1> QED BY <1>4, <1>5 DEF Established

LEMMA EstablishedInvalidSafe ==
  ASSUME Safe, NEW i \in Ids, EstablishedInvalid(i)
  PROVE  Safe' /\ Carried
  <1>1. SdkIdle /\ sub[i].client # "none" /\ UNCHANGED <<h, n>> /\ sdk.pc.k = "loop"
    BY DEF EstablishedInvalid, SdkIdle
  <1>2. /\ Up /\ Awake(i) /\ sub[i] \in SubType /\ n \in Nat
        /\ sdk.pc \in PcType /\ sdk = [pc |-> sdk.pc, work |-> sdk.work]
    BY <1>1, HandlerSteps
  <1> DEFINE t == [sub[i] EXCEPT !.client = "live"]
             c == [PublishFailure(sub[i]) EXCEPT !.csched = TRUE, !.client = "live"]
  <1>3. CASE Failing([sub[i] EXCEPT !.client = "live"], i, sdk.work, "loop")
    <2>1. t \in SubType /\ SameCustody(sub[i], t) /\ Failing(t, i, sdk.work, "loop")
      BY <1>2, <1>3, UpdateShape DEF Clients
    <2> HIDE DEF t
    <2> QED BY <1>1, <1>2, <2>1, CallbackFails
  <1>4. CASE sub' = [sub EXCEPT ![i] = c] /\ sdk' = [sdk EXCEPT !.work = @ \o Cancels(sub[i], i)]
    <2>1. c \in SubType /\ c.listed = sub[i].listed /\ c.done = sub[i].done /\ c.csched /\ Armed(c)
      BY <1>2 DEF PublishFailure, SubType, Clients, Armed
    <2> HIDE DEF c
    <2>2. sdk' = [pc |-> sdk.pc, work |-> sdk.work \o Cancels(sub[i], i)]
      BY <1>2, <1>4
    <2> QED BY <1>1, <1>2, <1>4, <2>1, <2>2, CallbackCancels
  <1> QED BY <1>3, <1>4 DEF EstablishedInvalid

LEMMA ReestablishedSafe ==
  ASSUME Safe, NEW i \in Ids, Reestablished(i)
  PROVE  Safe' /\ Carried
  <1>1. SdkIdle /\ sub[i].client # "none" /\ UNCHANGED <<h, n>> /\ sdk.pc.k = "loop"
    BY DEF Reestablished, SdkIdle
  <1>2. Up /\ Awake(i) /\ sub[i] \in SubType /\ n \in Nat /\ sdk = [pc |-> sdk.pc, work |-> sdk.work]
    BY <1>1, HandlerSteps
  <1> DEFINE e == Establish(sub[i])
             s == BufferActivate(e)
             r == TakeReady(s)
             t == [r EXCEPT !.client = "live", !.timer = FALSE]
             f == [e EXCEPT !.client = "live"]
             pc == [k |-> "resubscribed", id |-> i, g |-> s.gen, a |-> s.attempt, reps |-> s.ready]
  <1>3. e \in SubType /\ SameCustody(sub[i], e)
    BY <1>2, BufferShape
  <1>4. s \in SubType /\ SameCustody(e, s) /\ r \in SubType /\ SameCustody(s, r)
    BY <1>2, <1>3, BufferShape
  <1>5. CASE sub' = [sub EXCEPT ![i] = t] /\ sdk' = [sdk EXCEPT !.pc = pc]
    <2> HIDE DEF s, r, e
    <2>1. t \in SubType /\ SameCustody(sub[i], t)
      BY <1>3, <1>4 DEF SubType, Clients, SameCustody, Armed
    <2>2. s.gen \in Nat /\ s.attempt \in Nat /\ s.ready \in Reports
      BY <1>4 DEF SubType
    <2>3. pc \in PcType /\ pc.k \notin {"loop", "stopped"} /\ pc.id = i
      BY <2>2, HandlerMade
    <2> HIDE DEF t, pc
    <2>4. sdk' = [pc |-> pc, work |-> sdk.work]
      BY <1>2, <1>5
    <2> QED BY <1>1, <1>2, <1>5, <2>1, <2>3, <2>4, Callback
  <1>6. CASE Failing(f, i, sdk.work, "loop")
    <2> HIDE DEF s, r, e
    <2>1. f \in SubType /\ SameCustody(sub[i], f)
      BY <1>3 DEF SubType, Clients, SameCustody, Armed
    <2> HIDE DEF f
    <2> QED BY <1>1, <1>2, <1>6, <2>1, CallbackFails
  <1> QED BY <1>5, <1>6 DEF Reestablished

LEMMA StatusResubscribedSafe ==
  ASSUME Safe, StatusResubscribed
  PROVE  Safe' /\ Carried
  <1> DEFINE i == sdk.pc.id
             t == RecoveryEstablished(sub[i])
             pc == [k |-> "emit", id |-> i, g |-> sdk.pc.g, reps |-> sdk.pc.reps]
  <1>1. sdk.pc \in PcType /\ sdk.pc.k = "resubscribed" /\ UNCHANGED <<h, n>>
    BY Running DEF StatusResubscribed
  <1>2. i \in Ids /\ About(sdk.pc, i) /\ sdk.pc.g \in Nat /\ sdk.pc.reps \in Reports
    BY <1>1, HandlerShape DEF About
  <1>3. \/ sub' = [sub EXCEPT ![i] = t] /\ sdk' = [sdk EXCEPT !.pc = pc]
        \/ Failing(sub[i], i, sdk.work, "loop")
    BY DEF StatusResubscribed
  <1> HIDE DEF i
  <1>4. /\ Up /\ Awake(i) /\ sub[i] \in SubType /\ n \in Nat /\ SameCustody(sub[i], sub[i])
        /\ sdk = [pc |-> sdk.pc, work |-> sdk.work]
    BY <1>2, HandlerSteps
  <1>5. t \in SubType /\ SameCustody(sub[i], t)
    BY <1>4, RecoveryShape
  <1>6. pc \in PcType /\ pc.k \notin {"loop", "stopped"} /\ pc.id = i
    BY <1>2, HandlerMade
  <1> HIDE DEF t, pc
  <1>7. sdk' = [sdk EXCEPT !.pc = pc] => sdk' = [pc |-> pc, work |-> sdk.work]
    BY <1>4
  <1>8. CASE Failing(sub[i], i, sdk.work, "loop")
    BY <1>1, <1>2, <1>4, <1>8, CallbackFails
  <1> QED BY <1>1, <1>2, <1>3, <1>4, <1>5, <1>6, <1>7, <1>8, Callback

LEMMA ResubscriptionNeededSafe ==
  ASSUME Safe, NEW i \in Ids, ResubscriptionNeeded(i)
  PROVE  Safe' /\ Carried
  <1>1. SdkIdle /\ sub[i].client # "none" /\ UNCHANGED <<h, n>>
    BY DEF ResubscriptionNeeded
  <1>2. /\ Up /\ Awake(i) /\ sub[i] \in SubType /\ n \in Nat /\ SameCustody(sub[i], sub[i])
        /\ sdk = [pc |-> sdk.pc, work |-> sdk.work]
    BY <1>1, HandlerSteps
  <1> DEFINE t == [Recover(sub[i]) EXCEPT !.client = "sent"]
             pc == [k |-> "resubscribing", id |-> i, g |-> NextGeneration(sub[i]), a |-> NextAttempt(sub[i])]
  <1>3. t \in SubType /\ SameCustody(sub[i], t) /\ NextGeneration(sub[i]) \in Nat /\ NextAttempt(sub[i]) \in Nat
    BY <1>2, RecoveryShape
  <1>4. pc \in PcType /\ pc.k \notin {"loop", "stopped"} /\ pc.id = i
    BY <1>3, HandlerMade, ReportsShape
  <1>5. \/ sub' = [sub EXCEPT ![i] = t] /\ sdk' = [sdk EXCEPT !.pc = pc]
        \/ Failing(sub[i], i, sdk.work, "loop")
    BY DEF ResubscriptionNeeded
  <1> HIDE DEF t, pc
  <1>6. sdk' = [sdk EXCEPT !.pc = pc] => sdk' = [pc |-> pc, work |-> sdk.work]
    BY <1>2
  <1>7. CASE Failing(sub[i], i, sdk.work, "loop")
    BY <1>1, <1>2, <1>7, CallbackFails
  <1> QED BY <1>1, <1>2, <1>3, <1>4, <1>5, <1>6, <1>7, Callback

LEMMA StatusResubscribingSafe ==
  ASSUME Safe, StatusResubscribing
  PROVE  Safe' /\ Carried
  <1> DEFINE i == sdk.pc.id
  <1>1. sdk.pc \in PcType /\ sdk.pc.k = "resubscribing" /\ UNCHANGED <<h, n>>
    BY Running DEF StatusResubscribing
  <1>2. i \in Ids /\ About(sdk.pc, i)
    BY <1>1, HandlerShape DEF About
  <1>3. \/ sdk' = [sdk EXCEPT !.pc = Loop] /\ UNCHANGED sub
        \/ Failing(sub[i], i, sdk.work, "loop")
    BY DEF StatusResubscribing
  <1> HIDE DEF i
  <1>4. /\ Up /\ Awake(i) /\ sub[i] \in SubType /\ n \in Nat /\ SameCustody(sub[i], sub[i])
        /\ sdk = [pc |-> sdk.pc, work |-> sdk.work] /\ Loop \in PcType /\ Loop.k = "loop"
    BY <1>2, HandlerSteps
  <1>5. sub = [sub EXCEPT ![i] = sub[i]]
    BY <1>2 DEF Safe, Shape
  <1>6. sdk' = [sdk EXCEPT !.pc = Loop] => sdk' = [pc |-> Loop, work |-> sdk.work]
    BY <1>4
  <1>7. CASE Failing(sub[i], i, sdk.work, "loop")
    BY <1>1, <1>2, <1>4, <1>7, CallbackFails
  <1> QED BY <1>1, <1>2, <1>3, <1>4, <1>5, <1>6, <1>7, Callback

LEMMA SessionLostSafe ==
  ASSUME Safe, NEW i \in Ids, SessionLost(i)
  PROVE  Safe' /\ Carried
  <1>1. SdkIdle /\ sub[i].client # "none" /\ UNCHANGED <<h, n>> /\ Failing(sub[i], i, sdk.work, "done")
    BY DEF SessionLost
  <1>2. Up /\ Awake(i) /\ sub[i] \in SubType /\ n \in Nat /\ SameCustody(sub[i], sub[i])
    BY <1>1, HandlerSteps
  <1> QED BY <1>1, <1>2, CallbackFails

LEMMA RecoveryDeadlineSafe ==
  ASSUME Safe, NEW i \in Ids, RecoveryDeadline(i)
  PROVE  Safe' /\ Carried
  <1> DEFINE t == [sub[i] EXCEPT !.timer = FALSE]
  <1>1. SdkIdle /\ sub[i].timer /\ UNCHANGED <<h, n>> /\ Failing(t, i, sdk.work, "loop")
    BY DEF RecoveryDeadline
  <1>2. Up /\ Awake(i) /\ sub[i] \in SubType /\ n \in Nat
    BY <1>1, HandlerSteps
  <1>3. t \in SubType /\ SameCustody(sub[i], t)
    BY <1>2, UpdateShape DEF Clients
  <1> HIDE DEF t
  <1> QED BY <1>1, <1>2, <1>3, CallbackFails

LEMMA SdkSafe ==
  ASSUME Safe, SdkWork \/ Device
  PROVE  Safe' /\ Carried
  BY RunStartSafe, RunCancelSafe, RunReapSafe, FailEmitSafe, ClientDoneSafe, ReportEndSafe, EmitSafe,
     StatusResubscribedSafe, StatusResubscribingSafe, RunShutdownSafe, ConnectedSafe, ReportDataSafe,
     EstablishedSafe, EstablishedInvalidSafe, ReestablishedSafe, ResubscriptionNeededSafe,
     SessionLostSafe, RecoveryDeadlineSafe
  DEF SdkWork, Device

-----------------------------------------------------------------------------
(* Steps of the input thread.                                              *)

LEMMA PushKnown ==
  ASSUME NEW st \in Seq(FrameType), NEW s, AllKnown(st, s), NEW f \in FrameType, Known(f, s)
  PROVE  Append(st, f) \in Seq(FrameType) /\ AllKnown(Append(st, f), s)
  <1> DEFINE v == Append(st, f)
  <1>1. /\ v \in Seq(FrameType) /\ Len(v) = Len(st) + 1 /\ v[Len(v)] = f /\ Len(st) \in Nat
        /\ \A j \in 1..Len(st) : v[j] = st[j]
    OBVIOUS
  <1> HIDE DEF v
  <1>2. AllKnown(v, s)
    BY <1>1 DEF AllKnown
  <1> QED BY <1>1, <1>2 DEF v

LEMMA Prefix ==
  ASSUME NEW T, NEW s \in Seq(T), NEW m \in 0..Len(s)
  PROVE  SubSeq(s, 1, m) \in Seq(T) /\ Len(SubSeq(s, 1, m)) = m /\ \A j \in 1..m : SubSeq(s, 1, m)[j] = s[j]
  OBVIOUS

LEMMA PopKnown ==
  ASSUME NEW st \in Seq(FrameType), st # <<>>, NEW s, AllKnown(st, s)
  PROVE  Front(st) \in Seq(FrameType) /\ AllKnown(Front(st), s)
  <1> DEFINE v == Front(st)
  <1>1. Len(st) \in Nat \ {0} /\ \A j \in 1..Len(st) : st[j] \in FrameType
    OBVIOUS
  <1>2. v \in Seq(FrameType) /\ Len(v) = Len(st) - 1 /\ \A j \in 1..Len(v) : v[j] = st[j]
    <2> DEFINE m == Len(st) - 1
    <2>1. m \in 0..Len(st) /\ v = SubSeq(st, 1, m)
      BY <1>1 DEF Front
    <2> HIDE DEF m
    <2>2. v \in Seq(FrameType) /\ Len(v) = m /\ \A a \in 1..m : v[a] = st[a]
      BY <2>1, Prefix
    <2> QED BY <2>2 DEF m
  <1> HIDE DEF v
  <1>3. AllKnown(v, s)
    BY <1>1, <1>2 DEF AllKnown
  <1> QED BY <1>2, <1>3 DEF v

LEMMA TopKnown ==
  ASSUME NEW st \in Seq(FrameType), NEW j \in 1..Len(st), NEW s, AllKnown(st, s),
         NEW f \in FrameType, Known(f, s)
  PROVE  [st EXCEPT ![j] = f] \in Seq(FrameType) /\ AllKnown([st EXCEPT ![j] = f], s)
  <1> DEFINE v == [st EXCEPT ![j] = f]
  <1>1. /\ v \in Seq(FrameType) /\ Len(v) = Len(st) /\ Len(st) \in Nat
        /\ \A a \in 1..Len(st) : v[a] = IF a = j THEN f ELSE st[a]
    OBVIOUS
  <1> HIDE DEF v
  <1>2. AllKnown(v, s)
    BY <1>1 DEF AllKnown
  <1> QED BY <1>1, <1>2 DEF v

\* A step of the input thread: it may schedule a cancellation of i, or the
\* shutdown when it starts closing.
LEMMA InputStep ==
  ASSUME Safe, h.phase = "run", h' \in HostType, h'.phase \in {"run", "closing"}, n' = n,
         sub' = sub,
         sdk' = sdk \/ (h'.phase = "closing" /\ sdk' = [sdk EXCEPT !.work = Append(@, <<"shutdown", 0>>)]),
         h'.phase = "run" => AllKnown(h'.stack, sub)
  PROVE  Safe' /\ Carried
  <1> DEFINE w == Append(sdk.work, <<"shutdown", 0>>)
             r == h'.phase = "run"
  <1>1. <<"shutdown", 0>> \in Items /\ \A i \in Ids : <<"shutdown", 0>> \notin OwnItems(i)
    BY DEF Items, OwnItems
  <1>2. w \in Seq(Items) /\ \A i \in Ids : SameFor(i, sdk.work, w) /\ SameFor(i, sdk.work, sdk.work)
    BY <1>1, Running, HasAppend, SameAppend, SameSelf
  <1>3. Up /\ r \in BOOLEAN /\ (h.phase = "run") = TRUE /\ ~Has(sdk.work, <<"shutdown", 0>>)
    BY DEF Up, Safe, Custody
  <1>4. /\ sdk.work \in Seq(Items) /\ sdk.pc \in PcType /\ sdk = [pc |-> sdk.pc, work |-> sdk.work]
        /\ \A i \in Ids : /\ About(sdk.pc, i) \in BOOLEAN
                          /\ Cust(i, sub[i], About(sdk.pc, i), sdk.work, TRUE)
    BY <1>3, Running
  <1> HIDE DEF w, r
  <1>5. \A i \in Ids : /\ Cust(i, sub[i], About(sdk.pc, i), sdk.work, r)
                       /\ Cust(i, sub[i], About(sdk.pc, i), w, r)
    <2> TAKE i \in Ids
    <2> DEFINE b == About(sdk.pc, i)
    <2>1. b \in BOOLEAN /\ Cust(i, sub[i], b, sdk.work, TRUE) /\ r \in BOOLEAN
      BY <1>3, <1>4
    <2> HIDE DEF b
    <2>2. Cust(i, sub[i], b, sdk.work, r) /\ Cust(i, sub[i], b, w, r)
      BY <1>2, <2>1, CustOther
    <2> QED BY <2>2 DEF b
  <1>6. sdk.pc.k # "stopped" /\ Carried
    BY <1>3 DEF Safe, Custody, Up, Carried
  <1>7. CASE sdk' = sdk
    BY <1>3, <1>5, <1>6, <1>7 DEF Safe, Shape, Custody, r
  <1>8. CASE h'.phase = "closing" /\ sdk' = [sdk EXCEPT !.work = Append(@, <<"shutdown", 0>>)]
    <2>1. sdk' = [pc |-> sdk.pc, work |-> w] /\ sdk'.pc = sdk.pc /\ sdk'.work = w
      BY <1>4, <1>8 DEF w
    <2> QED BY <1>2, <1>4, <1>5, <1>6, <1>8, <2>1 DEF Safe, Shape, Custody, SdkType, r
  <1> QED BY <1>7, <1>8

LEMMA CustWaits ==
  ASSUME NEW i, NEW u, NEW b \in BOOLEAN, NEW r \in BOOLEAN, NEW y \in BOOLEAN, y,
         NEW q, NEW v, NEW w, Cust(i, u, b, q, y), SameFor(i, q, v), SameFor(i, v, w)
  PROVE  Cust(i, u, b, v, r) /\ Cust(i, u, b, w, r)
  BY CustOther DEF Cust, SameFor, OwnItems

\* The same after the cancellation of i has been scheduled.
LEMMA InputCancels ==
  ASSUME Safe, h.phase = "run", h' \in HostType, h'.phase \in {"run", "closing"}, n' = n,
         NEW i \in Ids, NEW t \in SubType, sub[i].listed \/ sub[i].done,
         t.listed = sub[i].listed, t.done = sub[i].done, t.csched,
         t.client = sub[i].client, t.timer = sub[i].timer, sub' = [sub EXCEPT ![i] = t],
         NEW v, v = sdk.work \o Cancels(sub[i], i),
         sdk' = [sdk EXCEPT !.work = v]
           \/ (h'.phase = "closing" /\ sdk' = [sdk EXCEPT !.work = Append(v, <<"shutdown", 0>>)]),
         h'.phase = "run" => AllKnown(h'.stack, sub)
  PROVE  Safe' /\ Carried
  <1> DEFINE w == Append(v, <<"shutdown", 0>>)
             r == h'.phase = "run"
             y == h.phase = "run"
  <1>1. <<"shutdown", 0>> \in Items /\ \A j \in Ids : <<"shutdown", 0>> \notin OwnItems(j)
    BY DEF Items, OwnItems
  <1>2. Up /\ r \in BOOLEAN /\ y \in BOOLEAN /\ y /\ ~Has(sdk.work, <<"shutdown", 0>>)
    BY DEF Up, Safe, Custody
  <1>3. /\ sdk.work \in Seq(Items) /\ sdk.pc \in PcType /\ sdk = [pc |-> sdk.pc, work |-> sdk.work]
        /\ \A j \in Ids : /\ About(sdk.pc, j) \in BOOLEAN
                          /\ Cust(j, sub[j], About(sdk.pc, j), sdk.work, y)
        /\ sub[i] \in SubType
    BY <1>2, Running
  <1>4. /\ v \in Seq(Items) /\ \A j \in Ids \ {i} : SameFor(j, sdk.work, v)
        /\ ~Has(v, <<"shutdown", 0>>)
    BY <1>2, <1>3, QueueGrows
  <1>5. w \in Seq(Items) /\ \A j \in Ids : SameFor(j, v, w)
    BY <1>1, <1>4, HasAppend, SameAppend
  <1> HIDE DEF w, r, y
  <1>6. \A j \in Ids : /\ Cust(j, sub'[j], About(sdk.pc, j), v, r)
                       /\ Cust(j, sub'[j], About(sdk.pc, j), w, r)
    <2> TAKE j \in Ids
    <2> DEFINE b == About(sdk.pc, j)
               u == sub'[j]
    <2>1. b \in BOOLEAN /\ Cust(j, sub[j], b, sdk.work, y) /\ r \in BOOLEAN /\ y \in BOOLEAN /\ y
      BY <1>2, <1>3
    <2>2. u = IF j = i THEN t ELSE sub[j]
      BY DEF Safe, Shape
    <2> HIDE DEF b, u
    <2>3. CASE j = i
      <3>1. Cust(i, sub[i], b, sdk.work, y) /\ SameFor(i, v, w) /\ u = t
        BY <1>5, <2>1, <2>2, <2>3
      <3> DEFINE z == sub[i]
                 q == sdk.work
      <3>2. /\ z \in SubType /\ q \in Seq(Items) /\ Cust(i, z, b, q, y) /\ SameFor(i, v, w)
            /\ (z.listed \/ z.done) /\ t.listed = z.listed /\ t.done = z.done /\ t.csched
            /\ (Quiet(z) /\ ~b => Quiet(t) /\ ~b) /\ (Armed(z) => Armed(t))
            /\ b \in BOOLEAN /\ r \in BOOLEAN /\ y \in BOOLEAN /\ y
        BY <1>3, <2>1, <3>1 DEF Quiet, Armed
      <3>3. v = q \o Cancels(z, i)
        OBVIOUS
      <3> HIDE DEF z, q
      <3>4. Cust(i, t, b, q \o Cancels(z, i), y)
        BY <3>2, CustSchedule, ZenonT(90)
      <3>5. Cust(i, t, b, v, y) /\ SameFor(i, v, v)
        BY <3>3, <3>4, SameSelf
      <3>6. Cust(i, t, b, v, r) /\ Cust(i, t, b, w, r)
        BY <3>2, <3>5, CustWaits
      <3> QED BY <2>3, <3>1, <3>6 DEF b, u
    <2>4. CASE j # i
      <3>1. SameFor(j, sdk.work, v) /\ SameFor(j, v, w) /\ u = sub[j]
        BY <1>4, <1>5, <2>2, <2>4
      <3>2. Cust(j, u, b, v, r) /\ Cust(j, u, b, w, r)
        BY <2>1, <3>1, CustWaits
      <3> QED BY <3>2 DEF b, u
    <2> QED BY <2>3, <2>4
  <1>7. sdk.pc.k # "stopped"
    BY <1>2 DEF Safe, Custody, Up
  <1>8. h'.phase = "run" => AllKnown(h'.stack, sub')
    BY DEF AllKnown, Known, Safe, Shape
  <1>9. sub' \in [Ids -> SubType] /\ Carried
    BY DEF Safe, Shape, Carried, Begun
  <1>10. CASE sdk' = [sdk EXCEPT !.work = v]
    <2>1. sdk' = [pc |-> sdk.pc, work |-> v] /\ sdk'.pc = sdk.pc /\ sdk'.work = v
      BY <1>3, <1>10
    <2> QED BY <1>3, <1>4, <1>6, <1>7, <1>8, <1>9, <2>1 DEF Safe, Shape, Custody, SdkType, r
  <1>11. CASE h'.phase = "closing" /\ sdk' = [sdk EXCEPT !.work = Append(v, <<"shutdown", 0>>)]
    <2>1. sdk' = [pc |-> sdk.pc, work |-> w] /\ sdk'.pc = sdk.pc /\ sdk'.work = w
      BY <1>3, <1>11 DEF w
    <2> QED BY <1>3, <1>5, <1>6, <1>7, <1>8, <1>9, <1>11, <2>1 DEF Safe, Shape, Custody, SdkType, r
  <1> QED BY <1>10, <1>11

\* The input thread with another stack, and flags.
LEMMA StackShape ==
  ASSUME NEW g \in HostType, NEW st \in Seq(FrameType), NEW ph \in Phases
  PROVE  /\ [g EXCEPT !.stack = st] \in HostType
         /\ [g EXCEPT !.stack = st, !.closeReq = TRUE, !.running = FALSE] \in HostType
         /\ [g EXCEPT !.stack = st, !.running = FALSE, !.phase = ph] \in HostType
         /\ [g EXCEPT !.eof = TRUE] \in HostType
         /\ [g EXCEPT !.eof = TRUE, !.running = FALSE, !.closeReq = TRUE] \in HostType
         /\ [g EXCEPT !.phase = ph] \in HostType
  BY DEF HostType

LEMMA TopShape ==
  ASSUME Safe, h.phase = "run"
  PROVE  /\ h \in HostType /\ h.stack \in Seq(FrameType) /\ AllKnown(h.stack, sub)
         /\ Depth > 0 => /\ Depth \in 1..Len(h.stack) /\ h.stack # <<>>
                         /\ Top \in FrameType /\ Known(Top, sub)
  <1>1. h \in HostType /\ h.stack \in Seq(FrameType) /\ AllKnown(h.stack, sub)
    BY DEF Safe, Shape, HostType, Custody
  <1>2. ASSUME Depth > 0
        PROVE  Depth \in 1..Len(h.stack) /\ h.stack # <<>> /\ Top \in FrameType
    BY <1>1, <1>2 DEF Depth, Top
  <1>3. Depth > 0 => Known(Top, sub)
    BY <1>1, <1>2 DEF AllKnown, Top
  <1> QED BY <1>1, <1>2, <1>3

LEMMA CloseSafe ==
  ASSUME Safe, h.phase = "run", NEW g \in HostType, g.stack = h.stack, g.phase = "run", NEW q,
         Close(g, q), sub' = sub, n' = n
  PROVE  Safe' /\ Carried
  <1>1. h.stack \in Seq(FrameType) /\ AllKnown(h.stack, sub) /\ <<>> \in Seq(FrameType)
    BY TopShape
  <1>2. CASE Len(g.stack) > 1
    <2> DEFINE st == Front(h.stack)
    <2>1. st \in Seq(FrameType) /\ AllKnown(st, sub)
      BY <1>1, <1>2, PopKnown
    <2>2. h' = [g EXCEPT !.stack = st, !.closeReq = TRUE, !.running = FALSE] /\ sdk' = sdk
      BY <1>2 DEF Close, Pop
    <2> HIDE DEF st
    <2>3. h' \in HostType /\ h'.phase = "run" /\ h'.stack = st
      BY <2>1, <2>2 DEF HostType
    <2> QED BY <2>1, <2>2, <2>3, InputStep
  <1>3. CASE ~(Len(g.stack) > 1)
    <2>1. /\ h' = [g EXCEPT !.stack = <<>>, !.running = FALSE, !.phase = "closing"]
          /\ sdk' = sdk \/ sdk' = [sdk EXCEPT !.work = Append(@, <<"shutdown", 0>>)]
      BY <1>3 DEF Close, Schedule
    <2>2. h' \in HostType /\ h'.phase = "closing"
      BY <1>1, <2>1 DEF HostType, Phases
    <2> QED BY <2>1, <2>2, InputStep
  <1> QED BY <1>2, <1>3

LEMMA DropSafe ==
  ASSUME Safe, h.phase = "run", Depth > 0, Drop, sub' = sub, n' = n
  PROVE  Safe' /\ Carried
  <1>1. h \in HostType /\ h.stack \in Seq(FrameType) /\ AllKnown(h.stack, sub) /\ h.stack # <<>>
    BY TopShape
  <1>2. CASE Depth = 1
    BY <1>1, <1>2, CloseSafe DEF Drop
  <1>3. CASE Depth # 1
    <2> DEFINE st == Front(h.stack)
    <2>1. st \in Seq(FrameType) /\ AllKnown(st, sub)
      BY <1>1, PopKnown
    <2>2. h' = [h EXCEPT !.stack = st, !.closeReq = TRUE, !.running = FALSE] /\ sdk' = sdk
      BY <1>3 DEF Drop, Pop
    <2> HIDE DEF st
    <2>3. h' \in HostType /\ h'.phase = "run" /\ h'.stack = st
      BY <1>1, <2>1, <2>2 DEF HostType
    <2> QED BY <2>1, <2>2, <2>3, InputStep
  <1> QED BY <1>2, <1>3

\* The stack becomes st, and nothing else of the input thread changes.
LEMMA RestackSafe ==
  ASSUME Safe, h.phase = "run", NEW st \in Seq(FrameType), AllKnown(st, sub),
         h' = [h EXCEPT !.stack = st], sub' = sub, sdk' = sdk, n' = n
  PROVE  Safe' /\ Carried
  <1>1. h' \in HostType /\ h'.phase = "run" /\ h'.stack = st
    BY TopShape DEF HostType
  <1> QED BY <1>1, InputStep

LEMMA PopSafe ==
  ASSUME Safe, h.phase = "run", Depth > 0, h' = Pop(h), sub' = sub, sdk' = sdk, n' = n
  PROVE  Safe' /\ Carried
  <1> DEFINE st == Front(h.stack)
  <1>1. st \in Seq(FrameType) /\ AllKnown(st, sub) /\ h' = [h EXCEPT !.stack = st]
    BY TopShape, PopKnown DEF Pop
  <1> HIDE DEF st
  <1> QED BY <1>1, RestackSafe

\* The top frame becomes f.
LEMMA RetopSafe ==
  ASSUME Safe, h.phase = "run", Depth > 0, NEW f \in FrameType, Known(f, sub),
         h' = [h EXCEPT !.stack = [h.stack EXCEPT ![Depth] = f]], sub' = sub, sdk' = sdk, n' = n
  PROVE  Safe' /\ Carried
  <1> DEFINE st == [h.stack EXCEPT ![Depth] = f]
  <1>1. st \in Seq(FrameType) /\ AllKnown(st, sub)
    BY TopShape, TopKnown
  <1>2. h' = [h EXCEPT !.stack = st]
    OBVIOUS
  <1> HIDE DEF st
  <1> QED BY <1>1, <1>2, RestackSafe

LEMMA PushSafe ==
  ASSUME Safe, h.phase = "run", NEW f \in FrameType, Known(f, sub), Push(f), sub' = sub, sdk' = sdk, n' = n
  PROVE  Safe' /\ Carried
  <1> DEFINE st == Append(h.stack, f)
  <1>1. st \in Seq(FrameType) /\ AllKnown(st, sub)
    BY TopShape, PushKnown
  <1>2. h' = [h EXCEPT !.stack = st]
    BY DEF Push
  <1> HIDE DEF st
  <1> QED BY <1>1, <1>2, RestackSafe

\* Another program counter of the top frame.
LEMMA SetTopSafe ==
  ASSUME Safe, h.phase = "run", Depth > 0, NEW pc \in {"wait", "add", "reply", "activate", "emit", "lost", "retire"},
         Top.op = "interaction" => pc = "wait", Top.op = "cancel" => pc \in {"wait", "lost", "retire"},
         h' = SetTop(h, pc), sub' = sub, sdk' = sdk, n' = n
  PROVE  Safe' /\ Carried
  <1> DEFINE f == [Top EXCEPT !.pc = pc]
  <1>1. Top \in FrameType /\ Known(Top, sub)
    BY TopShape
  <1>2. f \in FrameType /\ Known(f, sub)
    BY <1>1 DEF FrameType, Known
  <1>3. h' = [h EXCEPT !.stack = [h.stack EXCEPT ![Depth] = f]]
    BY DEF SetTop, Top, Depth
  <1> HIDE DEF f
  <1> QED BY <1>2, <1>3, RetopSafe

\* What changes neither the threads nor the subscriptions.
LEMMA QuietSafe ==
  ASSUME Safe, UNCHANGED <<h, sub, sdk, n>>
  PROVE  Safe' /\ Carried
  BY DEF Safe, Shape, Custody, Carried

LEMMA StartSubscribeSafe ==
  ASSUME Safe, NEW i \in Ids, StartSubscribe(i)
  PROVE  Safe' /\ Carried
  <1> DEFINE f == [op |-> "subscribe", id |-> i, g |-> 1, pc |-> "wait", reps |-> <<>>]
             r == h.phase = "run"
             u == sub[i]
             st == Append(h.stack, f)
  <1>1. h.phase = "run" /\ u = NewSubscription /\ Push(f) /\ n' = n
    BY DEF StartSubscribe, CanDispatch
  <1>2. f \in FrameType
    BY ReportsShape DEF FrameType
  <1>3. Up /\ r \in BOOLEAN /\ r /\ sdk.pc.k # "stopped" /\ ~Has(sdk.work, <<"shutdown", 0>>)
    BY <1>1 DEF Up, Safe, Custody
  <1>4. /\ sdk.work \in Seq(Items) /\ sdk.pc \in PcType /\ sdk = [pc |-> sdk.pc, work |-> sdk.work]
        /\ \A j \in Ids : /\ About(sdk.pc, j) \in BOOLEAN
                          /\ Cust(j, sub[j], About(sdk.pc, j), sdk.work, r)
    BY <1>3, Running
  <1>5. h' = [h EXCEPT !.stack = st] /\ h.stack \in Seq(FrameType) /\ AllKnown(h.stack, sub) /\ h \in HostType
    BY <1>1, TopShape DEF Push
  <1>6. ASSUME NEW t \in SubType, NEW x \in {<<"start", i>>, <<"reap", i>>},
               sub' = [sub EXCEPT ![i] = t], Schedule(x), t.listed, ~t.csched, Quiet(t), t.done <=> x = <<"reap", i>>
        PROVE  Safe' /\ Carried
    <2> DEFINE w == Append(sdk.work, x)
    <2>1. x \in Items /\ x # <<"shutdown", 0>> /\ \A j \in Ids \ {i} : x \notin OwnItems(j)
      BY DEF Items, OwnItems
    <2>2. /\ ~u.listed /\ ~u.done
      BY <1>1 DEF NewSubscription
    <2>3. /\ About(sdk.pc, i) = FALSE /\ Order(sdk.work, i)
          /\ \A a \in {"start", "cancel", "reap"} : ~Has(sdk.work, <<a, i>>)
      BY <1>4, <2>2 DEF Cust
    <2>4. w \in Seq(Items) /\ \A y : Has(w, y) <=> Has(sdk.work, y) \/ y = x
      BY <1>4, <2>1, HasAppend
    <2>5. Order(w, i)
      BY <1>3, <1>4, <2>1, <2>3, OrderAppend
    <2>6. \A j \in Ids \ {i} : SameFor(j, sdk.work, w)
      BY <1>4, <2>1, SameAppend
    <2>7. sdk' = [pc |-> sdk.pc, work |-> w] /\ sdk'.pc = sdk.pc /\ sdk'.work = w
      BY <1>4, <1>6 DEF Schedule
    <2> HIDE DEF w, u, r
    <2>8. Cust(i, t, FALSE, w, r)
      <3>1. /\ <<"start", i>> # <<"cancel", i>> /\ <<"start", i>> # <<"reap", i>>
            /\ <<"cancel", i>> # <<"reap", i>>
        OBVIOUS
      <3>2. /\ Has(w, <<"start", i>>) <=> x = <<"start", i>>
            /\ Has(w, <<"reap", i>>) <=> x = <<"reap", i>>
            /\ ~Has(w, <<"cancel", i>>)
        BY <1>6, <2>3, <2>4, <3>1
      <3>3. Armed(t)
        BY <1>6 DEF Quiet, Armed
      <3> QED BY <1>6, <2>5, <3>1, <3>2, <3>3 DEF Cust
    <2>9. \A j \in Ids : Cust(j, sub'[j], About(sdk.pc, j), w, r)
      <3> TAKE j \in Ids
      <3>1. CASE j = i
        BY <1>6, <2>3, <2>8, <3>1 DEF Safe, Shape
      <3>2. CASE j # i
        <4> DEFINE b == About(sdk.pc, j)
        <4>1. b \in BOOLEAN /\ Cust(j, sub[j], b, sdk.work, r) /\ SameFor(j, sdk.work, w) /\ r \in BOOLEAN
          BY <1>3, <1>4, <2>6, <3>2
        <4>2. sub'[j] = sub[j]
          BY <1>6, <3>2 DEF Safe, Shape
        <4> HIDE DEF b
        <4>3. Cust(j, sub[j], b, w, r)
          BY <4>1, CustOther
        <4> QED BY <4>2, <4>3 DEF b
      <3> QED BY <3>1, <3>2
    <2>10. sub' \in [Ids -> SubType] /\ sub'[i] = t /\ \A j \in Ids \ {i} : sub'[j] = sub[j]
      BY <1>6 DEF Safe, Shape
    <2>11. AllKnown(h.stack, sub') /\ Known(f, sub')
      BY <1>5, <1>6, <2>10 DEF AllKnown, Known
    <2>12. st \in Seq(FrameType) /\ AllKnown(st, sub')
      BY <1>2, <1>5, <2>11, PushKnown
    <2> HIDE DEF st, f
    <2>13. h' \in HostType /\ h'.stack = st /\ h'.phase = "run"
      BY <1>1, <1>5, <2>12 DEF HostType
    <2>14. Shape'
      BY <1>1, <1>4, <2>4, <2>7, <2>10, <2>13 DEF Safe, Shape, SdkType
    <2>15. ~Has(w, <<"shutdown", 0>>)
      BY <1>3, <2>1, <2>4
    <2>16. r = (h'.phase = "run")
      BY <1>1, <2>13 DEF r
    <2>17. Carried
      BY <1>6, <2>10 DEF Carried, Begun
    <2> QED BY <1>3, <2>7, <2>9, <2>12, <2>13, <2>14, <2>15, <2>16, <2>17 DEF Safe, Custody
  <1>7. CASE sub' = [sub EXCEPT ![i].listed = TRUE] /\ Schedule(<<"start", i>>)
    <2> DEFINE t == [u EXCEPT !.listed = TRUE]
    <2>1. t \in SubType /\ t.listed /\ ~t.csched /\ Quiet(t) /\ ~t.done
      <3>1. u \in SubType /\ ~u.csched /\ u.client = "none" /\ ~u.timer /\ ~u.done
        BY <1>1, NewShape DEF NewSubscription
      <3> HIDE DEF u
      <3> QED BY <3>1 DEF SubType, Quiet
    <2>2. sub' = [sub EXCEPT ![i] = t] /\ <<"start", i>> # <<"reap", i>>
      BY <1>7
    <2> HIDE DEF t
    <2> QED BY <1>6, <1>7, <2>1, <2>2
  <1>8. CASE sub' = [sub EXCEPT ![i].listed = TRUE, ![i].pub = TRUE, ![i].done = TRUE] /\ Schedule(<<"reap", i>>)
    <2> DEFINE t == [u EXCEPT !.listed = TRUE, !.pub = TRUE, !.done = TRUE]
    <2>1. t \in SubType /\ t.listed /\ ~t.csched /\ Quiet(t) /\ t.done
      <3>1. u \in SubType /\ ~u.csched /\ u.client = "none" /\ ~u.timer /\ ~u.done
        BY <1>1, NewShape DEF NewSubscription
      <3> HIDE DEF u
      <3> QED BY <3>1 DEF SubType, Quiet
    <2>2. sub' = [sub EXCEPT ![i] = t]
      BY <1>8 DEF Safe, Shape
    <2> HIDE DEF t
    <2> QED BY <1>6, <1>8, <2>1, <2>2
  <1> QED BY <1>7, <1>8 DEF StartSubscribe

LEMMA ControlSafe ==
  ASSUME Safe, \/ FlowOpen \/ Open \/ CloseRequest \/ MalformedLine \/ BadAcknowledgement \/ LoopEnds
               \/ InteractionReturns \/ SubscribeReply
               \/ \E seq \in 1..MaxReports : ReportAck(seq)
               \/ \E i \in Ids, g \in 1..MaxGen : CancelRetired(i, g)
  PROVE  Safe' /\ Carried
  <1>1. CASE FlowOpen \/ (\E seq \in 1..MaxReports : ReportAck(seq))
               \/ (\E i \in Ids, g \in 1..MaxGen : CancelRetired(i, g))
    BY <1>1, QuietSafe DEF FlowOpen, ReportAck, CancelRetired
  <1>2. CASE Open
    <2>1. h.phase = "run" /\ sub' = sub /\ n' = n
      BY <1>2 DEF Open, CanDispatch
    <2>2. CASE UNCHANGED <<h, sdk>>
      BY <2>1, <2>2, QuietSafe
    <2>3. CASE Close(h, p)
      BY <2>1, <2>3, TopShape, CloseSafe
    <2> QED BY <1>2, <2>2, <2>3 DEF Open
  <1>3. CASE CloseRequest \/ MalformedLine \/ LoopEnds
    <2>1. h.phase = "run" /\ sub' = sub /\ n' = n /\ Close(h, p)
      BY <1>3 DEF CloseRequest, MalformedLine, LoopEnds, CanDispatch
    <2> QED BY <2>1, TopShape, CloseSafe
  <1>4. CASE BadAcknowledgement
    <2> DEFINE q == [p EXCEPT !.failed = TRUE]
    <2>1. h.phase = "run" /\ sub' = sub /\ n' = n /\ Close(h, q)
      BY <1>4 DEF BadAcknowledgement, CanDispatch
    <2> HIDE DEF q
    <2> QED BY <2>1, TopShape, CloseSafe
  <1>5. CASE InteractionReturns
    <2>1. h.phase = "run" /\ Depth > 0 /\ sub' = sub /\ n' = n
      BY <1>5 DEF InteractionReturns, AtTop
    <2>2. Drop \/ (h' = Pop(h) /\ sdk' = sdk)
      BY <1>5 DEF InteractionReturns
    <2> QED BY <2>1, <2>2, DropSafe, PopSafe
  <1>6. CASE SubscribeReply
    <2>1. h.phase = "run" /\ Depth > 0 /\ sub' = sub /\ n' = n /\ Top.pc = "reply"
      BY <1>6 DEF SubscribeReply, AtTop
    <2>2. Drop \/ (h' = SetTop(h, "activate") /\ sdk' = sdk)
      BY <1>6 DEF SubscribeReply
    <2>3. Known(Top, sub)
      BY <2>1, TopShape
    <2>4. Top.op \notin {"interaction", "cancel"}
      BY <2>1, <2>3 DEF Known
    <2> QED BY <2>1, <2>2, <2>4, DropSafe, SetTopSafe
  <1> QED BY <1>1, <1>2, <1>3, <1>4, <1>5, <1>6

LEMMA EndOfInputSafe ==
  ASSUME Safe, EndOfInput
  PROVE  Safe' /\ Carried
  <1> DEFINE g == [h EXCEPT !.eof = TRUE]
  <1>1. h.phase = "run" /\ sub' = sub /\ n' = n
    BY DEF EndOfInput
  <1>2. h \in HostType /\ h.stack \in Seq(FrameType) /\ AllKnown(h.stack, sub)
    BY <1>1, TopShape
  <1>3. CASE Close(g, p)
    <2>1. g \in HostType /\ g.stack = h.stack /\ g.phase = "run"
      BY <1>1, <1>2 DEF HostType
    <2> HIDE DEF g
    <2> QED BY <1>1, <1>3, <2>1, CloseSafe
  <1>4. CASE h' = [h EXCEPT !.eof = TRUE, !.running = FALSE, !.closeReq = TRUE] /\ UNCHANGED sdk
    <2>1. h' \in HostType /\ h'.stack = h.stack /\ h'.phase = "run"
      BY <1>1, <1>2, <1>4 DEF HostType
    <2> QED BY <1>1, <1>2, <1>4, <2>1, InputStep
  <1> QED BY <1>3, <1>4 DEF EndOfInput

\* A frame about a subscription that was started.
LEMMA Started ==
  ASSUME Safe, h.phase = "run", Depth > 0, Top.op \in {"subscribe", "refused"}
  PROVE  Top.id \in Ids /\ sub[Top.id] \in SubType /\ (sub[Top.id].listed \/ sub[Top.id].done)
  BY TopShape, Running DEF Known

LEMMA SubscribeReturnsSafe ==
  ASSUME Safe, SubscribeReturns
  PROVE  Safe' /\ Carried
  <1> DEFINE i == Top.id
             t == [sub[i] EXCEPT !.pub = TRUE, !.csched = TRUE]
             v == sdk.work \o Cancels(sub[i], i)
             late == ~sub[i].pub
             st == Front(h.stack)
             f == [Top EXCEPT !.pc = "add"]
             sa == [h.stack EXCEPT ![Depth] = f]
  <1>1. h.phase = "run" /\ Depth > 0 /\ n' = n /\ Top.op = "subscribe"
    BY DEF SubscribeReturns, AtTop
  <1>2. /\ h \in HostType /\ h.stack \in Seq(FrameType) /\ AllKnown(h.stack, sub) /\ h.stack # <<>>
        /\ Top \in FrameType /\ Known(Top, sub) /\ Depth \in 1..Len(h.stack) /\ <<>> \in Seq(FrameType)
    BY <1>1, TopShape
  <1>3. i \in Ids /\ sub[i] \in SubType /\ (sub[i].listed \/ sub[i].done)
    BY <1>1, Started
  <1>4. st \in Seq(FrameType) /\ AllKnown(st, sub)
    BY <1>2, PopKnown
  <1>5. f \in FrameType /\ Known(f, sub)
    BY <1>1, <1>2 DEF FrameType, Known
  <1>6. sa \in Seq(FrameType) /\ AllKnown(sa, sub)
    BY <1>2, <1>5, TopKnown
  <1>7. SetTop(h, "add") = [h EXCEPT !.stack = sa] /\ Pop(h) = [h EXCEPT !.stack = st]
    BY DEF SetTop, Pop, Top, Depth
  <1>8. /\ h' \in HostType
        /\ h'.phase = "closing" \/ (h'.phase = "run" /\ AllKnown(h'.stack, sub))
    <2>1. h' \in {[h EXCEPT !.stack = <<>>, !.running = FALSE, !.phase = "closing"],
                  [h EXCEPT !.stack = sa], [h EXCEPT !.stack = st]}
      BY <1>7 DEF SubscribeReturns
    <2> HIDE DEF sa, st
    <2> QED BY <1>1, <1>2, <1>4, <1>6, <2>1 DEF HostType, Phases
  <1>9. sdk = [pc |-> sdk.pc, work |-> sdk.work] /\ sdk.work \in Seq(Items)
    BY Running
  <1>10. CASE late
    <2>1. sub' = [sub EXCEPT ![i] = t]
      BY <1>10 DEF SubscribeReturns
    <2>2. \/ sdk' = [sdk EXCEPT !.work = v]
          \/ h'.phase = "closing" /\ sdk' = [sdk EXCEPT !.work = Append(v, <<"shutdown", 0>>)]
      <3>1. \/ sdk' = [sdk EXCEPT !.work = v]
            \/ /\ h' = [h EXCEPT !.stack = <<>>, !.running = FALSE, !.phase = "closing"]
               /\ sdk' = [[sdk EXCEPT !.work = v] EXCEPT !.work = Append(@, <<"shutdown", 0>>)]
        BY <1>10 DEF SubscribeReturns
      <3> HIDE DEF v
      <3> QED BY <1>2, <1>9, <3>1 DEF HostType
    <2>3. /\ t \in SubType /\ t.listed = sub[i].listed /\ t.done = sub[i].done /\ t.csched
          /\ t.client = sub[i].client /\ t.timer = sub[i].timer
      BY <1>3 DEF SubType
    <2>4. v = sdk.work \o Cancels(sub[i], i)
      OBVIOUS
    <2> HIDE DEF t, v, i
    <2> QED BY <1>1, <1>3, <1>8, <2>1, <2>2, <2>3, <2>4, InputCancels
  <1>11. CASE ~late
    <2>1. sub' = sub
      BY <1>11 DEF SubscribeReturns
    <2>2. \/ sdk' = [sdk EXCEPT !.work = @ \o <<>>]
          \/ /\ h' = [h EXCEPT !.stack = <<>>, !.running = FALSE, !.phase = "closing"]
             /\ sdk' = [[sdk EXCEPT !.work = @ \o <<>>] EXCEPT !.work = Append(@, <<"shutdown", 0>>)]
      BY <1>11 DEF SubscribeReturns
    <2>3. sdk.work \o <<>> = sdk.work
      BY <1>9, ConcatNone
    <2>4. sdk' = sdk \/ (h'.phase = "closing" /\ sdk' = [sdk EXCEPT !.work = Append(@, <<"shutdown", 0>>)])
      BY <1>2, <1>9, <2>2, <2>3 DEF HostType
    <2> QED BY <1>1, <1>8, <2>1, <2>4, InputStep
  <1> QED BY <1>10, <1>11

LEMMA SubscribeAddSafe ==
  ASSUME Safe, SubscribeAdd
  PROVE  Safe' /\ Carried
  <1> DEFINE i == Top.id
             t == [sub[i] EXCEPT !.csched = TRUE]
             f == [Top EXCEPT !.op = "refused", !.pc = "wait"]
             st == [h.stack EXCEPT ![Depth] = f]
  <1>1. h.phase = "run" /\ Depth > 0 /\ n' = n /\ Top.pc = "add"
    BY DEF SubscribeAdd, AtTop
  <1>2. /\ h \in HostType /\ h.stack \in Seq(FrameType) /\ AllKnown(h.stack, sub)
        /\ Top \in FrameType /\ Known(Top, sub) /\ Depth \in 1..Len(h.stack)
    BY <1>1, TopShape
  <1>3. Top.op \in {"subscribe", "refused"}
    BY <1>1, <1>2 DEF Known, FrameType
  <1>4. i \in Ids /\ sub[i] \in SubType /\ (sub[i].listed \/ sub[i].done)
    BY <1>1, <1>3, Started
  <1>5. CASE h' = SetTop(h, "reply") /\ UNCHANGED <<sub, sdk>>
    BY <1>1, <1>3, <1>5, SetTopSafe
  <1>6. CASE /\ h' = [h EXCEPT !.stack[Depth].op = "refused", !.stack[Depth].pc = "wait"]
             /\ sub' = [sub EXCEPT ![i].csched = TRUE]
             /\ sdk' = [sdk EXCEPT !.work = @ \o Cancels(sub[i], i)]
    <2>1. f \in FrameType /\ Known(f, sub)
      BY <1>2, <1>3 DEF FrameType, Known
    <2>2. st \in Seq(FrameType) /\ AllKnown(st, sub)
      BY <1>2, <2>1, TopKnown
    <2>3. h' = [h EXCEPT !.stack = st]
      BY <1>2, <1>6 DEF Top, HostType
    <2>4. h' \in HostType /\ h'.phase = "run" /\ AllKnown(h'.stack, sub)
      <3> HIDE DEF st
      <3> QED BY <1>1, <1>2, <2>2, <2>3 DEF HostType
    <2>5. /\ t \in SubType /\ t.listed = sub[i].listed /\ t.done = sub[i].done /\ t.csched
          /\ t.client = sub[i].client /\ t.timer = sub[i].timer
      BY <1>4, ScheduledShape
    <2>6. sub' = [sub EXCEPT ![i] = t]
      BY <1>6
    <2> HIDE DEF t, i
    <2> QED BY <1>1, <1>4, <1>6, <2>4, <2>5, <2>6, InputCancels
  <1> QED BY <1>5, <1>6 DEF SubscribeAdd

LEMMA SubscribeActivateSafe ==
  ASSUME Safe, SubscribeActivate
  PROVE  Safe' /\ Carried
  <1> DEFINE i == Top.id
             s == BufferActivate(sub[i])
             t == TakeReady(s)
             f == [Top EXCEPT !.pc = "emit", !.reps = s.ready]
             st == [h.stack EXCEPT ![Depth] = f]
  <1>1. h.phase = "run" /\ Depth > 0 /\ n' = n /\ Top.pc = "activate"
    BY DEF SubscribeActivate, AtTop
  <1>2. /\ h \in HostType /\ h.stack \in Seq(FrameType) /\ AllKnown(h.stack, sub)
        /\ Top \in FrameType /\ Known(Top, sub) /\ Depth \in 1..Len(h.stack)
    BY <1>1, TopShape
  <1>3. Top.op \in {"subscribe", "refused"}
    BY <1>1, <1>2 DEF Known, FrameType
  <1>4. i \in Ids /\ sub[i] \in SubType
    BY <1>1, <1>3, Started
  <1>5. CASE /\ sub' = [sub EXCEPT ![i] = t]
             /\ h' = [SetTop(h, "emit") EXCEPT !.stack[Depth].reps = s.ready]
             /\ UNCHANGED <<p, sdk>>
    <2>1. s \in SubType /\ SameCustody(sub[i], s)
      BY <1>1, <1>4, BufferShape
    <2>2. t \in SubType /\ SameCustody(s, t) /\ s.ready \in Reports
      BY <2>1, BufferShape DEF SubType
    <2>3. t.client = sub[i].client /\ t.timer = sub[i].timer
      BY <1>4 DEF TakeReady, BufferActivate, SubType
    <2> HIDE DEF s
    <2>4. f \in FrameType /\ Known(f, sub)
      BY <1>2, <1>3, <2>2 DEF FrameType, Known
    <2>5. st \in Seq(FrameType) /\ AllKnown(st, sub)
      BY <1>2, <2>4, TopKnown
    <2>6. h' = [h EXCEPT !.stack = st]
      BY <1>2, <1>5 DEF SetTop, Top, Depth, HostType
    <2>7. h' \in HostType /\ h'.phase = "run" /\ h'.stack = st
      <3> HIDE DEF st
      <3> QED BY <1>1, <1>2, <2>5, <2>6 DEF HostType
    <2>8. /\ Safe /\ Up /\ sdk' = [pc |-> sdk.pc, work |-> sdk.work] /\ sdk'.pc = sdk.pc /\ sdk'.work = sdk.work
          /\ sdk.pc.k # "stopped" /\ ~Has(sdk.work, <<"shutdown", 0>>)
      BY <1>1, <1>5, Running DEF Up, Safe, Custody
    <2>9. \A j \in Ids : Cust(j, sub'[j], About(sdk.pc, j), sdk.work, h.phase = "run")
      <3> TAKE j \in Ids
      <3>1. Cust(j, sub[j], About(sdk.pc, j), sdk.work, h.phase = "run")
        BY <2>8, Running
      <3>2. CASE j = i
        <4>1. sub'[j] = t /\ t.listed = sub[i].listed /\ t.done = sub[i].done /\ t.csched = sub[i].csched
          BY <1>4, <1>5, <2>1, <2>2, <3>2 DEF Safe, Shape, SameCustody
        <4> HIDE DEF t, i
        <4> QED BY <2>3, <3>1, <3>2, <4>1 DEF Cust, Quiet, Armed
      <3>3. CASE j # i
        BY <1>5, <3>1, <3>3 DEF Safe, Shape
      <3> QED BY <3>2, <3>3
    <2>10. sub' \in [Ids -> SubType] /\ \A j \in Ids : sub'[j].listed = sub[j].listed /\ sub'[j].done = sub[j].done
      <3>1. t.listed = sub[i].listed /\ t.done = sub[i].done
        BY <2>1, <2>2 DEF SameCustody
      <3> HIDE DEF t, i
      <3> QED BY <1>4, <1>5, <2>2, <3>1 DEF Safe, Shape
    <2>11. AllKnown(st, sub')
      <3> HIDE DEF st
      <3> QED BY <2>5, <2>10 DEF AllKnown, Known
    <2>12. Carried
      BY <2>10 DEF Carried, Begun
    <2> HIDE DEF st
    <2> QED BY <1>1, <1>5, <2>7, <2>8, <2>9, <2>10, <2>11, <2>12 DEF Safe, Shape, Custody
  <1>6. CASE Close(h, p) /\ UNCHANGED sub
    BY <1>1, <1>2, <1>6, CloseSafe
  <1> QED BY <1>5, <1>6 DEF SubscribeActivate

LEMMA SubscribeEmitSafe ==
  ASSUME Safe, SubscribeEmit
  PROVE  Safe' /\ Carried
  <1> DEFINE i == Top.id
             t == [sub[i] EXCEPT !.csched = TRUE]
             v == sdk.work \o Cancels(sub[i], i)
             f == [Top EXCEPT !.reps = Tail(Top.reps)]
             st == [h.stack EXCEPT ![Depth] = f]
  <1>1. h.phase = "run" /\ Depth > 0 /\ n' = n /\ Top.pc = "emit"
    BY DEF SubscribeEmit, AtTop
  <1>2. /\ h \in HostType /\ h.stack \in Seq(FrameType) /\ AllKnown(h.stack, sub) /\ <<>> \in Seq(FrameType)
        /\ Top \in FrameType /\ Known(Top, sub) /\ Depth \in 1..Len(h.stack)
    BY <1>1, TopShape
  <1>3. Top.op \in {"subscribe", "refused"}
    BY <1>1, <1>2 DEF Known, FrameType
  <1>4. i \in Ids /\ sub[i] \in SubType /\ (sub[i].listed \/ sub[i].done)
    BY <1>1, <1>3, Started
  <1>5. CASE h' = Pop(h) /\ UNCHANGED <<p, sub, sdk>>
    BY <1>1, <1>5, PopSafe
  <1>6. CASE Top.reps # <<>> /\ h' = [h EXCEPT !.stack[Depth].reps = Tail(@)] /\ UNCHANGED <<sub, sdk>>
    <2>1. Tail(Top.reps) \in Reports
      BY <1>2, <1>6, ReportsShape DEF FrameType
    <2>2. f \in FrameType /\ Known(f, sub)
      BY <1>2, <2>1 DEF FrameType, Known
    <2>3. h' = [h EXCEPT !.stack = [h.stack EXCEPT ![Depth] = f]]
      BY <1>6 DEF Top
    <2> HIDE DEF f
    <2> QED BY <1>1, <1>6, <2>2, <2>3, RetopSafe
  <1>7. CASE /\ sub' = [sub EXCEPT ![i] = t]
             /\ h' = [h EXCEPT !.stack = <<>>, !.running = FALSE, !.phase = "closing"]
             /\ sdk' = [sdk EXCEPT !.work = @ \o Cancels(sub[i], i) \o <<<<"shutdown", 0>>>>]
    <2>1. h' \in HostType /\ h'.phase = "closing"
      BY <1>2, <1>7 DEF HostType, Phases
    <2>2. /\ t \in SubType /\ t.listed = sub[i].listed /\ t.done = sub[i].done /\ t.csched
          /\ t.client = sub[i].client /\ t.timer = sub[i].timer
      BY <1>4, ScheduledShape
    <2>3. v = sdk.work \o Cancels(sub[i], i) /\ v \in Seq(Items)
      BY <1>4, Running, QueueGrows
    <2>4. v \o <<<<"shutdown", 0>>>> = Append(v, <<"shutdown", 0>>)
      BY <2>3, ConcatOne DEF Items
    <2>5. sdk' = [sdk EXCEPT !.work = Append(v, <<"shutdown", 0>>)]
      BY <1>7, <2>4
    <2> HIDE DEF t, v, i
    <2> QED BY <1>1, <1>4, <1>7, <2>1, <2>2, <2>3, <2>5, InputCancels
  <1> QED BY <1>5, <1>6, <1>7 DEF SubscribeEmit

LEMMA StartInteractionSafe ==
  ASSUME Safe, StartInteraction
  PROVE  Safe' /\ Carried
  <1> DEFINE f == [op |-> "interaction", id |-> "none", g |-> 0, pc |-> "wait", reps |-> <<>>]
  <1>1. h.phase = "run" /\ Push(f) /\ UNCHANGED <<sub, sdk, n>>
    BY DEF StartInteraction, CanDispatch
  <1>2. f \in FrameType /\ Known(f, sub)
    BY ReportsShape DEF FrameType, Known
  <1> HIDE DEF f
  <1> QED BY <1>1, <1>2, PushSafe

LEMMA StartCancelSafe ==
  ASSUME Safe, NEW i \in Ids, NEW g \in 1..MaxGen, StartCancel(i, g)
  PROVE  Safe' /\ Carried
  <1> DEFINE found == sub[i].listed /\ sub[i].gen = g /\ ~sub[i].done
             f == [op |-> "cancel", id |-> i, g |-> g, pc |-> IF found THEN "wait" ELSE "lost", reps |-> <<>>]
             t == [sub[i] EXCEPT !.csched = TRUE]
             st == Append(h.stack, f)
  <1>1. h.phase = "run" /\ Push(f) /\ n' = n /\ sub[i] \in SubType
    BY Running DEF StartCancel, CanDispatch
  <1>2. f \in FrameType /\ Known(f, sub)
    BY ReportsShape DEF FrameType, Known
  <1>3. CASE found
    <2>1. sub' = [sub EXCEPT ![i] = t] /\ sdk' = [sdk EXCEPT !.work = @ \o Cancels(sub[i], i)] /\ sub[i].listed
      BY <1>3 DEF StartCancel
    <2>2. h \in HostType /\ h.stack \in Seq(FrameType) /\ AllKnown(h.stack, sub)
      BY <1>1, TopShape
    <2>3. st \in Seq(FrameType) /\ AllKnown(st, sub) /\ h' = [h EXCEPT !.stack = st]
      BY <1>1, <1>2, <2>2, PushKnown DEF Push
    <2> HIDE DEF st, f
    <2>4. h' \in HostType /\ h'.phase = "run" /\ AllKnown(h'.stack, sub)
      BY <1>1, <2>2, <2>3 DEF HostType
    <2>5. /\ t \in SubType /\ t.listed = sub[i].listed /\ t.done = sub[i].done /\ t.csched
          /\ t.client = sub[i].client /\ t.timer = sub[i].timer
      BY <1>1, ScheduledShape
    <2> HIDE DEF t
    <2> QED BY <1>1, <2>1, <2>4, <2>5, InputCancels
  <1>4. CASE ~found
    <2>1. UNCHANGED <<sub, sdk>>
      BY <1>4 DEF StartCancel
    <2> HIDE DEF f
    <2> QED BY <1>1, <1>2, <2>1, PushSafe
  <1> QED BY <1>3, <1>4

LEMMA CancelSafe ==
  ASSUME Safe, CancelReturns \/ CancelRetire
  PROVE  Safe' /\ Carried
  <1>1. h.phase = "run" /\ Depth > 0 /\ UNCHANGED <<sub, n>>
    BY DEF CancelReturns, CancelRetire, AtTop
  <1>2. CASE CancelReturns
    <2>1. \/ Drop
          \/ h' = Pop(h) /\ sdk' = sdk
          \/ Top.op = "cancel" /\ h' = SetTop(h, "retire") /\ sdk' = sdk
      BY <1>2 DEF CancelReturns
    <2> QED BY <1>1, <2>1, DropSafe, PopSafe, SetTopSafe
  <1>3. CASE CancelRetire
    <2> DEFINE q == IF IsLive(p.flow, <<Top.id, Top.g>>) THEN RetireStream(p, Top.id, Top.g) ELSE p
    <2>1. (h' = Pop(h) /\ sdk' = sdk) \/ Close(h, q)
      BY <1>3 DEF CancelRetire
    <2>2. h \in HostType
      BY <1>1, TopShape
    <2> HIDE DEF q
    <2> QED BY <1>1, <2>1, <2>2, PopSafe, CloseSafe
  <1> QED BY <1>2, <1>3

LEMMA EndSafe ==
  ASSUME Safe, CloseFinish \/ Exit \/ Terminate
  PROVE  Safe' /\ Carried
  <1>1. h \in HostType /\ sub \in [Ids -> SubType] /\ sdk \in SdkType /\ n \in Nat /\ n' = n
    BY DEF Safe, Shape, CloseFinish, Exit, Terminate, Gone
  <1>2. [k |-> "stopped"] \in PcType /\ <<>> \in Seq(Items) /\ <<>> \in Seq(FrameType)
    BY IdleShape
  <1>3. CASE CloseFinish
    <2>1. h' = [h EXCEPT !.phase = "stopping"] /\ sdk' = [sdk EXCEPT !.pc = [k |-> "stopped"], !.work = <<>>]
      BY <1>3 DEF CloseFinish
    <2>2. h' \in HostType /\ h'.phase = "stopping" /\ sdk' \in SdkType /\ sdk'.pc.k = "stopped"
      BY <1>1, <1>2, <2>1 DEF HostType, Phases, SdkType
    <2>3. sub' \in [Ids -> SubType]
      <3>1. \A i \in Ids : [sub[i] EXCEPT !.listed = FALSE] \in SubType
        BY <1>1, UpdateShape DEF Clients
      <3> QED BY <1>3, <3>1 DEF CloseFinish
    <2> QED BY <1>1, <2>2, <2>3 DEF Safe, Shape, Custody, Carried
  <1>4. CASE Gone
    <2>1. h'.phase = "exited" /\ h' \in HostType /\ sdk' \in SdkType /\ sdk'.pc.k = "stopped"
      BY <1>1, <1>2, <1>4 DEF Gone, HostType, Phases, SdkType
    <2>2. sub' \in [Ids -> SubType]
      BY <1>4, NewShape DEF Gone
    <2> QED BY <1>1, <2>1, <2>2 DEF Safe, Shape, Custody, Carried
  <1> QED BY <1>3, <1>4 DEF Exit, Terminate

\* Every step keeps the custody of the subscriptions.
LEMMA SafeNext ==
  ASSUME Safe, [Next]_vars
  PROVE  Safe' /\ Carried
  <1>1. CASE InputThread
    BY <1>1, SubscribeReturnsSafe, SubscribeAddSafe, SubscribeActivateSafe, SubscribeEmitSafe, CancelSafe,
       ControlSafe, EndSafe DEF InputThread
  <1>2. CASE Peer
    BY <1>2, ControlSafe, EndOfInputSafe, StartInteractionSafe, StartSubscribeSafe, StartCancelSafe DEF Peer
  <1>3. CASE SdkWork \/ Device
    BY <1>3, SdkSafe
  <1>4. CASE Writer \/ WriteFails
    BY <1>4, QuietSafe DEF Writer, WriteFails, WriteReport, WriteCounted
  <1>5. CASE Terminate
    BY <1>5, EndSafe
  <1>6. CASE UNCHANGED vars
    BY <1>6, QuietSafe DEF vars
  <1> QED BY <1>1, <1>2, <1>3, <1>4, <1>5, <1>6 DEF Next

LEMMA SafeInit ==
  ASSUME Init
  PROVE  Safe
  <1>1. Shape
    BY NewShape, IdleShape DEF Init, Shape, HostType, Phases, SdkType, Loop
  <1>2. \A i \in Ids : sub[i] = NewSubscription /\ About(sdk.pc, i) = FALSE
    BY DEF Init, About
  <1>3. \A y : ~Has(<<>>, y)
    BY DEF Has
  <1>4. \A i : Order(<<>>, i)
    BY DEF Order
  <1>5. \A i \in Ids : Cust(i, sub[i], About(sdk.pc, i), <<>>, h.phase = "run")
    BY <1>2, <1>3, <1>4 DEF Cust, NewSubscription, Quiet, Armed
  <1>6. AllKnown(<<>>, sub)
    BY DEF AllKnown
  <1> QED BY <1>1, <1>3, <1>5, <1>6 DEF Init, Safe, Custody

\* A context is freed only when nothing on the SDK thread can still call it
\* (NativeSubscription, controller.cpp).
THEOREM ContextsFreedLast == Spec => []NoDanglingContext
  <1>1. Safe => NoDanglingContext
    <2> SUFFICES ASSUME Safe, h.phase \in {"run", "closing"}, NEW i \in Ids, ~sub[i].listed, sub[i].done
                 PROVE  /\ sub[i].client = "none" /\ ~sub[i].timer
                        /\ sdk.pc.k = "loop" \/ sdk.pc.id # i
                        /\ \A w \in {"start", "cancel"} : <<w, i>> \notin Range(sdk.work)
      BY DEF NoDanglingContext
    <2>1. Cust(i, sub[i], About(sdk.pc, i), sdk.work, h.phase = "run") /\ sdk.pc.k # "stopped"
      BY DEF Safe, Custody
    <2>2. sdk.work \in Seq(Items)
      BY Running
    <2>3. \A x : x \in Range(sdk.work) => Has(sdk.work, x)
      BY <2>2 DEF Range, Has
    <2> QED BY <2>1, <2>3 DEF Cust, Quiet, About
  <1> QED BY <1>1, SafeInit, SafeNext, PTL DEF Spec

\* A cancelled subscription is on its way to be freed: its cancellation or its
\* reap is in the work queue while the host runs.
THEOREM CancelsReachTheQueue == Spec => []CancelNotLost
  <1>1. Safe => CancelNotLost
    <2> SUFFICES ASSUME Safe, h.phase = "run", NEW i \in Ids, sub[i].listed
                 PROVE  /\ sub[i].csched /\ ~sub[i].done => <<"cancel", i>> \in Range(sdk.work)
                        /\ sub[i].done => <<"reap", i>> \in Range(sdk.work)
      BY DEF CancelNotLost
    <2>1. Cust(i, sub[i], About(sdk.pc, i), sdk.work, h.phase = "run")
      BY DEF Safe, Custody
    <2>2. sdk.work \in Seq(Items)
      BY Running
    <2>3. \A x : Has(sdk.work, x) => x \in Range(sdk.work)
      BY <2>2 DEF Range, Has
    <2> QED BY <2>1, <2>3 DEF Cust
  <1> QED BY <1>1, SafeInit, SafeNext, PTL DEF Spec

-----------------------------------------------------------------------------
(* Counting the entries of a stream.                                       *)

At(q, k) == {j \in 1..Len(q) : q[j].k = k}

LEMMA OfAt ==
  ASSUME NEW S, NEW q \in Seq(S), NEW k
  PROVE  Of(q, k) = Cardinality(At(q, k)) /\ IsFiniteSet(At(q, k)) /\ Of(q, k) \in Nat
  <1>1. Len(q) \in Nat /\ DOMAIN q = 1..Len(q)
    OBVIOUS
  <1>2. IsFiniteSet(1..Len(q))
    BY <1>1, FS_Interval
  <1>3. IsFiniteSet(At(q, k))
    BY <1>2, FS_Subset DEF At
  <1>4. Of(q, k) = Cardinality(At(q, k))
    BY <1>1 DEF Of, At
  <1> QED BY <1>3, <1>4, FS_CardinalityType

\* f pairs the elements of S with those of T.
Pairs(f, S, T) ==
    /\ \A x \in S : f[x] \in T
    /\ \A x, y \in S : f[x] = f[y] => x = y
    /\ \A y \in T : \E x \in S : f[x] = y

LEMMA SameCount ==
  ASSUME NEW S, NEW T, IsFiniteSet(S), NEW f, Pairs(f, S, T)
  PROVE  IsFiniteSet(T) /\ Cardinality(T) = Cardinality(S)
  <1> DEFINE g == [x \in S |-> f[x]]
  <1>1. g \in [S -> T] /\ DOMAIN g = S /\ \A x \in S : g[x] = f[x]
    BY DEF Pairs
  <1> HIDE DEF g
  <1>2. g \in Bijection(S, T)
    <2>1. \A x, y \in S : g[x] = g[y] => x = y
      BY <1>1 DEF Pairs
    <2>2. \A y \in T : \E x \in S : g[x] = y
      BY <1>1 DEF Pairs
    <2> QED BY <1>1, <2>1, <2>2 DEF Bijection, Injection, Surjection, IsInjective
  <1>3. ExistsBijection(S, T)
    BY <1>2 DEF ExistsBijection
  <1> QED BY <1>3, FS_Bijection

LEMMA OfNone ==
  ASSUME NEW S, NEW q \in Seq(S), NEW k
  PROVE  Of(q, k) = 0 <=> \A j \in 1..Len(q) : q[j].k # k
  <1>1. Of(q, k) = Cardinality(At(q, k)) /\ IsFiniteSet(At(q, k))
    BY OfAt
  <1>2. Cardinality(At(q, k)) = 0 <=> At(q, k) = {}
    BY <1>1, FS_EmptySet
  <1> QED BY <1>1, <1>2 DEF At

LEMMA OfAppend ==
  ASSUME NEW S, NEW q \in Seq(S), NEW e \in S, NEW k
  PROVE  Of(Append(q, e), k) = Of(q, k) + (IF e.k = k THEN 1 ELSE 0)
  <1> DEFINE v == Append(q, e)
  <1>1. /\ v \in Seq(S) /\ Len(q) \in Nat /\ Len(v) = Len(q) + 1 /\ v[Len(v)] = e
        /\ \A j \in 1..Len(q) : v[j] = q[j] /\ j \in 1..Len(v)
        /\ \A j \in 1..Len(v) : j = Len(v) \/ j \in 1..Len(q)
        /\ Len(v) \in 1..Len(v) /\ Len(v) \notin 1..Len(q)
    OBVIOUS
  <1> HIDE DEF v
  <1>2. Of(v, k) = Cardinality(At(v, k)) /\ Of(q, k) = Cardinality(At(q, k)) /\ Of(q, k) \in Nat
    BY <1>1, OfAt
  <1>3. CASE e.k = k
    <2>1. At(v, k) = At(q, k) \cup {Len(v)} /\ Len(v) \notin At(q, k)
      BY <1>1, <1>3 DEF At
    <2>2. IsFiniteSet(At(q, k))
      BY OfAt
    <2> QED BY <1>2, <1>3, <2>1, <2>2, FS_AddElement DEF v
  <1>4. CASE e.k # k
    <2>1. At(v, k) = At(q, k)
      BY <1>1, <1>4 DEF At
    <2> QED BY <1>2, <1>4, <2>1 DEF v
  <1> QED BY <1>3, <1>4

\* The entries of a prefix and of what follows it.
LEMMA OfSplit ==
  ASSUME NEW S, NEW q \in Seq(S), NEW m \in 0..Len(q), NEW k
  PROVE  /\ SubSeq(q, 1, m) \in Seq(S) /\ SubSeq(q, m + 1, Len(q)) \in Seq(S)
         /\ Len(SubSeq(q, m + 1, Len(q))) = Len(q) - m
         /\ \A j \in 1..Len(SubSeq(q, m + 1, Len(q))) :
               j + m \in 1..Len(q) /\ SubSeq(q, m + 1, Len(q))[j] = q[j + m]
         /\ Of(q, k) = Of(SubSeq(q, 1, m), k) + Of(SubSeq(q, m + 1, Len(q)), k)
  <1> DEFINE u == SubSeq(q, 1, m)
             v == SubSeq(q, m + 1, Len(q))
             A == {j \in At(q, k) : j <= m}
             B == {j \in At(q, k) : m < j}
  <1>1. /\ u \in Seq(S) /\ Len(q) \in Nat /\ m \in Nat /\ m <= Len(q) /\ Len(u) = m
        /\ \A j \in 1..m : u[j] = q[j] /\ j \in 1..Len(q)
    OBVIOUS
  <1>2. /\ v \in Seq(S) /\ Len(v) = Len(q) - m
        /\ \A j \in 1..Len(v) : v[j] = q[j + m]
    OBVIOUS
  <1> HIDE DEF u, v
  <1>3. At(u, k) = A
    BY <1>1 DEF At
  <1>4. IsFiniteSet(At(q, k)) /\ IsFiniteSet(At(v, k)) /\ IsFiniteSet(At(u, k))
    BY <1>1, <1>2, OfAt
  <1>5. IsFiniteSet(A) /\ IsFiniteSet(B)
    <2>1. A \in SUBSET At(q, k) /\ B \in SUBSET At(q, k)
      OBVIOUS
    <2> QED BY <1>4, <2>1, FS_Subset
  <1>6. Cardinality(B) = Cardinality(At(v, k))
    <2> DEFINE f == [j \in At(v, k) |-> j + m]
    <2>1. \A j \in At(v, k) : f[j] \in B
      <3> TAKE j \in At(v, k)
      <3>1. j \in 1..Len(v) /\ v[j].k = k /\ v[j] = q[j + m] /\ f[j] = j + m
        BY <1>2 DEF At
      <3>2. j + m \in 1..Len(q) /\ m < j + m
        BY <1>1, <1>2, <3>1
      <3> QED BY <3>1, <3>2 DEF At
    <2>2. \A x, y \in At(v, k) : f[x] = f[y] => x = y
      BY <1>1 DEF At
    <2>3. \A y \in B : \E x \in At(v, k) : f[x] = y
      <3> TAKE y \in B
      <3>1. y \in 1..Len(q) /\ q[y].k = k /\ m < y
        BY DEF At
      <3>2. y - m \in 1..Len(v) /\ (y - m) + m = y
        BY <1>1, <1>2, <3>1
      <3>3. y - m \in At(v, k)
        BY <1>2, <3>1, <3>2 DEF At
      <3> QED BY <3>2, <3>3
    <2>4. Pairs(f, At(v, k), B)
      BY <2>1, <2>2, <2>3 DEF Pairs
    <2> HIDE DEF f, B
    <2> QED BY <1>4, <2>4, SameCount
  <1>7. At(q, k) = A \cup B /\ A \cap B = {}
    BY <1>1 DEF At
  <1>8. Cardinality(At(q, k)) = Cardinality(A) + Cardinality(B)
    <2>1. Cardinality(A \cup B) = Cardinality(A) + Cardinality(B) - Cardinality(A \cap B)
      BY <1>5, FS_Union
    <2>2. Cardinality(A) \in Nat /\ Cardinality(B) \in Nat /\ Cardinality({}) = 0
      BY <1>5, FS_CardinalityType, FS_EmptySet
    <2> HIDE DEF A, B
    <2>3. Cardinality(At(q, k)) = Cardinality(A) + Cardinality(B) - Cardinality({})
      BY <1>7, <2>1, Zenon
    <2> QED BY <2>2, <2>3
  <1>9. Of(q, k) = Of(u, k) + Of(v, k)
    BY <1>1, <1>2, <1>3, <1>6, <1>8, OfAt
  <1>10. \A j \in 1..Len(v) : j + m \in 1..Len(q)
    BY <1>1, <1>2
  <1> QED BY <1>1, <1>2, <1>9, <1>10 DEF u, v

LEMMA OfTail ==
  ASSUME NEW S, NEW q \in Seq(S), q # <<>>, NEW k
  PROVE  /\ Tail(q) \in Seq(S) /\ Head(q) \in S
         /\ Of(q, k) = Of(Tail(q), k) + (IF Head(q).k = k THEN 1 ELSE 0)
  <1> DEFINE u == SubSeq(q, 1, 1)
  <1>1. Tail(q) \in Seq(S) /\ Head(q) \in S /\ 1 \in 0..Len(q) /\ Len(q) \in Nat /\ Head(q) = q[1]
    OBVIOUS
  <1>2. Tail(q) = SubSeq(q, 1 + 1, Len(q))
    BY <1>1
  <1>3. u \in Seq(S) /\ Len(u) = 1 /\ u[1] = Head(q)
    BY <1>1
  <1>4. Of(q, k) = Of(u, k) + Of(Tail(q), k)
    BY <1>1, <1>2, OfSplit
  <1> HIDE DEF u
  <1>5. At(u, k) = IF Head(q).k = k THEN {1} ELSE {}
    BY <1>3 DEF At
  <1>6. Cardinality({1}) = 1 /\ Cardinality({}) = 0
    BY FS_Singleton, FS_EmptySet
  <1>7. Of(u, k) = IF Head(q).k = k THEN 1 ELSE 0
    BY <1>3, <1>5, <1>6, OfAt
  <1>8. Of(Tail(q), k) \in Nat
    BY <1>1, OfAt
  <1> QED BY <1>1, <1>4, <1>7, <1>8

LEMMA OfEmpty == \A k : Of(<<>>, k) = 0
  <1> TAKE k
  <1>1. DOMAIN <<>> = {}
    OBVIOUS
  <1>2. {j \in DOMAIN <<>> : <<>>[j].k = k} = {}
    BY <1>1
  <1>3. Of(<<>>, k) = Cardinality({})
    BY <1>2 DEF Of
  <1> QED BY <1>3, FS_EmptySet

\* The queue without the reports of stream k.
WithoutStream(q, k) == WithoutAll(q, {e \in Elements(q) : e.k = k})

\* Retire drops the queued reports of its stream and keeps those of the others.
LEMMA OfFiltered ==
  ASSUME NEW S, NEW q \in Seq(S), NEW d, NEW w,
         w = WithoutStream(q, d)
  PROVE  /\ w \in Seq(S)
         /\ \A j \in 1..Len(w) : w[j].k # d /\ \E l \in 1..Len(q) : w[j] = q[l]
         /\ \A k : k # d => Of(w, k) = Of(q, k)
         /\ Of(w, d) = 0
  <1> DEFINE X == {e \in Elements(q) : e.k = d}
  <1>0. w = WithoutAll(q, X)
    BY DEF WithoutStream
  <1>1. w \in Seq(S)
    BY <1>0, WithoutAllLeaves
  <1>2. PICK h1 : Left(q, X, w, Len(q), h1)
    BY <1>0, WithoutAllLeaves
  <1>3. \A j \in 1..Len(q) : q[j] \in X <=> q[j].k = d
    BY DEF Elements
  <1> HIDE DEF X
  <1>4. /\ Len(w) \in Nat /\ Len(q) \in Nat /\ \A j \in 1..Len(w) : h1[j] \in 1..Len(q) /\ w[j] = q[h1[j]] /\ w[j].k # d
    BY <1>1, <1>2, <1>3 DEF Left
  <1>5. \A x, y \in 1..Len(w) : h1[x] = h1[y] => x = y
    <2> TAKE x, y \in 1..Len(w)
    <2>1. x < y => h1[x] < h1[y]
      BY <1>2 DEF Left
    <2>2. y < x => h1[y] < h1[x]
      BY <1>2 DEF Left
    <2>3. h1[x] \in Nat /\ h1[y] \in Nat
      BY <1>4
    <2> QED BY <1>4, <2>1, <2>2, <2>3
  <1>6. \A k : k # d => Of(w, k) = Of(q, k)
    <2> TAKE k
    <2> HAVE k # d
    <2>1. \A x \in At(w, k) : h1[x] \in At(q, k)
      BY <1>4 DEF At
    <2>2. \A x, y \in At(w, k) : h1[x] = h1[y] => x = y
      BY <1>5 DEF At
    <2>3. \A y \in At(q, k) : \E x \in At(w, k) : h1[x] = y
      <3> TAKE y \in At(q, k)
      <3>1. y \in 1..Len(q) /\ q[y].k = k /\ q[y] \notin X
        BY <1>3 DEF At
      <3>2. PICK x \in 1..Len(w) : h1[x] = y
        BY <1>2, <3>1 DEF Left
      <3> QED BY <1>4, <3>1, <3>2 DEF At
    <2>4. IsFiniteSet(At(w, k))
      BY <1>1, OfAt
    <2>5. Pairs(h1, At(w, k), At(q, k))
      BY <2>1, <2>2, <2>3 DEF Pairs
    <2>6. Cardinality(At(q, k)) = Cardinality(At(w, k))
      BY <2>4, <2>5, SameCount
    <2> QED BY <1>1, <2>6, OfAt
  <1>7. Of(w, d) = 0
    BY <1>1, <1>4, OfNone
  <1> QED BY <1>1, <1>4, <1>6, <1>7

-----------------------------------------------------------------------------
(* The credit manager.                                                     *)

StreamKeys == Ids \X Nat

StreamType == [out : Nat, q : Nat, last : Nat, live : BOOLEAN]

\* The stream table.
IsTable(t) ==
    /\ DOMAIN t \subseteq StreamKeys /\ t = [k \in DOMAIN t |-> t[k]]
    /\ \A k \in DOMAIN t : t[k] \in StreamType

Tables == UNION {[D -> StreamType] : D \in SUBSET StreamKeys}

QueuedType == [k : StreamKeys, r : Nat]
OutstType == [k : StreamKeys, seq : Nat]
SentType == [k : StreamKeys, r : Nat, seq : Nat]

Backlog == Seq(QueuedType)
InFlight == Seq(OutstType)
Outbox == Seq(SentType)

FlowType ==
    [streams : Tables, queued : Backlog, outst : InFlight, next : Nat, ack : Nat, sent : Outbox]

LEMMA TableShape == \A t : t \in Tables <=> IsTable(t)
  <1> TAKE t
  <1>1. ASSUME t \in Tables PROVE IsTable(t)
    <2>1. PICK D \in SUBSET StreamKeys : t \in [D -> StreamType]
      BY <1>1 DEF Tables
    <2> QED BY <2>1 DEF IsTable
  <1>2. ASSUME IsTable(t) PROVE t \in Tables
    <2>1. t \in [DOMAIN t -> StreamType] /\ DOMAIN t \in SUBSET StreamKeys
      BY <1>2 DEF IsTable
    <2> QED BY <2>1 DEF Tables
  <1> QED BY <1>1, <1>2

\* What the streams account for is what queue and window hold.
Balanced(f) ==
    /\ \A k \in DOMAIN f.streams :
          /\ f.streams[k].out = Of(f.outst, k) /\ f.streams[k].q = Of(f.queued, k)
          /\ f.streams[k].live \/ f.streams[k].out > 0
          /\ f.streams[k].last < f.next
    /\ \A j \in 1..Len(f.queued) : IsLive(f, f.queued[j].k)
    /\ \A j \in 1..Len(f.outst) : f.outst[j].k \in DOMAIN f.streams
    /\ Len(f.outst) <= SessionCredit

\* No report waits that could be sent.
Settled(f) ==
    f.queued # <<>> => IsLive(f, f.queued[1].k) /\ ~CanTransmit(f, f.queued[1].k)

FlowOK(f) == f \in FlowType /\ Balanced(f)

\* g is f after some reports were sent, of live streams and with new numbers.
Sends(f, g) ==
    /\ DOMAIN g.streams = DOMAIN f.streams /\ f.next <= g.next
    /\ \A k \in DOMAIN f.streams :
          /\ g.streams[k].live = f.streams[k].live
          /\ f.streams[k].last <= g.streams[k].last
          /\ \/ g.streams[k].last = f.streams[k].last
             \/ \E j \in 1..Len(g.sent) : g.sent[j].k = k /\ g.sent[j].seq = g.streams[k].last
    /\ \A j \in 1..Len(g.sent) :
          /\ IsLive(g, g.sent[j].k)
          /\ f.next <= g.sent[j].seq /\ g.sent[j].seq <= g.streams[g.sent[j].k].last

LEMMA NewFlowOK == FlowOK(NewFlow) /\ Settled(NewFlow) /\ DOMAIN NewFlow.streams = {} /\ NewFlow.sent = <<>>
  <1> DEFINE f == NewFlow
  <1>1. /\ f.streams = <<>> /\ f.queued = <<>> /\ f.outst = <<>> /\ f.sent = <<>> /\ f.next = 1 /\ f.ack = 0
        /\ DOMAIN f.streams = {}
    BY DEF NewFlow
  <1>2. f.streams \in Tables
    <2>1. <<>> \in Seq(StreamType)
      OBVIOUS
    <2>2. PICK m \in Nat : <<>> \in [1..m -> StreamType]
      BY <2>1, SeqDef
    <2>3. 1..m = {}
      BY <2>2, <1>1, Zenon
    <2>4. <<>> \in [{} -> StreamType]
      BY <2>2, <2>3, Zenon
    <2> QED BY <1>1, <2>4 DEF Tables
  <1>3. f \in FlowType
    BY <1>2 DEF FlowType, NewFlow, Backlog, InFlight, Outbox
  <1>4. Len(f.queued) = 0 /\ Len(f.outst) = 0
    BY <1>1
  <1> HIDE DEF f
  <1>5. Balanced(f) /\ Settled(f)
    BY <1>1, <1>4, CreditAssumption DEF Balanced, Settled
  <1> QED BY <1>1, <1>3, <1>5 DEF FlowOK, f

\* The table with another record for one of its streams.
LEMMA TableUpdate ==
  ASSUME NEW t \in Tables, NEW k \in DOMAIN t, NEW s \in StreamType
  PROVE  /\ [t EXCEPT ![k] = s] \in Tables /\ DOMAIN [t EXCEPT ![k] = s] = DOMAIN t
         /\ \A j \in DOMAIN t : [t EXCEPT ![k] = s][j] = IF j = k THEN s ELSE t[j]
  <1>1. IsTable(t)
    BY TableShape
  <1>2. DOMAIN [t EXCEPT ![k] = s] = DOMAIN t /\ \A j \in DOMAIN t : [t EXCEPT ![k] = s][j] = IF j = k THEN s ELSE t[j]
    BY <1>1 DEF IsTable
  <1>3. IsTable([t EXCEPT ![k] = s])
    BY <1>1, <1>2 DEF IsTable
  <1> QED BY <1>2, <1>3, TableShape

\* The stream of key k gets record s.
LEMMA StreamUpdate ==
  ASSUME NEW t \in Tables, NEW k \in DOMAIN t
  PROVE  t[k] \in StreamType /\ k \in StreamKeys
  BY TableShape DEF IsTable

\* AddStream
LEMMA AddStreamOK ==
  ASSUME NEW f, FlowOK(f), NEW k \in StreamKeys, k \notin DOMAIN f.streams, 0 < f.next
  PROVE  /\ FlowOK(AddStream(f, k)) /\ (Settled(f) => Settled(AddStream(f, k)))
         /\ DOMAIN AddStream(f, k).streams = DOMAIN f.streams \cup {k}
         /\ AddStream(f, k).streams[k].last = 0 /\ IsLive(AddStream(f, k), k)
         /\ \A j \in DOMAIN f.streams : AddStream(f, k).streams[j] = f.streams[j]
         /\ AddStream(f, k).sent = f.sent /\ AddStream(f, k).next = f.next
  <1> DEFINE g == AddStream(f, k)
             s == [out |-> 0, q |-> 0, last |-> 0, live |-> TRUE]
             t == [j \in DOMAIN f.streams \cup {k} |-> IF j = k THEN s ELSE f.streams[j]]
  <1>1. f \in FlowType /\ f.streams \in Tables /\ f.queued \in Seq(QueuedType) /\ f.outst \in Seq(OutstType)
    BY DEF FlowOK, FlowType, Backlog, InFlight, Outbox
  <1>2. t \in Tables
    <2>1. IsTable(f.streams) /\ s \in StreamType
      BY <1>1, TableShape DEF StreamType
    <2> HIDE DEF s
    <2>2. IsTable(t)
      BY <2>1 DEF IsTable
    <2> HIDE DEF t
    <2> QED BY <2>2, TableShape
  <1>3. /\ g.streams = t /\ g.queued = f.queued /\ g.outst = f.outst /\ g.sent = f.sent
        /\ g.next = f.next /\ g.ack = f.ack
    BY <1>1 DEF AddStream, FlowType
  <1>4. g \in FlowType
    <2> HIDE DEF t
    <2>1. g = [f EXCEPT !.streams = t]
      BY <1>1 DEF AddStream, FlowType, t
    <2> QED BY <1>1, <1>2, <2>1 DEF FlowType
  <1>5. DOMAIN t = DOMAIN f.streams \cup {k} /\ t[k] = s /\ \A j \in DOMAIN f.streams : t[j] = f.streams[j]
    OBVIOUS
  <1>6. s.out = 0 /\ s.q = 0 /\ s.last = 0 /\ s.live
    OBVIOUS
  <1> HIDE DEF g, t, s
  <1>7. \A j \in 1..Len(f.queued) : f.queued[j].k # k
    BY DEF FlowOK, Balanced, IsLive
  <1>8. \A j \in 1..Len(f.outst) : f.outst[j].k # k
    BY DEF FlowOK, Balanced
  <1>9. Of(f.queued, k) = 0 /\ Of(f.outst, k) = 0
    BY <1>1, <1>7, <1>8, OfNone
  <1>10. Balanced(g)
    BY <1>3, <1>5, <1>6, <1>9 DEF FlowOK, Balanced, IsLive
  <1>11. Settled(f) => Settled(g)
    BY <1>3, <1>5, <1>6 DEF Settled, IsLive, CanTransmit
  <1>12. IsLive(g, k)
    BY <1>3, <1>5, <1>6 DEF IsLive
  <1> QED BY <1>3, <1>4, <1>5, <1>6, <1>10, <1>11, <1>12 DEF FlowOK, g

\* What the types of the fields are.
LEMMA FlowFields ==
  ASSUME NEW f, FlowOK(f)
  PROVE  /\ f \in FlowType /\ Balanced(f) /\ f.streams \in Tables /\ f.next \in Nat /\ f.ack \in Nat
         /\ f.queued \in Seq(QueuedType) /\ f.outst \in Seq(OutstType) /\ f.sent \in Seq(SentType)
         /\ Len(f.queued) \in Nat /\ Len(f.outst) \in Nat /\ Len(f.sent) \in Nat
         /\ \A k \in DOMAIN f.streams : f.streams[k] \in StreamType /\ k \in StreamKeys
  <1>1. /\ f \in FlowType /\ Balanced(f) /\ f.streams \in Tables /\ f.next \in Nat /\ f.ack \in Nat
        /\ f.queued \in Seq(QueuedType) /\ f.outst \in Seq(OutstType) /\ f.sent \in Seq(SentType)
    BY DEF FlowOK, FlowType, Backlog, InFlight, Outbox
  <1>2. \A k \in DOMAIN f.streams : f.streams[k] \in StreamType /\ k \in StreamKeys
    BY <1>1, StreamUpdate
  <1> QED BY <1>1, <1>2

LEMMA StreamAcknowledged ==
  ASSUME NEW s \in StreamType, NEW a \in Nat, NEW t, t = [s EXCEPT !.out = a]
  PROVE  t \in StreamType /\ t.out = a /\ t.q = s.q /\ t.last = s.last /\ t.live = s.live
  BY DEF StreamType

LEMMA StreamQueued ==
  ASSUME NEW s \in StreamType, NEW c \in Nat, NEW t, t = [s EXCEPT !.q = c]
  PROVE  t \in StreamType /\ t.out = s.out /\ t.q = c /\ t.last = s.last /\ t.live = s.live
  BY DEF StreamType

LEMMA StreamDead ==
  ASSUME NEW s \in StreamType, NEW t, t = [s EXCEPT !.live = FALSE, !.q = 0]
  PROVE  t \in StreamType /\ t.out = s.out /\ t.q = 0 /\ t.last = s.last /\ ~t.live
  BY DEF StreamType

\* The frame of report r of stream k leaves: g is what becomes of f.
Transmitted(f, k, r, g) ==
    /\ g \in FlowType /\ DOMAIN g.streams = DOMAIN f.streams
    /\ \A j \in DOMAIN f.streams : j # k => g.streams[j] = f.streams[j]
    /\ g.streams[k].out = f.streams[k].out + 1 /\ g.streams[k].q = f.streams[k].q
    /\ g.streams[k].last = f.next /\ g.streams[k].live = f.streams[k].live
    /\ g.queued = f.queued /\ g.ack = f.ack /\ g.next = f.next + 1
    /\ g.outst = Append(f.outst, [k |-> k, seq |-> f.next])
    /\ g.sent = Append(f.sent, [k |-> k, r |-> r, seq |-> f.next])

LEMMA FlowSet ==
  ASSUME NEW f \in FlowType, NEW t \in Tables, NEW b \in Backlog, NEW o \in InFlight, NEW w \in Outbox,
         NEW m \in Nat, NEW a \in Nat, NEW g,
         g = [streams |-> t, queued |-> b, outst |-> o, next |-> m, ack |-> a, sent |-> w]
  PROVE  /\ g \in FlowType /\ g.streams = t /\ g.queued = b /\ g.outst = o /\ g.next = m /\ g.ack = a
         /\ g.sent = w
  BY DEF FlowType

\* One field of the credit manager set.
WithStreams(f, t) == [f EXCEPT !.streams = t]
WithQueued(f, b) == [f EXCEPT !.queued = b]
WithOutst(f, o) == [f EXCEPT !.outst = o]
WithAck(f, a) == [f EXCEPT !.ack = a]
WithSent(f, w) == [f EXCEPT !.sent = w]

\* The fields of g, one by one.
FlowHolds(g, t, b, o, m, a, w) ==
    /\ g \in FlowType /\ g.streams = t /\ g.queued = b /\ g.outst = o
    /\ g.next = m /\ g.ack = a /\ g.sent = w

LEMMA FlowStreams ==
  ASSUME NEW f \in FlowType, NEW t \in Tables
  PROVE  FlowHolds(WithStreams(f, t), t, f.queued, f.outst, f.next, f.ack, f.sent)
  BY DEF FlowType, WithStreams, FlowHolds

LEMMA FlowQueued ==
  ASSUME NEW f \in FlowType, NEW b \in Backlog
  PROVE  FlowHolds(WithQueued(f, b), f.streams, b, f.outst, f.next, f.ack, f.sent)
  BY DEF FlowType, WithQueued, FlowHolds

LEMMA FlowOutst ==
  ASSUME NEW f \in FlowType, NEW o \in InFlight
  PROVE  FlowHolds(WithOutst(f, o), f.streams, f.queued, o, f.next, f.ack, f.sent)
  BY DEF FlowType, WithOutst, FlowHolds

LEMMA FlowAck ==
  ASSUME NEW f \in FlowType, NEW a \in Nat
  PROVE  FlowHolds(WithAck(f, a), f.streams, f.queued, f.outst, f.next, a, f.sent)
  BY DEF FlowType, WithAck, FlowHolds

LEMMA FlowSent ==
  ASSUME NEW f \in FlowType, NEW w \in Outbox
  PROVE  FlowHolds(WithSent(f, w), f.streams, f.queued, f.outst, f.next, f.ack, w)
  BY DEF FlowType, WithSent, FlowHolds

LEMMA FlowReleased ==
  ASSUME NEW f \in FlowType, NEW t \in Tables, NEW o \in InFlight, NEW a \in Nat
  PROVE  FlowHolds([[f EXCEPT !.outst = o, !.streams = t] EXCEPT !.ack = a],
                t, f.queued, o, f.next, a, f.sent)
  <1> DEFINE u == WithOutst(f, o)
             v == WithStreams(u, t)
             g == WithAck(v, a)
  <1>1. [[f EXCEPT !.outst = o, !.streams = t] EXCEPT !.ack = a] = g
    BY DEF WithOutst, WithStreams, WithAck
  <1>2. FlowHolds(u, f.streams, f.queued, o, f.next, f.ack, f.sent)
    BY FlowOutst
  <1> HIDE DEF u
  <1>3. FlowHolds(v, t, u.queued, u.outst, u.next, u.ack, u.sent)
    BY <1>2, FlowStreams DEF FlowHolds
  <1> HIDE DEF v
  <1>4. FlowHolds(g, v.streams, v.queued, v.outst, v.next, a, v.sent)
    BY <1>3, FlowAck DEF FlowHolds
  <1> HIDE DEF g
  <1>5. FlowHolds(g, t, f.queued, o, f.next, a, f.sent)
    BY <1>2, <1>3, <1>4 DEF FlowHolds
  <1> QED BY <1>1, <1>5, Zenon

LEMMA FlowFiltered ==
  ASSUME NEW f \in FlowType, NEW t \in Tables, NEW b \in Backlog
  PROVE  FlowHolds([f EXCEPT !.streams = t, !.queued = b], t, b, f.outst, f.next, f.ack, f.sent)
  <1> DEFINE u == WithStreams(f, t)
             g == WithQueued(u, b)
  <1>1. [f EXCEPT !.streams = t, !.queued = b] = g
    BY DEF WithQueued, WithStreams
  <1>2. FlowHolds(u, t, f.queued, f.outst, f.next, f.ack, f.sent)
    BY FlowStreams
  <1> HIDE DEF u
  <1>3. FlowHolds(g, u.streams, b, u.outst, u.next, u.ack, u.sent)
    BY <1>2, FlowQueued DEF FlowHolds
  <1> HIDE DEF g
  <1>4. FlowHolds(g, t, b, f.outst, f.next, f.ack, f.sent)
    BY <1>2, <1>3 DEF FlowHolds
  <1> QED BY <1>1, <1>4, Zenon

\* TransmitFrame
LEMMA TransmitShape ==
  ASSUME NEW f, FlowOK(f), NEW k \in DOMAIN f.streams, NEW r \in Nat, NEW g, g = TransmitFrame(f, k, r)
  PROVE  Transmitted(f, k, r, g)
  <1> DEFINE s == [f.streams[k] EXCEPT !.out = @ + 1, !.last = f.next]
             t == [f.streams EXCEPT ![k] = s]
             o == Append(f.outst, [k |-> k, seq |-> f.next])
             w == Append(f.sent, [k |-> k, r |-> r, seq |-> f.next])
  <1>1. /\ f \in FlowType /\ f.streams \in Tables /\ f.next \in Nat /\ f.streams[k] \in StreamType
        /\ f.outst \in Seq(OutstType) /\ f.sent \in Seq(SentType) /\ k \in StreamKeys
    BY FlowFields
  <1>2. /\ s \in StreamType /\ s.out = f.streams[k].out + 1 /\ s.q = f.streams[k].q
        /\ s.last = f.next /\ s.live = f.streams[k].live
    <2> DEFINE u == f.streams[k]
               a == u.out + 1
    <2>1. u \in StreamType /\ u.out \in Nat
      BY <1>1 DEF StreamType
    <2>2. a \in Nat
      BY <2>1
    <2>3. s = [u EXCEPT !.out = a, !.last = f.next]
      OBVIOUS
    <2> HIDE DEF u, a, s
    <2>4. s \in StreamType /\ s.out = a /\ s.q = u.q /\ s.last = f.next /\ s.live = u.live
      BY <1>1, <2>1, <2>2, <2>3 DEF StreamType
    <2> QED BY <2>4 DEF u, a
  <1> HIDE DEF s
  <1>3. t \in Tables /\ DOMAIN t = DOMAIN f.streams /\ \A j \in DOMAIN f.streams : t[j] = IF j = k THEN s ELSE f.streams[j]
    BY <1>1, <1>2, TableUpdate
  <1>4. o \in InFlight /\ w \in Outbox
    BY <1>1 DEF OutstType, SentType, InFlight, Outbox
  <1>5. g = [streams |-> t, queued |-> f.queued, outst |-> o, next |-> f.next + 1, ack |-> f.ack, sent |-> w]
    <2>1. [[f.streams EXCEPT ![k].out = @ + 1] EXCEPT ![k].last = f.next] = t
      BY <1>1, TableShape DEF IsTable, StreamType, s
    <2> HIDE DEF t, o, w
    <2> QED BY <1>1, <2>1 DEF TransmitFrame, FlowType, o, w
  <1> HIDE DEF t, o, w
  <1>6. /\ g \in FlowType /\ g.streams = t /\ g.outst = o /\ g.sent = w /\ g.next = f.next + 1
        /\ g.queued = f.queued /\ g.ack = f.ack
    <2>1. f.queued \in Backlog /\ f.ack \in Nat /\ f.next + 1 \in Nat
      BY <1>1 DEF FlowType
    <2> QED BY <1>1, <1>3, <1>4, <1>5, <2>1, FlowSet
  <1> QED BY <1>2, <1>3, <1>6 DEF o, w, Transmitted

LEMMA TransmitOK ==
  ASSUME NEW f, FlowOK(f), NEW k, IsLive(f, k), CanTransmit(f, k), NEW r \in Nat,
         NEW g, g = TransmitFrame(f, k, r)
  PROVE  FlowOK(g) /\ g.queued = f.queued
  <1>0. k \in DOMAIN f.streams
    BY DEF IsLive
  <1> DEFINE e == [k |-> k, seq |-> f.next]
  <1>1. /\ g \in FlowType /\ DOMAIN g.streams = DOMAIN f.streams
        /\ \A j \in DOMAIN f.streams : j # k => g.streams[j] = f.streams[j]
        /\ g.streams[k].out = f.streams[k].out + 1 /\ g.streams[k].q = f.streams[k].q
        /\ g.streams[k].last = f.next /\ g.streams[k].live = f.streams[k].live
        /\ g.queued = f.queued /\ g.next = f.next + 1 /\ g.outst = Append(f.outst, e)
    <2>1. Transmitted(f, k, r, g)
      BY <1>0, TransmitShape
    <2> QED BY <2>1 DEF Transmitted
  <1>2. /\ Balanced(f) /\ f.next \in Nat /\ f.outst \in Seq(OutstType) /\ Len(f.outst) \in Nat
        /\ \A j \in DOMAIN f.streams : f.streams[j] \in StreamType /\ j \in StreamKeys
    BY FlowFields
  <1>3. e \in OutstType /\ e.k = k
    BY <1>0, <1>2 DEF OutstType
  <1> HIDE DEF e
  <1>4. \A j : Of(g.outst, j) = Of(f.outst, j) + (IF e.k = j THEN 1 ELSE 0)
    BY <1>1, <1>2, <1>3, OfAppend
  <1>5. /\ Len(g.outst) = Len(f.outst) + 1
        /\ \A j \in 1..Len(g.outst) : (j \in 1..Len(f.outst) /\ g.outst[j] = f.outst[j]) \/ g.outst[j] = e
    BY <1>1, <1>2, <1>3
  <1>6. Len(g.outst) <= SessionCredit
    BY <1>2, <1>5, CreditAssumption DEF CanTransmit
  <1>7. \A j \in DOMAIN g.streams :
          /\ g.streams[j].out = Of(g.outst, j) /\ g.streams[j].q = Of(g.queued, j)
          /\ g.streams[j].live \/ g.streams[j].out > 0
          /\ g.streams[j].last < g.next
    <2> TAKE j \in DOMAIN g.streams
    <2>1. /\ f.streams[j].out = Of(f.outst, j) /\ f.streams[j].q = Of(f.queued, j)
          /\ f.streams[j].live \/ f.streams[j].out > 0
          /\ f.streams[j].last < f.next /\ f.streams[j].last \in Nat /\ f.streams[j].out \in Nat
      BY <1>1, <1>2 DEF Balanced, StreamType
    <2>2. CASE j = k
      BY <1>1, <1>2, <1>3, <1>4, <2>1, <2>2 DEF IsLive
    <2>3. CASE j # k
      BY <1>1, <1>2, <1>3, <1>4, <2>1, <2>3
    <2> QED BY <2>2, <2>3
  <1>8. \A j \in 1..Len(g.queued) : IsLive(g, g.queued[j].k)
    <2>1. \A j : IsLive(f, j) => IsLive(g, j)
      BY <1>0, <1>1 DEF IsLive
    <2> QED BY <1>1, <1>2, <2>1 DEF Balanced
  <1>9. \A j \in 1..Len(g.outst) : g.outst[j].k \in DOMAIN g.streams
    BY <1>0, <1>1, <1>2, <1>3, <1>5 DEF Balanced
  <1> QED BY <1>1, <1>6, <1>7, <1>8, <1>9 DEF FlowOK, Balanced

LEMMA TransmitSends ==
  ASSUME NEW f0, FlowOK(f0), NEW f, FlowOK(f), Sends(f0, f), NEW k, IsLive(f, k), NEW r \in Nat,
         NEW g, g = TransmitFrame(f, k, r)
  PROVE  Sends(f0, g)
  <1>0. k \in DOMAIN f.streams
    BY DEF IsLive
  <1> DEFINE e == [k |-> k, r |-> r, seq |-> f.next]
  <1>1. /\ DOMAIN g.streams = DOMAIN f.streams
        /\ \A j \in DOMAIN f.streams : j # k => g.streams[j] = f.streams[j]
        /\ g.streams[k].last = f.next /\ g.streams[k].live = f.streams[k].live
        /\ g.next = f.next + 1 /\ g.sent = Append(f.sent, e)
    <2>1. Transmitted(f, k, r, g)
      BY <1>0, TransmitShape
    <2> QED BY <2>1 DEF Transmitted
  <1>2. /\ f.next \in Nat /\ f.sent \in Seq(SentType) /\ Len(f.sent) \in Nat /\ f0.next \in Nat
        /\ \A j \in DOMAIN f.streams : f.streams[j] \in StreamType /\ f.streams[j].last < f.next
        /\ \A j \in DOMAIN f0.streams : f0.streams[j] \in StreamType
        /\ k \in StreamKeys
    BY <1>0, FlowFields DEF Balanced
  <1>3. e \in SentType /\ e.k = k /\ e.seq = f.next
    BY <1>0, <1>2 DEF SentType
  <1> HIDE DEF e
  <1>4. /\ Len(g.sent) \in Nat /\ Len(g.sent) = Len(f.sent) + 1 /\ g.sent[Len(g.sent)] = e
        /\ \A j \in 1..Len(g.sent) : j \in 1..Len(f.sent) \/ j = Len(g.sent)
        /\ \A j \in 1..Len(f.sent) : j \in 1..Len(g.sent) /\ g.sent[j] = f.sent[j]
    BY <1>1, <1>2, <1>3
  <1>5. \A j \in DOMAIN f.streams :
            f.streams[j].last \in Nat /\ f.streams[j].last <= g.streams[j].last /\ g.streams[j].live = f.streams[j].live
    BY <1>1, <1>2 DEF StreamType
  <1>6. ASSUME NEW j \in DOMAIN f0.streams
        PROVE  /\ g.streams[j].live = f0.streams[j].live
               /\ f0.streams[j].last <= g.streams[j].last
               /\ \/ g.streams[j].last = f0.streams[j].last
                  \/ \E l \in 1..Len(g.sent) : g.sent[l].k = j /\ g.sent[l].seq = g.streams[j].last
    <2>1. /\ j \in DOMAIN f.streams /\ f.streams[j].live = f0.streams[j].live
          /\ f0.streams[j].last <= f.streams[j].last /\ f0.streams[j].last \in Nat
          /\ f.streams[j].last \in Nat
          /\ \/ f.streams[j].last = f0.streams[j].last
             \/ \E l \in 1..Len(f.sent) : f.sent[l].k = j /\ f.sent[l].seq = f.streams[j].last
      BY <1>2, <1>5, <1>6 DEF Sends, StreamType
    <2>2. CASE j = k
      <3>1. Len(g.sent) \in 1..Len(g.sent)
        BY <1>2, <1>4
      <3>2. f0.streams[j].last <= g.streams[j].last
        BY <1>1, <1>2, <2>1, <2>2
      <3> QED BY <1>1, <1>3, <1>4, <2>1, <2>2, <3>1, <3>2
    <2>3. CASE j # k
      BY <1>1, <1>4, <2>1, <2>3
    <2> QED BY <2>2, <2>3
  <1>7. ASSUME NEW j \in 1..Len(g.sent)
        PROVE  /\ IsLive(g, g.sent[j].k)
               /\ f0.next <= g.sent[j].seq /\ g.sent[j].seq <= g.streams[g.sent[j].k].last
    <2>1. CASE j \in 1..Len(f.sent)
      <3>1. /\ IsLive(f, f.sent[j].k) /\ f0.next <= f.sent[j].seq
            /\ f.sent[j].seq <= f.streams[f.sent[j].k].last /\ g.sent[j] = f.sent[j]
            /\ f.sent[j].seq \in Nat
        <4>1. f.sent[j] \in SentType
          BY <1>2, <2>1
        <4>2. f.sent[j].seq \in Nat
          BY <4>1 DEF SentType
        <4> QED BY <1>4, <2>1, <4>2 DEF Sends
      <3>2. f.sent[j].k \in DOMAIN f.streams
        BY <3>1 DEF IsLive
      <3>3. f.streams[f.sent[j].k].last <= g.streams[f.sent[j].k].last /\ f.streams[f.sent[j].k].last \in Nat
        BY <1>5, <3>2
      <3>4. g.streams[f.sent[j].k].last \in Nat
        BY <1>1, <1>2, <3>2 DEF StreamType
      <3>5. f.sent[j].seq <= g.streams[f.sent[j].k].last
        BY <3>1, <3>3, <3>4
      <3>6. IsLive(g, f.sent[j].k)
        BY <1>1, <1>5, <3>1, <3>2 DEF IsLive
      <3> QED BY <3>1, <3>5, <3>6
    <2>2. CASE j = Len(g.sent)
      <3>1. f0.next <= f.next
        BY DEF Sends
      <3>2. g.sent[j] = e /\ e.k = k /\ e.seq = f.next /\ g.streams[k].last = f.next
        BY <1>1, <1>3, <1>4, <2>2
      <3>3. IsLive(g, k)
        BY <1>0, <1>1, <1>5 DEF IsLive
      <3> QED BY <1>2, <3>1, <3>2, <3>3
    <2> QED BY <1>4, <2>1, <2>2
  <1>8. DOMAIN g.streams = DOMAIN f0.streams /\ f0.next <= g.next
    BY <1>1, <1>2 DEF Sends
  <1> QED BY <1>6, <1>7, <1>8 DEF Sends

LEMMA SendsNothing ==
  ASSUME NEW f, FlowOK(f), f.sent = <<>>
  PROVE  Sends(f, f)
  <1>1. f.next \in Nat /\ \A k \in DOMAIN f.streams : f.streams[k] \in StreamType
    BY FlowFields
  <1>2. \A k \in DOMAIN f.streams : f.streams[k].last \in Nat
    BY <1>1 DEF StreamType
  <1>3. Len(f.sent) = 0
    OBVIOUS
  <1> QED BY <1>1, <1>2, <1>3 DEF Sends

\* The head of the queue leaves it.
Popped(f) ==
    [[f EXCEPT !.queued = Tail(@)] EXCEPT !.streams[Head(f.queued).k].q = @ - 1]

LEMMA PoppedOK ==
  ASSUME NEW f, FlowOK(f), f.queued # <<>>, NEW g, g = Popped(f)
  PROVE  /\ FlowOK(g) /\ g.queued = Tail(f.queued) /\ Len(g.queued) = Len(f.queued) - 1
         /\ g.outst = f.outst /\ DOMAIN g.streams = DOMAIN f.streams
         /\ \A j \in DOMAIN f.streams : /\ g.streams[j].out = f.streams[j].out
                                        /\ g.streams[j].live = f.streams[j].live
         /\ \A f0 : Sends(f0, f) => Sends(f0, g)
  <1> DEFINE k == Head(f.queued).k
             s == [f.streams[k] EXCEPT !.q = @ - 1]
             t == [f.streams EXCEPT ![k] = s]
  <1>1. /\ f \in FlowType /\ Balanced(f) /\ f.streams \in Tables /\ f.next \in Nat /\ f.ack \in Nat
        /\ f.queued \in Seq(QueuedType) /\ f.outst \in Seq(OutstType) /\ f.sent \in Seq(SentType)
        /\ \A j \in DOMAIN f.streams : f.streams[j] \in StreamType
    BY FlowFields
  <1>2. /\ Head(f.queued) = f.queued[1] /\ 1 \in 1..Len(f.queued) /\ Tail(f.queued) \in Seq(QueuedType)
        /\ Len(Tail(f.queued)) = Len(f.queued) - 1 /\ Len(f.queued) \in Nat
        /\ \A j \in 1..Len(Tail(f.queued)) : j + 1 \in 1..Len(f.queued) /\ Tail(f.queued)[j] = f.queued[j + 1]
    BY <1>1
  <1>3. IsLive(f, k) /\ k \in DOMAIN f.streams
    BY <1>1, <1>2 DEF Balanced, IsLive
  <1>4. \A j : Of(f.queued, j) = Of(Tail(f.queued), j) + (IF k = j THEN 1 ELSE 0)
    BY <1>1, OfTail
  <1>5. \A j : Of(Tail(f.queued), j) \in Nat
    BY <1>2, OfAt
  <1>6. f.streams[k].q = Of(f.queued, k)
    BY <1>1, <1>3 DEF Balanced
  <1> HIDE DEF k
  <1>7. f.streams[k].q - 1 \in Nat /\ f.streams[k].q - 1 = Of(Tail(f.queued), k)
    BY <1>4, <1>5, <1>6
  <1>8. /\ s \in StreamType /\ s.out = f.streams[k].out /\ s.q = f.streams[k].q - 1
        /\ s.last = f.streams[k].last /\ s.live = f.streams[k].live
    <2> DEFINE u == f.streams[k]
               c == u.q - 1
    <2>1. u \in StreamType /\ c \in Nat /\ s = [u EXCEPT !.q = c]
      BY <1>1, <1>3, <1>7
    <2> HIDE DEF u, c, s
    <2>2. s \in StreamType /\ s.out = u.out /\ s.q = c /\ s.last = u.last /\ s.live = u.live
      BY <2>1, StreamQueued
    <2> QED BY <2>2 DEF u, c
  <1>9. t \in Tables /\ DOMAIN t = DOMAIN f.streams /\ \A j \in DOMAIN f.streams : t[j] = IF j = k THEN s ELSE f.streams[j]
    <2> HIDE DEF s
    <2> QED BY <1>1, <1>3, <1>8, TableUpdate
  <1>10. g = [streams |-> t, queued |-> Tail(f.queued), outst |-> f.outst, next |-> f.next,
              ack |-> f.ack, sent |-> f.sent]
    BY <1>1 DEF Popped, FlowType, k
  <1> HIDE DEF s, t
  <1>11. /\ g \in FlowType /\ g.streams = t /\ g.queued = Tail(f.queued) /\ g.outst = f.outst
         /\ g.next = f.next /\ g.sent = f.sent
    <2> DEFINE b == Tail(f.queued)
    <2>1. b \in Backlog /\ f.outst \in InFlight /\ f.sent \in Outbox
      BY <1>1, <1>2 DEF Backlog, InFlight, Outbox
    <2> HIDE DEF b
    <2>2. g = [streams |-> t, queued |-> b, outst |-> f.outst, next |-> f.next,
               ack |-> f.ack, sent |-> f.sent]
      BY <1>10 DEF b
    <2>3. /\ g \in FlowType /\ g.streams = t /\ g.queued = b /\ g.outst = f.outst
          /\ g.next = f.next /\ g.sent = f.sent
      BY <1>1, <1>9, <2>1, <2>2 DEF FlowType
    <2> QED BY <2>3 DEF b
  <1>12. \A j \in DOMAIN f.streams :
            /\ g.streams[j].out = f.streams[j].out /\ g.streams[j].q = Of(g.queued, j)
            /\ g.streams[j].last = f.streams[j].last /\ g.streams[j].live = f.streams[j].live
    <2> TAKE j \in DOMAIN f.streams
    <2>1. CASE j = k
      BY <1>7, <1>8, <1>9, <1>11, <2>1
    <2>2. CASE j # k
      <3>1. f.streams[j].q = Of(f.queued, j)
        BY <1>1 DEF Balanced
      <3>2. Of(f.queued, j) = Of(Tail(f.queued), j)
        BY <1>4, <1>5, <2>2
      <3> QED BY <1>9, <1>11, <2>2, <3>1, <3>2
    <2> QED BY <2>1, <2>2
  <1>13. DOMAIN g.streams = DOMAIN f.streams /\ \A j : IsLive(g, j) <=> IsLive(f, j)
    BY <1>9, <1>11, <1>12 DEF IsLive
  <1>14. \A j \in 1..Len(g.queued) : IsLive(g, g.queued[j].k)
    BY <1>1, <1>2, <1>11, <1>13 DEF Balanced
  <1>15. Balanced(g)
    <2> HIDE DEF IsLive
    <2> QED BY <1>1, <1>11, <1>12, <1>13, <1>14 DEF Balanced
  <1>16. ASSUME NEW f0, Sends(f0, f) PROVE Sends(f0, g)
    <2>1. \A j \in 1..Len(g.sent) : g.streams[g.sent[j].k].last = f.streams[f.sent[j].k].last
      <3> TAKE j \in 1..Len(g.sent)
      <3>1. f.sent[j].k \in DOMAIN f.streams
        BY <1>11, <1>16 DEF Sends, IsLive
      <3> QED BY <1>11, <1>12, <3>1
    <2>2. \A j \in 1..Len(g.sent) :
             /\ IsLive(g, g.sent[j].k)
             /\ f0.next <= g.sent[j].seq /\ g.sent[j].seq <= g.streams[g.sent[j].k].last
      BY <1>11, <1>13, <1>16, <2>1 DEF Sends
    <2>3. DOMAIN g.streams = DOMAIN f0.streams /\ f0.next <= g.next
      BY <1>11, <1>13, <1>16 DEF Sends
    <2>4. \A j \in DOMAIN f0.streams :
            /\ g.streams[j].live = f0.streams[j].live
            /\ f0.streams[j].last <= g.streams[j].last
            /\ \/ g.streams[j].last = f0.streams[j].last
               \/ \E l \in 1..Len(g.sent) : g.sent[l].k = j /\ g.sent[l].seq = g.streams[j].last
      BY <1>11, <1>12, <1>16 DEF Sends
    <2> QED BY <2>2, <2>3, <2>4 DEF Sends
  <1> QED BY <1>2, <1>11, <1>12, <1>13, <1>15, <1>16 DEF FlowOK

\* What is known of a loop of Drain after i turns.
Draining(f, g, i) ==
    /\ FlowOK(g) /\ Sends(f, g)
    /\ Settled(g) \/ Len(g.queued) + i <= Len(f.queued)

LEMMA DrainTurn ==
  ASSUME NEW f, FlowOK(f), NEW g, NEW i \in Nat, Draining(f, g, i)
  PROVE  Draining(f, DrainStep(g), i + 1)
  <1>1. /\ FlowOK(g) /\ Sends(f, g) /\ Balanced(g) /\ g.queued \in Seq(QueuedType)
        /\ Len(g.queued) \in Nat /\ Len(f.queued) \in Nat
    BY FlowFields DEF Draining
  <1>2. CASE g.queued = <<>>
    BY <1>1, <1>2 DEF Draining, DrainStep, Settled
  <1>3. CASE g.queued # <<>>
    <2> DEFINE k == Head(g.queued).k
               r == Head(g.queued).r
    <2>1. Head(g.queued) = g.queued[1] /\ 1 \in 1..Len(g.queued) /\ Head(g.queued) \in QueuedType
      BY <1>1, <1>3
    <2>2. IsLive(g, k) /\ r \in Nat /\ k = g.queued[1].k
      BY <1>1, <2>1 DEF Balanced, QueuedType
    <2>3. CASE ~CanTransmit(g, k)
      <3>1. DrainStep(g) = g
        BY <1>3, <2>2, <2>3 DEF DrainStep
      <3>2. Settled(g)
        BY <2>2, <2>3 DEF Settled
      <3> QED BY <1>1, <3>1, <3>2 DEF Draining
    <2>4. CASE CanTransmit(g, k)
      <3> DEFINE u == Popped(g)
      <3>1. DrainStep(g) = TransmitFrame(u, k, r)
        BY <1>3, <2>2, <2>4 DEF DrainStep, Popped
      <3>2. /\ FlowOK(u) /\ Len(u.queued) = Len(g.queued) - 1 /\ u.outst = g.outst
            /\ DOMAIN u.streams = DOMAIN g.streams
            /\ \A j \in DOMAIN g.streams : u.streams[j].out = g.streams[j].out /\ u.streams[j].live = g.streams[j].live
            /\ Sends(f, u)
        BY <1>1, <1>3, PoppedOK
      <3> HIDE DEF u, k, r
      <3>3. IsLive(u, k) /\ CanTransmit(u, k)
        BY <2>2, <2>4, <3>2 DEF IsLive, CanTransmit
      <3>4. FlowOK(DrainStep(g)) /\ DrainStep(g).queued = u.queued
        BY <2>2, <3>1, <3>2, <3>3, TransmitOK
      <3>5. Sends(f, DrainStep(g))
        BY <2>2, <3>1, <3>2, <3>3, TransmitSends
      <3>6. ~Settled(g)
        BY <1>3, <2>2, <2>4 DEF Settled
      <3>7. Len(DrainStep(g).queued) + (i + 1) <= Len(f.queued)
        <4>1. Len(g.queued) + i <= Len(f.queued)
          BY <3>6 DEF Draining
        <4>2. Len(DrainStep(g).queued) = Len(g.queued) - 1
          BY <3>2, <3>4
        <4> DEFINE a == Len(g.queued)
                   b == Len(f.queued)
        <4>3. a \in Nat /\ b \in Nat /\ a + i <= b
          BY <1>1, <4>1
        <4> HIDE DEF a, b
        <4>4. (a - 1) + (i + 1) <= b
          BY <4>3
        <4> QED BY <4>2, <4>4 DEF a, b
      <3> QED BY <3>4, <3>5, <3>7 DEF Draining
    <2> QED BY <2>3, <2>4
  <1> QED BY <1>2, <1>3

\* The function that Drain's loop computes exists.
LEMMA DrainExists ==
  ASSUME NEW f, NEW N \in Nat
  PROVE  \E s : s = [i \in 0..N |-> IF i = 0 THEN f ELSE DrainStep(s[i - 1])]
  <1> DEFINE D(s, i) == IF i = 0 THEN f ELSE DrainStep(s[i - 1])
             Ex(k) == \E s : s = [i \in 0..k |-> D(s, i)]
             T == {k \in Nat : ~Ex(k)}
  <1> SUFFICES ASSUME T # {} PROVE FALSE
    OBVIOUS
  <1>1. PICK k \in T : \A m \in T : k <= m
    <2>1. T \subseteq Nat
      OBVIOUS
    <2> HIDE DEF T
    <2> QED BY <2>1, LeastNumber
  <1>2. Ex(0)
    <2> DEFINE g == [i \in 0..0 |-> f]
    <2>1. g = [i \in 0..0 |-> D(g, i)]
      OBVIOUS
    <2> QED BY <2>1
  <1>3. k \in Nat \ {0} /\ k - 1 \in Nat /\ k - 1 \notin T
    <2>1. k \in Nat /\ ~Ex(k)
      OBVIOUS
    <2> HIDE DEF Ex
    <2>2. k # 0
      BY <1>2, <2>1
    <2> QED BY <1>1, <2>1, <2>2
  <1>4. PICK s : s = [i \in 0..(k - 1) |-> D(s, i)]
    <2>1. Ex(k - 1)
      BY <1>3
    <2> QED BY <2>1
  <1> DEFINE g == [i \in 0..k |-> IF i < k THEN s[i] ELSE D(s, k)]
  <1>5. \A i \in 0..k : g[i] = D(g, i)
    <2> TAKE i \in 0..k
    <2>1. CASE i = 0
      BY <1>3, <1>4, <2>1
    <2>2. CASE i # 0
      <3>1. i - 1 \in 0..(k - 1) /\ i - 1 < k /\ i - 1 \in 0..k /\ i \in Nat
        BY <2>2, <1>3
      <3>2. g[i - 1] = s[i - 1]
        BY <3>1
      <3>3. D(g, i) = D(s, i)
        BY <3>2
      <3>4. CASE i < k
        <4>1. i \in 0..(k - 1)
          BY <3>4, <3>1, <1>3
        <4>2. s[i] = D(s, i)
          BY <1>4, <4>1
        <4> QED BY <3>3, <3>4, <4>2
      <3>5. CASE i = k
        BY <3>3, <3>5
      <3> QED BY <3>4, <3>5
    <2> QED BY <2>1, <2>2
  <1>6. g = [i \in 0..k |-> D(g, i)]
    BY <1>5
  <1>7. Ex(k)
    BY <1>6
  <1> QED BY <1>1, <1>7

\* Drain sends what credit there is for, in the order of the queue.
LEMMA DrainOK ==
  ASSUME NEW f, FlowOK(f), f.sent = <<>>
  PROVE  FlowOK(Drain(f)) /\ Sends(f, Drain(f)) /\ Settled(Drain(f))
  <1> DEFINE N == Len(f.queued)
             L == LET step[i \in 0..Len(f.queued)] == IF i = 0 THEN f ELSE DrainStep(step[i - 1])
                  IN step
             T == {i \in 0..N : ~Draining(f, L[i], i)}
  <1>1. N \in Nat
    BY FlowFields
  <1>2. L = [i \in 0..N |-> IF i = 0 THEN f ELSE DrainStep(L[i - 1])]
    <2>1. \E s : s = [i \in 0..N |-> IF i = 0 THEN f ELSE DrainStep(s[i - 1])]
      BY <1>1, DrainExists
    <2> QED BY <2>1
  <1>3. Drain(f) = L[N]
    BY DEF Drain
  <1> HIDE DEF L
  <1>4. L[0] = f /\ \A i \in 1..N : L[i] = DrainStep(L[i - 1])
    BY <1>1, <1>2
  <1> HIDE DEF N
  <1>5. Draining(f, L[0], 0)
    <2>1. Len(f.queued) \in Nat
      BY FlowFields
    <2> QED BY <1>4, <2>1, SendsNothing DEF Draining
  <1>6. ASSUME NEW i \in 1..N, Draining(f, L[i - 1], i - 1) PROVE Draining(f, L[i], i)
    <2>1. i - 1 \in Nat /\ (i - 1) + 1 = i
      BY <1>1
    <2>2. Draining(f, DrainStep(L[i - 1]), (i - 1) + 1)
      BY <1>6, <2>1, DrainTurn
    <2> QED BY <1>4, <2>1, <2>2
  <1>7. T = {}
    <2> SUFFICES ASSUME T # {} PROVE FALSE
      OBVIOUS
    <2>1. T \subseteq Nat
      BY <1>1
    <2> HIDE DEF Draining
    <2>2. PICK i \in T : \A m \in T : i <= m
      BY <2>1, LeastNumber
    <2>3. i # 0 /\ i \in 1..N /\ i - 1 \in 0..N /\ ~Draining(f, L[i], i)
      BY <1>1, <1>5, <2>2
    <2>4. Draining(f, L[i - 1], i - 1)
      BY <2>2, <2>3
    <2> QED BY <1>6, <2>3, <2>4
  <1>8. Draining(f, Drain(f), N)
    BY <1>1, <1>3, <1>7
  <1>9. Settled(Drain(f))
    <2>1. CASE Settled(Drain(f))
      BY <2>1
    <2>2. CASE Len(Drain(f).queued) + N <= Len(f.queued)
      <3>1. Drain(f).queued \in Seq(QueuedType) /\ Len(Drain(f).queued) \in Nat
        BY <1>8, FlowFields DEF Draining
      <3>2. Len(Drain(f).queued) = 0
        <4> DEFINE a == Len(Drain(f).queued)
        <4>1. a \in Nat /\ N \in Nat /\ a + N <= N
          BY <1>1, <2>2, <3>1 DEF N
        <4> HIDE DEF a
        <4>2. a = 0
          BY <4>1
        <4> QED BY <4>2 DEF a
      <3>3. Drain(f).queued = <<>>
        BY <3>1, <3>2
      <3> QED BY <3>3 DEF Settled
    <2> QED BY <1>8, <2>1, <2>2 DEF Draining
  <1> QED BY <1>8, <1>9 DEF Draining

\* f and g have the same live streams; other streams may be gone.
SameLive(f, g) ==
    /\ DOMAIN g.streams \subseteq DOMAIN f.streams
    /\ \A k \in DOMAIN g.streams : /\ g.streams[k].live = f.streams[k].live
                                   /\ g.streams[k].last = f.streams[k].last
    /\ \A k \in DOMAIN f.streams : f.streams[k].live => k \in DOMAIN g.streams
    /\ g.next = f.next /\ g.sent = f.sent

\* The acknowledged frames leave the window.
Released(f, seq) == [Release(f, seq) EXCEPT !.ack = seq]

LEMMA ReleasedOK ==
  ASSUME NEW f, FlowOK(f), NEW seq \in Nat, CanAcknowledge(f, seq)
  PROVE  FlowOK(Released(f, seq)) /\ SameLive(f, Released(f, seq))
  <1> DEFINE g == Released(f, seq)
             m == CHOOSE j \in DOMAIN f.outst : f.outst[j].seq = seq
             pre == SubSeq(f.outst, 1, m)
             o == SubSeq(f.outst, m + 1, Len(f.outst))
             gone(k) == /\ ~f.streams[k].live /\ f.streams[k].q = 0
                        /\ Of(pre, k) > 0 /\ f.streams[k].out = Of(pre, k)
             D == {k \in DOMAIN f.streams : ~gone(k)}
             rec(k) == [f.streams[k] EXCEPT !.out = @ - Of(pre, k)]
             t == [k \in D |-> rec(k)]
  <1>1. /\ f \in FlowType /\ Balanced(f) /\ f.streams \in Tables /\ f.next \in Nat
        /\ f.queued \in Seq(QueuedType) /\ f.outst \in Seq(OutstType) /\ f.sent \in Seq(SentType)
        /\ Len(f.outst) \in Nat /\ DOMAIN f.outst = 1..Len(f.outst)
        /\ \A k \in DOMAIN f.streams : f.streams[k] \in StreamType /\ k \in StreamKeys
    <2>1. \A s \in Seq(OutstType) : DOMAIN s = 1..Len(s)
      OBVIOUS
    <2> QED BY <2>1, FlowFields
  <1>2. m \in 1..Len(f.outst)
    BY <1>1 DEF CanAcknowledge
  <1> HIDE DEF m
  <1>3. m \in 0..Len(f.outst) /\ m \in Nat
    BY <1>1, <1>2
  <1>4. /\ pre \in Seq(OutstType) /\ o \in Seq(OutstType)
        /\ \A k : Of(f.outst, k) = Of(pre, k) + Of(o, k)
    BY <1>1, <1>3, OfSplit
  <1>5. /\ Len(o) = Len(f.outst) - m
        /\ \A j \in 1..Len(o) : j + m \in 1..Len(f.outst) /\ o[j] = f.outst[j + m]
    BY <1>1, <1>3, OfSplit
  <1>6. g = [[f EXCEPT !.outst = o, !.streams = t] EXCEPT !.ack = seq]
    BY Zenon DEF Released, Release, m
  <1> HIDE DEF pre, o, g
  <1>7. \A k : Of(pre, k) \in Nat /\ Of(o, k) \in Nat
    BY <1>4, OfAt
  <1>8. ASSUME NEW k \in DOMAIN f.streams
        PROVE  /\ rec(k) \in StreamType /\ rec(k).out = Of(o, k) /\ rec(k).q = f.streams[k].q
               /\ rec(k).last = f.streams[k].last /\ rec(k).live = f.streams[k].live
    <2> DEFINE s == f.streams[k]
               a == s.out - Of(pre, k)
               u == rec(k)
    <2>1. s \in StreamType /\ s.out = Of(f.outst, k)
      BY <1>1 DEF Balanced
    <2>2. a \in Nat /\ a = Of(o, k)
      BY <1>4, <1>7, <2>1
    <2>3. u = [s EXCEPT !.out = a]
      OBVIOUS
    <2> HIDE DEF s, a, u
    <2>4. u \in StreamType /\ u.out = a /\ u.q = s.q /\ u.last = s.last /\ u.live = s.live
      BY <2>1, <2>2, <2>3, StreamAcknowledged
    <2> QED BY <2>2, <2>4 DEF s, u
  <1> HIDE DEF rec
  <1>9. t \in Tables /\ DOMAIN t = D /\ \A k \in D : t[k] = rec(k)
    <2>1. IsTable(t)
      BY <1>1, <1>8 DEF IsTable
    <2>2. DOMAIN t = D /\ \A k \in D : t[k] = rec(k)
      OBVIOUS
    <2> HIDE DEF t, D
    <2> QED BY <2>1, <2>2, TableShape
  <1> HIDE DEF t
  <1>10. /\ g \in FlowType /\ g.streams = t /\ g.queued = f.queued /\ g.outst = o /\ g.next = f.next
         /\ g.sent = f.sent
    <2> HIDE DEF D
    <2>1. f.queued \in Backlog /\ o \in InFlight /\ f.sent \in Outbox
      BY <1>1, <1>4 DEF Backlog, InFlight, Outbox
    <2>2. FlowHolds([[f EXCEPT !.outst = o, !.streams = t] EXCEPT !.ack = seq],
                 t, f.queued, o, f.next, seq, f.sent)
      BY <1>1, <1>9, <2>1, FlowReleased
    <2>3. FlowHolds(g, t, f.queued, o, f.next, seq, f.sent)
      BY <1>6, <2>2, Zenon
    <2> QED BY <2>3 DEF FlowHolds
  <1>11. \A k \in DOMAIN f.streams : f.streams[k].live => k \in D
    OBVIOUS
  <1>12. \A k : IsLive(f, k) => IsLive(g, k)
    BY <1>8, <1>9, <1>10, <1>11 DEF IsLive
  <1>13. \A j \in 1..Len(g.queued) : IsLive(g, g.queued[j].k)
    BY <1>1, <1>10, <1>12 DEF Balanced
  <1>14. \A j \in 1..Len(g.outst) : g.outst[j].k \in DOMAIN g.streams
    <2> TAKE j \in 1..Len(g.outst)
    <2> DEFINE k == o[j].k
    <2>1. k \in DOMAIN f.streams
      BY <1>1, <1>5, <1>10 DEF Balanced
    <2>2. Of(o, k) # 0
      BY <1>4, <1>10, OfNone
    <2>3. f.streams[k].out = Of(pre, k) + Of(o, k)
      BY <1>1, <1>4, <2>1 DEF Balanced
    <2> HIDE DEF k
    <2>4. f.streams[k].out # Of(pre, k)
      BY <1>7, <2>2, <2>3
    <2>5. k \in D
      BY <2>1, <2>4
    <2> QED BY <1>9, <1>10, <2>5 DEF k
  <1>15. ASSUME NEW k \in DOMAIN g.streams
         PROVE  /\ g.streams[k].out = Of(g.outst, k) /\ g.streams[k].q = Of(g.queued, k)
                /\ g.streams[k].live \/ g.streams[k].out > 0
                /\ g.streams[k].last < g.next
    <2>1. k \in D /\ k \in DOMAIN f.streams /\ g.streams[k] = rec(k) /\ ~gone(k)
      BY <1>9, <1>10
    <2>2. /\ f.streams[k].out = Of(f.outst, k) /\ f.streams[k].q = Of(f.queued, k)
          /\ f.streams[k].live \/ f.streams[k].out > 0
          /\ f.streams[k].last < f.next
      BY <1>1, <2>1 DEF Balanced
    <2>3. /\ g.streams[k].out = Of(g.outst, k) /\ g.streams[k].q = Of(g.queued, k)
          /\ g.streams[k].last < g.next /\ g.streams[k].live = f.streams[k].live
      BY <1>8, <1>10, <2>1, <2>2
    <2>4. ASSUME ~f.streams[k].live PROVE g.streams[k].out > 0
      <3>1. \A j \in 1..Len(f.queued) : f.queued[j].k # k
        BY <1>1, <2>4 DEF Balanced, IsLive
      <3>2. f.streams[k].q = 0
        BY <1>1, <2>2, <3>1, OfNone
      <3>3. Of(pre, k) = 0 \/ Of(o, k) # 0
        BY <1>4, <1>7, <2>1, <2>2, <2>4, <3>2
      <3>4. Of(o, k) > 0
        BY <1>4, <1>7, <2>2, <2>4, <3>3
      <3> QED BY <1>10, <2>3, <3>4
    <2> QED BY <2>3, <2>4
  <1>16. Len(g.outst) <= SessionCredit
    BY <1>1, <1>3, <1>5, <1>10, CreditAssumption DEF Balanced
  <1>17. Balanced(g)
    BY <1>13, <1>14, <1>15, <1>16 DEF Balanced
  <1>18. SameLive(f, g)
    BY <1>8, <1>9, <1>10, <1>11 DEF SameLive
  <1> QED BY <1>10, <1>17, <1>18 DEF FlowOK, g

LEMMA AcknowledgeOK ==
  ASSUME NEW f, FlowOK(f), f.sent = <<>>, NEW seq \in Nat, CanAcknowledge(f, seq)
  PROVE  LET u == Released(f, seq)
             g == Acknowledge(f, seq)
         IN FlowOK(u) /\ SameLive(f, u) /\ FlowOK(g) /\ Sends(u, g) /\ Settled(g)
  <1>1. FlowOK(Released(f, seq)) /\ SameLive(f, Released(f, seq))
    BY ReleasedOK
  <1>2. Released(f, seq).sent = <<>>
    BY <1>1 DEF SameLive
  <1>3. Acknowledge(f, seq) = Drain(Released(f, seq))
    BY DEF Acknowledge, Released
  <1> QED BY <1>1, <1>2, <1>3, DrainOK

\* f without the live stream k, and with no other change to a stream.
Ends(f, g, k) ==
    /\ DOMAIN g.streams \subseteq DOMAIN f.streams
    /\ DOMAIN f.streams \ {k} \subseteq DOMAIN g.streams
    /\ \A j \in DOMAIN g.streams : /\ j # k => g.streams[j] = f.streams[j]
                                   /\ j = k => ~g.streams[j].live
    /\ g.next = f.next /\ g.sent = f.sent

LEMMA RetiringOK ==
  ASSUME NEW f, FlowOK(f), NEW k, IsLive(f, k)
  PROVE  FlowOK(Retiring(f, k)) /\ Ends(f, Retiring(f, k), k)
  <1> DEFINE s == [f.streams[k] EXCEPT !.live = FALSE, !.q = 0]
             t == [f.streams EXCEPT ![k] = s]
             w == WithoutStream(f.queued, k)
             d == [f EXCEPT !.streams = t, !.queued = w]
             v == [j \in DOMAIN t \ {k} |-> t[j]]
             c == [d EXCEPT !.streams = v]
             g == Retiring(f, k)
  <1>1. /\ f \in FlowType /\ Balanced(f) /\ f.streams \in Tables /\ f.next \in Nat /\ f.ack \in Nat
        /\ f.queued \in Seq(QueuedType) /\ f.outst \in Seq(OutstType) /\ f.sent \in Seq(SentType)
        /\ \A j \in DOMAIN f.streams : f.streams[j] \in StreamType /\ j \in StreamKeys
        /\ f.outst \in InFlight /\ f.sent \in Outbox
    BY FlowFields DEF InFlight, Outbox
  <1>2. k \in DOMAIN f.streams
    BY DEF IsLive
  <1>3. /\ s \in StreamType /\ s.out = f.streams[k].out /\ s.q = 0 /\ s.last = f.streams[k].last /\ ~s.live
    <2> DEFINE u == f.streams[k]
    <2>1. u \in StreamType /\ s = [u EXCEPT !.live = FALSE, !.q = 0]
      BY <1>1, <1>2
    <2> HIDE DEF u, s
    <2>2. s \in StreamType /\ s.out = u.out /\ s.q = 0 /\ s.last = u.last /\ ~s.live
      BY <2>1, StreamDead
    <2> QED BY <2>2 DEF u
  <1>4. t \in Tables /\ DOMAIN t = DOMAIN f.streams /\ \A j \in DOMAIN f.streams : t[j] = IF j = k THEN s ELSE f.streams[j]
    <2> HIDE DEF s
    <2> QED BY <1>1, <1>2, <1>3, TableUpdate
  <1>5. /\ w \in Seq(QueuedType) /\ w \in Backlog
        /\ \A j \in 1..Len(w) : w[j].k # k /\ \E l \in 1..Len(f.queued) : w[j] = f.queued[l]
        /\ \A j : j # k => Of(w, j) = Of(f.queued, j)
        /\ Of(w, k) = 0
    BY <1>1, OfFiltered DEF Backlog
  <1>6. g = IF d.streams[k].out = 0 THEN [d EXCEPT !.streams = Forget(d.streams, k)] ELSE d
    <2>1. [[f.streams EXCEPT ![k].live = FALSE] EXCEPT ![k].q = 0] = t
      BY <1>1, <1>2, TableShape DEF IsTable, StreamType
    <2> DEFINE e == [f EXCEPT !.streams[k].live = FALSE, !.streams[k].q = 0, !.queued = w]
    <2>2. e = d
      <3> HIDE DEF t, w
      <3> QED BY <1>1, <2>1 DEF FlowType
    <2>3. g = IF e.streams[k].out = 0 THEN [e EXCEPT !.streams = Forget(e.streams, k)] ELSE e
      BY Zenon DEF Retiring, WithoutStream
    <2> HIDE DEF d, e, g
    <2> QED BY <2>2, <2>3, Zenon
  <1> HIDE DEF s, t, w
  <1>7. v \in Tables /\ DOMAIN v = DOMAIN f.streams \ {k} /\ \A j \in DOMAIN v : v[j] = f.streams[j]
    <2>1. IsTable(t)
      BY <1>4, TableShape
    <2>2. IsTable(v)
      BY <2>1 DEF IsTable
    <2>3. DOMAIN v = DOMAIN f.streams \ {k} /\ \A j \in DOMAIN v : v[j] = f.streams[j]
      BY <1>4
    <2> HIDE DEF v
    <2> QED BY <2>2, <2>3, TableShape
  <1> HIDE DEF v
  <1>8. FlowHolds(d, t, w, f.outst, f.next, f.ack, f.sent)
    BY <1>1, <1>4, <1>5, FlowFiltered
  <1> HIDE DEF d
  <1>9. FlowHolds(c, v, w, f.outst, f.next, f.ack, f.sent)
    <2>1. d \in FlowType
      BY <1>8 DEF FlowHolds
    <2>2. FlowHolds(c, v, d.queued, d.outst, d.next, d.ack, d.sent)
      BY <1>7, <2>1, FlowStreams DEF WithStreams
    <2> QED BY <1>8, <2>2 DEF FlowHolds
  <1>10. /\ g \in FlowType /\ g.queued = w /\ g.outst = f.outst /\ g.next = f.next /\ g.sent = f.sent
         /\ g.streams = IF t[k].out = 0 THEN v ELSE t
    <2>1. d.streams = t
      BY <1>8 DEF FlowHolds
    <2>2. g = IF t[k].out = 0 THEN c ELSE d
      BY <1>6, <2>1, Zenon DEF Forget, v
    <2> HIDE DEF c, g
    <2> QED BY <1>8, <1>9, <2>2 DEF FlowHolds
  <1> HIDE DEF c, g
  <1>11. \A j \in DOMAIN f.streams : j # k => j \in DOMAIN g.streams /\ g.streams[j] = f.streams[j]
    BY <1>4, <1>7, <1>10
  <1>12. \A j \in DOMAIN g.streams : j \in DOMAIN f.streams /\ (j = k => g.streams[j] = s /\ s.out # 0)
    BY <1>4, <1>7, <1>10
  <1>13. Ends(f, g, k)
    BY <1>3, <1>10, <1>11, <1>12 DEF Ends
  <1>14. \A j \in 1..Len(g.queued) : IsLive(g, g.queued[j].k)
    <2> TAKE j \in 1..Len(g.queued)
    <2>1. PICK l \in 1..Len(f.queued) : w[j] = f.queued[l]
      BY <1>5, <1>10
    <2>2. IsLive(f, w[j].k) /\ w[j].k # k
      BY <1>1, <1>5, <1>10, <2>1 DEF Balanced
    <2> QED BY <1>10, <1>11, <2>2 DEF IsLive
  <1>15. \A j \in 1..Len(g.outst) : g.outst[j].k \in DOMAIN g.streams
    <2> TAKE j \in 1..Len(g.outst)
    <2>1. f.outst[j].k \in DOMAIN f.streams /\ j \in 1..Len(f.outst)
      BY <1>1, <1>10 DEF Balanced
    <2>2. CASE f.outst[j].k # k
      BY <1>10, <1>11, <2>1, <2>2
    <2>3. CASE f.outst[j].k = k
      <3>1. Of(f.outst, k) # 0
        BY <1>1, <2>1, <2>3, OfNone
      <3>2. t[k].out # 0
        BY <1>1, <1>2, <1>3, <1>4, <3>1 DEF Balanced
      <3> QED BY <1>2, <1>4, <1>10, <2>3, <3>2
    <2> QED BY <2>2, <2>3
  <1>16. ASSUME NEW j \in DOMAIN g.streams
         PROVE  /\ g.streams[j].out = Of(g.outst, j) /\ g.streams[j].q = Of(g.queued, j)
                /\ g.streams[j].live \/ g.streams[j].out > 0
                /\ g.streams[j].last < g.next
    <2>1. /\ j \in DOMAIN f.streams /\ f.streams[j].out = Of(f.outst, j) /\ f.streams[j].q = Of(f.queued, j)
          /\ f.streams[j].live \/ f.streams[j].out > 0
          /\ f.streams[j].last < f.next
      BY <1>1, <1>12, <1>16 DEF Balanced
    <2>2. CASE j # k
      BY <1>5, <1>10, <1>11, <2>1, <2>2
    <2>3. CASE j = k
      <3>1. g.streams[j] = s /\ s.out # 0 /\ s.out \in Nat
        BY <1>3, <1>12, <2>3 DEF StreamType
      <3> QED BY <1>3, <1>5, <1>10, <2>1, <2>3, <3>1
    <2> QED BY <2>2, <2>3
  <1>17. Balanced(g)
    BY <1>1, <1>10, <1>14, <1>15, <1>16 DEF Balanced
  <1> QED BY <1>10, <1>13, <1>17 DEF FlowOK, g

LEMMA RetireOK ==
  ASSUME NEW f, FlowOK(f), f.sent = <<>>, NEW k, IsLive(f, k)
  PROVE  LET u == Retiring(f, k)
             g == Retire(f, k)
         IN FlowOK(u) /\ Ends(f, u, k) /\ FlowOK(g) /\ Sends(u, g) /\ Settled(g)
  <1>1. FlowOK(Retiring(f, k)) /\ Ends(f, Retiring(f, k), k)
    BY RetiringOK
  <1>2. Retiring(f, k).sent = <<>>
    BY <1>1 DEF Ends
  <1> QED BY <1>1, <1>2, DrainOK DEF Retire

-----------------------------------------------------------------------------
(* The frames the writer took, and what the protocol state says of them.   *)

\* The barrier of stream <<i, g>> has been written.
Closed(x, i, g) == \E j \in 1..Len(x) : x[j].t = "retired" /\ x[j].i = i /\ x[j].g = g

IsReport(e, k) == e.t = "report" /\ e.i = k[1] /\ e.g = k[2]

\* BarrierLast of the frames x.
Barriers(x) ==
    \A j \in 1..Len(x) : x[j].t = "retired" =>
        /\ \A l \in 1..Len(x) : x[l].i = x[j].i /\ x[l].g = x[j].g =>
              /\ x[l].t = "retired" => l = j
              /\ x[l].t \in {"report", "error"} => l < j
              /\ x[l].t = "report" => x[l].n <= x[j].n
        /\ x[j].n = 0 \/ \E l \in 1..Len(x) : IsReport(x[l], <<x[j].i, x[j].g>>) /\ x[l].n = x[j].n

\* CancelAfterBarrier of the frames x.
Confirmed(x) ==
    \A j \in 1..Len(x) : x[j].t = "cancelled" =>
        \E l \in 1..(j - 1) : x[l].t = "retired" /\ x[l].i = x[j].i /\ x[l].g = x[j].g

\* A live stream has no barrier yet, and its last report is the one the credit
\* manager remembers.
Tidy(f, x) ==
    \A k \in DOMAIN f.streams : f.streams[k].live =>
        /\ ~Closed(x, k[1], k[2])
        /\ f.streams[k].last = 0 \/ \E j \in 1..Len(x) : IsReport(x[j], k) /\ x[j].n = f.streams[k].last
        /\ \A j \in 1..Len(x) : IsReport(x[j], k) => x[j].n <= f.streams[k].last

\* The subscription table and the live streams are the same; a stream that is
\* no longer live has its barrier, and no frame is of a later generation.
Sound(q) ==
    /\ \A i \in Ids : q.subs[i].gen = 0 => q.subs[i] = None
    /\ \A k \in DOMAIN q.flow.streams :
          IF q.flow.streams[k].live THEN q.subs[k[1]].gen = k[2] ELSE Closed(q.hist, k[1], k[2])
    /\ \A i \in Ids : q.subs[i] # None => IsLive(q.flow, <<i, q.subs[i].gen>>)
    /\ \A j \in 1..Len(q.hist) : q.hist[j].t \in {"report", "retired"} /\ q.subs[q.hist[j].i] # None =>
          q.hist[j].g <= q.subs[q.hist[j].i].gen

\* Nothing of subscription i has been sent yet.
Fresh(q, i) ==
    /\ q.subs[i] = None
    /\ \A j \in 1..Len(q.hist) : q.hist[j].i = i => q.hist[j].t \notin {"report", "retired"}

Alive(q) == q.healthy /\ ~q.failed

\* A request and its stream: a subscribe request that has not added it, a
\* cancellation of one that is or was live.
Awaits(f, q) ==
    /\ f.op = "subscribe" /\ f.pc \in {"wait", "add"} => Fresh(q, f.id)
    /\ f.op = "cancel" => IsLive(q.flow, <<f.id, f.g>>) \/ Closed(q.hist, f.id, f.g)

\* Only a cancellation nests, and only in a waiting request that is not one.
Nests(st) ==
    /\ Len(st) <= 2
    /\ Len(st) = 2 => st[1].pc = "wait" /\ st[1].op # "cancel" /\ st[2].op = "cancel"
    /\ \A j \in 1..Len(st) : st[j].pc = "add" => st[j].op = "subscribe"

EventType == [t : Kinds, i : Ids, g : Nat, n : Nat]

Frames == Seq(EventType)

\* y is x with more frames behind it.
Continues(x, y) ==
    /\ x \in Frames /\ y \in Frames /\ Len(x) <= Len(y)
    /\ \A j \in 1..Len(x) : y[j] = x[j]

\* The frames y adds to x are none that x's barriers exclude.
Allowed(x, y) ==
    \A j \in 1..Len(y) : j > Len(x) =>
        /\ y[j].t # "retired"
        /\ y[j].t \in {"report", "error"} => ~Closed(x, y[j].i, y[j].g)

LEMMA ContinuesLen ==
  ASSUME NEW x, NEW y, Continues(x, y)
  PROVE  /\ Len(x) \in Nat /\ Len(y) \in Nat
         /\ \A j \in 1..Len(x) : j \in 1..Len(y) /\ y[j] = x[j] /\ x[j] \in EventType
         /\ \A j \in 1..Len(y) : y[j] \in EventType /\ (j \in 1..Len(x) \/ j > Len(x))
  <1>1. Len(x) \in Nat /\ Len(y) \in Nat
    BY DEF Continues, Frames
  <1>2. /\ \A j \in 1..Len(x) : x[j] \in EventType
        /\ \A j \in 1..Len(y) : y[j] \in EventType
    BY DEF Continues, Frames
  <1> QED BY <1>1, <1>2 DEF Continues

\* A barrier stays.
LEMMA ClosedStays ==
  ASSUME NEW x, NEW y, Continues(x, y), NEW i, NEW g, Closed(x, i, g)
  PROVE  Closed(y, i, g)
  BY ContinuesLen DEF Closed

LEMMA ClosedNew ==
  ASSUME NEW x, NEW y, Continues(x, y), Allowed(x, y), NEW i, NEW g, Closed(y, i, g)
  PROVE  Closed(x, i, g)
  BY ContinuesLen DEF Closed, Allowed

LEMMA BarriersContinue ==
  ASSUME NEW x, NEW y, Continues(x, y), Allowed(x, y), Barriers(x)
  PROVE  Barriers(y)
  <1>1. /\ Len(x) \in Nat /\ Len(y) \in Nat
        /\ \A j \in 1..Len(x) : j \in 1..Len(y) /\ y[j] = x[j]
        /\ \A j \in 1..Len(y) : j \in 1..Len(x) \/ j > Len(x)
    BY ContinuesLen
  <1> SUFFICES ASSUME NEW j \in 1..Len(y), y[j].t = "retired"
               PROVE  /\ \A l \in 1..Len(y) : y[l].i = y[j].i /\ y[l].g = y[j].g =>
                            /\ y[l].t = "retired" => l = j
                            /\ y[l].t \in {"report", "error"} => l < j
                            /\ y[l].t = "report" => y[l].n <= y[j].n
                      /\ y[j].n = 0 \/ \E l \in 1..Len(y) : IsReport(y[l], <<y[j].i, y[j].g>>) /\ y[l].n = y[j].n
    BY DEF Barriers
  <1>2. j \in 1..Len(x) /\ y[j] = x[j] /\ x[j].t = "retired"
    BY <1>1 DEF Allowed
  <1>3. Closed(x, y[j].i, y[j].g)
    BY <1>2 DEF Closed
  <1>4. ASSUME NEW l \in 1..Len(y), y[l].i = y[j].i, y[l].g = y[j].g
        PROVE  /\ y[l].t = "retired" => l = j
               /\ y[l].t \in {"report", "error"} => l < j
               /\ y[l].t = "report" => y[l].n <= y[j].n
    <2>1. CASE l \in 1..Len(x)
      BY <1>1, <1>2, <1>4, <2>1 DEF Barriers
    <2>2. CASE l > Len(x)
      BY <1>3, <1>4, <2>2 DEF Allowed
    <2> QED BY <1>1, <2>1, <2>2
  <1>5. x[j].n = 0 \/ \E l \in 1..Len(x) : IsReport(x[l], <<x[j].i, x[j].g>>) /\ x[l].n = x[j].n
    BY <1>2 DEF Barriers
  <1>6. y[j].n = 0 \/ \E l \in 1..Len(y) : IsReport(y[l], <<y[j].i, y[j].g>>) /\ y[l].n = y[j].n
    BY <1>1, <1>2, <1>5
  <1> QED BY <1>4, <1>6

LEMMA ConfirmedContinues ==
  ASSUME NEW x, NEW y, Continues(x, y), Confirmed(x),
         \A j \in 1..Len(y) : j > Len(x) /\ y[j].t = "cancelled" => Closed(x, y[j].i, y[j].g)
  PROVE  Confirmed(y)
  <1>1. /\ Len(x) \in Nat /\ Len(y) \in Nat
        /\ \A j \in 1..Len(x) : j \in 1..Len(y) /\ y[j] = x[j]
        /\ \A j \in 1..Len(y) : j \in 1..Len(x) \/ j > Len(x)
    BY ContinuesLen
  <1> SUFFICES ASSUME NEW j \in 1..Len(y), y[j].t = "cancelled"
               PROVE  \E l \in 1..(j - 1) : y[l].t = "retired" /\ y[l].i = y[j].i /\ y[l].g = y[j].g
    BY DEF Confirmed
  <1>2. CASE j \in 1..Len(x)
    <2>1. PICK l \in 1..(j - 1) : x[l].t = "retired" /\ x[l].i = x[j].i /\ x[l].g = x[j].g
      BY <1>1, <1>2 DEF Confirmed
    <2>2. l \in 1..Len(x)
      BY <1>1, <1>2
    <2> QED BY <1>1, <1>2, <2>1, <2>2
  <1>3. CASE j > Len(x)
    <2>1. PICK l \in 1..Len(x) : x[l].t = "retired" /\ x[l].i = y[j].i /\ x[l].g = y[j].g
      BY <1>3 DEF Closed
    <2>2. l \in 1..(j - 1)
      BY <1>1, <1>3
    <2> QED BY <1>1, <2>1, <2>2
  <1> QED BY <1>1, <1>2, <1>3

\* One more frame.
LEMMA OneMore ==
  ASSUME NEW x \in Frames, NEW e \in EventType
  PROVE  /\ Continues(x, Append(x, e)) /\ Len(Append(x, e)) = Len(x) + 1 /\ Len(x) \in Nat
         /\ Append(x, e)[Len(x) + 1] = e
         /\ \A j \in 1..Len(Append(x, e)) : j \in 1..Len(x) \/ j = Len(x) + 1
         /\ Len(x) + 1 \in 1..Len(Append(x, e))
         /\ \A j \in 1..Len(x) : Append(x, e)[j] = x[j] /\ j # Len(x) + 1
  BY DEF Continues, Frames

\* The barrier <<i, g>> with report m may be written.
MayClose(x, i, g, m) ==
    /\ ~Closed(x, i, g)
    /\ m = 0 \/ \E j \in 1..Len(x) : IsReport(x[j], <<i, g>>) /\ x[j].n = m
    /\ \A j \in 1..Len(x) : IsReport(x[j], <<i, g>>) => x[j].n <= m

\* y is x with the barrier e.
Closing(x, i, g, e, y) ==
    /\ Continues(x, y) /\ Barriers(y) /\ Confirmed(y) /\ Closed(y, i, g)
    /\ \A a, b : Closed(y, a, b) => Closed(x, a, b) \/ (a = i /\ b = g)
    /\ \A j \in 1..Len(y) : j \in 1..Len(x) \/ y[j] = e

\* The barrier of a live stream.
LEMMA BarrierAppended ==
  ASSUME NEW x \in Frames, NEW i \in Ids, NEW g \in Nat, NEW m \in Nat, Barriers(x), Confirmed(x),
         MayClose(x, i, g, m)
  PROVE  Closing(x, i, g, Event("retired", i, g, m), Append(x, Event("retired", i, g, m)))
  <1> DEFINE e == Event("retired", i, g, m)
             y == Append(x, e)
             z == Len(x) + 1
  <1>1. e \in EventType /\ e.t = "retired" /\ e.i = i /\ e.g = g /\ e.n = m
    BY DEF Event, EventType, Kinds
  <1> HIDE DEF e
  <1>2. /\ Continues(x, y) /\ Len(y) = z /\ Len(x) \in Nat /\ y[z] = e /\ z \in 1..Len(y)
        /\ \A j \in 1..Len(y) : j \in 1..Len(x) \/ j = z
        /\ \A j \in 1..Len(x) : y[j] = x[j] /\ j # z
    BY <1>1, OneMore
  <1> HIDE DEF y
  <1>3. \A j \in 1..Len(x) : j \in 1..Len(y) /\ j < z
    BY <1>2
  <1> HIDE DEF z
  <1>4. Barriers(y)
    <2> SUFFICES ASSUME NEW j \in 1..Len(y), y[j].t = "retired"
                 PROVE  /\ \A l \in 1..Len(y) : y[l].i = y[j].i /\ y[l].g = y[j].g =>
                              /\ y[l].t = "retired" => l = j
                              /\ y[l].t \in {"report", "error"} => l < j
                              /\ y[l].t = "report" => y[l].n <= y[j].n
                        /\ y[j].n = 0 \/ \E l \in 1..Len(y) : IsReport(y[l], <<y[j].i, y[j].g>>) /\ y[l].n = y[j].n
      BY DEF Barriers
    <2>1. CASE j = z
      <3>1. y[j].i = i /\ y[j].g = g /\ y[j].n = m
        BY <1>1, <1>2, <2>1
      <3>2. ASSUME NEW l \in 1..Len(x), x[l].i = i, x[l].g = g
            PROVE  x[l].t # "retired" /\ (x[l].t = "report" => x[l].n <= m)
        BY <3>2 DEF Closed, IsReport, MayClose
      <3>3. \A l \in 1..Len(y) : y[l].i = y[j].i /\ y[l].g = y[j].g =>
                              /\ y[l].t = "retired" => l = j
                              /\ y[l].t \in {"report", "error"} => l < j
                              /\ y[l].t = "report" => y[l].n <= y[j].n
        BY <1>1, <1>2, <1>3, <2>1, <3>1, <3>2
      <3>4. m = 0 \/ \E l \in 1..Len(y) : IsReport(y[l], <<i, g>>) /\ y[l].n = m
        BY <1>2, <1>3 DEF MayClose
      <3> QED BY <3>1, <3>3, <3>4
    <2>2. CASE j \in 1..Len(x)
      <3>1. y[j] = x[j] /\ x[j].t = "retired" /\ Closed(x, x[j].i, x[j].g)
        BY <1>2, <2>2 DEF Closed
      <3>2. ~(x[j].i = i /\ x[j].g = g)
        BY <3>1 DEF MayClose
      <3>3. \A l \in 1..Len(x) : x[l].i = x[j].i /\ x[l].g = x[j].g =>
                              /\ x[l].t = "retired" => l = j
                              /\ x[l].t \in {"report", "error"} => l < j
                              /\ x[l].t = "report" => x[l].n <= x[j].n
        BY <2>2, <3>1 DEF Barriers
      <3>4. x[j].n = 0 \/ \E l \in 1..Len(x) : IsReport(x[l], <<x[j].i, x[j].g>>) /\ x[l].n = x[j].n
        BY <2>2, <3>1 DEF Barriers
      <3>5. \A l \in 1..Len(y) : y[l].i = y[j].i /\ y[l].g = y[j].g =>
                              /\ y[l].t = "retired" => l = j
                              /\ y[l].t \in {"report", "error"} => l < j
                              /\ y[l].t = "report" => y[l].n <= y[j].n
        BY <1>1, <1>2, <3>1, <3>2, <3>3
      <3>6. y[j].n = 0 \/ \E l \in 1..Len(y) : IsReport(y[l], <<y[j].i, y[j].g>>) /\ y[l].n = y[j].n
        BY <1>2, <1>3, <3>1, <3>4
      <3> QED BY <3>5, <3>6
    <2> QED BY <1>2, <2>1, <2>2
  <1>5. \A j \in 1..Len(y) : j > Len(x) => y[j].t # "cancelled"
    BY <1>1, <1>2
  <1>6. Confirmed(y)
    BY <1>2, <1>5, ConfirmedContinues
  <1>7. Closed(y, i, g)
    BY <1>1, <1>2 DEF Closed
  <1>8. \A a, b : Closed(y, a, b) => Closed(x, a, b) \/ (a = i /\ b = g)
    BY <1>1, <1>2 DEF Closed
  <1>9. \A j \in 1..Len(y) : j \in 1..Len(x) \/ y[j] = e
    BY <1>2
  <1> QED BY <1>2, <1>4, <1>6, <1>7, <1>8, <1>9 DEF y, e, Closing

-----------------------------------------------------------------------------
(* Submit, and the reports of one call.                                    *)

LEMMA QueuedShape ==
  ASSUME NEW f, FlowOK(f), NEW k, IsLive(f, k), NEW r \in Nat, SubmitResult(f, k) = "queued"
  PROVE  LET g == Submit(f, k, r)
             s == [f.streams[k] EXCEPT !.q = @ + 1]
         IN FlowHolds(g, [f.streams EXCEPT ![k] = s], Append(f.queued, [k |-> k, r |-> r]), f.outst, f.next, f.ack, f.sent)
  <1> DEFINE s == [f.streams[k] EXCEPT !.q = @ + 1]
             t == [f.streams EXCEPT ![k] = s]
             b == Append(f.queued, [k |-> k, r |-> r])
             u == WithQueued(f, b)
             v == WithStreams(u, t)
             g == Submit(f, k, r)
  <1>1. /\ f \in FlowType /\ f.streams \in Tables /\ k \in DOMAIN f.streams /\ f.streams[k] \in StreamType
        /\ f.queued \in Seq(QueuedType) /\ k \in StreamKeys
    BY FlowFields DEF IsLive
  <1>2. b \in Backlog
    BY <1>1 DEF QueuedType, Backlog
  <1>3. s \in StreamType
    BY <1>1 DEF StreamType
  <1>4. t \in Tables
    <2> HIDE DEF s
    <2> QED BY <1>1, <1>3, TableUpdate
  <1>5. FlowHolds(u, f.streams, b, f.outst, f.next, f.ack, f.sent)
    <2> HIDE DEF b
    <2> QED BY <1>1, <1>2, FlowQueued
  <1>6. g = v
    <2>1. g = [f EXCEPT !.queued = b, !.streams[k].q = @ + 1]
      BY DEF Submit
    <2>2. [f EXCEPT !.queued = b, !.streams[k].q = @ + 1] = [u EXCEPT !.streams[k].q = @ + 1]
      BY DEF WithQueued
    <2>3. u.streams = f.streams
      BY <1>5 DEF FlowHolds
    <2> HIDE DEF u, g, b
    <2>4. [u EXCEPT !.streams[k].q = @ + 1] = v
      BY <2>3 DEF WithStreams
    <2> QED BY <2>1, <2>2, <2>4
  <1> HIDE DEF u, t
  <1>7. FlowHolds(v, t, u.queued, u.outst, u.next, u.ack, u.sent)
    BY <1>4, <1>5, FlowStreams DEF FlowHolds
  <1> HIDE DEF v, g, b
  <1>8. FlowHolds(g, t, b, f.outst, f.next, f.ack, f.sent)
    BY <1>5, <1>6, <1>7 DEF FlowHolds
  <1> QED BY <1>8 DEF t, b, g

LEMMA SubmitQueued ==
  ASSUME NEW f, FlowOK(f), Settled(f), f.sent = <<>>, NEW k, IsLive(f, k), NEW r \in Nat,
         SubmitResult(f, k) = "queued"
  PROVE  LET g == Submit(f, k, r) IN FlowOK(g) /\ Settled(g) /\ Sends(f, g)
  <1> DEFINE g == Submit(f, k, r)
             s == [f.streams[k] EXCEPT !.q = @ + 1]
             t == [f.streams EXCEPT ![k] = s]
             e == [k |-> k, r |-> r]
             b == Append(f.queued, e)
  <1>1. /\ f \in FlowType /\ Balanced(f) /\ f.streams \in Tables /\ k \in DOMAIN f.streams
        /\ f.streams[k] \in StreamType /\ f.streams[k].q \in Nat /\ f.next \in Nat
        /\ f.queued \in Seq(QueuedType) /\ f.outst \in Seq(OutstType) /\ k \in StreamKeys
        /\ Len(f.queued) \in Nat /\ f.streams[k].live
        /\ \A j \in DOMAIN f.streams : f.streams[j] \in StreamType
    <2>1. /\ f \in FlowType /\ Balanced(f) /\ f.streams \in Tables /\ f.next \in Nat
          /\ f.queued \in Seq(QueuedType) /\ f.outst \in Seq(OutstType) /\ Len(f.queued) \in Nat
          /\ \A j \in DOMAIN f.streams : f.streams[j] \in StreamType /\ j \in StreamKeys
      BY FlowFields
    <2>2. k \in DOMAIN f.streams /\ f.streams[k].live
      BY DEF IsLive
    <2>3. f.streams[k].q \in Nat
      BY <2>1, <2>2 DEF StreamType
    <2> QED BY <2>1, <2>2, <2>3
  <1>2. FlowHolds(g, t, b, f.outst, f.next, f.ack, f.sent)
    BY QueuedShape
  <1>3. /\ s \in StreamType /\ s.out = f.streams[k].out /\ s.q = f.streams[k].q + 1
        /\ s.last = f.streams[k].last /\ s.live = f.streams[k].live
    <2> DEFINE u == f.streams[k]
               c == u.q + 1
    <2>1. u \in StreamType /\ c \in Nat
      BY <1>1
    <2>2. s = [u EXCEPT !.q = c]
      OBVIOUS
    <2> HIDE DEF u, c, s
    <2>3. s \in StreamType /\ s.out = u.out /\ s.q = c /\ s.last = u.last /\ s.live = u.live
      BY <2>1, <2>2, StreamQueued
    <2> QED BY <2>3 DEF u, c
  <1> HIDE DEF s
  <1>4. t \in Tables /\ DOMAIN t = DOMAIN f.streams /\ \A j \in DOMAIN f.streams : t[j] = IF j = k THEN s ELSE f.streams[j]
    BY <1>1, <1>3, TableUpdate
  <1>5. e \in QueuedType /\ e.k = k
    BY <1>1 DEF QueuedType
  <1> HIDE DEF e, t
  <1>6. /\ b \in Seq(QueuedType) /\ Len(b) = Len(f.queued) + 1 /\ b[Len(f.queued) + 1] = e
        /\ \A j \in 1..Len(f.queued) : b[j] = f.queued[j]
        /\ \A j \in 1..Len(b) : j \in 1..Len(f.queued) \/ j = Len(f.queued) + 1
        /\ b # <<>>
    BY <1>1, <1>5
  <1>7. \A j : Of(b, j) = Of(f.queued, j) + (IF e.k = j THEN 1 ELSE 0)
    BY <1>1, <1>5, OfAppend
  <1> HIDE DEF b, g
  <1>8. /\ g \in FlowType /\ g.streams = t /\ g.queued = b /\ g.outst = f.outst /\ g.next = f.next /\ g.sent = f.sent
    BY <1>2 DEF FlowHolds
  <1>9. \A j : IsLive(f, j) <=> IsLive(g, j)
    BY <1>1, <1>3, <1>4, <1>8 DEF IsLive
  <1>10. \A j \in DOMAIN g.streams :
          /\ g.streams[j].out = Of(g.outst, j) /\ g.streams[j].q = Of(g.queued, j)
          /\ g.streams[j].live \/ g.streams[j].out > 0
          /\ g.streams[j].last < g.next
    <2> TAKE j \in DOMAIN g.streams
    <2>1. /\ f.streams[j].out = Of(f.outst, j) /\ f.streams[j].q = Of(f.queued, j)
          /\ f.streams[j].live \/ f.streams[j].out > 0
          /\ f.streams[j].last < f.next /\ f.streams[j].q \in Nat
      BY <1>1, <1>4, <1>8 DEF Balanced, StreamType
    <2>2. CASE j = k
      BY <1>3, <1>4, <1>5, <1>7, <1>8, <2>1, <2>2
    <2>3. CASE j # k
      BY <1>4, <1>5, <1>7, <1>8, <2>1, <2>3
    <2> QED BY <2>2, <2>3
  <1>11. \A j \in 1..Len(g.queued) : IsLive(g, g.queued[j].k)
    BY <1>1, <1>5, <1>6, <1>8, <1>9 DEF Balanced
  <1>12. Balanced(g)
    BY <1>1, <1>4, <1>8, <1>10, <1>11 DEF Balanced
  <1>13. \A j \in DOMAIN f.streams : CanTransmit(g, j) <=> CanTransmit(f, j)
    BY <1>3, <1>4, <1>8 DEF CanTransmit
  <1>14. Settled(g)
    <2>1. CASE f.queued = <<>>
      <3>1. g.queued[1] = e
        BY <1>6, <1>8, <2>1
      <3>2. ~CanTransmit(f, k)
        BY <2>1 DEF SubmitResult
      <3> QED BY <1>1, <1>5, <1>9, <1>13, <3>1, <3>2 DEF Settled
    <2>2. CASE f.queued # <<>>
      <3>1. 1 \in 1..Len(f.queued)
        BY <1>1, <2>2
      <3>2. g.queued[1] = f.queued[1]
        BY <1>6, <1>8, <3>1
      <3>3. IsLive(f, f.queued[1].k) /\ ~CanTransmit(f, f.queued[1].k)
        BY <2>2 DEF Settled
      <3>4. f.queued[1].k \in DOMAIN f.streams
        BY <3>3 DEF IsLive
      <3> QED BY <1>9, <1>13, <3>2, <3>3, <3>4 DEF Settled
    <2> QED BY <2>1, <2>2
  <1>15. Sends(f, g)
    <2>1. Len(g.sent) = 0
      BY <1>8
    <2>2. \A j \in DOMAIN f.streams : /\ g.streams[j].live = f.streams[j].live
                                      /\ g.streams[j].last = f.streams[j].last /\ f.streams[j].last \in Nat
      BY <1>1, <1>3, <1>4, <1>8 DEF StreamType
    <2>3. \A j \in DOMAIN f.streams : f.streams[j].last <= g.streams[j].last
      BY <2>2
    <2> QED BY <1>1, <1>4, <1>8, <2>1, <2>2, <2>3 DEF Sends
  <1> QED BY <1>8, <1>12, <1>14, <1>15 DEF FlowOK, g

LEMMA SubmitOK ==
  ASSUME NEW f, FlowOK(f), Settled(f), f.sent = <<>>, NEW k, IsLive(f, k), NEW r \in Nat,
         SubmitResult(f, k) # "overflow"
  PROVE  LET g == Submit(f, k, r) IN FlowOK(g) /\ Settled(g) /\ Sends(f, g)
  <1>1. CASE SubmitResult(f, k) = "queued"
    BY <1>1, SubmitQueued
  <1>2. CASE SubmitResult(f, k) = "transmitted"
    <2>1. f.queued = <<>> /\ CanTransmit(f, k)
      BY <1>2 DEF SubmitResult
    <2> DEFINE g == TransmitFrame(f, k, r)
    <2>2. Submit(f, k, r) = g
      BY <1>2 DEF Submit
    <2>3. FlowOK(g) /\ g.queued = f.queued
      <3> HIDE DEF g
      <3>1. g = TransmitFrame(f, k, r)
        BY DEF g
      <3> QED BY <2>1, <3>1, TransmitOK
    <2>4. Sends(f, g)
      <3>1. Sends(f, f)
        BY SendsNothing
      <3> QED BY <3>1, TransmitSends
    <2> HIDE DEF g
    <2>5. Settled(g)
      BY <2>1, <2>3 DEF Settled
    <2> QED BY <2>2, <2>3, <2>4, <2>5
  <1>3. SubmitResult(f, k) \in {"queued", "transmitted"}
    BY DEF SubmitResult
  <1> QED BY <1>1, <1>2, <1>3

\* The caller empties what was sent.
LEMMA EmptiedOK ==
  ASSUME NEW f, FlowOK(f), Settled(f)
  PROVE  LET g == [f EXCEPT !.sent = <<>>]
         IN /\ FlowOK(g) /\ Settled(g) /\ g.sent = <<>> /\ g.streams = f.streams /\ g.next = f.next
  <1> DEFINE g == WithSent(f, <<>>)
  <1>1. f \in FlowType /\ <<>> \in Outbox
    BY FlowFields DEF Outbox
  <1>2. FlowHolds(g, f.streams, f.queued, f.outst, f.next, f.ack, <<>>)
    BY <1>1, FlowSent
  <1> HIDE DEF g
  <1>3. FlowOK(g)
    BY <1>2 DEF FlowHolds, FlowOK, Balanced, IsLive
  <1>4. Settled(g)
    BY <1>2 DEF FlowHolds, Settled, IsLive, CanTransmit
  <1>5. g.sent = <<>> /\ g.streams = f.streams /\ g.next = f.next
    BY <1>2 DEF FlowHolds
  <1> QED BY <1>3, <1>4, <1>5, Zenon DEF g, WithSent

-----------------------------------------------------------------------------
(* The protocol state.                                                     *)

Stages == {"AwaitFlow", "AwaitOpen", "Open", "Closing", "Closed"}

Entry == [gen : Nat, recov : BOOLEAN, attempt : Nat]

Entries == [Ids -> Entry]

HostRec ==
    [st : Stages, flow : FlowType, subs : Entries, failed : BOOLEAN, healthy : BOOLEAN,
     frames : Int, written : Int, counting : BOOLEAN, hist : Frames]

SetSt(q, x) == [q EXCEPT !.st = x]
SetFlow(q, x) == [q EXCEPT !.flow = x]
SetSubs(q, x) == [q EXCEPT !.subs = x]
SetFailed(q, x) == [q EXCEPT !.failed = x]
SetHealthy(q, x) == [q EXCEPT !.healthy = x]
SetFrames(q, x) == [q EXCEPT !.frames = x]
SetHist(q, x) == [q EXCEPT !.hist = x]

\* The fields of r that matter here, one by one.
Holds(r, st, flow, subs, failed, healthy, hist) ==
    /\ r \in HostRec /\ r.st = st /\ r.flow = flow /\ r.subs = subs /\ r.failed = failed
    /\ r.healthy = healthy /\ r.hist = hist

LEMMA HostFields ==
  ASSUME NEW q \in HostRec
  PROVE  /\ Holds(q, q.st, q.flow, q.subs, q.failed, q.healthy, q.hist)
         /\ q.st \in Stages /\ q.flow \in FlowType /\ q.subs \in Entries /\ q.failed \in BOOLEAN
         /\ q.healthy \in BOOLEAN /\ q.hist \in Frames /\ q.frames \in Int
         /\ \A i \in Ids : q.subs[i] \in Entry
  BY DEF HostRec, Holds, Entries

LEMMA HostSt ==
  ASSUME NEW q \in HostRec, NEW x \in Stages
  PROVE  Holds(SetSt(q, x), x, q.flow, q.subs, q.failed, q.healthy, q.hist)
  BY DEF HostRec, Holds, SetSt

LEMMA HostFlow ==
  ASSUME NEW q \in HostRec, NEW x \in FlowType
  PROVE  /\ Holds(SetFlow(q, x), q.st, x, q.subs, q.failed, q.healthy, q.hist)
         /\ SetFlow(q, x).frames = q.frames
  BY DEF HostRec, Holds, SetFlow

LEMMA HostSubs ==
  ASSUME NEW q \in HostRec, NEW x \in Entries
  PROVE  Holds(SetSubs(q, x), q.st, q.flow, x, q.failed, q.healthy, q.hist)
  BY DEF HostRec, Holds, SetSubs

LEMMA HostFailed ==
  ASSUME NEW q \in HostRec, NEW x \in BOOLEAN
  PROVE  Holds(SetFailed(q, x), q.st, q.flow, q.subs, x, q.healthy, q.hist)
  BY DEF HostRec, Holds, SetFailed

LEMMA HostHealthy ==
  ASSUME NEW q \in HostRec, NEW x \in BOOLEAN
  PROVE  Holds(SetHealthy(q, x), q.st, q.flow, q.subs, q.failed, x, q.hist)
  BY DEF HostRec, Holds, SetHealthy

LEMMA HostFrames ==
  ASSUME NEW q \in HostRec, NEW x \in Int
  PROVE  Holds(SetFrames(q, x), q.st, q.flow, q.subs, q.failed, q.healthy, q.hist)
  BY DEF HostRec, Holds, SetFrames

LEMMA HostHist ==
  ASSUME NEW q \in HostRec, NEW x \in Frames
  PROVE  Holds(SetHist(q, x), q.st, q.flow, q.subs, q.failed, q.healthy, x)
  BY DEF HostRec, Holds, SetHist

\* What holds of the protocol state whatever has failed.
Ledger(q) ==
    /\ q \in HostRec /\ FlowOK(q.flow) /\ Settled(q.flow) /\ q.flow.sent = <<>> /\ 0 < q.flow.next
    /\ DOMAIN q.flow.streams \subseteq Keys
    /\ Barriers(q.hist) /\ Confirmed(q.hist)

\* The frames y adds to x are reports of streams that are live in f.
Reported(x, y, f) ==
    \A j \in 1..Len(y) : j > Len(x) => y[j].t = "report" /\ IsLive(f, <<y[j].i, y[j].g>>)

ReportOf(e) == Event("report", e.k[1], e.k[2], e.seq)

Batch(x, s) == x \o [j \in 1..Len(s) |-> ReportOf(s[j])]

LEMMA BatchFrames ==
  ASSUME NEW x \in Frames, NEW s \in Outbox
  PROVE  LET y == Batch(x, s)
         IN /\ Continues(x, y) /\ Len(x) \in Nat /\ Len(s) \in Nat
            /\ \A j \in 1..Len(s) : Len(x) + j \in 1..Len(y) /\ y[Len(x) + j] = ReportOf(s[j])
            /\ \A j \in 1..Len(y) : j > Len(x) => j - Len(x) \in 1..Len(s) /\ y[j] = ReportOf(s[j - Len(x)])
            /\ \A j \in 1..Len(s) : /\ ReportOf(s[j]).t = "report" /\ <<ReportOf(s[j]).i, ReportOf(s[j]).g>> = s[j].k
                                    /\ ReportOf(s[j]).n = s[j].seq
                                    /\ \A k \in StreamKeys : IsReport(ReportOf(s[j]), k) => k = s[j].k
                                    /\ IsReport(ReportOf(s[j]), s[j].k)
  <1> DEFINE b == [j \in 1..Len(s) |-> ReportOf(s[j])]
             y == Batch(x, s)
  <1>1. s \in Seq(SentType) /\ Len(s) \in Nat /\ \A j \in 1..Len(s) : s[j] \in SentType
    BY DEF Outbox
  <1>2. ASSUME NEW e \in SentType
        PROVE  /\ ReportOf(e) \in EventType /\ ReportOf(e).t = "report" /\ <<ReportOf(e).i, ReportOf(e).g>> = e.k
               /\ ReportOf(e).n = e.seq /\ ReportOf(e).i = e.k[1] /\ ReportOf(e).g = e.k[2]
               /\ \A k \in StreamKeys : IsReport(ReportOf(e), k) => k = e.k
               /\ IsReport(ReportOf(e), e.k)
    <2>1. e.k \in Ids \X Nat /\ e.seq \in Nat
      BY DEF SentType, StreamKeys
    <2>2. e.k[1] \in Ids /\ e.k[2] \in Nat /\ <<e.k[1], e.k[2]>> = e.k
      BY <2>1
    <2>3. /\ ReportOf(e).t = "report" /\ ReportOf(e).i = e.k[1] /\ ReportOf(e).g = e.k[2] /\ ReportOf(e).n = e.seq
      BY DEF ReportOf, Event
    <2>4. ReportOf(e) \in EventType
      BY <2>1, <2>2 DEF ReportOf, Event, EventType, Kinds
    <2>5. \A k \in StreamKeys : k = <<k[1], k[2]>>
      BY DEF StreamKeys
    <2> QED BY <2>2, <2>3, <2>4, <2>5 DEF IsReport
  <1> HIDE DEF b, y
  <1>3. b \in Frames /\ Len(b) = Len(s) /\ \A j \in 1..Len(s) : b[j] = ReportOf(s[j])
    BY <1>1, <1>2 DEF b, Frames
  <1>4. y = x \o b
    BY DEF y, b, Batch
  <1>5. /\ y \in Frames /\ Len(x) \in Nat /\ Len(y) = Len(x) + Len(b)
        /\ \A j \in 1..Len(x) : y[j] = x[j]
        /\ \A j \in 1..Len(b) : y[Len(x) + j] = b[j]
    BY <1>3, <1>4 DEF Frames
  <1>6. Continues(x, y)
    BY <1>1, <1>3, <1>5 DEF Continues
  <1>7. \A j \in 1..Len(s) : Len(x) + j \in 1..Len(y) /\ y[Len(x) + j] = ReportOf(s[j])
    BY <1>1, <1>3, <1>5
  <1>8. \A j \in 1..Len(y) : j > Len(x) => j - Len(x) \in 1..Len(s) /\ y[j] = ReportOf(s[j - Len(x)])
    <2> TAKE j \in 1..Len(y)
    <2> HAVE j > Len(x)
    <2> DEFINE l == j - Len(x)
    <2>1. l \in 1..Len(s) /\ Len(x) + l = j
      BY <1>1, <1>3, <1>5
    <2> HIDE DEF l
    <2>2. y[Len(x) + l] = ReportOf(s[l])
      BY <1>7, <2>1
    <2> QED BY <2>1, <2>2 DEF l
  <1>9. \A j \in 1..Len(s) : /\ ReportOf(s[j]).t = "report" /\ <<ReportOf(s[j]).i, ReportOf(s[j]).g>> = s[j].k
                             /\ ReportOf(s[j]).n = s[j].seq
                             /\ \A k \in StreamKeys : IsReport(ReportOf(s[j]), k) => k = s[j].k
                             /\ IsReport(ReportOf(s[j]), s[j].k)
    BY <1>1, <1>2
  <1> QED BY <1>1, <1>5, <1>6, <1>7, <1>8, <1>9 DEF y

\* The reports that turn u into g, behind the frames x.
LEMMA BatchTidy ==
  ASSUME NEW u, FlowOK(u), NEW g, FlowOK(g), Sends(u, g), NEW x \in Frames, Tidy(u, x), Barriers(x), Confirmed(x)
  PROVE  LET y == Batch(x, g.sent)
         IN Continues(x, y) /\ Reported(x, y, u) /\ Tidy(g, y) /\ Barriers(y) /\ Confirmed(y)
  <1> DEFINE s == g.sent
             y == Batch(x, s)
  <1>1. /\ s \in Outbox /\ \A k \in DOMAIN u.streams : u.streams[k] \in StreamType /\ k \in StreamKeys
        /\ \A k \in DOMAIN g.streams : g.streams[k] \in StreamType
        /\ DOMAIN g.streams = DOMAIN u.streams
    BY FlowFields DEF Sends, Outbox
  <1>2. \A j \in 1..Len(s) : IsLive(g, s[j].k) /\ s[j].seq <= g.streams[s[j].k].last
    BY DEF Sends
  <1>3. /\ Continues(x, y) /\ Len(x) \in Nat /\ Len(s) \in Nat
        /\ \A j \in 1..Len(s) : Len(x) + j \in 1..Len(y) /\ y[Len(x) + j] = ReportOf(s[j])
        /\ \A j \in 1..Len(y) : j > Len(x) => j - Len(x) \in 1..Len(s) /\ y[j] = ReportOf(s[j - Len(x)])
        /\ \A j \in 1..Len(s) : /\ ReportOf(s[j]).t = "report" /\ <<ReportOf(s[j]).i, ReportOf(s[j]).g>> = s[j].k
                                /\ ReportOf(s[j]).n = s[j].seq
                                /\ \A k \in StreamKeys : IsReport(ReportOf(s[j]), k) => k = s[j].k
                                /\ IsReport(ReportOf(s[j]), s[j].k)
    BY <1>1, BatchFrames
  <1> HIDE DEF y, s
  <1>4. \A k \in DOMAIN u.streams : IsLive(g, k) <=> IsLive(u, k)
    BY <1>1 DEF Sends, IsLive
  <1>5. Reported(x, y, u)
    <2> SUFFICES ASSUME NEW j \in 1..Len(y), j > Len(x)
                 PROVE  y[j].t = "report" /\ IsLive(u, <<y[j].i, y[j].g>>)
      BY DEF Reported
    <2> DEFINE l == j - Len(x)
    <2>1. l \in 1..Len(s) /\ y[j] = ReportOf(s[l])
      BY <1>3
    <2> HIDE DEF l
    <2>2. IsLive(g, s[l].k) /\ s[l].k \in DOMAIN u.streams
      BY <1>1, <1>2, <2>1 DEF IsLive
    <2> QED BY <1>3, <1>4, <2>1, <2>2
  <1>6. \A k \in DOMAIN u.streams : IsLive(u, k) => ~Closed(x, k[1], k[2])
    BY DEF Tidy, IsLive
  <1>7. Allowed(x, y)
    <2> SUFFICES ASSUME NEW j \in 1..Len(y), j > Len(x)
                 PROVE  y[j].t # "retired" /\ ~Closed(x, y[j].i, y[j].g)
      BY DEF Allowed
    <2> DEFINE k == <<y[j].i, y[j].g>>
    <2>1. y[j].t = "report" /\ IsLive(u, k)
      BY <1>5 DEF Reported
    <2>2. k \in DOMAIN u.streams
      BY <2>1 DEF IsLive
    <2>3. ~Closed(x, k[1], k[2])
      BY <1>6, <2>1, <2>2
    <2> QED BY <2>1, <2>3
  <1>8. Barriers(y)
    BY <1>3, <1>7, BarriersContinue
  <1>9. Confirmed(y)
    <2>1. \A j \in 1..Len(y) : j > Len(x) => y[j].t # "cancelled"
      BY <1>5 DEF Reported
    <2> QED BY <1>3, <2>1, ConfirmedContinues
  <1>10. Tidy(g, y)
    <2> SUFFICES ASSUME NEW k \in DOMAIN g.streams, g.streams[k].live
                 PROVE  /\ ~Closed(y, k[1], k[2])
                        /\ g.streams[k].last = 0 \/ \E j \in 1..Len(y) : IsReport(y[j], k) /\ y[j].n = g.streams[k].last
                        /\ \A j \in 1..Len(y) : IsReport(y[j], k) => y[j].n <= g.streams[k].last
      BY DEF Tidy
    <2> DEFINE last == g.streams[k].last
               old == u.streams[k].last
    <2>1. /\ k \in DOMAIN u.streams /\ u.streams[k].live /\ k \in StreamKeys /\ old \in Nat /\ last \in Nat
          /\ old <= last
          /\ last = old \/ \E j \in 1..Len(s) : s[j].k = k /\ s[j].seq = last
      <3>1. k \in DOMAIN u.streams /\ u.streams[k].live /\ k \in StreamKeys
        BY <1>1 DEF Sends
      <3>2. old \in Nat /\ last \in Nat
        BY <1>1, <3>1 DEF StreamType
      <3> QED BY <3>1, <3>2 DEF Sends, s
    <2>2. /\ ~Closed(x, k[1], k[2])
          /\ old = 0 \/ \E j \in 1..Len(x) : IsReport(x[j], k) /\ x[j].n = old
          /\ \A j \in 1..Len(x) : IsReport(x[j], k) => x[j].n <= old
      BY <2>1 DEF Tidy
    <2>3. ~Closed(y, k[1], k[2])
      BY <1>3, <1>7, <2>2, ClosedNew
    <2>4. \A j \in 1..Len(x) : j \in 1..Len(y) /\ y[j] = x[j] /\ x[j] \in EventType
      BY <1>3, ContinuesLen
    <2>5. last = 0 \/ \E j \in 1..Len(y) : IsReport(y[j], k) /\ y[j].n = last
      <3> HIDE DEF last, old
      <3>1. CASE last = old
        BY <2>2, <2>4, <3>1
      <3>2. CASE last # old
        <4>1. PICK j \in 1..Len(s) : s[j].k = k /\ s[j].seq = last
          BY <2>1, <3>2
        <4>2. Len(x) + j \in 1..Len(y) /\ y[Len(x) + j] = ReportOf(s[j]) /\ IsReport(ReportOf(s[j]), k) /\ ReportOf(s[j]).n = last
          BY <1>3, <4>1
        <4> QED BY <4>2
      <3> QED BY <3>1, <3>2
    <2>6. ASSUME NEW j \in 1..Len(y), IsReport(y[j], k) PROVE y[j].n <= last
      <3>1. CASE j \in 1..Len(x)
        <4>1. x[j].n <= old /\ y[j] = x[j] /\ x[j].n \in Nat
          BY <2>2, <2>4, <2>6, <3>1 DEF EventType
        <4> HIDE DEF last, old
        <4> QED BY <2>1, <4>1
      <3>2. CASE j > Len(x)
        <4> DEFINE l == j - Len(x)
        <4>1. l \in 1..Len(s) /\ y[j] = ReportOf(s[l])
          BY <1>3, <3>2
        <4> HIDE DEF l
        <4>2. s[l].k = k /\ ReportOf(s[l]).n = s[l].seq
          BY <1>3, <2>1, <2>6, <4>1
        <4> QED BY <1>2, <4>1, <4>2
      <3>3. j \in 1..Len(x) \/ j > Len(x)
        BY <1>3
      <3> QED BY <3>1, <3>2, <3>3
    <2> QED BY <2>3, <2>5, <2>6
  <1> QED BY <1>3, <1>5, <1>8, <1>9, <1>10 DEF y, s

-----------------------------------------------------------------------------
(* SendReports.                                                            *)

LEMMA BatchEmpty ==
  ASSUME NEW x \in Frames
  PROVE  Batch(x, <<>>) = x
  <1>1. <<>> \in Outbox
    BY DEF Outbox
  <1> DEFINE y == Batch(x, <<>>)
  <1>2. /\ Continues(x, y) /\ Len(x) \in Nat /\ Len(<<>>) = 0
        /\ \A j \in 1..Len(y) : j > Len(x) => j - Len(x) \in 1..Len(<<>>)
    BY <1>1, BatchFrames
  <1> HIDE DEF y
  <1>3. y \in Frames /\ x \in Frames /\ Len(x) <= Len(y) /\ Len(y) \in Nat /\ \A j \in 1..Len(x) : y[j] = x[j]
    BY <1>2, ContinuesLen DEF Continues
  <1>4. Len(y) = Len(x)
    <2>1. CASE Len(y) > Len(x)
      <3>1. Len(y) \in 1..Len(y) /\ Len(y) - Len(x) \notin 1..0
        BY <1>2, <1>3, <2>1
      <3> QED BY <1>2, <2>1, <3>1
    <2> QED BY <1>2, <1>3, <2>1
  <1>5. y = x
    BY <1>3, <1>4, SeqEqual DEF Frames
  <1> QED BY <1>5 DEF y

\* What SendReports of g, which is u after some reports, makes of q.
Delivered(q, u, g, r) ==
    /\ Ledger(r) /\ r.subs = q.subs /\ r.st = q.st /\ r.flow.streams = g.streams
    /\ r.healthy => q.healthy
    /\ q.failed => r.failed
    /\ r.failed => q.failed \/ ~r.healthy
    /\ r.failed \/ r.healthy \/ ~q.healthy
    /\ r.healthy => /\ Continues(q.hist, r.hist) /\ Reported(q.hist, r.hist, u)
                    /\ Tidy(r.flow, r.hist)

LEMMA SameTidy ==
  ASSUME NEW f, NEW g, NEW x, f.streams = g.streams, Tidy(f, x)
  PROVE  Tidy(g, x)
  BY DEF Tidy

LEMMA SendReportsOK ==
  ASSUME NEW q \in HostRec, Barriers(q.hist), Confirmed(q.hist), NEW u, FlowOK(u), NEW g, FlowOK(g),
         Settled(g), Sends(u, g), 0 < u.next, DOMAIN u.streams \subseteq Keys,
         q.healthy => Tidy(u, q.hist)
  PROVE  Delivered(q, u, g, SendReports(q, g))
  <1> DEFINE out == [g EXCEPT !.sent = <<>>]
             y == Batch(q.hist, g.sent)
             r == SendReports(q, g)
             m == q.frames + Len(g.sent)
  <1>1. /\ q.st \in Stages /\ q.flow \in FlowType /\ q.subs \in Entries /\ q.failed \in BOOLEAN
        /\ q.healthy \in BOOLEAN /\ q.hist \in Frames /\ q.frames \in Int
    BY HostFields
  <1>2. FlowOK(out) /\ Settled(out) /\ out.sent = <<>> /\ out.streams = g.streams /\ out.next = g.next
    BY EmptiedOK
  <1>3. g \in FlowType /\ out \in FlowType /\ Len(g.sent) \in Nat /\ m \in Int /\ g.next \in Nat /\ u.next \in Nat
    BY <1>1, <1>2, FlowFields
  <1> HIDE DEF out
  <1>4. 0 < g.next /\ DOMAIN g.streams \subseteq Keys
    BY <1>3 DEF Sends
  <1>5. q.healthy => Continues(q.hist, y) /\ Reported(q.hist, y, u) /\ Tidy(g, y) /\ Barriers(y) /\ Confirmed(y)
    BY <1>1, BatchTidy
  <1>6. \/ g.sent = <<>> /\ r = SetFlow(q, g)
        \/ r = SetHealthy(SetFailed(SetFlow(q, out), TRUE), FALSE)
        \/ q.healthy /\ r = SetHist(SetFrames(SetFlow(q, out), m), y)
    <2>1. \/ g.sent = <<>> /\ r = [q EXCEPT !.flow = g]
          \/ r = [q EXCEPT !.flow = out, !.failed = TRUE, !.healthy = FALSE]
          \/ q.healthy /\ r = [q EXCEPT !.flow = out, !.frames = @ + Len(g.sent),
                      !.hist = @ \o [j \in 1..Len(g.sent) |-> Event("report", g.sent[j].k[1], g.sent[j].k[2], g.sent[j].seq)]]
      BY Zenon DEF SendReports, out
    <2>2. CASE g.sent = <<>> /\ r = [q EXCEPT !.flow = g]
      BY <2>2, Zenon DEF SetFlow
    <2>3. CASE r = [q EXCEPT !.flow = out, !.failed = TRUE, !.healthy = FALSE]
      BY <2>3, Zenon DEF SetFlow, SetFailed, SetHealthy
    <2>4. CASE q.healthy /\ r = [q EXCEPT !.flow = out, !.frames = @ + Len(g.sent),
                      !.hist = @ \o [j \in 1..Len(g.sent) |-> Event("report", g.sent[j].k[1], g.sent[j].k[2], g.sent[j].seq)]]
      <3> DEFINE v == SetFlow(q, out)
                 w == SetFrames(v, m)
      <3>1. Holds(v, q.st, out, q.subs, q.failed, q.healthy, q.hist) /\ v.frames = q.frames
        BY <1>3, HostFlow
      <3>2. v \in HostRec
        BY <3>1 DEF Holds
      <3> HIDE DEF v
      <3>3. Holds(w, v.st, v.flow, v.subs, v.failed, v.healthy, v.hist)
        BY <1>3, <3>2, HostFrames
      <3>4. w.hist = q.hist
        BY <3>1, <3>3 DEF Holds
      <3>5. y = q.hist \o [j \in 1..Len(g.sent) |-> Event("report", g.sent[j].k[1], g.sent[j].k[2], g.sent[j].seq)]
        BY Zenon DEF Batch, ReportOf
      <3>6. r = [w EXCEPT !.hist = w.hist \o [j \in 1..Len(g.sent) |-> Event("report", g.sent[j].k[1], g.sent[j].k[2], g.sent[j].seq)]]
        <4>1. w = [v EXCEPT !.frames = v.frames + Len(g.sent)]
          BY <3>1, Zenon DEF SetFrames
        <4> QED BY <2>4, <4>1, Zenon DEF v, SetFlow
      <3>7. r = SetHist(w, y)
        BY <3>4, <3>5, <3>6, Zenon DEF SetHist
      <3> QED BY <2>4, <3>7, Zenon DEF v
    <2> QED BY <2>1, <2>2, <2>3, <2>4
  <1> HIDE DEF y, r, m
  <1>7. CASE g.sent = <<>> /\ r = SetFlow(q, g)
    <2>1. Holds(r, q.st, g, q.subs, q.failed, q.healthy, q.hist)
      BY <1>3, <1>7, HostFlow
    <2>2. y = q.hist
      BY <1>1, <1>7, BatchEmpty DEF y
    <2>3. Ledger(r)
      BY <1>4, <1>7, <2>1 DEF Ledger, Holds
    <2>8. Delivered(q, u, g, r)
      BY <1>5, <2>1, <2>2, <2>3 DEF Delivered, Holds
    <2> QED BY <2>8 DEF r
  <1>8. CASE r = SetHealthy(SetFailed(SetFlow(q, out), TRUE), FALSE)
    <2> DEFINE v == SetFlow(q, out)
               w == SetFailed(v, TRUE)
    <2>1. Holds(v, q.st, out, q.subs, q.failed, q.healthy, q.hist)
      BY <1>3, HostFlow
    <2> HIDE DEF v
    <2>2. Holds(w, v.st, v.flow, v.subs, TRUE, v.healthy, v.hist)
      BY <2>1, HostFailed DEF Holds
    <2> HIDE DEF w
    <2>3. Holds(SetHealthy(w, FALSE), w.st, w.flow, w.subs, w.failed, FALSE, w.hist)
      BY <2>2, HostHealthy DEF Holds
    <2>4. Holds(r, q.st, out, q.subs, TRUE, FALSE, q.hist)
      BY <1>8, <2>1, <2>2, <2>3 DEF Holds, w, v
    <2>5. Ledger(r)
      BY <1>2, <1>4, <2>4 DEF Ledger, Holds
    <2>8. Delivered(q, u, g, r)
      BY <1>2, <2>4, <2>5 DEF Delivered, Holds
    <2> QED BY <2>8 DEF r
  <1>9. CASE q.healthy /\ r = SetHist(SetFrames(SetFlow(q, out), m), y)
    <2> DEFINE v == SetFlow(q, out)
               w == SetFrames(v, m)
    <2>1. Holds(v, q.st, out, q.subs, q.failed, q.healthy, q.hist)
      BY <1>3, HostFlow
    <2> HIDE DEF v
    <2>2. Holds(w, v.st, v.flow, v.subs, v.failed, v.healthy, v.hist)
      BY <1>3, <2>1, HostFrames DEF Holds
    <2> HIDE DEF w
    <2>3. y \in Frames
      BY <1>5, <1>9 DEF Continues
    <2>4. Holds(SetHist(w, y), w.st, w.flow, w.subs, w.failed, w.healthy, y)
      BY <2>2, <2>3, HostHist DEF Holds
    <2>5. Holds(r, q.st, out, q.subs, q.failed, q.healthy, y)
      BY <1>9, <2>1, <2>2, <2>4 DEF Holds, w, v
    <2>6. Tidy(out, y)
      BY <1>2, <1>5, <1>9, SameTidy
    <2>7. Ledger(r)
      BY <1>2, <1>4, <1>5, <1>9, <2>5 DEF Ledger, Holds
    <2>8. Delivered(q, u, g, r)
      BY <1>2, <1>5, <1>9, <2>5, <2>6, <2>7 DEF Delivered, Holds
    <2> QED BY <2>8 DEF r
  <1> QED BY <1>6, <1>7, <1>8, <1>9 DEF r

-----------------------------------------------------------------------------
(* Control frames and the barrier.                                         *)

LEMMA EventShape ==
  ASSUME NEW t \in Kinds, NEW i \in Ids, NEW g \in Nat, NEW m \in Nat
  PROVE  LET e == Event(t, i, g, m) IN e \in EventType /\ e.t = t /\ e.i = i /\ e.g = g /\ e.n = m
  BY DEF Event, EventType

LEMMA LogShape ==
  ASSUME NEW q \in HostRec, NEW e \in EventType
  PROVE  Holds(Log(q, e), q.st, q.flow, q.subs, q.failed, q.healthy, Append(q.hist, e))
  <1>1. q.hist \in Frames /\ Append(q.hist, e) \in Frames
    BY HostFields DEF Frames
  <1>2. Log(q, e) = SetHist(q, Append(q.hist, e))
    BY Zenon DEF Log, SetHist
  <1> QED BY <1>1, <1>2, HostHist

LEMMA ControlShape ==
  ASSUME NEW q \in HostRec, NEW e \in EventType
  PROVE  /\ q.healthy => WriteControl(q, e) = Log(q, e)
         /\ ~q.healthy => Holds(WriteControl(q, e), q.st, q.flow, q.subs, TRUE, FALSE, q.hist)
  <1>1. q.healthy => WriteControl(q, e) = Log(q, e)
    BY DEF WriteControl
  <1>2. ASSUME ~q.healthy
        PROVE  Holds(WriteControl(q, e), q.st, q.flow, q.subs, TRUE, FALSE, q.hist)
    <2>1. WriteControl(q, e) = SetFailed(q, TRUE)
      BY <1>2, Zenon DEF WriteControl, SetFailed
    <2>2. Holds(SetFailed(q, TRUE), q.st, q.flow, q.subs, TRUE, q.healthy, q.hist) /\ q.healthy \in BOOLEAN
      BY HostFailed, HostFields
    <2> QED BY <1>2, <2>1, <2>2 DEF Holds
  <1> QED BY <1>1, <1>2

\* The frames y adds to x are of streams that are live in f.
OfLive(x, y, f) ==
    \A j \in 1..Len(y) : j > Len(x) /\ y[j].t \in {"report", "retired"} => IsLive(f, <<y[j].i, y[j].g>>)

\* What RetireStream of the live stream <<i, g>> makes of q.
Retired(q, i, g, r) ==
    /\ Ledger(r) /\ r.subs = q.subs /\ r.st = q.st
    /\ r.healthy => q.healthy
    /\ q.failed => r.failed
    /\ ~q.healthy => r.failed
    /\ r.failed => q.failed \/ ~r.healthy
    /\ r.failed \/ r.healthy
    /\ r.healthy /\ ~q.failed =>
          /\ Continues(q.hist, r.hist) /\ OfLive(q.hist, r.hist, q.flow)
          /\ Closed(r.hist, i, g) /\ Tidy(r.flow, r.hist)
          /\ DOMAIN r.flow.streams \subseteq DOMAIN q.flow.streams
          /\ \A k : IsLive(r.flow, k) <=> IsLive(q.flow, k) /\ k # <<i, g>>

LEMMA ContinuesTwice ==
  ASSUME NEW x, NEW y, NEW z, Continues(x, y), Continues(y, z)
  PROVE  Continues(x, z)
  <1>1. Len(x) \in Nat /\ Len(y) \in Nat /\ Len(z) \in Nat
    BY ContinuesLen
  <1> QED BY <1>1, ContinuesLen DEF Continues

LEMMA RetireStreamOK ==
  ASSUME NEW q, Ledger(q), NEW i \in Ids, NEW g \in Nat, IsLive(q.flow, <<i, g>>),
         q.healthy => Tidy(q.flow, q.hist)
  PROVE  Retired(q, i, g, RetireStream(q, i, g))
  <1> DEFINE k == <<i, g>>
             f == q.flow
             m == LastTransmitted(f, k)
             e == Event("retired", i, g, m)
             b == Barrier(q, i, g)
             u == Retiring(f, k)
             v == Retire(f, k)
             r == RetireStream(q, i, g)
  <1>1. /\ q \in HostRec /\ FlowOK(f) /\ Settled(f) /\ f.sent = <<>> /\ 0 < f.next
        /\ DOMAIN f.streams \subseteq Keys /\ Barriers(q.hist) /\ Confirmed(q.hist)
    BY DEF Ledger
  <1>2. k \in DOMAIN f.streams /\ f.streams[k].live /\ f.streams[k] \in StreamType
    BY <1>1, FlowFields DEF IsLive
  <1>3. m = f.streams[k].last /\ m \in Nat
    BY <1>2 DEF LastTransmitted, StreamType
  <1> HIDE DEF m
  <1>4. e \in EventType /\ e.t = "retired" /\ e.i = i /\ e.g = g
    BY <1>3, EventShape DEF Kinds
  <1>5. b = WriteControl(q, e)
    BY DEF Barrier, m
  <1>6. q.healthy \in BOOLEAN /\ q.failed \in BOOLEAN /\ q.hist \in Frames
    BY <1>1, HostFields
  <1>7. CASE ~q.healthy
    <2>1. Holds(b, q.st, q.flow, q.subs, TRUE, FALSE, q.hist)
      BY <1>1, <1>4, <1>5, <1>7, ControlShape
    <2>2. r = b
      BY <2>1 DEF RetireStream, Holds
    <2> HIDE DEF b, r
    <2>3. Ledger(r)
      BY <1>1, <2>1, <2>2 DEF Ledger, Holds
    <2>4. Retired(q, i, g, r)
      BY <1>6, <1>7, <2>1, <2>2, <2>3 DEF Retired, Holds
    <2> QED BY <2>4 DEF r
  <1>8. CASE q.healthy
    <2> DEFINE y == Append(q.hist, e)
    <2>1. Holds(b, q.st, q.flow, q.subs, q.failed, q.healthy, y)
      BY <1>1, <1>4, <1>5, <1>8, ControlShape, LogShape
    <2>2. MayClose(q.hist, i, g, m)
      BY <1>2, <1>3, <1>8 DEF Tidy, MayClose
    <2>3. /\ Continues(q.hist, y) /\ Barriers(y) /\ Confirmed(y) /\ Closed(y, i, g)
          /\ \A a, c : Closed(y, a, c) => Closed(q.hist, a, c) \/ (a = i /\ c = g)
          /\ \A j \in 1..Len(y) : j \in 1..Len(q.hist) \/ y[j] = e
      <3>1. Closing(q.hist, i, g, e, y)
        BY <1>1, <1>3, <1>6, <2>2, BarrierAppended
      <3> QED BY <3>1 DEF Closing
    <2> HIDE DEF y, e
    <2>4. Ledger(b)
      <3> HIDE DEF b
      <3> QED BY <1>1, <2>1, <2>3 DEF Ledger, Holds
    <2>5. CASE q.failed
      <3>1. r = b
        BY <2>1, <2>5 DEF RetireStream, Holds
      <3> HIDE DEF b, r
      <3>2. Retired(q, i, g, r)
        BY <1>8, <2>1, <2>4, <2>5, <3>1 DEF Retired, Holds
      <3> QED BY <3>2 DEF r
    <2>6. CASE ~q.failed
      <3>1. r = SendReports(b, v)
        BY <2>1, <2>6 DEF RetireStream, Holds
      <3>2. FlowOK(u) /\ Ends(f, u, k) /\ FlowOK(v) /\ Sends(u, v) /\ Settled(v)
        BY <1>1, RetireOK
      <3> HIDE DEF b, r, u, v
      <3>3. 0 < u.next /\ DOMAIN u.streams \subseteq Keys
        BY <1>1, <3>2 DEF Ends
      <3>4. \A j \in DOMAIN u.streams : u.streams[j].live =>
               j # k /\ j \in DOMAIN f.streams /\ u.streams[j] = f.streams[j] /\ j \in StreamKeys
        BY <1>1, <3>2, FlowFields DEF Ends
      <3>5. Tidy(u, y)
        <4> SUFFICES ASSUME NEW j \in DOMAIN u.streams, u.streams[j].live
                     PROVE  /\ ~Closed(y, j[1], j[2])
                            /\ u.streams[j].last = 0 \/ \E l \in 1..Len(y) : IsReport(y[l], j) /\ y[l].n = u.streams[j].last
                            /\ \A l \in 1..Len(y) : IsReport(y[l], j) => y[l].n <= u.streams[j].last
          BY DEF Tidy
        <4>1. /\ ~Closed(q.hist, j[1], j[2])
              /\ u.streams[j].last = 0 \/ \E l \in 1..Len(q.hist) : IsReport(q.hist[l], j) /\ q.hist[l].n = u.streams[j].last
              /\ \A l \in 1..Len(q.hist) : IsReport(q.hist[l], j) => q.hist[l].n <= u.streams[j].last
          BY <1>8, <3>4 DEF Tidy
        <4>2. j = <<j[1], j[2]>>
          BY <3>4 DEF StreamKeys
        <4>3. ~(j[1] = i /\ j[2] = g)
          BY <3>4, <4>2
        <4>4. ~Closed(y, j[1], j[2])
          BY <2>3, <4>1, <4>3
        <4>5. \A l \in 1..Len(q.hist) : l \in 1..Len(y) /\ y[l] = q.hist[l]
          BY <2>3, ContinuesLen
        <4>6. ~IsReport(e, j)
          BY <1>4 DEF IsReport
        <4> QED BY <2>3, <4>1, <4>4, <4>5, <4>6
      <3>6. Delivered(b, u, v, r)
        BY <2>1, <2>3, <3>1, <3>2, <3>3, <3>5, SendReportsOK DEF Holds
      <3>7. \A j : IsLive(v, j) <=> IsLive(u, j)
        BY <3>2 DEF Sends, IsLive
      <3>8. \A j : IsLive(u, j) <=> IsLive(f, j) /\ j # k
        BY <3>2, <3>4 DEF Ends, IsLive
      <3>9. \A j : IsLive(r.flow, j) <=> IsLive(f, j) /\ j # k
        <4>1. r.flow.streams = v.streams
          BY <3>6 DEF Delivered
        <4> QED BY <3>7, <3>8, <4>1 DEF IsLive
      <3>10. DOMAIN r.flow.streams \subseteq DOMAIN f.streams
        BY <3>2, <3>6 DEF Ends, Sends, Delivered
      <3>11. /\ Ledger(r) /\ r.subs = q.subs /\ r.st = q.st
             /\ r.failed => ~r.healthy
             /\ r.failed \/ r.healthy
        BY <1>8, <2>1, <2>6, <3>6 DEF Delivered, Holds
      <3>12. ASSUME r.healthy
             PROVE  /\ Continues(q.hist, r.hist) /\ OfLive(q.hist, r.hist, f)
                    /\ Closed(r.hist, i, g) /\ Tidy(r.flow, r.hist)
        <4>1. Continues(y, r.hist) /\ Reported(y, r.hist, u) /\ Tidy(r.flow, r.hist)
          BY <2>1, <3>6, <3>12 DEF Delivered, Holds
        <4>2. Continues(q.hist, r.hist)
          BY <2>3, <4>1, ContinuesTwice
        <4>3. Closed(r.hist, i, g)
          BY <2>3, <4>1, ClosedStays
        <4>4. OfLive(q.hist, r.hist, f)
          <5> SUFFICES ASSUME NEW j \in 1..Len(r.hist), j > Len(q.hist)
                       PROVE  IsLive(f, <<r.hist[j].i, r.hist[j].g>>)
            BY DEF OfLive
          <5>1. CASE j > Len(y)
            BY <3>8, <4>1, <5>1 DEF Reported
          <5>2. CASE j \in 1..Len(y)
            <6>1. r.hist[j] = y[j]
              BY <4>1, <5>2, ContinuesLen
            <6>2. y[j] = e
              BY <1>6, <2>3, <5>2, ContinuesLen
            <6> QED BY <1>4, <6>1, <6>2
          <5> QED BY <4>1, <5>1, <5>2, ContinuesLen
        <4> QED BY <4>1, <4>2, <4>3, <4>4
      <3>13. Retired(q, i, g, r)
        BY <1>8, <2>6, <3>9, <3>10, <3>11, <3>12 DEF Retired
      <3> QED BY <3>13 DEF r
    <2> QED BY <1>6, <2>5, <2>6
  <1> QED BY <1>6, <1>7, <1>8

-----------------------------------------------------------------------------
(* What an operation of the protocol may do.                               *)

Good(q) == Ledger(q) /\ (Alive(q) => Sound(q) /\ Tidy(q.flow, q.hist))

\* What a waiting request relies on.
Keeps(q, r) ==
    /\ \A i \in Ids : Fresh(q, i) => Fresh(r, i)
    /\ \A i, g : IsLive(q.flow, <<i, g>>) \/ Closed(q.hist, i, g) =>
                    IsLive(r.flow, <<i, g>>) \/ Closed(r.hist, i, g)

\* An operation turns q into r; it does nothing once the channel has failed.
Moves(q, r) ==
    /\ Ledger(r)
    /\ q.failed => r = q
    /\ r.healthy => q.healthy
    /\ r.healthy /\ ~q.failed => Tidy(r.flow, r.hist)
    /\ Alive(r) => Alive(q) /\ Sound(r) /\ Keeps(q, r)

LEMMA Stays ==
  ASSUME NEW q, Good(q)
  PROVE  Moves(q, q)
  BY DEF Good, Moves, Alive, Keeps

LEMMA OfLiveTwice ==
  ASSUME NEW x, NEW y, NEW z, NEW f, Continues(x, y), Continues(y, z), OfLive(x, y, f), OfLive(y, z, f)
  PROVE  OfLive(x, z, f)
  <1> SUFFICES ASSUME NEW j \in 1..Len(z), j > Len(x), z[j].t \in {"report", "retired"}
               PROVE  IsLive(f, <<z[j].i, z[j].g>>)
    BY DEF OfLive
  <1>1. CASE j \in 1..Len(y)
    <2>1. z[j] = y[j]
      BY <1>1, ContinuesLen
    <2> QED BY <1>1, <2>1 DEF OfLive
  <1>2. CASE j > Len(y)
    BY <1>2 DEF OfLive
  <1> QED BY <1>1, <1>2, ContinuesLen

\* A live stream is the current generation of its subscription.
LEMMA LiveEntry ==
  ASSUME NEW q, Ledger(q), Sound(q), NEW i, NEW g, IsLive(q.flow, <<i, g>>)
  PROVE  i \in Ids /\ g \in Nat /\ g > 0 /\ q.subs[i].gen = g /\ q.subs[i] # None /\ <<i, g>> \in DOMAIN q.flow.streams
  <1>1. <<i, g>> \in DOMAIN q.flow.streams /\ <<i, g>> \in Keys /\ q.flow.streams[<<i, g>>].live
    BY DEF IsLive, Ledger
  <1>2. FlowOK(q.flow)
    BY DEF Ledger
  <1>3. <<i, g>> \in StreamKeys
    BY <1>1, <1>2, FlowFields
  <1>4. i \in Ids /\ g \in Nat /\ g >= 1
    BY <1>1, <1>3 DEF Keys, StreamKeys
  <1>5. q.subs[i].gen = g
    BY <1>1 DEF Sound
  <1>6. None.gen = 0
    BY DEF None
  <1> QED BY <1>1, <1>4, <1>5, <1>6

LEMMA SoundStep ==
  ASSUME NEW q, Ledger(q), Sound(q), NEW r, Ledger(r), Continues(q.hist, r.hist),
         OfLive(q.hist, r.hist, q.flow),
         \A k \in DOMAIN r.flow.streams :
            IF r.flow.streams[k].live THEN r.subs[k[1]].gen = k[2] ELSE Closed(r.hist, k[1], k[2]),
         \A i \in Ids : r.subs[i] # None => IsLive(r.flow, <<i, r.subs[i].gen>>),
         \A i \in Ids : r.subs[i].gen = 0 => r.subs[i] = None,
         \A i \in Ids : r.subs[i] # None => q.subs[i] # None /\ q.subs[i].gen <= r.subs[i].gen,
         \A i, g : IsLive(q.flow, <<i, g>>) => IsLive(r.flow, <<i, g>>) \/ Closed(r.hist, i, g)
  PROVE  Sound(r) /\ Keeps(q, r)
  <1>1. /\ Len(q.hist) \in Nat /\ Len(r.hist) \in Nat
        /\ \A j \in 1..Len(q.hist) : j \in 1..Len(r.hist) /\ r.hist[j] = q.hist[j] /\ q.hist[j] \in EventType
        /\ \A j \in 1..Len(r.hist) : r.hist[j] \in EventType /\ (j \in 1..Len(q.hist) \/ j > Len(q.hist))
    BY ContinuesLen
  <1>2. \A j \in 1..Len(r.hist) : r.hist[j].i \in Ids /\ r.hist[j].g \in Nat
    BY <1>1 DEF EventType
  <1>3. \A i \in Ids : q.subs[i].gen \in Nat /\ r.subs[i].gen \in Nat
    BY HostFields DEF Ledger, Entry
  <1>4. ASSUME NEW j \in 1..Len(r.hist), r.hist[j].t \in {"report", "retired"}, r.subs[r.hist[j].i] # None
        PROVE  r.hist[j].g <= r.subs[r.hist[j].i].gen
    <2> DEFINE i == r.hist[j].i
               g == r.hist[j].g
    <2>1. i \in Ids /\ g \in Nat /\ q.subs[i] # None /\ q.subs[i].gen <= r.subs[i].gen
      BY <1>2, <1>4
    <2>2. g <= q.subs[i].gen
      <3>1. CASE j \in 1..Len(q.hist)
        <4>1. r.hist[j] = q.hist[j]
          BY <1>1, <3>1
        <4> QED BY <1>4, <2>1, <3>1, <4>1 DEF Sound
      <3>2. CASE j > Len(q.hist)
        <4>1. IsLive(q.flow, <<i, g>>)
          BY <1>4, <3>2 DEF OfLive
        <4> HIDE DEF i, g
        <4>2. q.subs[i].gen = g
          BY <4>1, LiveEntry
        <4> QED BY <2>1, <4>2
      <3> QED BY <1>1, <3>1, <3>2
    <2> HIDE DEF i, g
    <2>3. g <= r.subs[i].gen
      BY <1>3, <2>1, <2>2
    <2> QED BY <2>3 DEF i, g
  <1>5. Sound(r)
    BY <1>4 DEF Sound
  <1>6. ASSUME NEW i \in Ids, Fresh(q, i) PROVE Fresh(r, i)
    <2>1. r.subs[i] = None
      BY <1>6 DEF Fresh
    <2>2. ASSUME NEW j \in 1..Len(r.hist), r.hist[j].i = i, r.hist[j].t \in {"report", "retired"}
          PROVE  FALSE
      <3>1. CASE j \in 1..Len(q.hist)
        BY <1>1, <1>6, <2>2, <3>1 DEF Fresh
      <3>2. CASE j > Len(q.hist)
        <4>1. IsLive(q.flow, <<i, r.hist[j].g>>)
          BY <2>2, <3>2 DEF OfLive
        <4>2. q.subs[i] # None
          BY <4>1, LiveEntry
        <4> QED BY <1>6, <4>2 DEF Fresh
      <3> QED BY <1>1, <3>1, <3>2
    <2> QED BY <2>1, <2>2 DEF Fresh
  <1>7. \A i, g : Closed(q.hist, i, g) => Closed(r.hist, i, g)
    BY ClosedStays
  <1> QED BY <1>5, <1>6, <1>7 DEF Keeps

\* The generations and the live streams are the same, other streams may be gone.
SameStreams(q, r) ==
    /\ \A i \in Ids : r.subs[i].gen = q.subs[i].gen /\ (r.subs[i] = None <=> q.subs[i] = None)
    /\ DOMAIN r.flow.streams \subseteq DOMAIN q.flow.streams
    /\ \A k : IsLive(r.flow, k) <=> IsLive(q.flow, k)

LEMMA SoundSame ==
  ASSUME NEW q, Ledger(q), Sound(q), NEW r, Ledger(r), Continues(q.hist, r.hist),
         OfLive(q.hist, r.hist, q.flow), SameStreams(q, r)
  PROVE  Sound(r) /\ Keeps(q, r)
  <1>0. \A i \in Ids : q.subs[i].gen \in Nat
    BY HostFields DEF Ledger, Entry
  <1>1. ASSUME NEW k \in DOMAIN r.flow.streams
        PROVE  IF r.flow.streams[k].live THEN r.subs[k[1]].gen = k[2] ELSE Closed(r.hist, k[1], k[2])
    <2>1. k \in DOMAIN q.flow.streams /\ k[1] \in Ids /\ (r.flow.streams[k].live <=> q.flow.streams[k].live)
      <3>1. k \in DOMAIN q.flow.streams /\ k \in Keys
        BY DEF SameStreams, Ledger
      <3> QED BY <3>1 DEF SameStreams, IsLive, Keys
    <2>2. Closed(q.hist, k[1], k[2]) => Closed(r.hist, k[1], k[2])
      BY ClosedStays
    <2> QED BY <2>1, <2>2 DEF Sound, SameStreams
  <1>2. \A i \in Ids : r.subs[i] # None => IsLive(r.flow, <<i, r.subs[i].gen>>)
    BY DEF Sound, SameStreams
  <1>3. \A i \in Ids : r.subs[i].gen = 0 => r.subs[i] = None
    BY DEF Sound, SameStreams
  <1>4. \A i \in Ids : r.subs[i] # None => q.subs[i] # None /\ q.subs[i].gen <= r.subs[i].gen
    BY <1>0 DEF SameStreams
  <1>5. \A i, g : IsLive(q.flow, <<i, g>>) => IsLive(r.flow, <<i, g>>) \/ Closed(r.hist, i, g)
    BY DEF SameStreams
  <1> QED BY <1>1, <1>2, <1>3, <1>4, <1>5, SoundStep

\* A frame that is neither a report nor a barrier.
Wrote(q, r) ==
    /\ Ledger(r) /\ r.flow = q.flow /\ r.subs = q.subs /\ r.st = q.st /\ r.failed = q.failed
    /\ r.healthy = q.healthy /\ Continues(q.hist, r.hist)
    /\ OfLive(q.hist, r.hist, q.flow)
    /\ Tidy(q.flow, q.hist) => Tidy(r.flow, r.hist)

LEMMA LogOK ==
  ASSUME NEW q, Ledger(q), NEW e \in EventType, e.t \notin {"retired", "report"},
         e.t = "error" => ~Closed(q.hist, e.i, e.g),
         e.t = "cancelled" => Closed(q.hist, e.i, e.g)
  PROVE  Wrote(q, Log(q, e))
  <1> DEFINE r == Log(q, e)
             x == q.hist
             y == Append(x, e)
  <1>1. q \in HostRec /\ x \in Frames
    BY HostFields DEF Ledger
  <1>2. Holds(r, q.st, q.flow, q.subs, q.failed, q.healthy, y)
    BY <1>1, LogShape
  <1>3. /\ Continues(x, y) /\ Len(y) = Len(x) + 1 /\ Len(x) \in Nat
        /\ y[Len(x) + 1] = e
        /\ \A j \in 1..Len(y) : j \in 1..Len(x) \/ j = Len(x) + 1
        /\ \A j \in 1..Len(x) : y[j] = x[j] /\ j # Len(x) + 1
    BY <1>1, OneMore
  <1> HIDE DEF y, r
  <1>4. \A j \in 1..Len(y) : j > Len(x) => y[j] = e
    BY <1>3
  <1>5. Allowed(x, y)
    BY <1>4 DEF Allowed
  <1>6. Barriers(y)
    BY <1>3, <1>5, BarriersContinue DEF Ledger
  <1>7. Confirmed(y)
    BY <1>3, <1>4, ConfirmedContinues DEF Ledger
  <1>8. OfLive(x, y, q.flow)
    BY <1>4 DEF OfLive
  <1>9. Tidy(q.flow, x) => Tidy(q.flow, y)
    <2>1. \A i, g : Closed(y, i, g) => Closed(x, i, g)
      BY <1>3, <1>5, ClosedNew
    <2>2. \A j \in 1..Len(y) : \A k : IsReport(y[j], k) => j \in 1..Len(x)
      BY <1>3 DEF IsReport
    <2>3. \A j \in 1..Len(x) : j \in 1..Len(y) /\ y[j] = x[j]
      BY <1>3, ContinuesLen
    <2> QED BY <2>1, <2>2, <2>3 DEF Tidy
  <1>10. Ledger(r)
    BY <1>2, <1>6, <1>7 DEF Ledger, Holds
  <1>11. Wrote(q, r)
    BY <1>2, <1>3, <1>8, <1>9, <1>10 DEF Wrote, Holds
  <1> QED BY <1>11 DEF r

-----------------------------------------------------------------------------
(* The operations of the protocol.                                         *)

\* A control frame on a writer that has failed fails the channel.
LEMMA FailsControl ==
  ASSUME NEW q, Good(q), ~q.healthy, ~q.failed, NEW e \in EventType
  PROVE  Moves(q, WriteControl(q, e)) /\ WriteControl(q, e).failed /\ ~WriteControl(q, e).healthy
         /\ WriteControl(q, e).flow = q.flow /\ WriteControl(q, e).subs = q.subs
  <1> DEFINE r == WriteControl(q, e)
  <1>1. Holds(r, q.st, q.flow, q.subs, TRUE, FALSE, q.hist)
    BY ControlShape DEF Good, Ledger
  <1> HIDE DEF r
  <1>2. Ledger(r)
    BY <1>1 DEF Good, Ledger, Holds
  <1>3. Moves(q, r) /\ r.failed /\ ~r.healthy /\ r.flow = q.flow /\ r.subs = q.subs
    BY <1>1, <1>2 DEF Moves, Holds, Alive
  <1> QED BY <1>3 DEF r

\* The entry of subscription i set in the table.
LEMMA EntrySet ==
  ASSUME NEW q, Ledger(q), NEW i \in Ids, NEW x \in Entry
  PROVE  LET r == [q EXCEPT !.subs[i] = x]
         IN /\ Ledger(r) /\ Holds(r, q.st, q.flow, [q.subs EXCEPT ![i] = x], q.failed, q.healthy, q.hist)
            /\ r.subs[i] = x /\ \A j \in Ids : j # i => r.subs[j] = q.subs[j]
  <1> DEFINE s == [q.subs EXCEPT ![i] = x]
             r == SetSubs(q, s)
  <1>1. q \in HostRec /\ q.subs \in Entries
    BY HostFields DEF Ledger
  <1>2. s \in Entries /\ s[i] = x /\ \A j \in Ids : j # i => s[j] = q.subs[j]
    BY <1>1 DEF Entries
  <1> HIDE DEF s
  <1>3. Holds(r, q.st, q.flow, s, q.failed, q.healthy, q.hist)
    BY <1>1, <1>2, HostSubs
  <1>4. [q EXCEPT !.subs[i] = x] = r
    BY Zenon DEF SetSubs, s
  <1> HIDE DEF r
  <1>5. Ledger(r)
    BY <1>3 DEF Ledger, Holds
  <1>6. /\ Ledger(r) /\ Holds(r, q.st, q.flow, s, q.failed, q.healthy, q.hist)
        /\ r.subs[i] = x /\ \A j \in Ids : j # i => r.subs[j] = q.subs[j]
    BY <1>2, <1>3, <1>5 DEF Holds
  <1> QED BY <1>4, <1>6, Zenon DEF s

LEMMA NoneEntry == None \in Entry /\ None.gen = 0
  BY DEF None, Entry

\* A live stream is retired and leaves the subscription table.
LEMMA RetiredSound ==
  ASSUME NEW q, Ledger(q), Sound(q), NEW i \in Ids, NEW g \in Nat, IsLive(q.flow, <<i, g>>),
         NEW r, Ledger(r), Continues(q.hist, r.hist), OfLive(q.hist, r.hist, q.flow), Closed(r.hist, i, g),
         DOMAIN r.flow.streams \subseteq DOMAIN q.flow.streams,
         \A k : IsLive(r.flow, k) <=> IsLive(q.flow, k) /\ k # <<i, g>>,
         r.subs[i] = None, \A j \in Ids : j # i => r.subs[j] = q.subs[j]
  PROVE  Sound(r) /\ Keeps(q, r)
  <1>1. q.subs[i].gen = g
    BY LiveEntry
  <1>2. ASSUME NEW k \in DOMAIN r.flow.streams
        PROVE  IF r.flow.streams[k].live THEN r.subs[k[1]].gen = k[2] ELSE Closed(r.hist, k[1], k[2])
    <2>1. k \in DOMAIN q.flow.streams /\ k[1] \in Ids /\ k = <<k[1], k[2]>>
      BY DEF Ledger, Keys
    <2>2. CASE r.flow.streams[k].live
      <3>1. IsLive(q.flow, k) /\ k # <<i, g>>
        BY <2>2 DEF IsLive
      <3>2. q.subs[k[1]].gen = k[2]
        BY <3>1 DEF Sound, IsLive
      <3>3. k[1] # i
        BY <1>1, <2>1, <3>1, <3>2
      <3> QED BY <2>1, <2>2, <3>2, <3>3
    <2>3. CASE ~r.flow.streams[k].live
      <3>1. CASE k = <<i, g>>
        BY <2>3, <3>1
      <3>2. CASE k # <<i, g>>
        <4>1. ~q.flow.streams[k].live
          BY <2>1, <2>3, <3>2 DEF IsLive
        <4>2. Closed(q.hist, k[1], k[2])
          BY <2>1, <4>1 DEF Sound
        <4> QED BY <2>3, <4>2, ClosedStays
      <3> QED BY <3>1, <3>2
    <2> QED BY <2>2, <2>3
  <1>3. ASSUME NEW j \in Ids, r.subs[j] # None
        PROVE  IsLive(r.flow, <<j, r.subs[j].gen>>) /\ q.subs[j] = r.subs[j]
    <2>1. j # i /\ r.subs[j] = q.subs[j]
      BY <1>3
    <2>2. IsLive(q.flow, <<j, q.subs[j].gen>>) /\ <<j, q.subs[j].gen>> # <<i, g>>
      BY <1>3, <2>1 DEF Sound
    <2> QED BY <2>1, <2>2
  <1>4. \A j \in Ids : r.subs[j].gen = 0 => r.subs[j] = None
    BY DEF Sound
  <1>5. \A j \in Ids : r.subs[j] # None => q.subs[j] # None /\ q.subs[j].gen <= r.subs[j].gen
    <2>1. \A j \in Ids : q.subs[j].gen \in Nat
      BY HostFields DEF Entry, Ledger
    <2> TAKE j \in Ids
    <2> HAVE r.subs[j] # None
    <2>2. q.subs[j] = r.subs[j] /\ q.subs[j].gen \in Nat
      BY <1>3, <2>1
    <2>3. \A c \in Nat : c <= c
      OBVIOUS
    <2> QED BY <2>2, <2>3
  <1>6. \A j, b : IsLive(q.flow, <<j, b>>) => IsLive(r.flow, <<j, b>>) \/ Closed(r.hist, j, b)
    OBVIOUS
  <1> QED BY <1>2, <1>3, <1>4, <1>5, <1>6, SoundStep

LEMMA ErrorAndRetireOK ==
  ASSUME NEW q, Good(q), ~q.failed, NEW i \in Ids, NEW g \in Nat, IsLive(q.flow, <<i, g>>)
  PROVE  Moves(q, ErrorAndRetire(q, i, g))
  <1> DEFINE e == Event("error", i, g, 0)
             w == WriteControl(q, e)
             v == RetireStream(w, i, g)
             r == [v EXCEPT !.subs[i] = None]
  <1>0. Ledger(q) /\ q \in HostRec /\ q.healthy \in BOOLEAN /\ q.failed \in BOOLEAN
    BY HostFields DEF Good, Ledger
  <1>1. e \in EventType /\ e.t = "error" /\ e.i = i /\ e.g = g
    BY EventShape DEF Kinds
  <1> HIDE DEF e
  <1>2. CASE ~q.healthy
    <2>1. Moves(q, w) /\ w.failed
      BY <1>1, <1>2, FailsControl
    <2>2. ErrorAndRetire(q, i, g) = w
      BY <2>1 DEF ErrorAndRetire, e
    <2> QED BY <2>1, <2>2
  <1>3. CASE q.healthy
    <2>1. Sound(q) /\ Tidy(q.flow, q.hist)
      BY <1>3 DEF Good, Alive
    <2>2. ~Closed(q.hist, i, g)
      <3>1. <<i, g>> \in DOMAIN q.flow.streams /\ q.flow.streams[<<i, g>>].live
        BY DEF IsLive
      <3>2. ~Closed(q.hist, <<i, g>>[1], <<i, g>>[2])
        BY <2>1, <3>1 DEF Tidy
      <3> QED BY <3>2
    <2>3. w = Log(q, e)
      BY <1>0, <1>1, <1>3, ControlShape
    <2>4. Wrote(q, w)
      BY <1>0, <1>1, <2>2, <2>3, LogOK
    <2> HIDE DEF w
    <2>5. /\ Ledger(w) /\ IsLive(w.flow, <<i, g>>) /\ Tidy(w.flow, w.hist) /\ w.healthy /\ ~w.failed
          /\ Continues(q.hist, w.hist) /\ OfLive(q.hist, w.hist, q.flow) /\ w.flow = q.flow /\ w.subs = q.subs
      BY <1>3, <2>1, <2>4 DEF Wrote
    <2>6. Retired(w, i, g, v)
      BY <2>5, RetireStreamOK
    <2>7. ErrorAndRetire(q, i, g) = r
      BY <2>5, Zenon DEF ErrorAndRetire, w, e
    <2> HIDE DEF v
    <2>8. Ledger(v) /\ v.subs = q.subs
      BY <2>5, <2>6 DEF Retired
    <2>9. /\ Ledger(r) /\ Holds(r, v.st, v.flow, [v.subs EXCEPT ![i] = None], v.failed, v.healthy, v.hist)
          /\ r.subs[i] = None /\ \A j \in Ids : j # i => r.subs[j] = v.subs[j]
      BY <2>8, NoneEntry, EntrySet
    <2> HIDE DEF r
    <2>10. r.flow = v.flow /\ r.failed = v.failed /\ r.healthy = v.healthy /\ r.hist = v.hist
      BY <2>9 DEF Holds
    <2>11. r.healthy => Tidy(r.flow, r.hist)
      BY <2>5, <2>6, <2>10 DEF Retired
    <2>12. ASSUME Alive(r) PROVE Sound(r) /\ Keeps(q, r)
      <3>1. /\ Continues(w.hist, r.hist) /\ OfLive(w.hist, r.hist, q.flow)
            /\ Closed(r.hist, i, g)
            /\ DOMAIN r.flow.streams \subseteq DOMAIN q.flow.streams
            /\ \A k : IsLive(r.flow, k) <=> IsLive(q.flow, k) /\ k # <<i, g>>
        BY <2>5, <2>6, <2>10, <2>12 DEF Retired, Alive
      <3>2. Continues(q.hist, r.hist) /\ OfLive(q.hist, r.hist, q.flow)
        BY <2>5, <3>1, ContinuesTwice, OfLiveTwice
      <3> QED BY <1>0, <2>1, <2>8, <2>9, <3>1, <3>2, RetiredSound
    <2>13. Moves(q, r)
      BY <1>0, <1>3, <2>9, <2>11, <2>12 DEF Moves, Alive
    <2> QED BY <2>7, <2>13
  <1> QED BY <1>0, <1>2, <1>3

\* Reports of live streams go out and change nothing else.
LEMMA DeliveredMoves ==
  ASSUME NEW q, Good(q), ~q.failed, NEW u, NEW g, NEW r, Delivered(q, u, g, r), Sends(u, g), SameLive(q.flow, u)
  PROVE  Moves(q, r)
  <1>0. Ledger(q) /\ q.healthy \in BOOLEAN /\ q.failed \in BOOLEAN
    BY HostFields DEF Good, Ledger
  <1>1. /\ Ledger(r) /\ r.subs = q.subs /\ r.flow.streams = g.streams /\ (r.healthy => q.healthy)
        /\ r.healthy => /\ Continues(q.hist, r.hist) /\ Reported(q.hist, r.hist, u)
                        /\ Tidy(r.flow, r.hist)
    BY DEF Delivered
  <1>2. \A k : IsLive(u, k) <=> IsLive(q.flow, k)
    BY DEF SameLive, IsLive
  <1>3. \A k : IsLive(r.flow, k) <=> IsLive(u, k)
    BY <1>1 DEF Sends, IsLive
  <1>4. DOMAIN r.flow.streams \subseteq DOMAIN q.flow.streams
    BY <1>1 DEF Sends, SameLive
  <1>5. SameStreams(q, r)
    BY <1>1, <1>2, <1>3, <1>4 DEF SameStreams
  <1>6. r.healthy => OfLive(q.hist, r.hist, q.flow)
    BY <1>1, <1>2 DEF Reported, OfLive
  <1>7. ASSUME Alive(r) PROVE Sound(r) /\ Keeps(q, r) /\ Alive(q)
    <2>1. r.healthy /\ q.healthy /\ Sound(q) /\ Alive(q)
      BY <1>1, <1>7 DEF Alive, Good
    <2> QED BY <1>0, <1>1, <1>5, <1>6, <2>1, SoundSame
  <1> QED BY <1>1, <1>7 DEF Moves

LEMMA EmitReportOK ==
  ASSUME NEW q, Good(q), NEW i \in Ids, NEW g \in Nat, NEW r \in Nat
  PROVE  Moves(q, EmitReport(q, i, g, r))
  <1> DEFINE k == <<i, g>>
             f == q.flow
             v == Submit(f, k, r)
  <1>0. Ledger(q)
    BY DEF Good
  <1>1. CASE ~Accepting(q) \/ ~IsLive(f, k)
    BY <1>1, Stays DEF EmitReport
  <1>2. CASE Accepting(q) /\ IsLive(f, k) /\ SubmitResult(f, k) = "overflow"
    <2>1. ~q.failed
      BY <1>2 DEF Accepting, Healthy
    <2>2. Moves(q, ErrorAndRetire(q, i, g))
      BY <1>2, <2>1, ErrorAndRetireOK
    <2> QED BY <1>2, <2>2 DEF EmitReport
  <1>3. CASE Accepting(q) /\ IsLive(f, k) /\ SubmitResult(f, k) # "overflow"
    <2>1. ~q.failed
      BY <1>3 DEF Accepting, Healthy
    <2>2. /\ q \in HostRec /\ FlowOK(f) /\ Settled(f) /\ f.sent = <<>> /\ 0 < f.next
          /\ DOMAIN f.streams \subseteq Keys /\ Barriers(q.hist) /\ Confirmed(q.hist)
      BY <1>0 DEF Ledger
    <2>3. FlowOK(v) /\ Settled(v) /\ Sends(f, v)
      BY <1>3, <2>2, SubmitOK
    <2>4. q.healthy => Tidy(f, q.hist)
      BY <2>1 DEF Good, Alive
    <2>5. EmitReport(q, i, g, r) = SendReports(q, v)
      BY <1>3 DEF EmitReport
    <2> HIDE DEF v
    <2>6. Delivered(q, f, v, SendReports(q, v))
      BY <2>2, <2>3, <2>4, SendReportsOK
    <2>7. SameLive(f, f)
      BY DEF SameLive
    <2>8. Moves(q, SendReports(q, v))
      BY <2>1, <2>3, <2>6, <2>7, DeliveredMoves
    <2> QED BY <2>5, <2>8
  <1> QED BY <1>1, <1>2, <1>3

LEMMA EmitFailureOK ==
  ASSUME NEW q, Good(q), NEW i \in Ids, NEW g \in Nat
  PROVE  Moves(q, EmitFailure(q, i, g))
  <1>1. CASE Accepting(q) /\ IsLive(q.flow, <<i, g>>)
    BY <1>1, ErrorAndRetireOK DEF EmitFailure, Accepting, Healthy
  <1>2. CASE ~(Accepting(q) /\ IsLive(q.flow, <<i, g>>))
    BY <1>2, Stays DEF EmitFailure
  <1> QED BY <1>1, <1>2

LEMMA ReportAckOK ==
  ASSUME NEW q, Good(q), ~q.failed, NEW seq \in Nat, CanAcknowledge(q.flow, seq)
  PROVE  Moves(q, SendReports(q, Acknowledge(q.flow, seq)))
  <1> DEFINE f == q.flow
             u == Released(f, seq)
             v == Acknowledge(f, seq)
  <1>1. /\ q \in HostRec /\ FlowOK(f) /\ Settled(f) /\ f.sent = <<>> /\ 0 < f.next
        /\ DOMAIN f.streams \subseteq Keys /\ Barriers(q.hist) /\ Confirmed(q.hist)
    BY DEF Ledger, Good
  <1>2. FlowOK(u) /\ SameLive(f, u) /\ FlowOK(v) /\ Sends(u, v) /\ Settled(v)
    BY <1>1, AcknowledgeOK
  <1> HIDE DEF u, v
  <1>3. 0 < u.next /\ DOMAIN u.streams \subseteq Keys
    BY <1>1, <1>2 DEF SameLive
  <1>4. q.healthy => Tidy(u, q.hist)
    <2>1. q.healthy => Tidy(f, q.hist)
      BY DEF Good, Alive
    <2> QED BY <1>2, <2>1 DEF SameLive, Tidy
  <1>5. Delivered(q, u, v, SendReports(q, v))
    BY <1>1, <1>2, <1>3, <1>4, SendReportsOK
  <1>6. Moves(q, SendReports(q, v))
    BY <1>2, <1>5, DeliveredMoves
  <1> QED BY <1>6 DEF v

-----------------------------------------------------------------------------
(* The statuses of a recovery.                                             *)

SetEntry(q, i, x) == SetSubs(q, [q.subs EXCEPT ![i] = x])

\* r is q with the entry x for i.
Entered(q, i, x, r) ==
    /\ Ledger(r) /\ r.st = q.st /\ r.flow = q.flow /\ r.failed = q.failed /\ r.healthy = q.healthy
    /\ r.hist = q.hist /\ r.subs[i] = x /\ \A j \in Ids : j # i => r.subs[j] = q.subs[j]

LEMMA EntryEntered ==
  ASSUME NEW q, Ledger(q), NEW i \in Ids, NEW x \in Entry
  PROVE  Entered(q, i, x, SetEntry(q, i, x))
  <1> DEFINE s == [q.subs EXCEPT ![i] = x]
             r == SetSubs(q, s)
  <1>1. q \in HostRec /\ q.subs \in Entries
    BY HostFields DEF Ledger
  <1>2. s \in Entries /\ s[i] = x /\ \A j \in Ids : j # i => s[j] = q.subs[j]
    BY <1>1 DEF Entries
  <1> HIDE DEF s
  <1>3. Holds(r, q.st, q.flow, s, q.failed, q.healthy, q.hist)
    BY <1>1, <1>2, HostSubs
  <1>4. SetEntry(q, i, x) = r
    BY Zenon DEF SetEntry, s
  <1> HIDE DEF r
  <1>5. Entered(q, i, x, r)
    BY <1>2, <1>3 DEF Ledger, Holds, Entered
  <1> QED BY <1>4, <1>5

LEMMA EntryFields ==
  ASSUME NEW x \in Entry, NEW a \in Nat
  PROVE  /\ [x EXCEPT !.recov = FALSE] \in Entry /\ [x EXCEPT !.recov = FALSE].gen = x.gen
         /\ [x EXCEPT !.attempt = a] \in Entry /\ [x EXCEPT !.attempt = a].gen = x.gen
  BY DEF Entry

Recovered(q, i) == SetEntry(q, i, [q.subs[i] EXCEPT !.recov = FALSE])

Attempted(q, i, a) == SetEntry(q, i, [q.subs[i] EXCEPT !.attempt = a])

\* The same generation under another entry.
SameEntry(q, i, r) ==
    /\ Ledger(r) /\ r.st = q.st /\ r.flow = q.flow /\ r.failed = q.failed /\ r.healthy = q.healthy
    /\ r.hist = q.hist /\ r.subs[i].gen = q.subs[i].gen /\ \A j \in Ids : j # i => r.subs[j] = q.subs[j]

LEMMA EntryKept ==
  ASSUME NEW q, Ledger(q), NEW i \in Ids, NEW a \in Nat
  PROVE  SameEntry(q, i, Recovered(q, i)) /\ SameEntry(q, i, Attempted(q, i, a))
  <1> DEFINE x == [q.subs[i] EXCEPT !.recov = FALSE]
             y == [q.subs[i] EXCEPT !.attempt = a]
  <1>1. q.subs[i] \in Entry
    BY HostFields DEF Ledger
  <1>2. x \in Entry /\ y \in Entry /\ x.gen = q.subs[i].gen /\ y.gen = q.subs[i].gen
    BY <1>1, EntryFields
  <1> HIDE DEF x, y
  <1>3. Entered(q, i, x, SetEntry(q, i, x)) /\ Entered(q, i, y, SetEntry(q, i, y))
    BY <1>2, EntryEntered
  <1>4. SameEntry(q, i, SetEntry(q, i, x)) /\ SameEntry(q, i, SetEntry(q, i, y))
    BY <1>2, <1>3 DEF Entered, SameEntry
  <1> QED BY <1>4, Zenon DEF Recovered, Attempted, x, y

LEMMA EmitResubscribedOK ==
  ASSUME NEW q, Good(q), NEW i \in Ids, NEW g \in Nat, NEW a \in Nat
  PROVE  Moves(q, EmitResubscribed(q, i, g, a))
  <1>1. CASE ~EmitResubscribedOk(q, i, g, a)
    BY <1>1, Stays DEF EmitResubscribed
  <1>2. CASE EmitResubscribedOk(q, i, g, a)
    <2> DEFINE e == Event("resubscribed", i, g, 0)
               w == Log(q, e)
               v == Recovered(w, i)
               r == Attempted(v, i, 0)
    <2>1. q.healthy /\ ~q.failed /\ q.subs[i] # None /\ Ledger(q) /\ Sound(q) /\ Tidy(q.flow, q.hist)
      BY <1>2 DEF EmitResubscribedOk, Accepting, Healthy, Good, Alive
    <2>2. e \in EventType /\ e.t = "resubscribed"
      BY EventShape DEF Kinds
    <2>3. Wrote(q, w)
      <3> HIDE DEF e
      <3> QED BY <2>1, <2>2, LogOK
    <2>4. EmitResubscribed(q, i, g, a) = [w EXCEPT !.subs[i].recov = FALSE, !.subs[i].attempt = 0]
      BY <1>2, Zenon DEF EmitResubscribed
    <2> HIDE DEF w, e
    <2>5. Ledger(w) /\ w.flow = q.flow /\ w.subs = q.subs /\ w.healthy /\ ~w.failed /\ Tidy(w.flow, w.hist)
          /\ Continues(q.hist, w.hist) /\ OfLive(q.hist, w.hist, q.flow)
      BY <2>1, <2>3 DEF Wrote
    <2>6. [w EXCEPT !.subs[i].recov = FALSE, !.subs[i].attempt = 0] = r
      <3>1. [w EXCEPT !.subs[i].recov = FALSE] = v
        BY Zenon DEF Recovered, SetEntry, SetSubs
      <3>2. [w EXCEPT !.subs[i].recov = FALSE, !.subs[i].attempt = 0]
              = [[w EXCEPT !.subs[i].recov = FALSE] EXCEPT !.subs[i].attempt = 0]
        BY Zenon
      <3> HIDE DEF v
      <3>3. [v EXCEPT !.subs[i].attempt = 0] = r
        BY Zenon DEF Attempted, SetEntry, SetSubs
      <3> QED BY <3>1, <3>2, <3>3, Zenon
    <2>7. SameEntry(w, i, v)
      BY <2>5, EntryKept
    <2> HIDE DEF v
    <2>8. SameEntry(v, i, r)
      BY <2>7, EntryKept DEF SameEntry
    <2> HIDE DEF r
    <2>9. /\ Ledger(r) /\ r.flow = q.flow /\ r.hist = w.hist /\ r.healthy /\ ~r.failed
          /\ r.subs[i].gen = q.subs[i].gen /\ \A j \in Ids : j # i => r.subs[j] = q.subs[j]
      BY <2>5, <2>7, <2>8 DEF SameEntry
    <2>10. r.subs[i] # None
      BY <2>1, <2>9, NoneEntry DEF Sound
    <2>11. SameStreams(q, r)
      BY <2>1, <2>9, <2>10 DEF SameStreams
    <2>12. Sound(r) /\ Keeps(q, r)
      BY <2>1, <2>5, <2>9, <2>11, SoundSame
    <2>13. Moves(q, r)
      BY <2>1, <2>5, <2>9, <2>12 DEF Moves, Alive
    <2> QED BY <2>4, <2>6, <2>13
  <1> QED BY <1>1, <1>2

\* The first status of a window: the next generation opens.
LEMMA ReopenedOK ==
  ASSUME NEW q, Ledger(q), Sound(q), NEW i \in Ids, NEW g \in 1..MaxGen, g \in Nat, q.subs[i] # None,
         g = q.subs[i].gen + 1, NEW v, Ledger(v), Tidy(v.flow, v.hist), v.subs = q.subs,
         Continues(q.hist, v.hist), OfLive(q.hist, v.hist, q.flow),
         Closed(v.hist, i, q.subs[i].gen),
         DOMAIN v.flow.streams \subseteq DOMAIN q.flow.streams,
         \A k : IsLive(v.flow, k) <=> IsLive(q.flow, k) /\ k # <<i, q.subs[i].gen>>,
         CanAddStream(v.flow, <<i, g>>),
         NEW r, r \in HostRec, r.flow = AddStream(v.flow, <<i, g>>), r.hist = v.hist,
         r.subs[i].gen = g, \A j \in Ids : j # i => r.subs[j] = v.subs[j]
  PROVE  Ledger(r) /\ Tidy(r.flow, r.hist) /\ Sound(r) /\ Keeps(q, r)
  <1> DEFINE k == <<i, g>>
             old == q.subs[i].gen
             f == v.flow
             b == r.flow
  <1>1. /\ FlowOK(f) /\ Settled(f) /\ f.sent = <<>> /\ 0 < f.next /\ DOMAIN f.streams \subseteq Keys
        /\ Barriers(v.hist) /\ Confirmed(v.hist)
    BY DEF Ledger
  <1>2. k \in StreamKeys /\ k \in Keys /\ k \notin DOMAIN f.streams /\ old \in Nat
    BY HostFields DEF StreamKeys, Keys, CanAddStream, Ledger, Entry
  <1>3. /\ FlowOK(b) /\ Settled(b) /\ DOMAIN b.streams = DOMAIN f.streams \cup {k}
        /\ b.streams[k].last = 0 /\ IsLive(b, k)
        /\ \A j \in DOMAIN f.streams : b.streams[j] = f.streams[j]
        /\ b.sent = <<>> /\ b.next = f.next
    BY <1>1, <1>2, AddStreamOK
  <1>4. Ledger(r)
    BY <1>1, <1>2, <1>3 DEF Ledger
  <1>5. /\ Len(q.hist) \in Nat /\ Len(v.hist) \in Nat
        /\ \A j \in 1..Len(q.hist) : v.hist[j] = q.hist[j]
        /\ \A j \in 1..Len(v.hist) : v.hist[j] \in EventType /\ (j \in 1..Len(q.hist) \/ j > Len(q.hist))
    BY ContinuesLen
  <1>6. ASSUME NEW j \in 1..Len(v.hist), v.hist[j].t \in {"report", "retired"}, v.hist[j].i = i
        PROVE  v.hist[j].g # g
    <2> DEFINE c == v.hist[j].g
    <2>1. c \in Nat
      BY <1>5 DEF EventType
    <2>2. c <= old
      <3>1. CASE j \in 1..Len(q.hist)
        BY <1>5, <1>6, <3>1 DEF Sound
      <3>2. CASE j > Len(q.hist)
        <4>1. IsLive(q.flow, <<i, c>>)
          BY <1>6, <3>2 DEF OfLive
        <4> HIDE DEF c
        <4>2. old = c
          BY <4>1, LiveEntry
        <4> QED BY <2>1, <4>2
      <3> QED BY <1>5, <3>1, <3>2
    <2> HIDE DEF c, old
    <2>3. g = old + 1
      BY DEF old
    <2>4. c # g
      BY <1>2, <2>1, <2>2, <2>3
    <2> QED BY <2>4 DEF c
  <1>7. ~Closed(r.hist, i, g)
    BY <1>6 DEF Closed
  <1>8. Tidy(b, r.hist)
    <2> SUFFICES ASSUME NEW j \in DOMAIN b.streams, b.streams[j].live
                 PROVE  /\ ~Closed(r.hist, j[1], j[2])
                        /\ b.streams[j].last = 0 \/ \E l \in 1..Len(r.hist) : IsReport(r.hist[l], j) /\ r.hist[l].n = b.streams[j].last
                        /\ \A l \in 1..Len(r.hist) : IsReport(r.hist[l], j) => r.hist[l].n <= b.streams[j].last
      BY DEF Tidy
    <2>1. CASE j = k
      <3>1. j[1] = i /\ j[2] = g
        BY <2>1
      <3>2. \A l \in 1..Len(r.hist) : ~IsReport(r.hist[l], j)
        BY <1>6, <3>1 DEF IsReport
      <3> QED BY <1>3, <1>7, <2>1, <3>1, <3>2
    <2>2. CASE j # k
      <3>1. j \in DOMAIN f.streams /\ b.streams[j] = f.streams[j]
        BY <1>3, <2>2
      <3> QED BY <3>1 DEF Tidy
    <2> QED BY <2>1, <2>2
  <1>9. g # 0 /\ r.subs[i] # None /\ old <= g
    <2>1. g # 0 /\ old <= g
      BY <1>2
    <2> QED BY <2>1, NoneEntry
  <1>10. IsLive(q.flow, <<i, old>>)
    BY DEF Sound
  <1>11. ASSUME NEW j \in DOMAIN b.streams
         PROVE  IF b.streams[j].live THEN r.subs[j[1]].gen = j[2] ELSE Closed(r.hist, j[1], j[2])
    <2>1. CASE j = k
      <3>1. j[1] = i /\ j[2] = g /\ b.streams[j].live
        BY <1>3, <2>1 DEF IsLive
      <3> QED BY <3>1
    <2>2. CASE j # k
      <3>1. /\ j \in DOMAIN f.streams /\ b.streams[j] = f.streams[j] /\ j \in DOMAIN q.flow.streams
            /\ j[1] \in Ids /\ j = <<j[1], j[2]>>
        <4>1. j \in DOMAIN f.streams /\ b.streams[j] = f.streams[j] /\ j \in Keys
          BY <1>1, <1>3, <2>2
        <4> QED BY <4>1 DEF Keys
      <3>2. CASE f.streams[j].live
        <4>1. IsLive(q.flow, j) /\ j # <<i, old>>
          BY <3>1, <3>2 DEF IsLive
        <4>2. q.subs[j[1]].gen = j[2]
          BY <4>1 DEF Sound, IsLive
        <4>3. j[1] # i
          BY <3>1, <4>1, <4>2
        <4> QED BY <3>1, <3>2, <4>2, <4>3
      <3>3. CASE ~f.streams[j].live
        <4>1. CASE j = <<i, old>>
          BY <3>1, <3>3, <4>1
        <4>2. CASE j # <<i, old>>
          <5>1. ~q.flow.streams[j].live
            BY <3>1, <3>3, <4>2 DEF IsLive
          <5>2. Closed(q.hist, j[1], j[2])
            BY <3>1, <5>1 DEF Sound
          <5> QED BY <3>1, <3>3, <5>2, ClosedStays
        <4> QED BY <4>1, <4>2
      <3> QED BY <3>2, <3>3
    <2> QED BY <2>1, <2>2
  <1>12. \A c : IsLive(f, c) => IsLive(b, c)
    BY <1>3 DEF IsLive
  <1>13. ASSUME NEW j \in Ids, r.subs[j] # None
         PROVE  IsLive(b, <<j, r.subs[j].gen>>) /\ q.subs[j] # None /\ q.subs[j].gen <= r.subs[j].gen
    <2>1. CASE j = i
      BY <1>3, <1>9, <2>1
    <2>2. CASE j # i
      <3>1. r.subs[j] = q.subs[j] /\ q.subs[j] # None
        BY <1>13, <2>2
      <3>2. IsLive(q.flow, <<j, q.subs[j].gen>>) /\ <<j, q.subs[j].gen>> # <<i, old>>
        BY <2>2, <3>1 DEF Sound
      <3>3. q.subs[j].gen \in Nat /\ \A c \in Nat : c <= c
        BY HostFields DEF Ledger, Entry
      <3> QED BY <1>12, <3>1, <3>2, <3>3
    <2> QED BY <2>1, <2>2
  <1>14. \A j \in Ids : r.subs[j].gen = 0 => r.subs[j] = None
    BY <1>9 DEF Sound
  <1>15. ASSUME NEW j, NEW c, IsLive(q.flow, <<j, c>>) PROVE IsLive(b, <<j, c>>) \/ Closed(r.hist, j, c)
    BY <1>12, <1>15
  <1>16. Sound(r) /\ Keeps(q, r)
    <2> HIDE DEF f, k, old
    <2> QED BY <1>4, <1>11, <1>13, <1>14, <1>15, SoundStep
  <1> QED BY <1>4, <1>8, <1>16

-----------------------------------------------------------------------------
(* The status of a retry.                                                  *)

LEMMA LaterStatusOK ==
  ASSUME NEW q, Good(q), ~q.failed, NEW i \in Ids, NEW a \in Nat, q.subs[i] # None,
         NEW e \in EventType, e.t = "resubscribing"
  PROVE  Moves(q, WriteControl(q, e)) /\ Moves(q, Attempted(WriteControl(q, e), i, a))
  <1> DEFINE w == WriteControl(q, e)
             r == Attempted(w, i, a)
  <1>0. Ledger(q) /\ q \in HostRec /\ q.healthy \in BOOLEAN
    BY HostFields DEF Good, Ledger
  <1>1. CASE ~q.healthy
    <2>1. Moves(q, w) /\ w.failed /\ ~w.healthy /\ Ledger(w)
      BY <1>1, FailsControl DEF Moves
    <2> HIDE DEF w
    <2>2. SameEntry(w, i, r)
      BY <2>1, EntryKept
    <2> HIDE DEF r
    <2>3. Moves(q, r)
      BY <1>1, <2>1, <2>2 DEF Moves, Alive, SameEntry
    <2> QED BY <2>1, <2>3 DEF w, r
  <1>2. CASE q.healthy
    <2>1. Sound(q) /\ Tidy(q.flow, q.hist)
      BY <1>2 DEF Good, Alive
    <2>2. w = Log(q, e)
      BY <1>0, <1>2, ControlShape
    <2>3. Wrote(q, w)
      BY <1>0, <2>2, LogOK
    <2> HIDE DEF w
    <2>4. /\ Ledger(w) /\ Tidy(w.flow, w.hist) /\ w.healthy /\ ~w.failed
          /\ Continues(q.hist, w.hist) /\ OfLive(q.hist, w.hist, q.flow) /\ w.flow = q.flow /\ w.subs = q.subs
      BY <1>2, <2>1, <2>3 DEF Wrote
    <2>5. SameEntry(w, i, r)
      BY <2>4, EntryKept
    <2> HIDE DEF r
    <2>6. /\ Ledger(r) /\ r.flow = q.flow /\ r.hist = w.hist /\ r.healthy /\ ~r.failed
          /\ r.subs[i].gen = q.subs[i].gen /\ \A j \in Ids : j # i => r.subs[j] = q.subs[j]
      BY <2>4, <2>5 DEF SameEntry
    <2>7. r.subs[i] # None
      BY <2>1, <2>6, NoneEntry DEF Sound
    <2>8. SameStreams(q, r) /\ SameStreams(q, w)
      BY <2>4, <2>6, <2>7 DEF SameStreams
    <2>9. Sound(r) /\ Keeps(q, r) /\ Sound(w) /\ Keeps(q, w)
      BY <1>0, <2>1, <2>4, <2>6, <2>8, SoundSame
    <2>10. Moves(q, r) /\ Moves(q, w)
      BY <1>2, <2>4, <2>6, <2>9 DEF Moves, Alive
    <2> QED BY <2>10 DEF w, r
  <1> QED BY <1>0, <1>1, <1>2

\* The table entry of the next generation.
Renewed(g, a) == [gen |-> g, recov |-> TRUE, attempt |-> a]

Renew(q, i, g, a) == SetEntry(SetFlow(q, AddStream(q.flow, <<i, g>>)), i, Renewed(g, a))

\* Opening the next generation: RetireStream of the old one, then AddStream.
LEMMA FirstStatusOK ==
  ASSUME NEW q, Good(q), Alive(q), NEW i \in Ids, NEW g \in Nat, g <= MaxGen, NEW a \in Nat, q.subs[i] # None,
         g = q.subs[i].gen + 1, NEW w, Wrote(q, w)
  PROVE  LET r == RetireStream(w, i, q.subs[i].gen)
         IN /\ IsLive(q.flow, <<i, q.subs[i].gen>>)
            /\ Moves(q, SetFailed(r, TRUE))
            /\ ~r.failed /\ CanAddStream(r.flow, <<i, g>>) => Moves(q, Renew(r, i, g, a))
  <1> DEFINE old == q.subs[i].gen
             v == RetireStream(w, i, old)
             d == SetFailed(v, TRUE)
             r == Renew(v, i, g, a)
  <1>1. q.healthy /\ ~q.failed /\ Sound(q) /\ Tidy(q.flow, q.hist) /\ Ledger(q)
    BY DEF Good, Alive
  <1>2. old \in Nat /\ IsLive(q.flow, <<i, old>>)
    <2>1. q.subs[i] \in Entry
      BY <1>1, HostFields DEF Ledger
    <2> QED BY <1>1, <2>1 DEF Entry, Sound
  <1>3. /\ Ledger(w) /\ Tidy(w.flow, w.hist) /\ w.healthy /\ ~w.failed
        /\ Continues(q.hist, w.hist) /\ OfLive(q.hist, w.hist, q.flow) /\ w.flow = q.flow /\ w.subs = q.subs
    BY <1>1 DEF Wrote
  <1>4. Retired(w, i, old, v)
    <2> HIDE DEF old
    <2> QED BY <1>2, <1>3, RetireStreamOK
  <1> HIDE DEF v
  <1>5. Ledger(v) /\ v \in HostRec /\ v.flow \in FlowType /\ v.subs = q.subs
    BY <1>3, <1>4, HostFields DEF Retired, Ledger
  <1>6. v.healthy => Tidy(v.flow, v.hist)
    BY <1>3, <1>4 DEF Retired
  <1>7. Moves(q, d)
    <2>1. Holds(d, v.st, v.flow, v.subs, TRUE, v.healthy, v.hist)
      BY <1>5, HostFailed
    <2> HIDE DEF d
    <2>2. Ledger(d) /\ d.failed
      BY <1>5, <2>1 DEF Holds, Ledger
    <2> QED BY <1>1, <1>6, <2>1, <2>2 DEF Moves, Alive, Holds
  <1>8. ASSUME ~v.failed, CanAddStream(v.flow, <<i, g>>) PROVE Moves(q, r)
    <2> DEFINE k == <<i, g>>
               b == AddStream(v.flow, k)
               c == SetFlow(v, b)
               x == Renewed(g, a)
    <2>0. k \in StreamKeys /\ k \in Keys /\ k \notin DOMAIN v.flow.streams /\ g \in 1..MaxGen
      <3>1. g \in 1..MaxGen
        <4> HIDE DEF old
        <4>1. g = old + 1
          BY DEF old
        <4> QED BY <1>2, <4>1, BoundsAssumption
      <3> QED BY <1>8, <3>1 DEF StreamKeys, Keys, CanAddStream
    <2>1. /\ FlowOK(b) /\ Settled(b) /\ DOMAIN b.streams \subseteq Keys /\ b.sent = <<>> /\ 0 < b.next
          /\ b \in FlowType
      <3> HIDE DEF k
      <3>1. /\ FlowOK(v.flow) /\ Settled(v.flow) /\ v.flow.sent = <<>> /\ 0 < v.flow.next
            /\ DOMAIN v.flow.streams \subseteq Keys
        BY <1>5 DEF Ledger
      <3>2. /\ FlowOK(b) /\ Settled(b) /\ DOMAIN b.streams = DOMAIN v.flow.streams \cup {k}
            /\ b.sent = <<>> /\ b.next = v.flow.next
        BY <2>0, <3>1, AddStreamOK
      <3> HIDE DEF b
      <3> QED BY <2>0, <3>1, <3>2, FlowFields
    <2> HIDE DEF b
    <2>2. Holds(c, v.st, b, v.subs, v.failed, v.healthy, v.hist)
      BY <1>5, <2>1, HostFlow
    <2>3. r = SetEntry(c, i, x)
      BY Zenon DEF Renew, b
    <2> HIDE DEF c, r
    <2>4. Ledger(c)
      BY <1>5, <2>1, <2>2 DEF Ledger, Holds
    <2>5. x \in Entry /\ x.gen = g
      BY DEF Renewed, Entry
    <2> HIDE DEF x
    <2>6. Entered(c, i, x, r)
      BY <2>3, <2>4, <2>5, EntryEntered
    <2>7. /\ Ledger(r) /\ r \in HostRec /\ r.flow = b /\ r.hist = v.hist /\ r.subs[i].gen = g
          /\ r.healthy = v.healthy /\ \A j \in Ids : j # i => r.subs[j] = v.subs[j]
      BY <2>2, <2>5, <2>6 DEF Entered, Holds, Ledger
    <2>8. CASE ~v.healthy
      BY <1>1, <2>7, <2>8 DEF Moves, Alive
    <2>9. CASE v.healthy
      <3>1. /\ Continues(w.hist, v.hist) /\ OfLive(w.hist, v.hist, q.flow) /\ Closed(v.hist, i, old)
            /\ DOMAIN v.flow.streams \subseteq DOMAIN q.flow.streams
            /\ \A j : IsLive(v.flow, j) <=> IsLive(q.flow, j) /\ j # <<i, old>>
        BY <1>3, <1>4, <2>9 DEF Retired
      <3>2. Continues(q.hist, v.hist) /\ OfLive(q.hist, v.hist, q.flow)
        BY <1>3, <3>1, ContinuesTwice, OfLiveTwice
      <3>3. r.flow = AddStream(v.flow, <<i, g>>)
        BY <2>7 DEF b
      <3>4. Tidy(r.flow, r.hist) /\ Sound(r) /\ Keeps(q, r)
        BY <1>1, <1>5, <1>6, <1>8, <2>0, <2>7, <2>9, <3>1, <3>2, <3>3, ReopenedOK
      <3> QED BY <1>1, <2>7, <2>9, <3>4 DEF Moves, Alive
    <2>10. v.healthy \in BOOLEAN
      BY <1>5, HostFields
    <2> QED BY <2>8, <2>9, <2>10
  <1> QED BY <1>2, <1>7, <1>8 DEF v, r, d, old

LEMMA EmitResubscribingOK ==
  ASSUME NEW q, Good(q), NEW i \in Ids, NEW g \in Nat, g <= MaxGen, NEW a \in Nat
  PROVE  Moves(q, EmitResubscribing(q, i, g, a))
  <1> DEFINE e == Event("resubscribing", i, g, 0)
             w == WriteControl(q, e)
             old == q.subs[i].gen
             v == RetireStream(w, i, old)
             r == EmitResubscribing(q, i, g, a)
  <1>0. Ledger(q) /\ q \in HostRec /\ q.healthy \in BOOLEAN
    BY HostFields DEF Good, Ledger
  <1>1. CASE ~Accepting(q) \/ q.subs[i] = None
    <2>1. r = q
      BY <1>1, Zenon DEF EmitResubscribing
    <2> HIDE DEF r
    <2> QED BY <2>1, Stays DEF r
  <1>2. CASE Accepting(q) /\ q.subs[i] # None
    <2>1. ~q.failed
      BY <1>2 DEF Accepting, Healthy
    <2>2. e \in EventType /\ e.t = "resubscribing"
      BY EventShape DEF Kinds
    <2>3. Moves(q, w) /\ Moves(q, Attempted(w, i, a))
      <3> HIDE DEF e
      <3> QED BY <1>2, <2>1, <2>2, LaterStatusOK
    <2>4. CASE LaterStatus(q, i, g, a)
      <3>1. r = [w EXCEPT !.subs[i].attempt = a]
        BY <1>2, <2>4, Zenon DEF EmitResubscribing
      <3> HIDE DEF w
      <3>2. [w EXCEPT !.subs[i].attempt = a] = Attempted(w, i, a)
        BY Zenon DEF Attempted, SetEntry, SetSubs
      <3> HIDE DEF r
      <3>3. r = Attempted(w, i, a)
        BY <3>1, <3>2, Zenon
      <3>4. Moves(q, r)
        BY <2>3, <3>3
      <3> QED BY <3>4 DEF r
    <2>5. CASE ~LaterStatus(q, i, g, a) /\ (~FirstStatus(q, i, g, a) \/ w.failed)
      <3>1. r = w
        BY <1>2, <2>5, Zenon DEF EmitResubscribing
      <3> HIDE DEF r, w
      <3> QED BY <2>3, <3>1 DEF r
    <2>6. CASE ~LaterStatus(q, i, g, a) /\ FirstStatus(q, i, g, a) /\ ~w.failed
      <3>1. q.healthy
        <4> HIDE DEF e
        <4> QED BY <1>0, <2>1, <2>2, <2>6, FailsControl
      <3>2. Wrote(q, w)
        <4> HIDE DEF e
        <4>1. w = Log(q, e)
          BY <1>0, <2>2, <3>1, ControlShape
        <4> HIDE DEF w
        <4> QED BY <1>0, <2>2, <4>1, LogOK
      <3>3. Alive(q) /\ g = old + 1
        BY <2>1, <2>6, <3>1 DEF Alive, FirstStatus
      <3>4. r = IF ~IsLive(q.flow, <<i, old>>) \/ v.failed \/ ~CanAddStream(v.flow, <<i, g>>)
                THEN [v EXCEPT !.failed = TRUE]
                ELSE [v EXCEPT !.flow = AddStream(@, <<i, g>>),
                               !.subs[i] = [gen |-> g, recov |-> TRUE, attempt |-> a]]
        BY <1>2, <2>6, Zenon DEF EmitResubscribing
      <3> HIDE DEF w
      <3>5. /\ IsLive(q.flow, <<i, old>>) /\ Moves(q, SetFailed(v, TRUE))
            /\ ~v.failed /\ CanAddStream(v.flow, <<i, g>>) => Moves(q, Renew(v, i, g, a))
        BY <1>2, <3>2, <3>3, FirstStatusOK
      <3> HIDE DEF v, r
      <3>6. [v EXCEPT !.flow = AddStream(@, <<i, g>>),
                               !.subs[i] = [gen |-> g, recov |-> TRUE, attempt |-> a]] = Renew(v, i, g, a)
        <4> DEFINE c == SetFlow(v, AddStream(v.flow, <<i, g>>))
        <4>1. [v EXCEPT !.flow = AddStream(@, <<i, g>>),
                               !.subs[i] = [gen |-> g, recov |-> TRUE, attempt |-> a]]
                = [c EXCEPT !.subs[i] = [gen |-> g, recov |-> TRUE, attempt |-> a]]
          BY Zenon DEF SetFlow
        <4>2. Renew(v, i, g, a) = [c EXCEPT !.subs[i] = [gen |-> g, recov |-> TRUE, attempt |-> a]]
          BY Zenon DEF Renew, SetEntry, SetSubs, Renewed
        <4> QED BY <4>1, <4>2, Zenon
      <3>7. r = SetFailed(v, TRUE) \/ (~v.failed /\ CanAddStream(v.flow, <<i, g>>) /\ r = Renew(v, i, g, a))
        <4>1. CASE v.failed \/ ~CanAddStream(v.flow, <<i, g>>)
          BY <3>4, <4>1, Zenon DEF SetFailed
        <4>2. CASE ~v.failed /\ CanAddStream(v.flow, <<i, g>>)
          BY <3>4, <3>5, <3>6, <4>2, Zenon
        <4> QED BY <4>1, <4>2
      <3>8. Moves(q, r)
        BY <3>5, <3>7
      <3> QED BY <3>8 DEF r
    <2> QED BY <2>4, <2>5, <2>6
  <1> QED BY <1>1, <1>2 DEF Accepting

-----------------------------------------------------------------------------
(* What bounds the handlers.                                               *)

Bounded == n <= MaxReports /\ (sdk.pc.k = "resubscribing" => sdk.pc.g <= MaxGen)

LEMMA SdkFields ==
  ASSUME Safe, NEW x
  PROVE  [sdk EXCEPT !.work = x].pc = sdk.pc /\ [sdk EXCEPT !.pc = x].pc = x
  BY DEF Safe, Shape, SdkType

\* The handler is set to x.
LEMMA SetsPc ==
  ASSUME Safe, NEW x, sdk' = [sdk EXCEPT !.pc = x]
  PROVE  sdk'.pc = x
  BY DEF Safe, Shape, SdkType

LEMMA FailingPc ==
  ASSUME NEW s, NEW i, NEW w, NEW then, Failing(s, i, w, then)
  PROVE  sdk'.pc.k # "resubscribing"
  <1>1. CASE s.failEm
    BY <1>1 DEF Failing, Loop
  <1>2. CASE ~s.failEm
    BY <1>2 DEF Failing, Loop
  <1> QED BY <1>1, <1>2

LEMMA WorkBounded ==
  ASSUME Safe, Bounded, n' = n, sdk' = sdk \/ \E x : sdk' = [sdk EXCEPT !.work = x]
  PROVE  Bounded'
  <1>1. sdk'.pc = sdk.pc
    BY SdkFields
  <1> QED BY <1>1 DEF Bounded

LEMMA PcBounded ==
  ASSUME Safe, Bounded, n' = n, sdk'.pc.k # "resubscribing"
  PROVE  Bounded'
  BY DEF Bounded

LEMMA CloseBounded ==
  ASSUME Safe, Bounded, n' = n, NEW g, NEW q, Close(g, q) \/ Drop
  PROVE  Bounded'
  <1>1. sdk' = sdk \/ \E x : sdk' = [sdk EXCEPT !.work = x]
    BY Zenon DEF Close, Drop, Schedule
  <1> QED BY <1>1, WorkBounded

LEMMA InputBounded ==
  ASSUME Safe, Bounded, InputThread \/ Terminate
  PROVE  Bounded'
  <1>1. CASE SubscribeReturns
    <2>1. n' = n /\ \E x : sdk' = [sdk EXCEPT !.work = x]
      <3> DEFINE i == Top.id
                 late == ~sub[i].pub
                 w == [sdk EXCEPT !.work = @ \o (IF late THEN Cancels(sub[i], i) ELSE <<>>)]
      <3>1. n' = n /\ (sdk' = [w EXCEPT !.work = Append(@, <<"shutdown", 0>>)] \/ sdk' = w)
        BY <1>1 DEF SubscribeReturns
      <3>2. [w EXCEPT !.work = Append(@, <<"shutdown", 0>>)] = [sdk EXCEPT !.work = Append(w.work, <<"shutdown", 0>>)]
        BY Zenon
      <3> QED BY <3>1, <3>2
    <2> QED BY <2>1, WorkBounded
  <1>2. CASE SubscribeAdd
    <2>1. n' = n /\ (sdk' = sdk \/ \E x : sdk' = [sdk EXCEPT !.work = x])
      BY <1>2, Zenon DEF SubscribeAdd
    <2> QED BY <2>1, WorkBounded
  <1>3. CASE SubscribeReply
    <2>1. n' = n /\ (sdk' = sdk \/ Drop)
      BY <1>3 DEF SubscribeReply
    <2> QED BY <2>1, WorkBounded, CloseBounded
  <1>4. CASE SubscribeActivate
    <2>1. n' = n /\ (sdk' = sdk \/ Close(h, p))
      BY <1>4 DEF SubscribeActivate
    <2> QED BY <2>1, WorkBounded, CloseBounded
  <1>5. CASE SubscribeEmit
    <2>1. n' = n /\ (sdk' = sdk \/ \E x : sdk' = [sdk EXCEPT !.work = x])
      BY <1>5, Zenon DEF SubscribeEmit
    <2> QED BY <2>1, WorkBounded
  <1>6. CASE CancelReturns
    <2>1. n' = n /\ (sdk' = sdk \/ Drop)
      BY <1>6 DEF CancelReturns
    <2> QED BY <2>1, WorkBounded, CloseBounded
  <1>7. CASE CancelRetire
    <2>1. n' = n /\ (sdk' = sdk \/ \E q : Close(h, q))
      BY <1>7, Zenon DEF CancelRetire
    <2> QED BY <2>1, WorkBounded, CloseBounded
  <1>8. CASE InteractionReturns
    <2>1. n' = n /\ (sdk' = sdk \/ Drop)
      BY <1>8 DEF InteractionReturns
    <2> QED BY <2>1, WorkBounded, CloseBounded
  <1>9. CASE CloseFinish
    <2>1. n' = n /\ sdk' = [sdk EXCEPT !.pc = [k |-> "stopped"], !.work = <<>>]
      BY <1>9 DEF CloseFinish
    <2>2. sdk'.pc.k # "resubscribing"
      BY <2>1 DEF Safe, Shape, SdkType
    <2> QED BY <2>1, <2>2, PcBounded
  <1>10. CASE Gone
    BY <1>10, PcBounded DEF Gone
  <1> QED BY <1>1, <1>2, <1>3, <1>4, <1>5, <1>6, <1>7, <1>8, <1>9, <1>10 DEF InputThread, Terminate, Exit

LEMMA PeerBounded ==
  ASSUME Safe, Bounded, Peer
  PROVE  Bounded'
  <1>1. CASE FlowOpen \/ StartInteraction \/ (\E seq \in 1..MaxReports : ReportAck(seq))
             \/ (\E i \in Ids, g \in 1..MaxGen : CancelRetired(i, g))
    BY <1>1, WorkBounded DEF FlowOpen, StartInteraction, ReportAck, CancelRetired
  <1>2. CASE Open \/ CloseRequest \/ MalformedLine \/ BadAcknowledgement \/ LoopEnds
    <2>1. n' = n /\ (sdk' = sdk \/ \E g, q : Close(g, q))
      BY <1>2, Zenon DEF Open, CloseRequest, MalformedLine, BadAcknowledgement, LoopEnds
    <2> QED BY <2>1, WorkBounded, CloseBounded
  <1>3. CASE EndOfInput
    <2>1. n' = n /\ (sdk' = sdk \/ \E g : Close(g, p))
      BY <1>3, Zenon DEF EndOfInput
    <2> QED BY <2>1, WorkBounded, CloseBounded
  <1>4. ASSUME NEW i \in Ids, StartSubscribe(i) PROVE Bounded'
    <2>1. n' = n /\ \E x : sdk' = [sdk EXCEPT !.work = x]
      BY <1>4, Zenon DEF StartSubscribe, Schedule
    <2> QED BY <2>1, WorkBounded
  <1>5. ASSUME NEW i \in Ids, NEW g \in 1..MaxGen, StartCancel(i, g) PROVE Bounded'
    <2>1. n' = n /\ (sdk' = sdk \/ \E x : sdk' = [sdk EXCEPT !.work = x])
      BY <1>5, Zenon DEF StartCancel
    <2> QED BY <2>1, WorkBounded
  <1> QED BY <1>1, <1>2, <1>3, <1>4, <1>5 DEF Peer

LEMMA SdkBounded ==
  ASSUME Safe, Bounded, SdkWork \/ Device
  PROVE  Bounded'
  <1>1. ASSUME NEW i \in Ids, RunStart(i) \/ RunCancel(i) \/ RunReap(i) \/ RunShutdown \/ Connected(i) PROVE Bounded'
    <2>1. n' = n /\ (sdk' = sdk \/ \E x : sdk' = [sdk EXCEPT !.work = x])
      BY <1>1, Zenon DEF RunStart, RunCancel, RunReap, RunShutdown, Connected, SetupFails
    <2> QED BY <2>1, WorkBounded
  <1>2. CASE RunShutdown
    <2>1. n' = n /\ \E x : sdk' = [sdk EXCEPT !.work = x]
      BY <1>2, Zenon DEF RunShutdown
    <2> QED BY <2>1, WorkBounded
  <1>3. CASE FailEmit
    <2>1. n' = n /\ sdk'.pc.k # "resubscribing"
      BY <1>3 DEF FailEmit, Loop
    <2> QED BY <2>1, PcBounded
  <1>4. CASE ClientDone
    BY <1>4, PcBounded DEF ClientDone, Loop
  <1>5. CASE ReportEnd
    <2>1. n' = n /\ \E x, y, z : sdk' = [sdk EXCEPT !.pc = [k |-> "emit", id |-> x, g |-> y, reps |-> z]]
      BY <1>5, Zenon DEF ReportEnd
    <2> QED BY <2>1, SdkFields, PcBounded
  <1>6. CASE Emit
    <2>1. sdk.pc \in PcType /\ sdk.pc.k = "emit" /\ n' = n
      BY <1>6, Running DEF Emit
    <2>2. sdk.pc = [k |-> "emit", id |-> sdk.pc.id, g |-> sdk.pc.g, reps |-> sdk.pc.reps]
      BY <2>1 DEF PcType, IdleType, BusyType
    <2>3. \/ sdk' = [sdk EXCEPT !.pc = Loop]
          \/ sdk' = [sdk EXCEPT !.pc = [sdk.pc EXCEPT !.reps = Tail(sdk.pc.reps)]]
          \/ \E w : sdk' = [pc |-> Loop, work |-> w]
      BY <1>6, Zenon DEF Emit
    <2>4. [sdk.pc EXCEPT !.reps = Tail(sdk.pc.reps)].k = "emit"
      <3> DEFINE z == sdk.pc
                 x == Tail(sdk.pc.reps)
      <3>1. z = [k |-> "emit", id |-> z.id, g |-> z.g, reps |-> z.reps]
        BY <2>2
      <3> HIDE DEF z, x
      <3>2. [z EXCEPT !.reps = x] = [k |-> "emit", id |-> z.id, g |-> z.g, reps |-> x]
        BY <3>1, EmitRest, Zenon
      <3>3. [z EXCEPT !.reps = x].k = "emit"
        BY <3>2
      <3> QED BY <3>3 DEF z, x
    <2>5. sdk'.pc.k # "resubscribing"
      <3>1. CASE sdk' = [sdk EXCEPT !.pc = Loop]
        BY <3>1, SetsPc DEF Loop
      <3>2. CASE sdk' = [sdk EXCEPT !.pc = [sdk.pc EXCEPT !.reps = Tail(sdk.pc.reps)]]
        <4>1. sdk'.pc = [sdk.pc EXCEPT !.reps = Tail(sdk.pc.reps)]
          BY <3>2, SetsPc, Zenon
        <4> QED BY <2>4, <4>1
      <3>3. CASE \E w : sdk' = [pc |-> Loop, work |-> w]
        BY <3>3 DEF Loop
      <3> QED BY <2>3, <3>1, <3>2, <3>3
    <2> QED BY <2>1, <2>5, PcBounded
  <1>7. CASE StatusResubscribed
    <2>1. n' = n /\ \/ \E x, y, z : sdk' = [sdk EXCEPT !.pc = [k |-> "emit", id |-> x, g |-> y, reps |-> z]]
                    \/ \E s, i : Failing(s, i, sdk.work, "loop")
      BY <1>7, Zenon DEF StatusResubscribed
    <2>2. CASE \E x, y, z : sdk' = [sdk EXCEPT !.pc = [k |-> "emit", id |-> x, g |-> y, reps |-> z]]
      <3>1. \E x, y, z : sdk'.pc = [k |-> "emit", id |-> x, g |-> y, reps |-> z]
        BY <2>2, SetsPc, Zenon
      <3> QED BY <2>1, <3>1, PcBounded
    <2>3. CASE \E s, i : Failing(s, i, sdk.work, "loop")
      BY <2>1, <2>3, FailingPc, PcBounded
    <2> QED BY <2>1, <2>2, <2>3
  <1>8. CASE StatusResubscribing
    <2>1. n' = n /\ (sdk' = [sdk EXCEPT !.pc = Loop] \/ \E s, i : Failing(s, i, sdk.work, "loop"))
      BY <1>8, Zenon DEF StatusResubscribing
    <2>2. CASE sdk' = [sdk EXCEPT !.pc = Loop]
      <3>1. sdk'.pc = Loop
        BY <2>2, SetsPc, Zenon
      <3> QED BY <2>1, <3>1, PcBounded DEF Loop
    <2>3. CASE \E s, i : Failing(s, i, sdk.work, "loop")
      BY <2>1, <2>3, FailingPc, PcBounded
    <2> QED BY <2>1, <2>2, <2>3
  <1>9. ASSUME NEW i \in Ids, ReportData(i) PROVE Bounded'
    <2>1. n < MaxReports /\ n' = n + 1 /\ \/ sdk' = [sdk EXCEPT !.pc = [k |-> "end", id |-> i]]
                                          \/ \E s : Failing(s, i, sdk.work, "loop")
      BY <1>9, Zenon DEF ReportData
    <2>2. sdk'.pc.k # "resubscribing"
      <3>1. CASE sdk' = [sdk EXCEPT !.pc = [k |-> "end", id |-> i]]
        <4>1. sdk'.pc = [k |-> "end", id |-> i]
          BY <3>1, SetsPc, Zenon
        <4> QED BY <4>1
      <3>2. CASE \E s : Failing(s, i, sdk.work, "loop")
        BY <3>2, FailingPc
      <3> QED BY <2>1, <3>1, <3>2
    <2> QED BY <2>1, <2>2, BoundsAssumption, Running DEF Bounded
  <1>10. ASSUME NEW i \in Ids, Established(i) PROVE Bounded'
    <2>1. n' = n /\ (sdk' = sdk \/ \E x : sdk' = [sdk EXCEPT !.work = x])
      BY <1>10, Zenon DEF Established
    <2> QED BY <2>1, WorkBounded
  <1>11. ASSUME NEW i \in Ids, EstablishedInvalid(i) PROVE Bounded'
    <2>1. n' = n /\ ((\E x : sdk' = [sdk EXCEPT !.work = x]) \/ \E s : Failing(s, i, sdk.work, "loop"))
      BY <1>11, Zenon DEF EstablishedInvalid
    <2> QED BY <2>1, WorkBounded, FailingPc, PcBounded
  <1>12. ASSUME NEW i \in Ids, Reestablished(i) PROVE Bounded'
    <2>1. n' = n /\ \/ \E x, y, z : sdk' = [sdk EXCEPT !.pc = [k |-> "resubscribed", id |-> i, g |-> x, a |-> y, reps |-> z]]
                    \/ \E s : Failing(s, i, sdk.work, "loop")
      BY <1>12, Zenon DEF Reestablished
    <2>2. CASE \E x, y, z : sdk' = [sdk EXCEPT !.pc = [k |-> "resubscribed", id |-> i, g |-> x, a |-> y, reps |-> z]]
      <3>1. \E x, y, z : sdk'.pc = [k |-> "resubscribed", id |-> i, g |-> x, a |-> y, reps |-> z]
        BY <2>2, SetsPc, Zenon
      <3> QED BY <2>1, <3>1, PcBounded
    <2>3. CASE \E s : Failing(s, i, sdk.work, "loop")
      BY <2>1, <2>3, FailingPc, PcBounded
    <2> QED BY <2>1, <2>2, <2>3
  <1>13. ASSUME NEW i \in Ids, ResubscriptionNeeded(i) PROVE Bounded'
    <2>1. n' = n /\ NextGeneration(sub[i]) <= MaxGen
          /\ \/ sdk' = [sdk EXCEPT !.pc = [k |-> "resubscribing", id |-> i,
                                          g |-> NextGeneration(sub[i]), a |-> NextAttempt(sub[i])]]
             \/ \E s : Failing(s, i, sdk.work, "loop")
      BY <1>13, Zenon DEF ResubscriptionNeeded
    <2>2. sdk'.pc.k # "resubscribing" \/ sdk'.pc.g <= MaxGen
      <3> DEFINE pc == [k |-> "resubscribing", id |-> i, g |-> NextGeneration(sub[i]), a |-> NextAttempt(sub[i])]
      <3>1. CASE sdk' = [sdk EXCEPT !.pc = pc]
        <4>1. sdk'.pc = pc
          BY <3>1, SetsPc, Zenon
        <4> QED BY <2>1, <4>1
      <3>2. CASE \E s : Failing(s, i, sdk.work, "loop")
        BY <3>2, FailingPc
      <3> QED BY <2>1, <3>1, <3>2
    <2> QED BY <2>1, <2>2 DEF Bounded
  <1>14. ASSUME NEW i \in Ids, SessionLost(i) \/ RecoveryDeadline(i) PROVE Bounded'
    <2>1. n' = n /\ \E s, then : Failing(s, i, sdk.work, then)
      BY <1>14, Zenon DEF SessionLost, RecoveryDeadline
    <2> QED BY <2>1, FailingPc, PcBounded
  <1> QED BY <1>1, <1>2, <1>3, <1>4, <1>5, <1>6, <1>7, <1>8, <1>9, <1>10, <1>11, <1>12, <1>13, <1>14
          DEF SdkWork, Device

-----------------------------------------------------------------------------
(* The invariant of the streams.                                           *)

Retires(g) == g.phase = "run" /\ Len(g.stack) > 0 /\ g.stack[Len(g.stack)].pc = "retire"

\* The requests of the input thread and the protocol state q.
Served(g, q) == \A j \in 1..Len(g.stack) : Awaits(g.stack[j], q)

Nested(g) == Nests(g.stack) /\ (g.phase # "run" => g.stack = <<>>)

Streams ==
    /\ Ledger(p)
    /\ Alive(p) => Sound(p)
    /\ p.healthy /\ (~p.failed \/ Retires(h)) => Tidy(p.flow, p.hist)
    /\ h.phase = "run" /\ Alive(p) =>
          (\A i \in Ids : ~Begun(sub, i) => Fresh(p, i)) /\ Served(h, p)
    /\ Nested(h)

Sync == Streams /\ Bounded

\* The step from q to r keeps the streams as they are known.
Follows(q, r) ==
    /\ Ledger(r)
    /\ r.healthy => q.healthy
    /\ q.failed => r.failed /\ (r.healthy /\ Tidy(q.flow, q.hist) => Tidy(r.flow, r.hist))
    /\ r.healthy /\ ~q.failed => Tidy(r.flow, r.hist)
    /\ Alive(r) => Alive(q) /\ Sound(r) /\ Keeps(q, r)

\* The step of the input thread from g to k keeps its requests served.
Serves(g, k, q) ==
    /\ Nested(k)
    /\ k.phase = "run" => g.phase = "run" /\ (Alive(q) => Served(k, q))
    /\ Retires(k) => Retires(g) \/ ~q.failed

LEMMA MovesFollows ==
  ASSUME NEW q, Ledger(q), NEW r, Moves(q, r)
  PROVE  Follows(q, r)
  BY DEF Moves, Follows, Alive

LEMMA KeepsServed ==
  ASSUME NEW g, Safe, NEW q, NEW r, Keeps(q, r), Served(g, q),
         \A j \in 1..Len(g.stack) : g.stack[j].op # "interaction" => g.stack[j].id \in Ids
  PROVE  Served(g, r)
  <1> SUFFICES ASSUME NEW j \in 1..Len(g.stack) PROVE Awaits(g.stack[j], r)
    BY DEF Served
  <1>1. Awaits(g.stack[j], q)
    BY DEF Served
  <1> QED BY <1>1 DEF Awaits, Keeps

LEMMA StreamsStep ==
  ASSUME Safe, Safe', Carried, Streams, Follows(p, p'), Serves(h, h', p)
  PROVE  Streams'
  <1>0. Ledger(p) /\ p \in HostRec /\ p.failed \in BOOLEAN
    BY HostFields DEF Streams, Ledger
  <1>1. Ledger(p') /\ (Alive(p') => Sound(p')) /\ Nested(h')
    BY DEF Follows, Serves
  <1>2. ASSUME p'.healthy, ~p'.failed \/ Retires(h') PROVE Tidy(p'.flow, p'.hist)
    <2>1. CASE ~p.failed
      BY <1>2, <2>1 DEF Follows
    <2>2. CASE p.failed
      <3>1. Retires(h) /\ p.healthy
        BY <1>2, <2>2 DEF Follows, Serves
      <3>2. Tidy(p.flow, p.hist)
        BY <3>1 DEF Streams
      <3> QED BY <1>2, <2>2, <3>2 DEF Follows
    <2> QED BY <1>0, <2>1, <2>2
  <1>3. ASSUME h'.phase = "run", Alive(p')
        PROVE  (\A i \in Ids : ~Begun(sub', i) => Fresh(p', i)) /\ Served(h', p')
    <2>1. h.phase = "run" /\ Alive(p) /\ Keeps(p, p') /\ Served(h', p)
      BY <1>3 DEF Follows, Serves
    <2>2. \A i \in Ids : ~Begun(sub, i) => Fresh(p, i)
      BY <2>1 DEF Streams
    <2>3. \A i \in Ids : ~Begun(sub', i) => Fresh(p', i)
      BY <1>3, <2>1, <2>2 DEF Keeps, Carried
    <2>4. \A j \in 1..Len(h'.stack) : h'.stack[j].op # "interaction" => h'.stack[j].id \in Ids
      BY <1>3 DEF Safe, Custody, AllKnown, Known
    <2>5. Served(h', p')
      BY <2>1, <2>4, KeepsServed
    <2> QED BY <2>3, <2>5
  <1> QED BY <1>1, <1>2, <1>3 DEF Streams

-----------------------------------------------------------------------------
(* The stack of requests.                                                  *)

LEMMA ServesSame ==
  ASSUME Streams, h'.stack = h.stack, h'.phase = h.phase
  PROVE  Serves(h, h', p)
  <1>1. Nested(h) /\ Nested(h') /\ (Retires(h') => Retires(h))
    BY DEF Streams, Nested, Retires
  <1>2. h.phase = "run" /\ Alive(p) => Served(h', p)
    BY DEF Streams, Served
  <1> QED BY <1>1, <1>2 DEF Serves

LEMMA ServesNone ==
  ASSUME h.phase = "run" \/ h'.phase # "run", h'.stack = <<>>
  PROVE  Serves(h, h', p) /\ ~Retires(h')
  <1>1. Len(h'.stack) = 0
    OBVIOUS
  <1>2. Nested(h') /\ ~Retires(h') /\ Served(h', p)
    BY <1>1 DEF Nested, Nests, Retires, Served
  <1> QED BY <1>2 DEF Serves

LEMMA ServesPop ==
  ASSUME Safe, Streams, h.phase = "run", Depth > 0, h'.stack = Front(h.stack), h'.phase = "run"
  PROVE  Serves(h, h', p) /\ ~Retires(h')
  <1> DEFINE st == h.stack
             m == Len(st) - 1
             v == SubSeq(st, 1, m)
  <1>1. st \in Seq(FrameType) /\ Len(st) \in Nat /\ Len(st) > 0
    BY DEF Safe, Shape, HostType, Depth
  <1>2. v = Front(st) /\ m \in 0..Len(st)
    BY <1>1 DEF Front
  <1> HIDE DEF m
  <1>3. v \in Seq(FrameType) /\ Len(v) = m /\ \A j \in 1..m : v[j] = st[j]
    BY <1>1, <1>2, Prefix
  <1>4. /\ Len(st) <= 2 /\ (Len(st) = 2 => st[1].pc = "wait" /\ st[1].op # "cancel")
        /\ \A j \in 1..Len(st) : st[j].pc = "add" => st[j].op = "subscribe"
    BY DEF Streams, Nested, Nests
  <1>5. m = 0 \/ (m = 1 /\ Len(st) = 2)
    <2> DEFINE d == Len(st)
    <2>1. d \in Nat /\ d > 0 /\ d <= 2 /\ m = d - 1
      BY <1>1, <1>4 DEF m
    <2> HIDE DEF d
    <2>2. m = 0 \/ (m = 1 /\ d = 2)
      BY <2>1
    <2> QED BY <2>2 DEF d
  <1> HIDE DEF v, st
  <1>6. h'.stack = v
    BY <1>2 DEF st
  <1>7. \A j \in 1..m : j \in 1..Len(st)
    BY <1>1, <1>2
  <1>8. Nested(h')
    BY <1>3, <1>4, <1>5, <1>6, <1>7 DEF Nested, Nests
  <1>9. ~Retires(h')
    <2>1. CASE m = 0
      BY <1>3, <1>6, <2>1 DEF Retires
    <2>2. CASE m = 1 /\ Len(st) = 2
      <3>1. Len(v) = 1 /\ v[1] = st[1]
        BY <1>3, <2>2
      <3>2. h'.stack[Len(h'.stack)].pc = "wait"
        BY <1>4, <1>6, <2>2, <3>1
      <3> QED BY <3>2 DEF Retires
    <2> QED BY <1>5, <2>1, <2>2
  <1>10. Alive(p) => Served(h', p)
    BY <1>3, <1>6, <1>7 DEF Streams, Served, st
  <1> QED BY <1>8, <1>9, <1>10 DEF Serves

\* The top request goes on as f.
LEMMA ServesTop ==
  ASSUME Safe, Streams, h.phase = "run", Depth > 0, NEW f, h'.stack = [h.stack EXCEPT ![Depth] = f],
         h'.phase = "run", f.pc = "add" => f.op = "subscribe", f.op = "cancel" <=> Top.op = "cancel",
         Alive(p) => Awaits(f, p), f.pc = "retire" => ~p.failed
  PROVE  Serves(h, h', p)
  <1> DEFINE st == h.stack
             d == Len(st)
             v == [st EXCEPT ![d] = f]
  <1>1. st \in Seq(FrameType) /\ d \in Nat /\ d > 0 /\ d \in 1..d /\ h'.stack = v /\ Top = st[d]
    BY DEF Safe, Shape, HostType, Depth, Top
  <1>2. Len(v) = d /\ v[d] = f /\ \A j \in 1..d : j # d => v[j] = st[j]
    BY <1>1
  <1>3. /\ d <= 2 /\ (d = 2 => st[1].pc = "wait" /\ st[1].op # "cancel" /\ st[2].op = "cancel")
        /\ \A j \in 1..d : st[j].pc = "add" => st[j].op = "subscribe"
    BY DEF Streams, Nested, Nests
  <1> HIDE DEF v, st, d
  <1>4. Nests(v)
    <2>1. d = 2 => v[1] = st[1]
      BY <1>2
    <2>2. d = 2 => v[2].op = "cancel"
      BY <1>1, <1>2, <1>3
    <2>3. \A j \in 1..d : v[j].pc = "add" => v[j].op = "subscribe"
      BY <1>2, <1>3
    <2> QED BY <1>2, <1>3, <2>1, <2>2, <2>3 DEF Nests
  <1>5. Alive(p) => Served(h', p)
    <2>1. Alive(p) => \A j \in 1..d : Awaits(st[j], p)
      BY DEF Streams, Served, st, d
    <2>2. Alive(p) => \A j \in 1..d : Awaits(v[j], p)
      BY <1>2, <2>1
    <2> QED BY <1>1, <1>2, <2>2 DEF Served
  <1>6. Retires(h') => ~p.failed
    BY <1>1, <1>2 DEF Retires
  <1> QED BY <1>1, <1>4, <1>5, <1>6 DEF Serves, Nested

LEMMA ServesPush ==
  ASSUME Safe, Streams, h.phase = "run", NEW f \in FrameType, h'.stack = Append(h.stack, f),
         h'.phase = "run", Depth = 0 \/ (Depth = 1 /\ Waiting /\ Top.op # "cancel" /\ f.op = "cancel"),
         f.pc \notin {"add", "retire"}, Alive(p) => Awaits(f, p)
  PROVE  Serves(h, h', p)
  <1> DEFINE st == h.stack
             d == Len(st)
             v == Append(st, f)
  <1>1. st \in Seq(FrameType) /\ d \in Nat /\ h'.stack = v
    BY DEF Safe, Shape, HostType
  <1>2. Len(v) = d + 1 /\ v[d + 1] = f /\ \A j \in 1..d : v[j] = st[j]
    BY <1>1
  <1>3. d = 0 \/ (d = 1 /\ st[1].pc = "wait" /\ st[1].op # "cancel" /\ f.op = "cancel")
    BY DEF Depth, Waiting, Top
  <1>4. \A j \in 1..d : st[j].pc = "add" => st[j].op = "subscribe"
    BY DEF Streams, Nested, Nests
  <1>5. \A j \in 1..(d + 1) : j \in 1..d \/ j = d + 1
    BY <1>1
  <1> HIDE DEF v, st
  <1>6. Nests(v)
    <2>1. \A j \in 1..(d + 1) : v[j].pc = "add" => v[j].op = "subscribe"
      BY <1>2, <1>4, <1>5
    <2>2. d = 1 => v[1] = st[1] /\ v[2] = f
      BY <1>2
    <2>3. Len(v) <= 2 /\ (Len(v) = 2 => d = 1)
      BY <1>1, <1>2, <1>3
    <2> QED BY <1>2, <1>3, <2>1, <2>2, <2>3 DEF Nests
  <1>7. Alive(p) => Served(h', p)
    <2>1. Alive(p) => \A j \in 1..d : Awaits(st[j], p)
      BY DEF Streams, Served, st
    <2> HIDE DEF d
    <2>2. Alive(p) => \A j \in 1..(d + 1) : Awaits(v[j], p)
      BY <1>2, <1>5, <2>1
    <2> QED BY <1>1, <1>2, <2>2 DEF Served
  <1>8. ~Retires(h')
    BY <1>1, <1>2 DEF Retires
  <1> QED BY <1>1, <1>6, <1>7, <1>8 DEF Serves, Nested
-----------------------------------------------------------------------------
(* Steps that change none of the streams.                                  *)

\* r is q but for its stage, the writer's counters and a failure.
Same(q, r) ==
    /\ r \in HostRec /\ r.flow = q.flow /\ r.subs = q.subs /\ r.hist = q.hist
    /\ q.failed => r.failed
    /\ r.healthy => q.healthy

LEMMA FollowsSame ==
  ASSUME NEW q, NEW v, Follows(q, v), NEW r, Same(v, r)
  PROVE  Follows(q, r)
  <1>1. Ledger(r)
    BY DEF Follows, Ledger, Same
  <1>2. Alive(r) => Alive(v)
    BY DEF Alive, Same
  <1>3. Sound(v) => Sound(r)
    BY DEF Sound, Same
  <1>4. Keeps(q, v) => Keeps(q, r)
    BY DEF Keeps, Same, Fresh
  <1>5. Tidy(v.flow, v.hist) => Tidy(r.flow, r.hist)
    BY DEF Same
  <1>6. (r.healthy => v.healthy) /\ (v.failed => r.failed)
    BY DEF Same
  <1> QED BY <1>1, <1>2, <1>3, <1>4, <1>5, <1>6 DEF Follows

LEMMA FollowsSelf ==
  ASSUME Streams
  PROVE  Ledger(p) /\ Good(p) /\ p \in HostRec /\ Follows(p, p)
  <1>1. Good(p) /\ Ledger(p) /\ p \in HostRec
    BY DEF Streams, Good, Alive, Ledger
  <1> QED BY <1>1, Stays, MovesFollows

LEMMA StageFollows ==
  ASSUME NEW q, NEW v, Follows(q, v), NEW x \in Stages
  PROVE  Follows(q, SetSt(v, x))
  <1> DEFINE r == SetSt(v, x)
  <1>1. v \in HostRec
    BY DEF Follows, Ledger
  <1>2. Holds(r, x, v.flow, v.subs, v.failed, v.healthy, v.hist)
    BY <1>1, HostSt
  <1> HIDE DEF r
  <1>3. Same(v, r)
    BY <1>2 DEF Holds, Same
  <1>4. Follows(q, r)
    BY <1>3, FollowsSame
  <1> QED BY <1>4 DEF r

SetWritten(q, x) == [q EXCEPT !.written = x]
SetCounting(q, x) == [q EXCEPT !.counting = x]

LEMMA WriterShape ==
  ASSUME NEW q \in HostRec
  PROVE  /\ \A x \in Int : Same(q, SetWritten(q, x)) /\ Same(q, SetFrames(q, x))
         /\ \A b \in BOOLEAN : Same(q, SetCounting(q, b))
         /\ q.written + 1 \in Int /\ q.frames - 1 \in Int
  <1>1. ASSUME NEW x \in Int PROVE Same(q, SetWritten(q, x))
    BY DEF Same, SetWritten, HostRec
  <1>2. ASSUME NEW x \in BOOLEAN PROVE Same(q, SetCounting(q, x))
    BY DEF Same, SetCounting, HostRec
  <1>3. ASSUME NEW x \in Int PROVE Same(q, SetFrames(q, x))
    BY DEF Same, SetFrames, HostRec
  <1> QED BY <1>1, <1>2, <1>3 DEF HostRec

LEMMA QuietStreams ==
  ASSUME Safe, Safe', Carried, Streams, h' = h, Follows(p, p')
  PROVE  Streams'
  BY ServesSame, StreamsStep

LEMMA WriterStreams ==
  ASSUME Safe, Safe', Carried, Streams, Writer \/ WriteFails
  PROVE  Streams'
  <1>1. h' = h
    BY DEF Writer, WriteReport, WriteCounted, WriteFails
  <1>2. p \in HostRec /\ Follows(p, p)
    BY FollowsSelf
  <1>3. CASE WriteReport
    <2> DEFINE v == SetWritten(p, p.written + 1)
               r == SetCounting(v, TRUE)
    <2>1. p' = r
      BY <1>3, Zenon DEF WriteReport, SetWritten, SetCounting
    <2>2. p.written + 1 \in Int
      BY <1>2, WriterShape
    <2>3. Same(p, v)
      BY <1>2, <2>2, WriterShape
    <2> HIDE DEF v
    <2>4. Same(v, r)
      <3>1. v \in HostRec
        BY <2>3 DEF Same
      <3> QED BY <3>1, WriterShape
    <2> HIDE DEF r
    <2>5. Follows(p, r)
      BY <1>2, <2>3, <2>4, FollowsSame
    <2> QED BY <1>1, <2>1, <2>5, QuietStreams
  <1>4. CASE WriteCounted
    <2> DEFINE v == SetCounting(p, FALSE)
               r == SetFrames(v, p.frames - 1)
    <2>1. p' = r
      BY <1>4, Zenon DEF WriteCounted, SetFrames, SetCounting
    <2>2. p.frames - 1 \in Int
      BY <1>2, WriterShape
    <2>3. Same(p, v)
      BY <1>2, WriterShape
    <2> HIDE DEF v
    <2>4. Same(v, r)
      <3>1. v \in HostRec
        BY <2>3 DEF Same
      <3> QED BY <2>2, <3>1, WriterShape
    <2> HIDE DEF r
    <2>5. Follows(p, r)
      BY <1>2, <2>3, <2>4, FollowsSame
    <2> QED BY <1>1, <2>1, <2>5, QuietStreams
  <1>5. CASE WriteFails
    <2> DEFINE r == SetHealthy(p, FALSE)
    <2>1. p' = r
      BY <1>5 DEF WriteFails, SetHealthy
    <2>2. Holds(r, p.st, p.flow, p.subs, p.failed, FALSE, p.hist)
      BY <1>2, HostHealthy
    <2> HIDE DEF r
    <2>3. Same(p, r)
      BY <2>2 DEF Same, Holds
    <2>4. Follows(p, r)
      BY <1>2, <2>3, FollowsSame
    <2> QED BY <1>1, <2>1, <2>4, QuietStreams
  <1> QED BY <1>3, <1>4, <1>5 DEF Writer

LEMMA SdkStreams ==
  ASSUME Safe, Safe', Carried, Sync, SdkWork \/ Device
  PROVE  Streams'
  <1>1. Streams /\ Bounded
    BY DEF Sync
  <1>2. h' = h
    BY DEF SdkWork, Device, RunStart, RunCancel, RunReap, RunShutdown, FailEmit, ClientDone, ReportEnd, Emit,
           StatusResubscribed, StatusResubscribing, Connected, ReportData, Established, EstablishedInvalid,
           Reestablished, ResubscriptionNeeded, SessionLost, RecoveryDeadline
  <1>3. Good(p) /\ Ledger(p) /\ Follows(p, p)
    BY <1>1, FollowsSelf
  <1>4. sdk.pc \in PcType
    BY Running
  <1>5. Follows(p, p')
    <2>1. CASE FailEmit
      <3> DEFINE i == sdk.pc.id
                 g == sdk.pc.g
      <3>1. i \in Ids /\ g \in Nat
        BY <1>4, <2>1, HandlerShape DEF FailEmit
      <3>2. p' = EmitFailure(p, i, g) \/ p' = p
        BY <2>1 DEF FailEmit
      <3> HIDE DEF i, g
      <3>3. Moves(p, EmitFailure(p, i, g))
        BY <1>3, <3>1, EmitFailureOK
      <3> QED BY <1>3, <3>2, <3>3, MovesFollows
    <2>2. CASE Emit
      <3> DEFINE i == sdk.pc.id
                 g == sdk.pc.g
                 s == sdk.pc.reps
      <3>1. i \in Ids /\ g \in Nat /\ s \in Reports
        BY <1>4, <2>2, HandlerShape DEF Emit
      <3>2. p' = p \/ (s # <<>> /\ p' = EmitReport(p, i, g, Head(s)))
        BY <2>2 DEF Emit
      <3> HIDE DEF i, g, s
      <3>3. s # <<>> => Head(s) \in Nat
        BY <3>1, ReportsShape
      <3>4. s # <<>> => Moves(p, EmitReport(p, i, g, Head(s)))
        BY <1>3, <3>1, <3>3, EmitReportOK
      <3> QED BY <1>3, <3>2, <3>4, MovesFollows
    <2>3. CASE StatusResubscribed
      <3> DEFINE i == sdk.pc.id
                 g == sdk.pc.g
                 a == sdk.pc.a
      <3>1. i \in Ids /\ g \in Nat /\ a \in Nat
        BY <1>4, <2>3, HandlerShape DEF StatusResubscribed
      <3>2. p' = EmitResubscribed(p, i, g, a)
        BY <2>3 DEF StatusResubscribed
      <3> HIDE DEF i, g, a
      <3> QED BY <1>3, <3>1, <3>2, EmitResubscribedOK, MovesFollows
    <2>4. CASE StatusResubscribing
      <3> DEFINE i == sdk.pc.id
                 g == sdk.pc.g
                 a == sdk.pc.a
      <3>1. i \in Ids /\ g \in Nat /\ a \in Nat
        BY <1>4, <2>4, HandlerShape DEF StatusResubscribing
      <3>2. p' = EmitResubscribing(p, i, g, a) /\ g <= MaxGen
        BY <1>1, <2>4 DEF StatusResubscribing, Bounded
      <3> HIDE DEF i, g, a
      <3> QED BY <1>3, <3>1, <3>2, EmitResubscribingOK, MovesFollows
    <2>5. p' = p \/ FailEmit \/ Emit \/ StatusResubscribed \/ StatusResubscribing
      BY DEF SdkWork, Device, RunStart, RunCancel, RunReap, RunShutdown, ClientDone, ReportEnd,
             Connected, ReportData, Established, EstablishedInvalid,
             Reestablished, ResubscriptionNeeded, SessionLost, RecoveryDeadline
    <2> QED BY <1>3, <2>1, <2>2, <2>3, <2>4, <2>5
  <1> QED BY <1>1, <1>2, <1>5, QuietStreams
-----------------------------------------------------------------------------
(* The requests and the end of the input.                                  *)

\* h is left with the stack st, in phase ph.
Leaves(st, ph) == h'.stack = st /\ h'.phase = ph

LEMMA LeavesMade ==
  ASSUME NEW g \in HostType, NEW st, NEW ph,
         \/ h' = [g EXCEPT !.stack = st] /\ ph = g.phase
         \/ h' = [g EXCEPT !.stack = st, !.closeReq = TRUE, !.running = FALSE] /\ ph = g.phase
         \/ h' = [g EXCEPT !.stack = st, !.running = FALSE, !.phase = ph]
  PROVE  Leaves(st, ph)
  <1>1. CASE h' = [g EXCEPT !.stack = st] /\ ph = g.phase
    BY <1>1 DEF HostType, Leaves
  <1>2. CASE h' = [g EXCEPT !.stack = st, !.closeReq = TRUE, !.running = FALSE] /\ ph = g.phase
    BY <1>2 DEF HostType, Leaves
  <1>3. CASE h' = [g EXCEPT !.stack = st, !.running = FALSE, !.phase = ph]
    BY <1>3 DEF HostType, Leaves
  <1> QED BY <1>1, <1>2, <1>3

LEMMA CloseStreams ==
  ASSUME Safe, Safe', Carried, Streams, h.phase = "run", NEW g \in HostType, g.stack = h.stack,
         g.phase = "run", NEW q, Follows(p, q), Close(g, q)
  PROVE  Streams'
  <1>1. CASE Len(g.stack) > 1
    <2>1. h' = [g EXCEPT !.stack = Front(g.stack), !.closeReq = TRUE, !.running = FALSE] /\ p' = SetSt(q, "Closing")
      BY <1>1, Zenon DEF Close, Pop, SetSt
    <2>2. Leaves(Front(h.stack), "run")
      BY <2>1, LeavesMade
    <2>3. Depth > 0
      BY <1>1 DEF Depth, Safe, Shape, HostType
    <2>4. Serves(h, h', p)
      BY <2>2, <2>3, ServesPop DEF Leaves
    <2>5. Follows(p, p')
      BY <2>1, StageFollows DEF Stages
    <2> QED BY <2>4, <2>5, StreamsStep
  <1>2. CASE ~(Len(g.stack) > 1)
    <2>1. h' = [g EXCEPT !.stack = <<>>, !.running = FALSE, !.phase = "closing"] /\ p' = SetSt(q, "Closed")
      BY <1>2, Zenon DEF Close, SetSt
    <2>2. Leaves(<<>>, "closing")
      BY <2>1, LeavesMade
    <2>3. Serves(h, h', p)
      BY <2>2, ServesNone DEF Leaves
    <2>4. Follows(p, p')
      BY <2>1, StageFollows DEF Stages
    <2> QED BY <2>3, <2>4, StreamsStep
  <1> QED BY <1>1, <1>2

LEMMA CloseNow ==
  ASSUME Safe, Safe', Carried, Streams, h.phase = "run", NEW q, Follows(p, q), Close(h, q)
  PROVE  Streams'
  BY CloseStreams DEF Safe, Shape

LEMMA DropStreams ==
  ASSUME Safe, Safe', Carried, Streams, h.phase = "run", Depth > 0, Drop
  PROVE  Streams'
  <1>1. CASE Depth = 1
    BY <1>1, CloseNow, FollowsSelf DEF Drop
  <1>2. CASE Depth # 1
    <2>0. h \in HostType
      BY DEF Safe, Shape
    <2>1. h' = [h EXCEPT !.stack = Front(h.stack), !.closeReq = TRUE, !.running = FALSE] /\ p' = SetSt(p, "Closing")
      BY <1>2, Zenon DEF Drop, Pop, SetSt
    <2>2. Leaves(Front(h.stack), "run")
      BY <2>0, <2>1, LeavesMade
    <2>4. Serves(h, h', p)
      BY <2>2, ServesPop DEF Leaves
    <2>5. Follows(p, p')
      BY <2>1, FollowsSelf, StageFollows DEF Stages
    <2> QED BY <2>4, <2>5, StreamsStep
  <1> QED BY <1>1, <1>2

\* The request at the top is answered.
LEMMA PopStreams ==
  ASSUME Safe, Safe', Carried, Streams, h.phase = "run", Depth > 0, h' = Pop(h), Follows(p, p')
  PROVE  Streams'
  <1>1. h \in HostType
    BY DEF Safe, Shape
  <1>2. h' = [h EXCEPT !.stack = Front(h.stack)]
    BY Zenon DEF Pop
  <1>3. Leaves(Front(h.stack), "run")
    BY <1>1, <1>2, LeavesMade
  <1>4. Serves(h, h', p)
    BY <1>3, ServesPop DEF Leaves
  <1> QED BY <1>4, StreamsStep

\* The dispatch loop ends with this request.
LEMMA StopStreams ==
  ASSUME Safe, Safe', Carried, Streams, h.phase = "run", NEW q, Follows(p, q), p' = SetSt(q, "Closed"),
         h' = [h EXCEPT !.stack = <<>>, !.running = FALSE, !.phase = "closing"]
  PROVE  Streams'
  <1>1. h \in HostType
    BY DEF Safe, Shape
  <1>2. Leaves(<<>>, "closing")
    BY <1>1, LeavesMade
  <1>3. Serves(h, h', p)
    BY <1>2, ServesNone DEF Leaves
  <1>4. Follows(p, p')
    BY StageFollows DEF Stages
  <1> QED BY <1>3, <1>4, StreamsStep

LEMMA FailedFollows ==
  ASSUME Streams
  PROVE  Follows(p, SetFailed(p, TRUE))
  <1> DEFINE r == SetFailed(p, TRUE)
  <1>1. p \in HostRec /\ Follows(p, p)
    BY FollowsSelf
  <1>2. Holds(r, p.st, p.flow, p.subs, TRUE, p.healthy, p.hist)
    BY <1>1, HostFailed
  <1> HIDE DEF r
  <1>3. Same(p, r)
    BY <1>2 DEF Same, Holds
  <1>4. Follows(p, r)
    BY <1>1, <1>3, FollowsSame
  <1> QED BY <1>4 DEF r

LEMMA ControlStreams ==
  ASSUME Safe, Safe', Carried, Streams,
         \/ FlowOpen \/ Open \/ CloseRequest \/ MalformedLine \/ BadAcknowledgement \/ LoopEnds
         \/ EndOfInput \/ \E seq \in 1..MaxReports : ReportAck(seq)
  PROVE  Streams'
  <1>1. Good(p) /\ Ledger(p) /\ p \in HostRec /\ Follows(p, p)
    BY FollowsSelf
  <1>2. CASE FlowOpen
    <2>1. h' = h /\ p' = SetSt(p, "AwaitOpen")
      BY <1>2 DEF FlowOpen, SetSt
    <2>2. Follows(p, p')
      BY <1>1, <2>1, StageFollows DEF Stages
    <2> QED BY <2>1, <2>2, QuietStreams
  <1>3. CASE Open
    <2>1. h.phase = "run" /\ ((h' = h /\ p' = SetSt(p, "Open")) \/ Close(h, p))
      BY <1>3 DEF Open, SetSt, CanDispatch
    <2>2. CASE h' = h /\ p' = SetSt(p, "Open")
      <3>1. Follows(p, p')
        BY <1>1, <2>2, StageFollows DEF Stages
      <3> QED BY <2>2, <3>1, QuietStreams
    <2>3. CASE Close(h, p)
      BY <1>1, <2>1, <2>3, CloseNow
    <2> QED BY <2>1, <2>2, <2>3
  <1>4. CASE CloseRequest \/ MalformedLine \/ LoopEnds
    <2>1. h.phase = "run" /\ Close(h, p)
      BY <1>4 DEF CloseRequest, MalformedLine, LoopEnds, CanDispatch
    <2> QED BY <1>1, <2>1, CloseNow
  <1>5. CASE BadAcknowledgement
    <2>1. h.phase = "run" /\ Close(h, SetFailed(p, TRUE))
      BY <1>5 DEF BadAcknowledgement, CanDispatch, SetFailed
    <2> QED BY <2>1, FailedFollows, CloseNow
  <1>6. CASE EndOfInput
    <2>1. h \in HostType /\ h.phase = "run"
      BY <1>6 DEF EndOfInput, Safe, Shape
    <2>2. CASE Depth = 0
      <3> DEFINE g == [h EXCEPT !.eof = TRUE]
      <3>1. Close(g, p)
        BY <1>6, <2>2 DEF EndOfInput
      <3>2. g \in HostType /\ g.stack = h.stack /\ g.phase = "run"
        BY <2>1 DEF HostType
      <3> HIDE DEF g
      <3> QED BY <1>1, <2>1, <3>1, <3>2, CloseStreams
    <2>3. CASE Depth # 0
      <3>1. h' = [h EXCEPT !.eof = TRUE, !.running = FALSE, !.closeReq = TRUE] /\ p' = SetSt(p, "Closing")
        BY <1>6, <2>3 DEF EndOfInput, SetSt
      <3>2. h'.stack = h.stack /\ h'.phase = h.phase
        BY <2>1, <3>1 DEF HostType
      <3>3. Follows(p, p')
        BY <1>1, <3>1, StageFollows DEF Stages
      <3>4. Serves(h, h', p)
        BY <3>2, ServesSame
      <3> QED BY <3>3, <3>4, StreamsStep
    <2> QED BY <2>2, <2>3
  <1>7. ASSUME NEW seq \in 1..MaxReports, ReportAck(seq) PROVE Streams'
    <2>1. h' = h /\ p' = SendReports(p, Acknowledge(p.flow, seq)) /\ ~p.failed /\ CanAcknowledge(p.flow, seq)
      BY <1>7 DEF ReportAck, CanDispatch, Healthy
    <2>2. seq \in Nat
      BY BoundsAssumption
    <2>3. Moves(p, SendReports(p, Acknowledge(p.flow, seq)))
      BY <1>1, <2>1, <2>2, ReportAckOK
    <2>4. Follows(p, p')
      BY <1>1, <2>1, <2>3, MovesFollows
    <2> QED BY <2>1, <2>4, QuietStreams
  <1> QED BY <1>2, <1>3, <1>4, <1>5, <1>6, <1>7
-----------------------------------------------------------------------------
(* The requests of the peer.                                               *)

LEMMA WroteFollows ==
  ASSUME NEW q, Good(q), NEW r, Wrote(q, r)
  PROVE  Follows(q, r)
  <1>1. /\ Ledger(q) /\ Ledger(r) /\ r.flow = q.flow /\ r.subs = q.subs /\ r.failed = q.failed
        /\ r.healthy = q.healthy /\ Continues(q.hist, r.hist) /\ OfLive(q.hist, r.hist, q.flow)
        /\ Tidy(q.flow, q.hist) => Tidy(r.flow, r.hist)
    BY DEF Wrote, Good
  <1>2. SameStreams(q, r)
    BY <1>1 DEF SameStreams
  <1>3. Alive(q) => Sound(q) /\ Tidy(q.flow, q.hist)
    BY DEF Good
  <1>4. Alive(q) => Sound(r) /\ Keeps(q, r)
    BY <1>1, <1>2, <1>3, SoundSame
  <1>5. Alive(r) <=> Alive(q)
    BY <1>1 DEF Alive
  <1> QED BY <1>1, <1>3, <1>4, <1>5 DEF Follows, Alive

\* A control frame that is no barrier, no report and no error.
LEMMA LogFollows ==
  ASSUME Streams, NEW t \in {"subscribed", "cancelled"}, NEW i \in Ids, NEW g \in Nat,
         t = "cancelled" => Closed(p.hist, i, g)
  PROVE  Follows(p, Log(p, Event(t, i, g, 0)))
  <1> DEFINE e == Event(t, i, g, 0)
  <1>1. e \in EventType /\ e.t = t /\ e.i = i /\ e.g = g
    BY EventShape DEF Kinds
  <1> HIDE DEF e
  <1>2. Wrote(p, Log(p, e))
    BY <1>1, FollowsSelf, LogOK
  <1>3. Follows(p, Log(p, e))
    BY <1>2, FollowsSelf, WroteFollows
  <1> QED BY <1>3 DEF e

LEMMA RetiredClosed ==
  ASSUME Sound(p), NEW i, NEW g, IsRetired(p.flow, <<i, g>>)
  PROVE  Closed(p.hist, i, g)
  <1>1. <<i, g>> \in DOMAIN p.flow.streams /\ ~p.flow.streams[<<i, g>>].live
    BY DEF IsRetired
  <1>2. Closed(p.hist, <<i, g>>[1], <<i, g>>[2])
    BY <1>1 DEF Sound
  <1> QED BY <1>2

LEMMA PushStreams ==
  ASSUME Safe, Safe', Carried, Streams, h.phase = "run", NEW f \in FrameType, Push(f), p' = p,
         Depth = 0 \/ (Depth = 1 /\ Waiting /\ Top.op # "cancel" /\ f.op = "cancel"),
         f.pc \notin {"add", "retire"}, Alive(p) => Awaits(f, p)
  PROVE  Streams'
  <1>1. h \in HostType
    BY DEF Safe, Shape
  <1>2. h' = [h EXCEPT !.stack = Append(h.stack, f)]
    BY DEF Push
  <1>3. Leaves(Append(h.stack, f), "run")
    BY <1>1, <1>2, LeavesMade
  <1>4. Serves(h, h', p)
    BY <1>3, ServesPush DEF Leaves
  <1> QED BY <1>4, FollowsSelf, StreamsStep

LEMMA StartStreams ==
  ASSUME Safe, Safe', Carried, Streams,
         \/ StartInteraction \/ \E i \in Ids : StartSubscribe(i)
         \/ \E i \in Ids, g \in 1..MaxGen : StartCancel(i, g) \/ CancelRetired(i, g)
  PROVE  Streams'
  <1>1. CASE StartInteraction
    <2> DEFINE f == [op |-> "interaction", id |-> "none", g |-> 0, pc |-> "wait", reps |-> <<>>]
    <2>1. h.phase = "run" /\ Depth = 0 /\ Push(f) /\ p' = p
      BY <1>1 DEF StartInteraction, CanDispatch
    <2>2. f \in FrameType /\ f.pc = "wait" /\ Awaits(f, p)
      BY ReportsShape DEF FrameType, Awaits
    <2> HIDE DEF f
    <2> QED BY <2>1, <2>2, PushStreams
  <1>2. ASSUME NEW i \in Ids, StartSubscribe(i) PROVE Streams'
    <2> DEFINE f == [op |-> "subscribe", id |-> i, g |-> 1, pc |-> "wait", reps |-> <<>>]
    <2>1. h.phase = "run" /\ Depth = 0 /\ Push(f) /\ p' = p /\ sub[i] = NewSubscription
      BY <1>2 DEF StartSubscribe, CanDispatch
    <2>2. Alive(p) => Fresh(p, i)
      BY <2>1 DEF Streams, Begun, NewSubscription
    <2>3. f \in FrameType /\ f.pc = "wait" /\ f.op = "subscribe" /\ f.id = i
      BY ReportsShape DEF FrameType
    <2> HIDE DEF f
    <2>4. Alive(p) => Awaits(f, p)
      BY <2>2, <2>3 DEF Awaits
    <2> QED BY <2>1, <2>3, <2>4, PushStreams
  <1>3. ASSUME NEW i \in Ids, NEW g \in 1..MaxGen, StartCancel(i, g) PROVE Streams'
    <2> DEFINE found == sub[i].listed /\ sub[i].gen = g /\ ~sub[i].done
               pc == IF found THEN "wait" ELSE "lost"
               f == [op |-> "cancel", id |-> i, g |-> g, pc |-> pc, reps |-> <<>>]
    <2>1. h.phase = "run" /\ Push(f) /\ p' = p /\ IsLive(p.flow, <<i, g>>)
      BY <1>3 DEF StartCancel, CanDispatch
    <2>2. Depth = 0 \/ (Depth = 1 /\ Waiting /\ Top.op # "cancel")
      BY <1>3 DEF StartCancel, CanDispatch
    <2>3. pc \in {"wait", "lost"} /\ g \in Nat
      BY BoundsAssumption
    <2> HIDE DEF pc
    <2>4. f \in FrameType /\ f.pc \in {"wait", "lost"} /\ f.op = "cancel" /\ f.id = i /\ f.g = g
      BY <2>3, ReportsShape DEF FrameType
    <2> HIDE DEF f
    <2>5. Awaits(f, p)
      BY <2>1, <2>4 DEF Awaits
    <2> QED BY <2>1, <2>2, <2>4, <2>5, PushStreams
  <1>4. ASSUME NEW i \in Ids, NEW g \in 1..MaxGen, CancelRetired(i, g) PROVE Streams'
    <2>1. h' = h /\ Alive(p) /\ IsRetired(p.flow, <<i, g>>) /\ p' = Log(p, Event("cancelled", i, g, 0)) /\ g \in Nat
      BY <1>4, BoundsAssumption DEF CancelRetired, CanDispatch, Healthy, Alive
    <2>2. Closed(p.hist, i, g)
      BY <2>1, RetiredClosed DEF Streams
    <2>3. Follows(p, p')
      BY <2>1, <2>2, LogFollows
    <2> QED BY <2>1, <2>3, QuietStreams
  <1> QED BY <1>1, <1>2, <1>3, <1>4
-----------------------------------------------------------------------------
(* The steps of a request.                                                 *)

\* The top request goes on as f.
Retop(f) == h' = [h EXCEPT !.stack = [h.stack EXCEPT ![Depth] = f]]

LEMMA TopStreams ==
  ASSUME Safe, Safe', Carried, Streams, h.phase = "run", Depth > 0, NEW f, Retop(f),
         f.pc = "add" => f.op = "subscribe", f.op = "cancel" <=> Top.op = "cancel",
         Alive(p) => Awaits(f, p), f.pc = "retire" => ~p.failed, Follows(p, p')
  PROVE  Streams'
  <1> DEFINE st == [h.stack EXCEPT ![Depth] = f]
  <1>1. h \in HostType
    BY DEF Safe, Shape
  <1>2. h' = [h EXCEPT !.stack = st]
    BY DEF Retop
  <1> HIDE DEF st
  <1>3. Leaves(st, "run")
    BY <1>1, <1>2, LeavesMade
  <1>4. h'.stack = [h.stack EXCEPT ![Depth] = f] /\ h'.phase = "run"
    BY <1>3 DEF Leaves, st
  <1>5. Serves(h, h', p)
    BY <1>4, ServesTop
  <1> QED BY <1>5, StreamsStep

\* The top request with another position.
AtPc(pc) == [Top EXCEPT !.pc = pc]

LEMMA SetTopMade ==
  ASSUME Safe, h.phase = "run", Depth > 0, NEW pc, h' = SetTop(h, pc)
  PROVE  /\ Retop(AtPc(pc)) /\ AtPc(pc).op = Top.op /\ AtPc(pc).pc = pc /\ AtPc(pc).id = Top.id
         /\ AtPc(pc).g = Top.g
  <1>1. Top \in FrameType
    BY TopShape
  <1>2. h' = [h EXCEPT !.stack = [h.stack EXCEPT ![Depth] = AtPc(pc)]]
    BY Zenon DEF SetTop, Top, Depth, AtPc
  <1>3. AtPc(pc).op = Top.op /\ AtPc(pc).pc = pc /\ AtPc(pc).id = Top.id /\ AtPc(pc).g = Top.g
    BY <1>1 DEF AtPc, FrameType
  <1> QED BY <1>2, <1>3 DEF Retop

LEMMA TopAwaits ==
  ASSUME Safe, Streams, h.phase = "run", Depth > 0
  PROVE  /\ Alive(p) => Awaits(Top, p) /\ Sound(p)
         /\ Top \in FrameType /\ Known(Top, sub) /\ Top.g \in Nat /\ Top.reps \in Reports
         /\ Top.pc = "add" => Top.op = "subscribe" /\ Depth = 1
  <1>1. Top \in FrameType /\ Known(Top, sub) /\ Depth \in 1..Len(h.stack) /\ Depth \in Nat
    BY TopShape
  <1>2. Alive(p) => Awaits(Top, p) /\ Sound(p)
    BY <1>1 DEF Streams, Served, Top
  <1>3. Top.g \in Nat /\ Top.reps \in Reports
    BY <1>1 DEF FrameType
  <1>4. Top.pc = "add" => Top.op = "subscribe"
    BY <1>1 DEF Streams, Nested, Nests, Top
  <1>5. Depth <= 2 /\ (Depth = 2 => Top.op = "cancel")
    BY DEF Streams, Nested, Nests, Top, Depth
  <1>6. Depth = 1 \/ Depth = 2
    BY <1>1, <1>5
  <1> QED BY <1>1, <1>2, <1>3, <1>4, <1>5, <1>6

LEMMA ReturnsStreams ==
  ASSUME Safe, Safe', Carried, Streams,
         SubscribeReturns \/ SubscribeReply \/ SubscribeActivate \/ InteractionReturns
  PROVE  Streams'
  <1>1. h.phase = "run" /\ Depth > 0
    BY DEF SubscribeReturns, SubscribeReply, SubscribeActivate, InteractionReturns, AtTop
  <1>2. /\ Alive(p) => Awaits(Top, p)
        /\ Top \in FrameType /\ Known(Top, sub)
    BY <1>1, TopAwaits
  <1>3. Follows(p, p)
    BY FollowsSelf
  <1>4. CASE SubscribeReturns
    <2>1. \/ /\ h' = [h EXCEPT !.stack = <<>>, !.running = FALSE, !.phase = "closing"]
             /\ p' = SetSt(p, "Closed")
          \/ h' = SetTop(h, "add") /\ p' = p
          \/ h' = Pop(h) /\ p' = p
      BY <1>4, Zenon DEF SubscribeReturns, SetSt
    <2>2. Top.op = "subscribe" /\ Top.pc = "wait"
      BY <1>4 DEF SubscribeReturns, AtTop
    <2>3. CASE h' = [h EXCEPT !.stack = <<>>, !.running = FALSE, !.phase = "closing"] /\ p' = SetSt(p, "Closed")
      BY <1>1, <1>3, <2>3, StopStreams
    <2>4. CASE h' = SetTop(h, "add") /\ p' = p
      <3> DEFINE f == AtPc("add")
      <3>1. Retop(f) /\ f.op = Top.op /\ f.pc = "add" /\ f.id = Top.id
        BY <1>1, <2>4, SetTopMade
      <3> HIDE DEF f
      <3>2. Alive(p) => Awaits(f, p)
        BY <1>2, <2>2, <3>1 DEF Awaits
      <3> QED BY <1>1, <1>3, <2>2, <2>4, <3>1, <3>2, TopStreams
    <2>5. CASE h' = Pop(h) /\ p' = p
      BY <1>1, <1>3, <2>5, PopStreams
    <2> QED BY <2>1, <2>3, <2>4, <2>5
  <1>5. CASE SubscribeReply
    <2> DEFINE i == Top.id
    <2>1. Drop \/ (p' = Log(p, Event("subscribed", i, 1, 0)) /\ h' = SetTop(h, "activate"))
      BY <1>5 DEF SubscribeReply
    <2>2. i \in Ids /\ Top.pc = "reply" /\ Top.op # "cancel"
      BY <1>2, <1>5 DEF SubscribeReply, AtTop, Known
    <2>3. CASE Drop
      BY <1>1, <2>3, DropStreams
    <2>4. CASE p' = Log(p, Event("subscribed", i, 1, 0)) /\ h' = SetTop(h, "activate")
      <3> DEFINE f == AtPc("activate")
      <3>1. Retop(f) /\ f.op = Top.op /\ f.pc = "activate"
        BY <1>1, <2>4, SetTopMade
      <3> HIDE DEF f, i
      <3>2. Awaits(f, p)
        BY <2>2, <3>1 DEF Awaits
      <3>3. Follows(p, p')
        BY <2>2, <2>4, LogFollows
      <3> QED BY <1>1, <2>2, <3>1, <3>2, <3>3, TopStreams
    <2> QED BY <2>1, <2>3, <2>4
  <1>6. CASE SubscribeActivate
    <2> DEFINE i == Top.id
               s == BufferActivate(sub[i]).ready
               f == [Top EXCEPT !.pc = "emit", !.reps = s]
    <2>1. (h' = [SetTop(h, "emit") EXCEPT !.stack[Depth].reps = s] /\ p' = p) \/ Close(h, p)
      BY <1>6 DEF SubscribeActivate
    <2>2. Top.op # "cancel"
      BY <1>2, <1>6 DEF SubscribeActivate, AtTop, Known
    <2> HIDE DEF s
    <2>3. CASE h' = [SetTop(h, "emit") EXCEPT !.stack[Depth].reps = s] /\ p' = p
      <3>1. h \in HostType /\ h.stack \in Seq(FrameType) /\ Depth \in 1..Len(h.stack)
        BY <1>1, TopShape
      <3>2. Retop(f)
        BY <2>3, <3>1 DEF SetTop, Top, Depth, HostType, Retop
      <3>3. f.op = Top.op /\ f.pc = "emit"
        BY <1>2 DEF FrameType
      <3> HIDE DEF f
      <3>4. Awaits(f, p)
        BY <2>2, <3>3 DEF Awaits
      <3> QED BY <1>1, <1>3, <2>2, <2>3, <3>2, <3>3, <3>4, TopStreams
    <2>4. CASE Close(h, p)
      BY <1>1, <1>3, <2>4, CloseNow
    <2> QED BY <2>1, <2>3, <2>4
  <1>7. CASE InteractionReturns
    <2>1. Drop \/ (h' = Pop(h) /\ p' = p)
      BY <1>7 DEF InteractionReturns
    <2> QED BY <1>1, <1>3, <2>1, DropStreams, PopStreams
  <1> QED BY <1>4, <1>5, <1>6, <1>7

LEMMA SubscribeEmitStreams ==
  ASSUME Safe, Safe', Carried, Streams, SubscribeEmit
  PROVE  Streams'
  <1> DEFINE i == Top.id
             s == Top.reps
             q == EmitReport(p, i, 1, Head(s))
             f == [Top EXCEPT !.reps = Tail(s)]
  <1>1. h.phase = "run" /\ Depth > 0 /\ Top.pc = "emit"
    BY DEF SubscribeEmit, AtTop
  <1>2. Top \in FrameType /\ Known(Top, sub) /\ s \in Reports
    BY <1>1, TopAwaits
  <1>3. i \in Ids /\ Top.op # "cancel"
    BY <1>1, <1>2 DEF Known
  <1>4. \/ s = <<>> /\ h' = Pop(h) /\ p' = p
        \/ s # <<>> /\ p' = q /\ h' = [h EXCEPT !.stack[Depth].reps = Tail(@)]
        \/ s # <<>> /\ p' = SetSt(q, "Closed")
           /\ h' = [h EXCEPT !.stack = <<>>, !.running = FALSE, !.phase = "closing"]
    BY Zenon DEF SubscribeEmit, SetSt
  <1>5. s # <<>> => Follows(p, q)
    <2> HIDE DEF s, i
    <2>1. s # <<>> => Head(s) \in Nat
      BY <1>2, ReportsShape
    <2>2. s # <<>> => Moves(p, q)
      BY <1>3, <2>1, FollowsSelf, EmitReportOK
    <2> QED BY <2>2, FollowsSelf, MovesFollows
  <1> HIDE DEF q
  <1>6. CASE s = <<>> /\ h' = Pop(h) /\ p' = p
    BY <1>1, <1>6, FollowsSelf, PopStreams
  <1>7. CASE s # <<>> /\ p' = q /\ h' = [h EXCEPT !.stack[Depth].reps = Tail(@)]
    <2>1. Retop(f)
      BY <1>7, Zenon DEF Top, Retop
    <2>2. f.op = Top.op /\ f.pc = "emit"
      BY <1>1, <1>2 DEF FrameType
    <2> HIDE DEF f
    <2>3. Awaits(f, p)
      BY <1>3, <2>2 DEF Awaits
    <2> QED BY <1>1, <1>3, <1>5, <1>7, <2>1, <2>2, <2>3, TopStreams
  <1>8. CASE s # <<>> /\ p' = SetSt(q, "Closed")
             /\ h' = [h EXCEPT !.stack = <<>>, !.running = FALSE, !.phase = "closing"]
    BY <1>1, <1>5, <1>8, StopStreams
  <1> QED BY <1>4, <1>6, <1>7, <1>8
-----------------------------------------------------------------------------
(* The cancellations.                                                      *)

LEMMA CancelReturnsStreams ==
  ASSUME Safe, Safe', Carried, Streams, CancelReturns
  PROVE  Streams'
  <1> DEFINE i == Top.id
             g == Top.g
             gone == p.subs[i] = None \/ (p.subs[i].gen = g /\ IsRetired(p.flow, <<i, g>>))
  <1>1. h.phase = "run" /\ Depth > 0 /\ Top.op \in {"cancel", "refused"}
    BY DEF CancelReturns, AtTop
  <1>2. /\ Alive(p) => Awaits(Top, p) /\ Sound(p)
        /\ Top \in FrameType /\ Known(Top, sub) /\ g \in Nat
    BY <1>1, TopAwaits
  <1>3. i \in Ids
    BY <1>1, <1>2 DEF Known
  <1>4. Ledger(p) /\ Follows(p, p)
    BY FollowsSelf
  <1>5. \/ Drop
        \/ h' = Pop(h) /\ p' = p
        \/ Alive(p) /\ Top.op = "cancel" /\ gone /\ h' = Pop(h) /\ p' = Log(p, Event("cancelled", i, g, 0))
        \/ Alive(p) /\ Top.op = "cancel" /\ h' = SetTop(h, "retire") /\ p' = p
    <2>1. CASE Dropped
      BY <2>1 DEF CancelReturns
    <2>2. CASE ~Dropped
      <3>1. Alive(p)
        BY <2>2 DEF Dropped, Healthy, Alive
      <3>2. CASE Top.op = "refused"
        BY <2>2, <3>2 DEF CancelReturns
      <3>3. CASE Top.op = "cancel"
        BY <2>2, <3>1, <3>3 DEF CancelReturns
      <3> QED BY <1>1, <3>2, <3>3
    <2> QED BY <2>1, <2>2
  <1>6. CASE Drop
    BY <1>1, <1>6, DropStreams
  <1>7. CASE h' = Pop(h) /\ p' = p
    BY <1>1, <1>4, <1>7, PopStreams
  <1>8. CASE Alive(p) /\ Top.op = "cancel" /\ gone /\ h' = Pop(h) /\ p' = Log(p, Event("cancelled", i, g, 0))
    <2>1. Closed(p.hist, i, g)
      <3>1. CASE p.subs[i] = None
        <4>1. ~IsLive(p.flow, <<i, g>>)
          BY <1>2, <1>4, <1>8, <3>1, LiveEntry
        <4> QED BY <1>2, <1>8, <4>1 DEF Awaits
      <3>2. CASE IsRetired(p.flow, <<i, g>>)
        BY <1>2, <1>8, <3>2, RetiredClosed
      <3> QED BY <1>8, <3>1, <3>2
    <2> HIDE DEF i, g
    <2>2. Follows(p, p')
      BY <1>2, <1>3, <1>8, <2>1, LogFollows
    <2> QED BY <1>1, <1>8, <2>2, PopStreams
  <1>9. CASE Alive(p) /\ Top.op = "cancel" /\ h' = SetTop(h, "retire") /\ p' = p
    <2> DEFINE f == AtPc("retire")
    <2>1. Retop(f) /\ f.op = Top.op /\ f.pc = "retire" /\ f.id = Top.id /\ f.g = Top.g
      BY <1>1, <1>9, SetTopMade
    <2> HIDE DEF f
    <2>2. Awaits(f, p) /\ ~p.failed
      BY <1>2, <1>9, <2>1 DEF Awaits, Alive
    <2> QED BY <1>1, <1>4, <1>9, <2>1, <2>2, TopStreams
  <1> QED BY <1>5, <1>6, <1>7, <1>8, <1>9

\* Once the channel has failed only what was written matters.
LEMMA FailedStreams ==
  ASSUME Ledger(p'), p'.failed, Nested(h'), ~Retires(h')
  PROVE  Streams'
  BY DEF Streams, Alive

LEMMA CloseFailed ==
  ASSUME Safe, Streams, h.phase = "run", Depth > 0, NEW q, Ledger(q), q.failed, Close(h, q)
  PROVE  Streams'
  <1>1. h \in HostType /\ q \in HostRec
    BY DEF Safe, Shape, Ledger
  <1>2. \E x \in Stages : p' = SetSt(q, x)
    BY Zenon DEF Close, SetSt, Stages
  <1>3. PICK x \in Stages : p' = SetSt(q, x)
    BY <1>2
  <1>4. Holds(p', x, q.flow, q.subs, q.failed, q.healthy, q.hist)
    BY <1>1, <1>3, HostSt
  <1>5. Ledger(p') /\ p'.failed
    BY <1>4 DEF Holds, Ledger
  <1>6. Nested(h') /\ ~Retires(h')
    <2>1. \/ h' = [h EXCEPT !.stack = Front(h.stack), !.closeReq = TRUE, !.running = FALSE]
          \/ h' = [h EXCEPT !.stack = <<>>, !.running = FALSE, !.phase = "closing"]
      BY Zenon DEF Close, Pop
    <2>2. Leaves(Front(h.stack), "run") \/ Leaves(<<>>, "closing")
      BY <1>1, <2>1, LeavesMade
    <2>3. Serves(h, h', p) /\ ~Retires(h')
      BY <2>2, ServesPop, ServesNone DEF Leaves
    <2> QED BY <2>3 DEF Serves
  <1> QED BY <1>5, <1>6, FailedStreams

LEMMA CancelRetireStreams ==
  ASSUME Safe, Safe', Carried, Streams, CancelRetire
  PROVE  Streams'
  <1> DEFINE i == Top.id
             g == Top.g
             q == RetireStream(p, i, g)
             e == Event("cancelled", i, g, 0)
             v == [q EXCEPT !.subs[i] = None]
             r == Log(v, e)
  <1>1. h.phase = "run" /\ Depth > 0 /\ Top.pc = "retire"
    BY DEF CancelRetire, AtTop
  <1>2. Top \in FrameType /\ Known(Top, sub) /\ g \in Nat
    BY <1>1, TopAwaits
  <1>3. i \in Ids
    BY <1>1, <1>2 DEF Known
  <1>4. Ledger(p) /\ Follows(p, p)
    BY FollowsSelf
  <1>5. p.healthy => Tidy(p.flow, p.hist)
    BY <1>1 DEF Streams, Retires, Top, Depth
  <1>6. CASE ~IsLive(p.flow, <<i, g>>)
    <2>1. Close(h, p)
      BY <1>6 DEF CancelRetire
    <2> QED BY <1>1, <1>4, <2>1, CloseNow
  <1>7. CASE IsLive(p.flow, <<i, g>>)
    <2>1. (~q.failed /\ p' = r /\ h' = Pop(h)) \/ (q.failed /\ Close(h, q))
      BY <1>7, Zenon DEF CancelRetire, Healthy
    <2> HIDE DEF i, g
    <2>2. Retired(p, i, g, q)
      BY <1>2, <1>3, <1>4, <1>5, <1>7, RetireStreamOK
    <2> HIDE DEF q
    <2>3. CASE q.failed /\ Close(h, q)
      <3>1. Ledger(q)
        BY <2>2 DEF Retired
      <3> QED BY <1>1, <2>3, <3>1, CloseFailed
    <2>4. CASE ~q.failed /\ p' = r /\ h' = Pop(h)
      <3>1. Ledger(q) /\ q.subs = p.subs /\ q.healthy /\ p.healthy /\ ~p.failed
        BY <2>2, <2>4 DEF Retired
      <3>2. /\ Continues(p.hist, q.hist) /\ OfLive(p.hist, q.hist, p.flow)
            /\ Closed(q.hist, i, g) /\ Tidy(q.flow, q.hist)
            /\ DOMAIN q.flow.streams \subseteq DOMAIN p.flow.streams
            /\ \A k : IsLive(q.flow, k) <=> IsLive(p.flow, k) /\ k # <<i, g>>
        BY <2>2, <3>1 DEF Retired
      <3>3. /\ Ledger(v) /\ Holds(v, q.st, q.flow, [q.subs EXCEPT ![i] = None], q.failed, q.healthy, q.hist)
            /\ v.subs[i] = None /\ \A j \in Ids : j # i => v.subs[j] = q.subs[j]
        BY <1>3, <3>1, NoneEntry, EntrySet
      <3> HIDE DEF v
      <3>4. v.flow = q.flow /\ v.failed = q.failed /\ v.healthy = q.healthy /\ v.hist = q.hist
        BY <3>3 DEF Holds
      <3>5. e \in EventType /\ e.t = "cancelled" /\ e.i = i /\ e.g = g
        BY <1>2, <1>3, EventShape DEF Kinds
      <3> HIDE DEF e
      <3>6. Wrote(v, r)
        BY <3>2, <3>3, <3>4, <3>5, LogOK
      <3> HIDE DEF r
      <3>7. /\ Ledger(r) /\ r.flow = q.flow /\ r.subs = v.subs /\ r.failed = q.failed /\ r.healthy = q.healthy
            /\ Continues(q.hist, r.hist) /\ OfLive(q.hist, r.hist, q.flow) /\ Tidy(r.flow, r.hist)
        BY <3>2, <3>4, <3>6 DEF Wrote
      <3>8. OfLive(q.hist, r.hist, p.flow)
        BY <3>2, <3>7 DEF OfLive
      <3>9. Continues(p.hist, r.hist) /\ OfLive(p.hist, r.hist, p.flow)
        BY <3>2, <3>7, <3>8, ContinuesTwice, OfLiveTwice
      <3>10. Closed(r.hist, i, g)
        BY <3>2, <3>7, ClosedStays
      <3>11. Sound(p)
        BY <3>1 DEF Streams, Alive
      <3>12. Sound(r) /\ Keeps(p, r)
        <4>1. r.subs[i] = None /\ \A j \in Ids : j # i => r.subs[j] = p.subs[j]
          BY <3>1, <3>3, <3>7
        <4>2. /\ DOMAIN r.flow.streams \subseteq DOMAIN p.flow.streams
              /\ \A k : IsLive(r.flow, k) <=> IsLive(p.flow, k) /\ k # <<i, g>>
          BY <3>2, <3>7
        <4> QED BY <1>2, <1>3, <1>4, <1>7, <3>7, <3>9, <3>10, <3>11, <4>1, <4>2, RetiredSound
      <3>13. Follows(p, r)
        BY <3>1, <3>7, <3>12 DEF Follows, Alive
      <3> QED BY <1>1, <2>4, <3>13, PopStreams
    <2> QED BY <2>1, <2>3, <2>4
  <1> QED BY <1>6, <1>7
-----------------------------------------------------------------------------
(* The first generation of a stream.                                       *)

First == [gen |-> 1, recov |-> FALSE, attempt |-> 0]

\* AddStream and the subscription table.
Adds(q, i) == SetEntry(SetFlow(q, AddStream(q.flow, <<i, 1>>)), i, First)

\* r is q with the first generation of i.
Added(q, i, r) ==
    /\ Ledger(r) /\ r.failed = q.failed /\ r.healthy = q.healthy /\ r.hist = q.hist
    /\ r.subs[i] = First /\ \A j \in Ids : j # i => r.subs[j] = q.subs[j]
    /\ DOMAIN r.flow.streams = DOMAIN q.flow.streams \cup {<<i, 1>>}
    /\ r.flow.streams[<<i, 1>>].last = 0 /\ r.flow.streams[<<i, 1>>].live
    /\ \A k \in DOMAIN q.flow.streams : r.flow.streams[k] = q.flow.streams[k] /\ k # <<i, 1>>

LEMMA AddsShape ==
  ASSUME NEW q, Ledger(q), NEW i \in Ids, CanAddStream(q.flow, <<i, 1>>)
  PROVE  Added(q, i, Adds(q, i))
  <1> DEFINE k == <<i, 1>>
             b == AddStream(q.flow, k)
             c == SetFlow(q, b)
             r == Adds(q, i)
  <1>1. q \in HostRec
    BY DEF Ledger
  <1>2. k \in StreamKeys /\ k \in Keys /\ k \notin DOMAIN q.flow.streams
    <2>1. 1 \in Nat /\ 1 \in 1..MaxGen
      BY BoundsAssumption
    <2> QED BY <2>1 DEF StreamKeys, Keys, CanAddStream
  <1>3. r = SetEntry(c, i, First)
    BY Zenon DEF Adds
  <1> HIDE DEF k
  <1>4. /\ FlowOK(b) /\ Settled(b) /\ DOMAIN b.streams = DOMAIN q.flow.streams \cup {k}
        /\ b.streams[k].last = 0 /\ IsLive(b, k)
        /\ \A j \in DOMAIN q.flow.streams : b.streams[j] = q.flow.streams[j]
        /\ b.sent = <<>> /\ b.next = q.flow.next
    BY <1>2, AddStreamOK DEF Ledger
  <1> HIDE DEF b
  <1>5. b \in FlowType
    BY <1>4, FlowFields
  <1>6. Holds(c, q.st, b, q.subs, q.failed, q.healthy, q.hist)
    BY <1>1, <1>5, HostFlow
  <1> HIDE DEF c, r
  <1>7. Ledger(c)
    BY <1>2, <1>4, <1>6 DEF Ledger, Holds
  <1>8. First \in Entry
    BY DEF First, Entry
  <1>9. Entered(c, i, First, r)
    BY <1>3, <1>7, <1>8, EntryEntered
  <1>10. Ledger(r) /\ r.flow = b /\ r.failed = q.failed /\ r.healthy = q.healthy /\ r.hist = q.hist /\ r.subs[i] = First
         /\ \A j \in Ids : j # i => r.subs[j] = q.subs[j]
    BY <1>6, <1>9 DEF Entered, Holds
  <1>11. Added(q, i, r)
    <2>1. b.streams[k].live
      BY <1>4 DEF IsLive
    <2>2. \A j \in DOMAIN q.flow.streams : j # k
      BY <1>2
    <2> QED BY <1>4, <1>10, <2>1, <2>2 DEF Added, k
  <1> QED BY <1>11 DEF r

LEMMA AddedSound ==
  ASSUME NEW q, Ledger(q), Sound(q), Tidy(q.flow, q.hist), NEW i \in Ids, Fresh(q, i), NEW r, Added(q, i, r)
  PROVE  Tidy(r.flow, r.hist) /\ Sound(r) /\ \A j \in Ids : j # i /\ Fresh(q, j) => Fresh(r, j)
  <1> DEFINE k == <<i, 1>>
  <1>0. k[1] = i /\ k[2] = 1
    OBVIOUS
  <1> HIDE DEF k
  <1>1. /\ r.hist = q.hist /\ r.subs[i] = First /\ \A j \in Ids : j # i => r.subs[j] = q.subs[j]
    BY DEF Added
  <1>2. /\ DOMAIN r.flow.streams = DOMAIN q.flow.streams \cup {k}
        /\ r.flow.streams[k].last = 0 /\ r.flow.streams[k].live
        /\ \A j \in DOMAIN q.flow.streams : r.flow.streams[j] = q.flow.streams[j]
    BY DEF Added, k
  <1>3. \A j \in 1..Len(q.hist) : q.hist[j].i = i => q.hist[j].t \notin {"report", "retired"}
    BY DEF Fresh
  <1>4. q.subs[i] = None /\ First.gen = 1 /\ First # None
    BY DEF Fresh, First, None
  <1>5. Tidy(r.flow, r.hist)
    <2> SUFFICES ASSUME NEW j \in DOMAIN r.flow.streams, r.flow.streams[j].live
                 PROVE  /\ ~Closed(q.hist, j[1], j[2])
                        /\ r.flow.streams[j].last = 0 \/ \E l \in 1..Len(q.hist) : IsReport(q.hist[l], j) /\ q.hist[l].n = r.flow.streams[j].last
                        /\ \A l \in 1..Len(q.hist) : IsReport(q.hist[l], j) => q.hist[l].n <= r.flow.streams[j].last
      BY <1>1 DEF Tidy
    <2>1. CASE j = k
      <3>1. ~Closed(q.hist, j[1], j[2])
        BY <1>0, <1>3, <2>1 DEF Closed
      <3>2. \A l \in 1..Len(q.hist) : ~IsReport(q.hist[l], j)
        BY <1>0, <1>3, <2>1 DEF IsReport
      <3> QED BY <1>2, <2>1, <3>1, <3>2
    <2>2. CASE j # k
      <3>1. j \in DOMAIN q.flow.streams /\ r.flow.streams[j] = q.flow.streams[j]
        BY <1>2, <2>2
      <3> QED BY <3>1 DEF Tidy
    <2> QED BY <2>1, <2>2
  <1>6. ASSUME NEW j \in DOMAIN r.flow.streams
        PROVE  IF r.flow.streams[j].live THEN r.subs[j[1]].gen = j[2] ELSE Closed(r.hist, j[1], j[2])
    <2>1. CASE j = k
      BY <1>0, <1>1, <1>2, <1>4, <2>1
    <2>2. CASE j # k
      <3>1. j \in DOMAIN q.flow.streams /\ r.flow.streams[j] = q.flow.streams[j]
        BY <1>2, <2>2
      <3>2. j[1] \in Ids /\ j = <<j[1], j[2]>>
        BY <3>1 DEF Ledger, Keys
      <3>3. CASE q.flow.streams[j].live
        <4>1. q.subs[j[1]].gen = j[2]
          BY <3>1, <3>3 DEF Sound
        <4>2. q.subs[j[1]] # None
          BY <3>1, <3>2, <3>3, LiveEntry DEF IsLive
        <4> QED BY <1>1, <1>4, <3>1, <3>2, <3>3, <4>1, <4>2
      <3>4. CASE ~q.flow.streams[j].live
        BY <1>1, <3>1, <3>4 DEF Sound
      <3> QED BY <3>3, <3>4
    <2> QED BY <2>1, <2>2
  <1>7. ASSUME NEW j \in Ids, r.subs[j] # None PROVE IsLive(r.flow, <<j, r.subs[j].gen>>)
    <2>1. CASE j = i
      BY <1>1, <1>2, <1>4, <2>1 DEF IsLive, k
    <2>2. CASE j # i
      <3>1. IsLive(q.flow, <<j, q.subs[j].gen>>) /\ r.subs[j] = q.subs[j]
        BY <1>1, <1>7, <2>2 DEF Sound
      <3> QED BY <1>2, <3>1 DEF IsLive
    <2> QED BY <2>1, <2>2
  <1>8. \A j \in Ids : r.subs[j].gen = 0 => r.subs[j] = None
    BY <1>1, <1>4 DEF Sound
  <1>9. ASSUME NEW j \in 1..Len(r.hist), r.hist[j].t \in {"report", "retired"}, r.subs[r.hist[j].i] # None
        PROVE  r.hist[j].g <= r.subs[r.hist[j].i].gen
    <2>1. r.hist[j].i # i /\ r.hist[j] = q.hist[j]
      BY <1>1, <1>3, <1>9
    <2>2. r.hist[j].i \in Ids
      <3>1. q.hist \in Seq(EventType)
        BY HostFields DEF Ledger, Frames
      <3>2. r.hist[j] \in EventType
        BY <1>1, <3>1
      <3> QED BY <3>2 DEF EventType
    <2>3. r.subs[r.hist[j].i] = q.subs[r.hist[j].i]
      BY <1>1, <2>1, <2>2
    <2> QED BY <1>1, <1>9, <2>1, <2>3 DEF Sound
  <1>10. Sound(r)
    BY <1>6, <1>7, <1>8, <1>9 DEF Sound
  <1>11. \A j \in Ids : j # i /\ Fresh(q, j) => Fresh(r, j)
    BY <1>1 DEF Fresh
  <1> QED BY <1>5, <1>10, <1>11

LEMMA SubscribeAddStreams ==
  ASSUME Safe, Safe', Carried, Streams, SubscribeAdd
  PROVE  Streams'
  <1> DEFINE i == Top.id
  <1>1. h.phase = "run" /\ Depth > 0 /\ Top.pc = "add"
    BY DEF SubscribeAdd, AtTop
  <1>2. /\ Alive(p) => Awaits(Top, p) /\ Sound(p)
        /\ Top \in FrameType /\ Known(Top, sub) /\ Top.op = "subscribe" /\ Depth = 1
    BY <1>1, TopAwaits
  <1>3. i \in Ids /\ Begun(sub, i) /\ (Alive(p) => Fresh(p, i))
    BY <1>1, <1>2 DEF Known, Awaits, Begun
  <1>4. Ledger(p) /\ Follows(p, p) /\ h \in HostType
    BY FollowsSelf DEF Safe, Shape
  <1>5. CASE CanAddStream(p.flow, <<i, 1>>)
    <2> DEFINE f == AtPc("reply")
               st == [h.stack EXCEPT ![Depth] = f]
    <2>1. p' = Adds(p, i) /\ h' = SetTop(h, "reply") /\ sub' = sub
      <3>1. /\ p' = [p EXCEPT !.flow = AddStream(@, <<i, 1>>), !.subs[i] = [gen |-> 1, recov |-> FALSE, attempt |-> 0]]
            /\ h' = SetTop(h, "reply") /\ sub' = sub
        BY <1>5, Zenon DEF SubscribeAdd
      <3> DEFINE c == SetFlow(p, AddStream(p.flow, <<i, 1>>))
      <3>2. p' = [c EXCEPT !.subs[i] = First]
        BY <3>1, Zenon DEF SetFlow, First
      <3>3. Adds(p, i) = [c EXCEPT !.subs[i] = First]
        BY Zenon DEF Adds, SetEntry, SetSubs
      <3> QED BY <3>1, <3>2, <3>3, Zenon
    <2>2. Added(p, i, p')
      BY <1>3, <1>4, <1>5, <2>1, AddsShape
    <2>3. Retop(f) /\ f.op = "subscribe" /\ f.pc = "reply"
      BY <1>1, <1>2, <2>1, SetTopMade
    <2> HIDE DEF f, i
    <2>4. h'.stack = st /\ h'.phase = "run"
      <3>1. h' = [h EXCEPT !.stack = st]
        BY <2>3 DEF Retop
      <3> HIDE DEF st
      <3>2. Leaves(st, "run")
        BY <1>1, <1>4, <3>1, LeavesMade
      <3> QED BY <3>2 DEF Leaves
    <2>5. Len(h'.stack) = 1 /\ h'.stack[1] = f
      <3>1. h.stack \in Seq(FrameType) /\ Len(h.stack) = 1
        BY <1>2, <1>4 DEF HostType, Depth
      <3> QED BY <1>2, <2>4, <3>1
    <2>6. Nested(h') /\ ~Retires(h') /\ Served(h', p')
      BY <2>3, <2>4, <2>5 DEF Nested, Nests, Retires, Served, Awaits
    <2>7. Ledger(p') /\ p'.failed = p.failed /\ p'.healthy = p.healthy
      BY <2>2 DEF Added
    <2>8. CASE ~Alive(p)
      BY <2>6, <2>7, <2>8 DEF Streams, Alive
    <2>9. CASE Alive(p)
      <3>1. Sound(p) /\ Tidy(p.flow, p.hist) /\ Fresh(p, i)
        BY <1>2, <1>3, <2>9 DEF Streams, Alive
      <3>2. Tidy(p'.flow, p'.hist) /\ Sound(p') /\ \A j \in Ids : j # i /\ Fresh(p, j) => Fresh(p', j)
        BY <1>3, <1>4, <2>2, <3>1, AddedSound
      <3>3. \A j \in Ids : ~Begun(sub, j) => Fresh(p', j)
        BY <1>1, <1>3, <2>9, <3>2 DEF Streams
      <3> QED BY <2>1, <2>6, <2>7, <3>2, <3>3 DEF Streams
    <2> QED BY <2>8, <2>9
  <1>6. CASE ~CanAddStream(p.flow, <<i, 1>>)
    <2> DEFINE f == [Top EXCEPT !.op = "refused", !.pc = "wait"]
    <2>1. h' = [h EXCEPT !.stack[Depth].op = "refused", !.stack[Depth].pc = "wait"] /\ p' = p
      BY <1>6 DEF SubscribeAdd
    <2>2. h.stack \in Seq(FrameType) /\ Depth \in 1..Len(h.stack)
      BY <1>1, TopShape
    <2>3. Retop(f)
      BY <1>4, <2>1, <2>2 DEF Top, HostType, Retop
    <2>4. f.op = "refused" /\ f.pc = "wait"
      BY <1>2 DEF FrameType
    <2> HIDE DEF f
    <2>5. Awaits(f, p)
      BY <2>4 DEF Awaits
    <2> QED BY <1>1, <1>2, <1>4, <2>1, <2>3, <2>4, <2>5, TopStreams
  <1> QED BY <1>5, <1>6
-----------------------------------------------------------------------------
(* The end of the process, and all steps together.                         *)

\* What is left of the streams once the tables are released.
Emptied(x, r) ==
    /\ r \in HostRec /\ r.flow = NewFlow /\ r.subs = [i \in Ids |-> None] /\ r.hist = x

LEMMA EmptiedGood ==
  ASSUME NEW x, Barriers(x), Confirmed(x), NEW r, Emptied(x, r)
  PROVE  Ledger(r) /\ Sound(r) /\ Tidy(r.flow, r.hist)
  <1>1. FlowOK(r.flow) /\ Settled(r.flow) /\ DOMAIN r.flow.streams = {} /\ r.flow.sent = <<>>
    BY NewFlowOK DEF Emptied
  <1>2. 0 < r.flow.next
    BY DEF Emptied, NewFlow
  <1>3. Ledger(r)
    BY <1>1, <1>2 DEF Ledger, Emptied
  <1>4. \A i \in Ids : r.subs[i] = None
    BY DEF Emptied
  <1>5. \A j \in 1..Len(r.hist) : r.hist[j].i \in Ids
    <2>1. r.hist \in Seq(EventType)
      BY HostFields DEF Emptied, Frames
    <2>2. \A j \in 1..Len(r.hist) : r.hist[j] \in EventType
      BY <2>1
    <2> QED BY <2>2 DEF EventType
  <1>6. Sound(r)
    BY <1>1, <1>4, <1>5 DEF Sound
  <1>7. Tidy(r.flow, r.hist)
    BY <1>1 DEF Tidy
  <1> QED BY <1>3, <1>6, <1>7

LEMMA NoEntries == NewFlow \in FlowType /\ [i \in Ids |-> None] \in Entries
  BY NewFlowOK, NoneEntry DEF FlowOK, Entries

LEMMA EndStreams ==
  ASSUME Safe, Streams, CloseFinish \/ Gone
  PROVE  Streams'
  <1>1. p \in HostRec /\ Barriers(p.hist) /\ Confirmed(p.hist)
    BY FollowsSelf DEF Ledger
  <1>2. Emptied(p.hist, p')
    <2>1. CASE CloseFinish
      <3> DEFINE z == [i \in Ids |-> None]
                 v == SetFlow(p, NewFlow)
      <3>1. p' = SetSubs(v, z)
        BY <2>1, Zenon DEF CloseFinish, SetFlow, SetSubs
      <3>2. z \in Entries
        BY NoEntries
      <3>3. Holds(v, p.st, NewFlow, p.subs, p.failed, p.healthy, p.hist)
        BY <1>1, NoEntries, HostFlow
      <3> HIDE DEF v, z
      <3>4. Holds(p', v.st, v.flow, z, v.failed, v.healthy, v.hist)
        BY <3>1, <3>2, <3>3, HostSubs DEF Holds
      <3> QED BY <3>3, <3>4 DEF Holds, Emptied, z
    <2>2. CASE Gone
      <3> DEFINE z == [i \in Ids |-> None]
      <3>1. p.failed \in BOOLEAN /\ p.hist \in Frames /\ z \in Entries /\ NewFlow \in FlowType
        BY <1>1, HostFields, NoEntries
      <3>2. p' = [st |-> "Closed", flow |-> NewFlow, subs |-> z, failed |-> p.failed, healthy |-> FALSE,
                  frames |-> 0, written |-> 0, counting |-> FALSE, hist |-> p.hist]
        BY <2>2 DEF Gone
      <3> HIDE DEF z
      <3>3. p' \in HostRec /\ p'.flow = NewFlow /\ p'.subs = z /\ p'.hist = p.hist
        BY <3>1, <3>2 DEF HostRec, Stages
      <3> QED BY <3>3 DEF Emptied, z
    <2> QED BY <2>1, <2>2
  <1>3. Ledger(p') /\ Sound(p') /\ Tidy(p'.flow, p'.hist)
    BY <1>1, <1>2, EmptiedGood
  <1>4. h'.stack = <<>> /\ h'.phase # "run"
    <2>1. CASE CloseFinish
      <3>1. h \in HostType /\ h.stack = <<>> /\ h' = [h EXCEPT !.phase = "stopping"]
        BY <2>1 DEF CloseFinish, Safe, Shape, Streams, Nested
      <3> QED BY <3>1 DEF HostType
    <2>2. CASE Gone
      BY <2>2 DEF Gone
    <2> QED BY <2>1, <2>2
  <1>5. Nested(h')
    BY <1>4, ServesNone DEF Serves
  <1> QED BY <1>3, <1>4, <1>5 DEF Streams

LEMMA SyncInit ==
  ASSUME Init
  PROVE  Sync
  <1> DEFINE z == [i \in Ids |-> None]
  <1>1. <<>> \in Frames /\ z \in Entries /\ NewFlow \in FlowType
    BY NoEntries DEF Frames
  <1>2. p = [st |-> "AwaitFlow", flow |-> NewFlow, subs |-> z, failed |-> FALSE, healthy |-> TRUE,
             frames |-> 0, written |-> 0, counting |-> FALSE, hist |-> <<>>]
    BY DEF Init
  <1> HIDE DEF z
  <1>3. p \in HostRec /\ p.flow = NewFlow /\ p.subs = z /\ p.hist = <<>>
    BY <1>1, <1>2 DEF HostRec, Stages
  <1>4. Emptied(<<>>, p)
    BY <1>3 DEF Emptied, z
  <1>5. Barriers(<<>>) /\ Confirmed(<<>>)
    BY DEF Barriers, Confirmed
  <1>6. Ledger(p) /\ Sound(p) /\ Tidy(p.flow, p.hist)
    BY <1>4, <1>5, EmptiedGood
  <1>7. h.stack = <<>> /\ h.phase = "run" /\ n = 0 /\ sdk.pc.k = "loop"
    BY DEF Init
  <1>8. Nested(h) /\ Served(h, p)
    BY <1>7 DEF Nested, Nests, Served
  <1>9. \A i \in Ids : Fresh(p, i)
    BY <1>3 DEF Fresh, z
  <1>10. Bounded
    BY <1>7, BoundsAssumption DEF Bounded
  <1> QED BY <1>6, <1>8, <1>9, <1>10 DEF Sync, Streams

LEMMA SyncNext ==
  ASSUME Safe, Sync, [Next]_vars
  PROVE  Sync'
  <1>1. Safe' /\ Carried
    BY SafeNext
  <1>2. Streams /\ Bounded
    BY DEF Sync
  <1>3. CASE InputThread
    <2>1. Streams'
      <3>1. CASE SubscribeReturns \/ SubscribeReply \/ SubscribeActivate \/ InteractionReturns
        BY <1>1, <1>2, <3>1, ReturnsStreams
      <3>2. CASE SubscribeAdd \/ SubscribeEmit \/ CancelReturns \/ CancelRetire
        BY <1>1, <1>2, <3>2, SubscribeAddStreams, SubscribeEmitStreams, CancelReturnsStreams, CancelRetireStreams
      <3>3. CASE CloseFinish \/ Exit
        BY <1>2, <3>3, EndStreams DEF Exit
      <3> QED BY <1>3, <3>1, <3>2, <3>3 DEF InputThread
    <2> QED BY <1>2, <1>3, <2>1, InputBounded DEF Sync
  <1>4. CASE Peer
    <2>1. Streams'
      <3>1. \/ StartInteraction \/ (\E i \in Ids : StartSubscribe(i))
            \/ (\E i \in Ids, g \in 1..MaxGen : StartCancel(i, g) \/ CancelRetired(i, g))
            \/ FlowOpen \/ Open \/ CloseRequest \/ MalformedLine \/ BadAcknowledgement \/ LoopEnds
            \/ EndOfInput \/ \E seq \in 1..MaxReports : ReportAck(seq)
        BY <1>4 DEF Peer
      <3> QED BY <1>1, <1>2, <3>1, StartStreams, ControlStreams
    <2> QED BY <1>2, <1>4, <2>1, PeerBounded DEF Sync
  <1>5. CASE SdkWork \/ Device
    BY <1>1, <1>2, <1>5, SdkStreams, SdkBounded DEF Sync
  <1>6. CASE Writer \/ WriteFails
    <2>1. Streams'
      BY <1>1, <1>2, <1>6, WriterStreams
    <2>2. n' = n /\ sdk' = sdk
      BY <1>6 DEF Writer, WriteReport, WriteCounted, WriteFails
    <2> QED BY <1>2, <2>1, <2>2, WorkBounded DEF Sync
  <1>7. CASE Terminate
    <2>1. Streams'
      BY <1>2, <1>7, EndStreams DEF Terminate
    <2> QED BY <1>2, <1>7, <2>1, InputBounded DEF Sync
  <1>8. CASE UNCHANGED vars
    <2>1. p' = p /\ h' = h /\ sub' = sub /\ sdk' = sdk /\ n' = n
      BY <1>8 DEF vars
    <2>2. Streams'
      BY <1>1, <1>2, <2>1, FollowsSelf, QuietStreams
    <2> QED BY <1>2, <2>1, <2>2, WorkBounded DEF Sync
  <1> QED BY <1>3, <1>4, <1>5, <1>6, <1>7, <1>8 DEF Next

LEMMA SyncInvariant == Spec => [](Safe /\ Sync)
  <1>1. Init => Safe /\ Sync
    BY SafeInit, SyncInit
  <1>2. Safe /\ Sync /\ [Next]_vars => (Safe /\ Sync)'
    BY SafeNext, SyncNext
  <1> QED BY <1>1, <1>2, PTL DEF Spec

\* A barrier closes its stream for good: no report, error or second barrier of a
\* generation follows it, and it names the last report handed to the writer
\* (HostProtocol::RetireStream of three threads, protocol.cpp).
THEOREM BarriersCloseStreams == Spec => []BarrierLast
  <1>1. Safe /\ Sync => BarrierLast
    <2> SUFFICES ASSUME Safe, Sync, NEW j \in DOMAIN p.hist, p.hist[j].t = "retired"
                 PROVE  LET e == p.hist[j]
                            of(t) == {l \in DOMAIN p.hist : p.hist[l].t = t /\ p.hist[l].i = e.i /\ p.hist[l].g = e.g}
                            seqs == {p.hist[l].n : l \in of("report")}
                        IN /\ of("retired") = {j}
                           /\ \A l \in of("report") \cup of("error") : l < j
                           /\ e.n \in seqs \cup {0}
                           /\ \A s \in seqs : s <= e.n
      BY DEF BarrierLast
    <2> DEFINE x == p.hist
               of(t) == {l \in DOMAIN x : x[l].t = t /\ x[l].i = x[j].i /\ x[l].g = x[j].g}
               seqs == {x[l].n : l \in of("report")}
    <2>1. Ledger(p) /\ x \in Seq(EventType) /\ Barriers(x)
      BY HostFields DEF Sync, Streams, Ledger, Frames
    <2>2. DOMAIN x = 1..Len(x)
      BY <2>1
    <2> HIDE DEF x
    <2>3. \A l \in 1..Len(x) : x[l].i = x[j].i /\ x[l].g = x[j].g =>
              /\ x[l].t = "retired" => l = j
              /\ x[l].t \in {"report", "error"} => l < j
              /\ x[l].t = "report" => x[l].n <= x[j].n
      BY <2>1, <2>2 DEF Barriers, x
    <2>4. x[j].n = 0 \/ \E l \in 1..Len(x) : IsReport(x[l], <<x[j].i, x[j].g>>) /\ x[l].n = x[j].n
      BY <2>1, <2>2 DEF Barriers, x
    <2>5. of("retired") = {j}
      BY <2>2, <2>3 DEF x
    <2>6. \A l \in of("report") \cup of("error") : l < j
      BY <2>2, <2>3
    <2>7. x[j].n \in seqs \cup {0}
      BY <2>2, <2>4 DEF IsReport
    <2>8. \A s \in seqs : s <= x[j].n
      BY <2>2, <2>3
    <2> QED BY <2>5, <2>6, <2>7, <2>8 DEF x
  <1> QED BY <1>1, SyncInvariant, PTL

\* A cancellation is confirmed only after the barrier of its generation
\* (HostProtocol's unsubscribe handler, protocol.cpp).
THEOREM CancelsConfirmedLast == Spec => []CancelAfterBarrier
  <1>1. Safe /\ Sync => CancelAfterBarrier
    <2> SUFFICES ASSUME Safe, Sync, NEW j \in DOMAIN p.hist, p.hist[j].t = "cancelled"
                 PROVE  \E l \in 1..(j - 1) :
                            p.hist[l].t = "retired" /\ p.hist[l].i = p.hist[j].i /\ p.hist[l].g = p.hist[j].g
      BY DEF CancelAfterBarrier
    <2>1. p.hist \in Seq(EventType) /\ Confirmed(p.hist)
      BY HostFields DEF Sync, Streams, Ledger, Frames
    <2>2. j \in 1..Len(p.hist)
      BY <2>1
    <2> QED BY <2>1, <2>2 DEF Confirmed
  <1> QED BY <1>1, SyncInvariant, PTL

\* Credit: the window and the queue hold what the streams account for, and a
\* report waits only while an acknowledgement is owed that will release it
\* (ReportCreditManager, subscription.cpp), with the shape of the state.
THEOREM CreditIsBalanced == Spec => []CreditBalance
  <1>1. Safe /\ Sync => CreditBalance
    <2> SUFFICES ASSUME Safe, Sync PROVE CreditBalance
      OBVIOUS
    <2>1. /\ Ledger(p) /\ Nested(h) /\ n <= MaxReports
          /\ p.st \in Stages /\ p.hist \in Seq(EventType)
      BY HostFields DEF Sync, Streams, Ledger, Frames, Bounded
    <2>2. \A j \in DOMAIN p.hist : p.hist[j].t \in Kinds /\ p.hist[j].i \in Ids
      <3>1. \A j \in DOMAIN p.hist : p.hist[j] \in EventType
        BY <2>1
      <3> QED BY <3>1 DEF EventType
    <2>3. n \in 0..MaxReports
      BY <2>1, Running, BoundsAssumption
    <2>4. \A i \in Ids : sub[i].client \in {"none", "connect", "sent", "live"}
      BY Running DEF SubType, Clients
    <2>5. h.phase \in {"run", "closing", "stopping", "exited"} /\ Depth <= 2
      BY <2>1 DEF Safe, Shape, HostType, Phases, Nested, Nests, Depth
    <2>6. TypeOK
      BY <2>1, <2>2, <2>3, <2>4, <2>5 DEF TypeOK, Ledger, Stages
    <2>7. FlowOK(p.flow) /\ Settled(p.flow)
      BY <2>1 DEF Ledger
    <2> QED BY <2>6, <2>7 DEF CreditBalance, FlowOK, Balanced, Settled
  <1> QED BY <1>1, SyncInvariant, PTL

=============================================================================
