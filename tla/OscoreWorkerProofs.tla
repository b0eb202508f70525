------------------------ MODULE OscoreWorkerProofs -------------------------
(***************************************************************************)
(* Proofs about OscoreWorker for every value of its constants.             *)
(***************************************************************************)
EXTENDS OscoreWorker, FiniteSetTheorems, TLAPS

Registrations == {"observe", "renew"}

-----------------------------------------------------------------------------
(* Types.                                                                  *)

Ids == 0..MaxCmds

FrameType == [k : Kinds, id : Ids, n : Nat, seq : Nat]

ReportType == {NoReport} \cup [n : Nat, phase : {"begin", "chunk", "end", "result"}]

ObservationType == [used : BOOLEAN, path : BOOLEAN, established : BOOLEAN, cancelling : BOOLEAN,
                    event : BOOLEAN, renew : BOOLEAN, renewing : BOOLEAN, written : BOOLEAN]

ExchangeType ==
    [failed : BOOLEAN, active : BOOLEAN,
     pending : {"none", "request", "observe", "renew", "cancel"},
     observing : BOOLEAN, tok : Nat, ep : Nat, store : BOOLEAN,
     up : SUBSET [k : {"request", "observe", "renew", "cancel"}, tok : Nat, ep : Nat],
     reg : Nat, cancel : Nat]

WorkerType ==
    [opened : BOOLEAN, closing : BOOLEAN, more : BOOLEAN, failed : BOOLEAN, gone : BOOLEAN,
     req : Ids, body : {"none", "active", "complete"},
     stream : {"none", "begin", "chunk", "end", "result"}, out : Seq(FrameType),
     o : ObservationType, rep : ReportType, next : ReportType,
     fresh : [set : BOOLEAN, observe : Nat, aged : BOOLEAN],
     credit : [started : BOOLEAN, assigned : Nat, written : Nat, acked : Nat],
     x : ExchangeType, taken : SUBSET Nat]

MessageType ==
    [tok : Nat, ep : Nat, obs : BOOLEAN, q : {"ok", "changed", "error", "malformed"}, n : Nat]

StateType ==
    /\ s \in WorkerType
    /\ peer \in [tok : Nat, ep : Nat, n : Nat, odd : Nat]
    /\ down \subseteq MessageType
    /\ load.cmds \in Nat /\ load.max \in 0..MaxCmds

-----------------------------------------------------------------------------
(* What the peer may still know of a registration.                         *)

\* Requests are numbered; a request under way has a number of its own.
Numbered(x) ==
    /\ x.active <=> x.pending # "none"
    /\ x.tok <= x.ep /\ x.reg <= x.ep /\ x.cancel <= x.ep
    /\ \A r \in x.up : r.ep <= x.ep /\ (r.k \notin Registrations => r.ep # x.reg)
    /\ \A q, r \in x.up : q.ep = r.ep => q = r

\* What is pending is the last request; after a cancellation nothing is
\* registered again.
Pending(x) ==
    /\ x.pending \in {"observe", "renew"} => x.reg = x.ep /\ x.ep > 0 /\ x.cancel = 0
    /\ x.pending = "cancel" => x.cancel = x.ep /\ x.ep > 0
    /\ x.pending = "renew" => x.observing
    /\ x.pending \in {"request", "observe"} => ~x.observing
    /\ x.cancel > 0 => x.cancel > x.reg /\ (x.observing => x.pending = "cancel")
    /\ x.observing => x.reg > 0

NoRegistration(x) == \A r \in x.up : r.k \notin Registrations

\* While nothing was cancelled: the peer knows at most the last registration
\* and the one it renews, and what it answered tells which.
Known(x, p, msgs) ==
    /\ \A r \in x.up : r.k \in Registrations => r.ep = x.reg /\ r.tok = x.tok
    /\ p.tok # 0 => p.tok = x.tok
    /\ p.tok # 0 /\ p.ep = x.reg => NoRegistration(x)
    /\ x.observing /\ x.pending # "renew" => NoRegistration(x)
    /\ ~x.observing /\ x.pending \in {"none", "request"} => p.tok = 0 /\ NoRegistration(x)
    /\ \A m \in msgs : m.ep = x.reg /\ x.reg > 0 =>
          NoRegistration(x) /\ (~m.obs => p.tok = 0)

Messages(x, p, msgs) ==
    /\ p.ep <= x.ep
    /\ \A m \in msgs : m.ep <= x.ep /\ (m.obs => m.q \in {"ok", "changed"})

Exchange(w, p, msgs) ==
    /\ Numbered(w.x) /\ Messages(w.x, p, msgs)
    /\ w.x.reg > 0 => w.opened /\ w.o.path
    /\ ~w.x.failed =>
          /\ Pending(w.x)
          /\ w.x.observing \/ w.x.cancel > 0 => w.o.used
          /\ w.x.cancel = 0 => Known(w.x, p, msgs)

\* Once the worker is gone nothing moves.
IInv == StateType /\ (~s.gone => Exchange(s, peer, down)) /\ (s.gone => ObserverReleased)

-----------------------------------------------------------------------------
(* The exchange.                                                           *)

\* The invariant speaks of the exchange and of what only grows.
Carries(v, w) ==
    /\ v \in WorkerType
    /\ w.opened => v.opened
    /\ w.o.path => v.o.path
    /\ w.o.used => v.o.used

LEMMA ExchangeSame ==
  ASSUME NEW w \in WorkerType, NEW v \in WorkerType, NEW p, NEW msgs,
         Exchange(w, p, msgs), Carries(v, w), v.x = w.x
  PROVE  Exchange(v, p, msgs)
  BY DEF Exchange, Carries, WorkerType, ObservationType

\* fail() and a refused reservation: nothing more is sent.
LEMMA ExchangeFailed ==
  ASSUME NEW w \in WorkerType, NEW v \in WorkerType, NEW p, NEW msgs,
         Exchange(w, p, msgs), Carries(v, w), v.x.failed,
         v.x.active <=> v.x.pending # "none",
         v.x.tok = w.x.tok, v.x.ep = w.x.ep, v.x.up = w.x.up,
         v.x.reg = w.x.reg, v.x.cancel = w.x.cancel
  PROVE  Exchange(v, p, msgs)
  BY DEF Exchange, Carries, WorkerType, ObservationType, Numbered, Messages

LEMMA FailedShape ==
  ASSUME NEW x \in ExchangeType, x.active <=> x.pending # "none"
  PROVE  LET f == FailedExchange(x)
             g == [x EXCEPT !.failed = TRUE]
         IN \A y \in {f, g} :
              /\ y \in ExchangeType /\ y.failed
              /\ y.active <=> y.pending # "none"
              /\ y.tok = x.tok /\ y.ep = x.ep /\ y.up = x.up /\ y.reg = x.reg /\ y.cancel = x.cancel
  BY DEF FailedExchange, ExchangeType

\* A request that leaves gets the next number.
LEMMA TransmitShape ==
  ASSUME NEW x \in ExchangeType, x.store, NEW k \in {"request", "observe", "renew", "cancel"}
  PROVE  LET y == Transmit(x, k)
             tok == IF k \in {"request", "observe"} THEN x.ep + 1 ELSE x.tok
         IN /\ y \in ExchangeType /\ y.failed = x.failed /\ y.store
            /\ y.active /\ y.pending = k /\ y.observing = x.observing
            /\ y.ep = x.ep + 1 /\ y.tok = tok
            /\ y.up = x.up \cup {[k |-> k, tok |-> tok, ep |-> x.ep + 1]}
            /\ y.reg = IF k \in {"observe", "renew"} THEN x.ep + 1 ELSE x.reg
            /\ y.cancel = IF k = "cancel" THEN x.ep + 1 ELSE x.cancel
  <1> DEFINE tok == IF k \in {"request", "observe"} THEN x.ep + 1 ELSE x.tok
             new == [k |-> k, tok |-> tok, ep |-> x.ep + 1]
             reg == IF k \in {"observe", "renew"} THEN x.ep + 1 ELSE x.reg
             cancel == IF k = "cancel" THEN x.ep + 1 ELSE x.cancel
             y == [x EXCEPT !.ep = x.ep + 1, !.tok = tok, !.active = TRUE, !.pending = k,
                            !.up = x.up \cup {new}, !.reg = reg, !.cancel = cancel]
  <1>1. Transmit(x, k) = y
    BY DEF Transmit, ExchangeType
  <1>2. tok \in Nat /\ reg \in Nat /\ cancel \in Nat /\ x.ep + 1 \in Nat
    BY DEF ExchangeType
  <1>3. x.up \cup {new} \in SUBSET [k : {"request", "observe", "renew", "cancel"}, tok : Nat, ep : Nat]
    BY <1>2 DEF ExchangeType
  <1> HIDE DEF tok, new, reg, cancel
  <1>4. y \in ExchangeType
    BY <1>2, <1>3 DEF ExchangeType
  <1>5. /\ y.failed = x.failed /\ y.store /\ y.active /\ y.pending = k
        /\ y.observing = x.observing /\ y.ep = x.ep + 1 /\ y.tok = tok
        /\ y.up = x.up \cup {new} /\ y.reg = reg /\ y.cancel = cancel
    BY DEF ExchangeType
  <1> QED BY <1>1, <1>4, <1>5 DEF tok, new, reg, cancel

LEMMA TransmitRefused ==
  ASSUME NEW x \in ExchangeType, ~x.store, NEW k
  PROVE  Transmit(x, k) = [x EXCEPT !.failed = TRUE]
  BY DEF Transmit

\* The numbers of requests stay apart.
LEMMA TransmitNumbered ==
  ASSUME NEW x \in ExchangeType, x.store, NEW k \in {"request", "observe", "renew", "cancel"},
         Numbered(x)
  PROVE  Numbered(Transmit(x, k))
  <1> DEFINE y == Transmit(x, k)
             tok == IF k \in {"request", "observe"} THEN x.ep + 1 ELSE x.tok
             new == [k |-> k, tok |-> tok, ep |-> x.ep + 1]
  <1>1. /\ y.active /\ y.pending = k /\ y.ep = x.ep + 1 /\ y.tok = tok
        /\ y.up = x.up \cup {new}
        /\ y.reg = IF k \in {"observe", "renew"} THEN x.ep + 1 ELSE x.reg
        /\ y.cancel = IF k = "cancel" THEN x.ep + 1 ELSE x.cancel
    BY TransmitShape
  <1>2. x.ep \in Nat /\ x.tok \in Nat /\ x.reg \in Nat /\ x.cancel \in Nat /\ \A r \in x.up : r.ep \in Nat
    BY DEF ExchangeType
  <1>3. y.tok <= y.ep /\ y.reg <= y.ep /\ y.cancel <= y.ep
    BY <1>1, <1>2 DEF Numbered
  <1>4. \A r \in y.up : r.ep <= y.ep /\ (r.k \notin Registrations => r.ep # y.reg)
    BY <1>1, <1>2 DEF Numbered, Registrations
  <1>5. \A q, r \in y.up : q.ep = r.ep => q = r
    BY <1>1, <1>2 DEF Numbered
  <1> QED BY <1>1, <1>3, <1>4, <1>5 DEF Numbered

\* The peer, as far as the exchange is concerned.
Peers == [tok : Nat, ep : Nat, n : Nat, odd : Nat]

LEMMA TransmitTyped ==
  ASSUME NEW x \in ExchangeType, NEW k \in {"request", "observe", "renew", "cancel"}
  PROVE  Transmit(x, k) \in ExchangeType
  <1>1. CASE x.store BY <1>1, TransmitShape
  <1>2. [x EXCEPT !.failed = TRUE] \in ExchangeType BY DEF ExchangeType
  <1>3. CASE ~x.store BY <1>2, <1>3, TransmitRefused
  <1> QED BY <1>1, <1>3

\* Sending fails as a whole, or the request is the last one.
LEMMA TransmitKeeps ==
  ASSUME NEW w \in WorkerType, NEW v \in WorkerType, NEW p \in Peers, NEW msgs \in SUBSET MessageType,
         NEW k \in {"request", "observe", "renew", "cancel"},
         Exchange(w, p, msgs), Carries(v, w), v.x = Transmit(w.x, k),
         k \in {"observe", "renew"} => v.opened /\ v.o.path,
         w.x.store => Pending(v.x) /\ (v.x.observing \/ v.x.cancel > 0 => v.o.used)
                                   /\ (v.x.cancel = 0 => Known(v.x, p, msgs))
  PROVE  Exchange(v, p, msgs)
  <1>1. w.x \in ExchangeType /\ w.x.ep \in Nat /\ p.ep \in Nat /\ \A m \in msgs : m.ep \in Nat
    BY DEF WorkerType, ExchangeType, MessageType, Peers
  <1>2. CASE w.x.store
    <2>1. Numbered(v.x)
      BY <1>1, <1>2, TransmitNumbered DEF Exchange
    <2>2. v.x.ep = w.x.ep + 1
      BY <1>1, <1>2, TransmitShape
    <2>3. Messages(v.x, p, msgs)
      BY <1>1, <2>2 DEF Exchange, Messages
    <2>4. v.x.reg = w.x.reg \/ k \in {"observe", "renew"}
      BY <1>1, <1>2, TransmitShape
    <2>5. v.x.reg > 0 => v.opened /\ v.o.path
      BY <2>4 DEF Exchange, Carries
    <2> QED BY <1>2, <2>1, <2>3, <2>5 DEF Exchange
  <1>3. CASE ~w.x.store
    <2>1. v.x = [w.x EXCEPT !.failed = TRUE] /\ (w.x.active <=> w.x.pending # "none")
      BY <1>1, <1>3, TransmitRefused DEF Exchange, Numbered
    <2> QED BY <1>1, <2>1, FailedShape, ExchangeFailed
  <1> QED BY <1>2, <1>3

LEMMA RequestKeeps ==
  ASSUME NEW w \in WorkerType, NEW v \in WorkerType, NEW p \in Peers, NEW msgs \in SUBSET MessageType,
         Exchange(w, p, msgs), Carries(v, w), RequestAllowed(w.x), v.x = Transmit(w.x, "request")
  PROVE  Exchange(v, p, msgs)
  <1>1. w.x \in ExchangeType /\ w.x.ep \in Nat /\ w.x.reg \in Nat /\ w.x.cancel \in Nat
    BY DEF WorkerType, ExchangeType
  <1>2. /\ Numbered(w.x) /\ Pending(w.x) /\ ~w.x.observing /\ w.x.pending = "none"
        /\ w.x.cancel > 0 => w.o.used
        /\ w.x.cancel = 0 => Known(w.x, p, msgs)
    BY DEF Exchange, RequestAllowed, Numbered
  <1>3. ASSUME w.x.store
        PROVE  Pending(v.x) /\ (v.x.observing \/ v.x.cancel > 0 => v.o.used)
                            /\ (v.x.cancel = 0 => Known(v.x, p, msgs))
    <2> DEFINE new == [k |-> "request", tok |-> w.x.ep + 1, ep |-> w.x.ep + 1]
    <2>1. /\ v.x.pending = "request" /\ ~v.x.observing /\ v.x.reg = w.x.reg /\ v.x.cancel = w.x.cancel
          /\ v.x.up = w.x.up \cup {new}
      BY <1>1, <1>2, <1>3, TransmitShape
    <2>2. Pending(v.x)
      BY <1>1, <1>2, <2>1 DEF Pending
    <2>3. ASSUME v.x.cancel = 0 PROVE Known(v.x, p, msgs)
      <3>1. p.tok = 0 /\ NoRegistration(w.x)
        BY <1>2, <2>1, <2>3 DEF Known
      <3>2. NoRegistration(v.x)
        BY <2>1, <3>1 DEF NoRegistration, Registrations
      <3> QED BY <2>1, <3>1, <3>2 DEF Known, NoRegistration
    <2> QED BY <1>2, <2>1, <2>2, <2>3 DEF Carries
  <1> QED BY <1>3, TransmitKeeps

LEMMA ObserveKeeps ==
  ASSUME NEW w \in WorkerType, NEW v \in WorkerType, NEW p \in Peers, NEW msgs \in SUBSET MessageType,
         Exchange(w, p, msgs), Carries(v, w), RequestAllowed(w.x), v.x = Transmit(w.x, "observe"),
         ~w.o.used, v.opened, v.o.path
  PROVE  Exchange(v, p, msgs)
  <1>1. /\ w.x \in ExchangeType /\ w.x.ep \in Nat /\ w.x.reg \in Nat /\ w.x.cancel \in Nat
        /\ p.ep \in Nat /\ p.tok \in Nat /\ \A m \in msgs : m.ep \in Nat
    BY DEF WorkerType, ExchangeType, Peers, MessageType
  <1>2. /\ Numbered(w.x) /\ Messages(w.x, p, msgs) /\ ~w.x.observing /\ w.x.pending = "none"
        /\ w.x.cancel = 0 /\ Known(w.x, p, msgs)
    BY <1>1 DEF Exchange, RequestAllowed, Numbered
  <1>3. ASSUME w.x.store
        PROVE  Pending(v.x) /\ (v.x.observing \/ v.x.cancel > 0 => v.o.used)
                            /\ (v.x.cancel = 0 => Known(v.x, p, msgs))
    <2> DEFINE new == [k |-> "observe", tok |-> w.x.ep + 1, ep |-> w.x.ep + 1]
    <2>1. /\ v.x.pending = "observe" /\ ~v.x.observing /\ v.x.reg = w.x.ep + 1 /\ v.x.cancel = 0
          /\ v.x.ep = w.x.ep + 1 /\ v.x.tok = w.x.ep + 1 /\ v.x.up = w.x.up \cup {new}
      BY <1>1, <1>2, <1>3, TransmitShape
    <2>2. p.tok = 0 /\ NoRegistration(w.x)
      BY <1>2 DEF Known
    <2>3. \A m \in msgs : m.ep # v.x.reg
      BY <1>1, <1>2, <2>1 DEF Messages
    <2>4. \A r \in v.x.up : r.k \in Registrations => r.ep = v.x.reg /\ r.tok = v.x.tok
      BY <2>1, <2>2 DEF NoRegistration
    <2>5. Known(v.x, p, msgs)
      BY <2>1, <2>2, <2>3, <2>4 DEF Known
    <2> QED BY <1>1, <2>1, <2>5 DEF Pending
  <1> QED BY <1>3, TransmitKeeps

LEMMA RenewKeeps ==
  ASSUME NEW w \in WorkerType, NEW v \in WorkerType, NEW p \in Peers, NEW msgs \in SUBSET MessageType,
         Exchange(w, p, msgs), Carries(v, w), RenewAllowed(w.x), v.x = Transmit(w.x, "renew")
  PROVE  Exchange(v, p, msgs)
  <1>1. /\ w.x \in ExchangeType /\ w.x.ep \in Nat /\ w.x.reg \in Nat /\ w.x.cancel \in Nat
        /\ p.ep \in Nat /\ p.tok \in Nat /\ \A m \in msgs : m.ep \in Nat
    BY DEF WorkerType, ExchangeType, Peers, MessageType
  <1>2. /\ Numbered(w.x) /\ Messages(w.x, p, msgs) /\ w.x.observing /\ w.x.pending = "none"
        /\ w.x.cancel = 0 /\ Known(w.x, p, msgs) /\ w.o.used /\ w.x.reg > 0
    BY <1>1 DEF Exchange, RenewAllowed, Numbered, Pending
  <1>3. ASSUME w.x.store
        PROVE  Pending(v.x) /\ (v.x.observing \/ v.x.cancel > 0 => v.o.used)
                            /\ (v.x.cancel = 0 => Known(v.x, p, msgs))
    <2> DEFINE new == [k |-> "renew", tok |-> w.x.tok, ep |-> w.x.ep + 1]
    <2>1. /\ v.x.pending = "renew" /\ v.x.observing /\ v.x.reg = w.x.ep + 1 /\ v.x.cancel = 0
          /\ v.x.ep = w.x.ep + 1 /\ v.x.tok = w.x.tok /\ v.x.up = w.x.up \cup {new}
      BY <1>1, <1>2, <1>3, TransmitShape
    <2>2. NoRegistration(w.x)
      BY <1>2 DEF Known
    <2>3. p.ep # v.x.reg /\ \A m \in msgs : m.ep # v.x.reg
      BY <1>1, <1>2, <2>1 DEF Messages
    <2>4. \A r \in v.x.up : r.k \in Registrations => r.ep = v.x.reg /\ r.tok = v.x.tok
      BY <2>1, <2>2 DEF NoRegistration
    <2>5. Known(v.x, p, msgs)
      BY <1>2, <2>1, <2>2, <2>3, <2>4 DEF Known
    <2> QED BY <1>1, <1>2, <2>1, <2>5 DEF Pending, Carries
  <1>4. w.opened /\ w.o.path
    BY <1>2 DEF Exchange
  <1> QED BY <1>3, <1>4, TransmitKeeps DEF Carries

LEMMA CancelTyped == ASSUME NEW x \in ExchangeType PROVE Cancelled(x) \in ExchangeType
  BY TransmitTyped DEF Cancelled

LEMMA CancelKeeps ==
  ASSUME NEW w \in WorkerType, NEW v \in WorkerType, NEW p \in Peers, NEW msgs \in SUBSET MessageType,
         Exchange(w, p, msgs), Carries(v, w), v.x = Cancelled(w.x)
  PROVE  Exchange(v, p, msgs)
  <1>1. CASE ~CancelAllowed(w.x)
    BY <1>1, ExchangeSame DEF Cancelled
  <1>2. CASE CancelAllowed(w.x)
    <2>1. /\ w.x \in ExchangeType /\ w.x.ep \in Nat /\ w.x.reg \in Nat
          /\ Numbered(w.x) /\ w.o.used /\ w.x.reg > 0 /\ w.x.observing
      BY <1>2 DEF WorkerType, ExchangeType, CancelAllowed, Exchange, Pending
    <2>2. v.x = Transmit(w.x, "cancel")
      BY <1>2 DEF Cancelled
    <2>3. ASSUME w.x.store
          PROVE  Pending(v.x) /\ (v.x.observing \/ v.x.cancel > 0 => v.o.used)
                              /\ (v.x.cancel = 0 => Known(v.x, p, msgs))
      <3>1. /\ v.x.pending = "cancel" /\ v.x.reg = w.x.reg /\ v.x.cancel = w.x.ep + 1
            /\ v.x.ep = w.x.ep + 1
        BY <2>1, <2>2, <2>3, TransmitShape
      <3> QED BY <2>1, <3>1 DEF Pending, Numbered, Carries
    <2> QED BY <2>2, <2>3, TransmitKeeps
  <1> QED BY <1>1, <1>2

LEMMA DeliveredShape ==
  ASSUME NEW x \in ExchangeType, NEW m \in MessageType
  PROVE  LET y == Delivered(x, m)
         IN /\ y \in ExchangeType /\ y.failed = x.failed /\ y.tok = x.tok /\ y.ep = x.ep
            /\ y.store = x.store /\ y.up = x.up /\ y.reg = x.reg /\ y.cancel = x.cancel
            /\ \/ y = x
               \/ /\ x.pending = "request" /\ ~y.active /\ y.pending = "none"
                  /\ y.observing = x.observing
               \/ /\ x.pending \in {"observe", "renew"} /\ ~y.active /\ y.pending = "none"
                  /\ y.observing = Registered(m)
               \/ x.pending = "cancel" /\ ~y.active /\ y.pending = "none" /\ ~y.observing
  BY DEF Delivered, Delivery, ExchangeType, Registered

\* The answer to a registration tells whether the peer keeps it.
LEMMA DeliveredKeeps ==
  ASSUME NEW w \in WorkerType, NEW v \in WorkerType, NEW p \in Peers, NEW msgs \in SUBSET MessageType,
         NEW m \in msgs, Verified(w.x, m),
         Exchange(w, p, msgs), Carries(v, w), v.x = Delivered(w.x, m),
         ~v.x.failed /\ v.x.observing => v.o.used
  PROVE  Exchange(v, p, msgs)
  <1>1. /\ w.x \in ExchangeType /\ m \in MessageType /\ w.x.cancel \in Nat /\ w.x.reg \in Nat
    BY DEF WorkerType, ExchangeType
  <1>2. /\ v.x.failed = w.x.failed /\ v.x.tok = w.x.tok /\ v.x.ep = w.x.ep
        /\ v.x.store = w.x.store /\ v.x.up = w.x.up /\ v.x.reg = w.x.reg /\ v.x.cancel = w.x.cancel
    BY <1>1, DeliveredShape
  <1>3. Numbered(v.x)
    BY <1>1, <1>2, DeliveredShape DEF Exchange, Numbered
  <1>4. Messages(v.x, p, msgs) /\ (v.x.reg > 0 => v.opened /\ v.o.path)
    BY <1>2 DEF Exchange, Messages, Carries
  <1>5. ASSUME ~v.x.failed
        PROVE  Pending(v.x) /\ (v.x.cancel = 0 => Known(v.x, p, msgs))
    <2>1. Pending(w.x) /\ (w.x.cancel = 0 => Known(w.x, p, msgs)) /\ Messages(w.x, p, msgs)
      BY <1>2, <1>5 DEF Exchange
    <2>2. CASE v.x = w.x
      BY <2>1, <2>2
    <2>3. CASE /\ w.x.pending = "request" /\ v.x.pending = "none" /\ v.x.observing = w.x.observing
      BY <1>1, <1>2, <2>1, <2>3 DEF Pending, Known, NoRegistration
    <2>4. CASE /\ w.x.pending \in {"observe", "renew"} /\ v.x.pending = "none"
               /\ v.x.observing = Registered(m)
      <3>1. w.x.reg = w.x.ep /\ w.x.cancel = 0 /\ m.ep = w.x.reg
        BY <2>1, <2>4 DEF Pending, Verified
      <3>2. w.x.reg > 0
        BY <1>1, <2>1, <2>4, <3>1 DEF Pending, Exchange
      <3>3. NoRegistration(w.x) /\ (~m.obs => p.tok = 0)
        BY <2>1, <3>1, <3>2 DEF Known
      <3>4. NoRegistration(v.x)
        BY <1>2, <3>3 DEF NoRegistration
      <3>5. Registered(m) \/ p.tok = 0
        BY <2>1, <3>3 DEF Registered, Messages
      <3>6. Pending(v.x)
        BY <1>1, <1>2, <2>4, <3>1, <3>2 DEF Pending
      <3>7. Known(v.x, p, msgs)
        BY <1>2, <2>1, <2>4, <3>1, <3>4, <3>5 DEF Known
      <3> QED BY <3>6, <3>7
    <2>5. CASE w.x.pending = "cancel" /\ v.x.pending = "none" /\ ~v.x.observing
      <3>1. w.x.cancel = w.x.ep /\ w.x.cancel # 0
        BY <1>1, <2>1, <2>5 DEF Pending
      <3> QED BY <1>1, <1>2, <2>1, <2>5, <3>1 DEF Pending
    <2> QED BY <1>1, <2>2, <2>3, <2>4, <2>5, DeliveredShape
  <1>6. ~v.x.failed /\ v.x.cancel > 0 => v.o.used
    BY <1>2 DEF Exchange, Carries
  <1> QED BY <1>3, <1>4, <1>5, <1>6 DEF Exchange

-----------------------------------------------------------------------------
(* The worker: most of it leaves the exchange alone.                       *)

Quiet(v, w) == Carries(v, w) /\ v.gone = w.gone /\ v.x = w.x

LEMMA PutQuiet ==
  ASSUME NEW w \in WorkerType, NEW f \in FrameType
  PROVE  Quiet(Put(w, f), w)
  <1>1. Append(w.out, f) \in Seq(FrameType)
    BY DEF WorkerType
  <1>2. CASE Len(w.out) = OutFrames
    BY <1>2 DEF Put, Quiet, Carries, WorkerType
  <1>3. CASE Len(w.out) # OutFrames
    <2> DEFINE v == [w EXCEPT !.out = Append(w.out, f)]
    <2>1. v \in WorkerType
      BY <1>1 DEF WorkerType
    <2>2. v.opened = w.opened /\ v.o = w.o /\ v.gone = w.gone /\ v.x = w.x
      BY DEF WorkerType
    <2>3. Put(w, f) = v
      BY <1>3 DEF Put
    <2> QED BY <2>1, <2>2, <2>3 DEF Quiet, Carries
  <1> QED BY <1>2, <1>3

LEMMA OkErr == "ok" \in Kinds /\ "err" \in Kinds
  BY DEF Kinds

LEMMA ZeroId == 0 \in Ids
  BY WorkerAssumption DEF Ids

LEMMA AnswerQuiet ==
  ASSUME NEW w \in WorkerType, NEW id \in Ids, NEW k \in Kinds
  PROVE  Quiet(Answer(w, id, k), w)
  <1>1. Frame(k, id, 0, 0) \in FrameType
    BY DEF Frame, FrameType
  <1> QED BY <1>1, PutQuiet DEF Answer

LEMMA FinishQuiet ==
  ASSUME NEW w \in WorkerType, NEW k \in Kinds
  PROVE  Quiet(Finish(w, k), w)
  <1>1. w.req \in Ids /\ 0 \in Ids
    BY ZeroId DEF WorkerType
  <1>2. Quiet(Answer(w, w.req, k), w)
    BY <1>1, AnswerQuiet
  <1> DEFINE a == Answer(w, w.req, k)
             v == [a EXCEPT !.req = 0]
  <1>3. a \in WorkerType
    BY <1>2 DEF Quiet, Carries
  <1> HIDE DEF a
  <1>4. v \in WorkerType
    BY <1>1, <1>3 DEF WorkerType
  <1>5. v.opened = a.opened /\ v.o = a.o /\ v.gone = a.gone /\ v.x = a.x
    BY <1>3 DEF WorkerType
  <1> QED BY <1>2, <1>4, <1>5 DEF Finish, Quiet, Carries, a

LEMMA EndedQuiet ==
  ASSUME NEW w \in WorkerType
  PROVE  Quiet(Ended(w), w) /\ Quiet(ClearReports(w), w)
  <1>1. NoReport \in ReportType
    BY DEF ReportType
  <1>2. Quiet(ClearReports(w), w)
    BY <1>1 DEF ClearReports, Quiet, Carries, WorkerType
  <1>3. Quiet(Ended(w), w)
    BY <1>2 DEF Ended, Quiet, Carries, WorkerType, ObservationType
  <1> QED BY <1>2, <1>3

\* The worker after a response: the exchange is as it was or, if the report
\* ends the observation, a cancellation follows.
Settled(v, w) == Carries(v, w) /\ v.gone = w.gone /\ v.x \in {w.x, Cancelled(w.x)}

LEMMA TerminalSettled ==
  ASSUME NEW w \in WorkerType
  PROVE  Settled(Terminal(w), w)
  <1> DEFINE e == Ended(w)
             a == [e EXCEPT !.closing = TRUE, !.x = Cancelled(e.x)]
  <1>1. Quiet(e, w) /\ e \in WorkerType /\ e.x \in ExchangeType
    BY EndedQuiet DEF Quiet, Carries, WorkerType
  <1>2. Cancelled(e.x) \in ExchangeType
    BY <1>1, CancelTyped
  <1> HIDE DEF e
  <1>3. a \in WorkerType
    BY <1>1, <1>2 DEF WorkerType
  <1>4. a.opened = e.opened /\ a.o = e.o /\ a.gone = e.gone /\ a.x = Cancelled(e.x)
    BY <1>1 DEF WorkerType
  <1>5. Frame("error", 0, 0, 0) \in FrameType
    BY ZeroId DEF Frame, FrameType, Kinds
  <1>6. Quiet(Put(a, Frame("error", 0, 0, 0)), a)
    BY <1>3, <1>5, PutQuiet
  <1>7. Terminal(w) = Put(a, Frame("error", 0, 0, 0))
    BY DEF Terminal, e
  <1> QED BY <1>1, <1>4, <1>6, <1>7 DEF Settled, Quiet, Carries

LEMMA ReportTyped ==
  ASSUME NEW m \in MessageType
  PROVE  Report(m) \in ReportType
  BY DEF Report, ReportType, MessageType

LEMMA TakeQuiet ==
  ASSUME NEW w \in WorkerType, NEW m \in MessageType
  PROVE  Quiet(Take(w, m), w)
  <1>1. m.n \in Nat /\ m.n % Ring \in Nat
    BY ExchangeAssumption DEF MessageType
  <1>2. Freshened(m) \in [set : BOOLEAN, observe : Nat, aged : BOOLEAN]
    BY <1>1 DEF Freshened, Observe
  <1>3. w.taken \cup {m.n} \in SUBSET Nat
    BY <1>1 DEF WorkerType
  <1> DEFINE f == Freshened(m)
             t == w.taken \cup {m.n}
             v == [w EXCEPT !.fresh = f, !.taken = t]
  <1>4. Take(w, m) = v
    BY DEF Take
  <1> HIDE DEF f, t
  <1>5. v \in WorkerType
    BY <1>2, <1>3 DEF WorkerType, f, t
  <1>6. v.opened = w.opened /\ v.o = w.o /\ v.gone = w.gone /\ v.x = w.x
    BY DEF WorkerType
  <1> QED BY <1>4, <1>5, <1>6 DEF Quiet, Carries

LEMMA PlaceSettled ==
  ASSUME NEW w \in WorkerType, NEW m \in MessageType
  PROVE  Settled(Place(w, m), w)
  <1> DEFINE r == Report(m)
  <1>1. r \in ReportType
    BY ReportTyped
  <1> HIDE DEF r
  <1>2. Quiet([w EXCEPT !.next = r], w)
    BY <1>1 DEF Quiet, Carries, WorkerType
  <1>3. Quiet([w EXCEPT !.rep = r], w)
    BY <1>1 DEF Quiet, Carries, WorkerType
  <1>4. Place(w, m) \in {Terminal(w), [w EXCEPT !.next = r], [w EXCEPT !.rep = r]}
    BY DEF Place, r
  <1> QED BY <1>2, <1>3, <1>4, TerminalSettled DEF Settled, Quiet

\* An answer that also closes the worker.
LEMMA FinishCloses ==
  ASSUME NEW w \in WorkerType, NEW k \in Kinds
  PROVE  Quiet([Finish(w, k) EXCEPT !.closing = TRUE], w)
  <1> DEFINE a == Finish(w, k)
             v == [a EXCEPT !.closing = TRUE]
  <1>1. Quiet(a, w) /\ a \in WorkerType
    BY FinishQuiet DEF Quiet, Carries
  <1> HIDE DEF a
  <1>2. v \in WorkerType
    BY <1>1 DEF WorkerType
  <1>3. v.opened = a.opened /\ v.o = a.o /\ v.gone = a.gone /\ v.x = a.x
    BY <1>1 DEF WorkerType
  <1> QED BY <1>1, <1>2, <1>3 DEF Quiet, Carries, a

LEMMA FailsQuiet ==
  ASSUME NEW w \in WorkerType
  PROVE  Quiet([w EXCEPT !.failed = TRUE], w) /\ [w EXCEPT !.failed = TRUE].failed
  BY DEF Quiet, Carries, WorkerType

\* A registration the worker accepts marks the observation as used.
LEMMA InitialQuiet ==
  ASSUME NEW w \in WorkerType, NEW m \in MessageType
  PROVE  LET r == InitialResponse(w, m)
         IN Quiet(r, w) /\ (Registered(m) => r.o.used \/ r.failed)
  <1> DEFINE t == Take(w, m)
             a == Finish(t, "ok")
             p == Report(m)
             r == [a EXCEPT !.rep = p, !.o.established = TRUE, !.o.used = TRUE]
             e == [Finish(w, "err") EXCEPT !.closing = TRUE]
  <1>1. Quiet(t, w) /\ t \in WorkerType
    BY TakeQuiet DEF Quiet, Carries
  <1>2. Quiet(a, t) /\ a \in WorkerType /\ p \in ReportType
    BY <1>1, OkErr, FinishQuiet, ReportTyped DEF Quiet, Carries
  <1>3. CASE w.req = 0
    <2>1. InitialResponse(w, m) = [w EXCEPT !.failed = TRUE]
      BY <1>3 DEF InitialResponse
    <2> QED BY <2>1, FailsQuiet
  <1>4. CASE w.req # 0 /\ ~Registered(m)
    <2>1. InitialResponse(w, m) = e
      BY <1>4 DEF InitialResponse, Prepared
    <2> QED BY <1>4, <2>1, OkErr, FinishCloses
  <1>5. CASE w.req # 0 /\ Registered(m)
    <2>1. InitialResponse(w, m) = r
      BY <1>5 DEF InitialResponse, Prepared, Registered
    <2> HIDE DEF t, a, p
    <2>2. r \in WorkerType
      BY <1>2 DEF WorkerType, ObservationType
    <2>3. /\ r.opened = a.opened /\ r.gone = a.gone /\ r.x = a.x
          /\ r.o.path = a.o.path /\ r.o.used
      BY <1>2 DEF WorkerType, ObservationType
    <2> QED BY <1>1, <1>2, <2>1, <2>2, <2>3 DEF Quiet, Carries
  <1> QED BY <1>3, <1>4, <1>5

LEMMA LaterSettled ==
  ASSUME NEW w \in WorkerType, NEW m \in MessageType, NEW renewal \in BOOLEAN
  PROVE  Settled(LaterReport(w, m, renewal), w)
  <1> DEFINE t == Take(w, m)
             u == [t EXCEPT !.o.renewing = t.o.renewing /\ ~renewal]
  <1>1. Quiet(t, w) /\ t \in WorkerType
    BY TakeQuiet DEF Quiet, Carries
  <1>2. Quiet([w EXCEPT !.failed = TRUE], w)
    BY FailsQuiet
  <1>3. LaterReport(w, m, renewal) \in {[w EXCEPT !.failed = TRUE], Terminal(w), w, Place(u, m)}
    BY DEF LaterReport
  <1> HIDE DEF t
  <1>4. u \in WorkerType
    BY <1>1 DEF WorkerType, ObservationType
  <1>5. /\ u.opened = t.opened /\ u.gone = t.gone /\ u.x = t.x
        /\ u.o.path = t.o.path /\ u.o.used = t.o.used
    BY <1>1 DEF WorkerType, ObservationType
  <1>6. Settled(Place(u, m), u)
    BY <1>4, PlaceSettled
  <1>7. Settled(Place(u, m), w)
    BY <1>1, <1>5, <1>6 DEF Settled, Quiet, Carries
  <1>8. Settled(w, w)
    BY DEF Settled, Carries
  <1> QED BY <1>2, <1>3, <1>7, <1>8, TerminalSettled DEF Settled, Quiet

LEMMA CancelConfirmedQuiet ==
  ASSUME NEW w \in WorkerType, NEW m \in MessageType
  PROVE  Quiet(CancelConfirmed(w, m), w)
  <1> DEFINE a == Finish(w, "ok")
             e == Ended(a)
             v == [e EXCEPT !.o.event = FALSE]
  <1>1. Quiet(a, w) /\ a \in WorkerType
    BY OkErr, FinishQuiet DEF Quiet, Carries
  <1>2. Quiet(e, a) /\ e \in WorkerType
    BY <1>1, EndedQuiet DEF Quiet, Carries
  <1>3. CancelConfirmed(w, m) \in {[w EXCEPT !.failed = TRUE], [Finish(w, "err") EXCEPT !.closing = TRUE], v}
    BY DEF CancelConfirmed
  <1> HIDE DEF a, e
  <1>4. v \in WorkerType
    BY <1>2 DEF WorkerType, ObservationType
  <1>5. /\ v.opened = e.opened /\ v.gone = e.gone /\ v.x = e.x
        /\ v.o.path = e.o.path /\ v.o.used = e.o.used
    BY <1>2 DEF WorkerType, ObservationType
  <1>6. Quiet(v, w)
    BY <1>1, <1>2, <1>4, <1>5 DEF Quiet, Carries
  <1> QED BY <1>3, <1>6, OkErr, FailsQuiet, FinishCloses

LEMMA UnaryQuiet ==
  ASSUME NEW w \in WorkerType, NEW m \in MessageType
  PROVE  Quiet(UnaryResponse(w, m), w)
  <1>1. UnaryResponse(w, m) \in {[w EXCEPT !.failed = TRUE], Finish(w, "err"), Finish(w, "ok"),
                                 [w EXCEPT !.stream = "begin"]}
    BY DEF UnaryResponse
  <1>2. Quiet([w EXCEPT !.stream = "begin"], w)
    BY DEF Quiet, Carries, WorkerType
  <1> QED BY <1>1, <1>2, OkErr, FailsQuiet, FinishQuiet

\* A worker that failed takes its exchange along.
Marked(r) == [r EXCEPT !.x.failed = @ \/ r.failed]

LEMMA CallbackShape ==
  ASSUME NEW w \in WorkerType, NEW m \in MessageType, NEW d
  PROVE  \E r \in WorkerType :
           /\ Callback(w, m, d) = Marked(r)
           /\ Settled(r, w)
           /\ d = "initial" => Quiet(r, w) /\ (Registered(m) => r.o.used \/ r.failed)
  <1>0. [w EXCEPT !.failed = TRUE] \in WorkerType /\ Settled([w EXCEPT !.failed = TRUE], w) /\ Settled(w, w)
    BY FailsQuiet DEF Settled, Quiet, Carries
  <1>1. CASE d = "unary"
    <2>1. UnaryResponse(w, m) \in WorkerType /\ Settled(UnaryResponse(w, m), w)
      BY UnaryQuiet DEF Settled, Quiet, Carries
    <2>2. Callback(w, m, d) = Marked(UnaryResponse(w, m))
      BY <1>1 DEF Callback, Marked
    <2> QED BY <1>1, <2>1, <2>2
  <1>2. CASE d = "initial"
    <2>1. /\ InitialResponse(w, m) \in WorkerType /\ Settled(InitialResponse(w, m), w)
          /\ Quiet(InitialResponse(w, m), w)
          /\ Registered(m) => InitialResponse(w, m).o.used \/ InitialResponse(w, m).failed
      BY InitialQuiet DEF Settled, Quiet, Carries
    <2>2. Callback(w, m, d) = Marked(InitialResponse(w, m))
      BY <1>2 DEF Callback, Marked
    <2> QED BY <2>1, <2>2
  <1>3. CASE d \in {"report", "renewed"}
    <2> DEFINE r == LaterReport(w, m, d = "renewed")
    <2>1. Settled(r, w) /\ r \in WorkerType
      BY LaterSettled DEF Settled, Carries
    <2>2. Callback(w, m, d) = Marked(r)
      BY <1>3 DEF Callback, Marked
    <2> HIDE DEF r
    <2> QED BY <1>3, <2>1, <2>2
  <1>4. CASE d = "intervening"
    <2>1. \/ Callback(w, m, d) = Marked(w)
          \/ Callback(w, m, d) = Marked([w EXCEPT !.failed = TRUE])
      BY <1>4 DEF Callback, Marked
    <2> QED BY <1>0, <1>4, <2>1
  <1>5. CASE d \notin {"unary", "initial", "report", "renewed", "intervening"}
    <2>1. CancelConfirmed(w, m) \in WorkerType /\ Settled(CancelConfirmed(w, m), w)
      BY CancelConfirmedQuiet DEF Settled, Quiet, Carries
    <2>2. Callback(w, m, d) = Marked(CancelConfirmed(w, m))
      BY <1>5 DEF Callback, Marked
    <2> QED BY <1>5, <2>1, <2>2
  <1> QED BY <1>1, <1>2, <1>3, <1>4, <1>5

LEMMA MarkedShape ==
  ASSUME NEW r \in WorkerType
  PROVE  LET v == Marked(r)
         IN /\ v \in WorkerType /\ v.gone = r.gone /\ Carries(v, r)
            /\ v.x.failed = (r.x.failed \/ r.failed)
            /\ ~v.x.failed => v.x = r.x
            /\ v.x.active = r.x.active /\ v.x.pending = r.x.pending
            /\ v.x.tok = r.x.tok /\ v.x.ep = r.x.ep /\ v.x.up = r.x.up
            /\ v.x.reg = r.x.reg /\ v.x.cancel = r.x.cancel
  <1> DEFINE b == r.x.failed \/ r.failed
             y == [r.x EXCEPT !.failed = b]
             v == [r EXCEPT !.x = y]
  <1>1. r.x \in ExchangeType /\ b \in BOOLEAN /\ r.x.failed \in BOOLEAN
    BY DEF WorkerType, ExchangeType
  <1>2. Marked(r) = v
    BY DEF Marked, WorkerType
  <1> HIDE DEF b
  <1>3. y \in ExchangeType /\ y.failed = b
    BY <1>1 DEF ExchangeType
  <1>4. /\ y.active = r.x.active /\ y.pending = r.x.pending
        /\ y.tok = r.x.tok /\ y.ep = r.x.ep /\ y.up = r.x.up
        /\ y.reg = r.x.reg /\ y.cancel = r.x.cancel
    BY <1>1 DEF ExchangeType
  <1>5. ~b => y = r.x
    BY <1>1 DEF ExchangeType, b
  <1> HIDE DEF y
  <1>6. v \in WorkerType /\ v.x = y /\ v.gone = r.gone /\ v.opened = r.opened /\ v.o = r.o
    BY <1>3 DEF WorkerType
  <1> QED BY <1>2, <1>3, <1>4, <1>5, <1>6 DEF Carries, b

LEMMA MarkedKeeps ==
  ASSUME NEW r \in WorkerType, NEW p, NEW msgs, Exchange(r, p, msgs)
  PROVE  Exchange(Marked(r), p, msgs)
  <1> DEFINE v == Marked(r)
  <1>1. CASE v.x.failed
    <2>1. v.x.active <=> v.x.pending # "none"
      BY MarkedShape DEF Exchange, Numbered
    <2> QED BY <1>1, <2>1, MarkedShape, ExchangeFailed
  <1>2. CASE ~v.x.failed
    BY <1>2, MarkedShape, ExchangeSame
  <1> QED BY <1>1, <1>2

LEMMA SettledKeeps ==
  ASSUME NEW w \in WorkerType, NEW r \in WorkerType, NEW p \in Peers, NEW msgs \in SUBSET MessageType,
         Exchange(w, p, msgs), Settled(r, w)
  PROVE  Exchange(r, p, msgs)
  BY ExchangeSame, CancelKeeps DEF Settled

LEMMA FailureSettled ==
  ASSUME NEW w \in WorkerType
  PROVE  Settled(FailureCallback(w), w)
  <1> DEFINE a == Finish(w, "err")
             e == Ended(a)
             v == [e EXCEPT !.closing = TRUE]
  <1>1. Quiet(a, w) /\ a \in WorkerType
    BY OkErr, FinishQuiet DEF Quiet, Carries
  <1>2. Quiet(e, a) /\ e \in WorkerType
    BY <1>1, EndedQuiet DEF Quiet, Carries
  <1>3. FailureCallback(w) \in {Terminal(w), [w EXCEPT !.failed = TRUE], v}
    BY DEF FailureCallback
  <1> HIDE DEF a, e
  <1>4. v \in WorkerType /\ v.opened = e.opened /\ v.gone = e.gone /\ v.x = e.x /\ v.o = e.o
    BY <1>2 DEF WorkerType
  <1>5. Quiet(v, w)
    BY <1>1, <1>2, <1>4 DEF Quiet, Carries
  <1> QED BY <1>3, <1>5, FailsQuiet, TerminalSettled DEF Settled, Quiet

\* The exchange ends: no more is sent, whatever the callback does.
LEMMA FailureKeeps ==
  ASSUME NEW w \in WorkerType, NEW p \in Peers, NEW msgs \in SUBSET MessageType, Exchange(w, p, msgs)
  PROVE  LET v == FailureCallback([w EXCEPT !.x = FailedExchange(@)])
         IN v \in WorkerType /\ v.gone = w.gone /\ Exchange(v, p, msgs)
  <1> DEFINE y == FailedExchange(w.x)
             u == [w EXCEPT !.x = y]
  <1>1. w.x \in ExchangeType /\ (w.x.active <=> w.x.pending # "none")
    BY DEF WorkerType, Exchange, Numbered
  <1>2. /\ y \in ExchangeType /\ y.failed
        /\ y.active <=> y.pending # "none"
        /\ y.tok = w.x.tok /\ y.ep = w.x.ep /\ y.up = w.x.up /\ y.reg = w.x.reg /\ y.cancel = w.x.cancel
    BY <1>1, FailedShape
  <1> HIDE DEF y
  <1>3. u \in WorkerType /\ u.x = y /\ u.gone = w.gone /\ u.opened = w.opened /\ u.o = w.o
    BY <1>2 DEF WorkerType
  <1> HIDE DEF u
  <1>4. Exchange(u, p, msgs)
    BY <1>2, <1>3, ExchangeFailed DEF Carries
  <1>5. Settled(FailureCallback(u), u)
    BY <1>3, FailureSettled
  <1>6. FailureCallback(u) \in WorkerType /\ Exchange(FailureCallback(u), p, msgs)
    BY <1>3, <1>4, <1>5, SettledKeeps DEF Settled, Carries
  <1> QED BY <1>3, <1>5, <1>6 DEF Settled, u, y

LEMMA ReceivedKeeps ==
  ASSUME NEW w \in WorkerType, NEW p \in Peers, NEW msgs \in SUBSET MessageType, NEW m \in msgs,
         Exchange(w, p, msgs)
  PROVE  LET v == Received(w, m)
         IN v \in WorkerType /\ v.gone = w.gone /\ Exchange(v, p, msgs)
  <1> DEFINE y == Delivered(w.x, m)
             u == [w EXCEPT !.x = y]
             d == Delivery(w.x, m)
             Good(v) == v \in WorkerType /\ v.gone = w.gone /\ Exchange(v, p, msgs)
  <1>1. Good(w) /\ Good(FailureCallback([w EXCEPT !.x = FailedExchange(@)]))
    BY FailureKeeps
  <1>2. Verified(w.x, m) => Good(Callback(u, m, d))
    <2> SUFFICES ASSUME Verified(w.x, m) PROVE Good(Callback(u, m, d))
      OBVIOUS
    <2>1. w.x \in ExchangeType /\ m \in MessageType
      BY DEF WorkerType
    <2>2. y \in ExchangeType
      BY <2>1, DeliveredShape
    <2>3. u \in WorkerType /\ u.x = y /\ u.gone = w.gone /\ u.opened = w.opened /\ u.o = w.o
      BY <2>2 DEF WorkerType
    <2> HIDE DEF u
    <2>4. PICK r \in WorkerType :
           /\ Callback(u, m, d) = Marked(r)
           /\ Settled(r, u)
           /\ d = "initial" => Quiet(r, u) /\ (Registered(m) => r.o.used \/ r.failed)
      BY <2>1, <2>3, CallbackShape
    <2>5. Carries(r, w) /\ r.gone = w.gone
      BY <2>3, <2>4 DEF Settled, Carries
    <2>6. Marked(r) \in WorkerType /\ Marked(r).gone = w.gone
      BY <2>5, MarkedShape
    <2>7. CASE d = "initial"
      <3>1. r.x = y
        BY <2>3, <2>4, <2>7 DEF Quiet
      <3>2. CASE r.failed
        <4>1. Marked(r).x.failed /\ Carries(Marked(r), w)
          BY <2>5, <3>2, MarkedShape DEF Carries
        <4>2. y.active <=> y.pending # "none"
          BY <2>1, DeliveredShape DEF Exchange, Numbered
        <4>3. /\ y.tok = w.x.tok /\ y.ep = w.x.ep /\ y.up = w.x.up
              /\ y.reg = w.x.reg /\ y.cancel = w.x.cancel
          BY <2>1, DeliveredShape
        <4> HIDE DEF y
        <4>4. Exchange(Marked(r), p, msgs)
          BY <2>6, <3>1, <4>1, <4>2, <4>3, MarkedShape, ExchangeFailed
        <4> QED BY <2>4, <2>6, <4>4
      <3>3. CASE ~r.failed
        <4>1. w.x.pending = "observe" 
          BY <2>1, <2>7 DEF Delivery, ExchangeType
        <4>2. y.observing => Registered(m)
          BY <2>1, <4>1 DEF Delivered, Delivery, ExchangeType
        <4>3. Exchange(r, p, msgs)
          BY <2>4, <2>5, <2>7, <3>1, <3>3, <4>2, DeliveredKeeps
        <4> QED BY <2>4, <2>6, <4>3, MarkedKeeps
      <3> QED BY <3>2, <3>3
    <2>8. CASE d # "initial"
      <3>1. w.x.pending # "observe"
        BY <2>1, <2>8 DEF Delivery
      <3>2. ~y.failed /\ y.observing => ~w.x.failed /\ w.x.observing
        BY <2>1, <3>1, DeliveredShape DEF Exchange, Pending
      <3>3. ~y.failed /\ y.observing => u.o.used
        BY <2>3, <3>2 DEF Exchange
      <3>4. Exchange(u, p, msgs)
        BY <2>3, <3>3, DeliveredKeeps DEF Carries
      <3>5. Exchange(r, p, msgs)
        BY <2>3, <2>4, <3>4, SettledKeeps
      <3> QED BY <2>4, <2>6, <3>5, MarkedKeeps
    <2> QED BY <2>7, <2>8
  <1> HIDE DEF Good
  <1>3. Received(w, m) = w \/ Received(w, m) = FailureCallback([w EXCEPT !.x = FailedExchange(@)])
        \/ (Verified(w.x, m) /\ Received(w, m) = Callback(u, m, d))
    BY DEF Received
  <1> QED BY <1>1, <1>2, <1>3 DEF Good

-----------------------------------------------------------------------------
(* Commands.                                                               *)

\* What a command may make of the worker.
Kept(v, w, p, msgs) == v \in WorkerType /\ v.gone = w.gone /\ Exchange(v, p, msgs)

LEMMA QuietKept ==
  ASSUME NEW w \in WorkerType, NEW v, NEW p, NEW msgs, Exchange(w, p, msgs), Quiet(v, w)
  PROVE  Kept(v, w, p, msgs)
  BY ExchangeSame DEF Quiet, Kept, Carries

LEMMA AnswerCloses ==
  ASSUME NEW w \in WorkerType, NEW id \in Ids, NEW k \in Kinds,
         NEW b \in {"none", "active", "complete"}
  PROVE  /\ Quiet([Answer(w, id, k) EXCEPT !.closing = TRUE], w)
         /\ Quiet([Answer(w, id, k) EXCEPT !.body = b], w)
         /\ Quiet([Answer(w, id, k) EXCEPT !.closing = TRUE, !.body = b], w)
  <1> DEFINE a == Answer(w, id, k)
  <1>1. Quiet(a, w) /\ a \in WorkerType
    BY AnswerQuiet DEF Quiet, Carries
  <1> HIDE DEF a
  <1> DEFINE Like(v) == v \in WorkerType /\ v.opened = a.opened /\ v.o = a.o /\ v.gone = a.gone
                        /\ v.x = a.x
  <1>2. Like([a EXCEPT !.closing = TRUE])
    BY <1>1 DEF WorkerType
  <1>4. Like([a EXCEPT !.body = b])
    BY <1>1 DEF WorkerType
  <1>5. Like([a EXCEPT !.closing = TRUE, !.body = b])
    BY <1>1 DEF WorkerType
  <1>3. \A v : Like(v) => Quiet(v, w)
    BY <1>1 DEF Quiet, Carries
  <1> QED BY <1>2, <1>3, <1>4, <1>5 DEF a

LEMMA OpenQuiet ==
  ASSUME NEW w \in WorkerType, NEW id \in Ids, NEW ok \in BOOLEAN
  PROVE  Quiet(OpenCommand(w, id, ok), w)
  <1> DEFINE v == [w EXCEPT !.opened = TRUE]
  <1>1. v \in WorkerType /\ v.opened /\ v.o = w.o /\ v.gone = w.gone /\ v.x = w.x
    BY DEF WorkerType
  <1> HIDE DEF v
  <1>2. Quiet(Answer(v, id, "ok"), v) /\ Quiet(Answer(w, id, "err"), w)
    BY <1>1, OkErr, AnswerQuiet
  <1>3. OpenCommand(w, id, ok) \in {Answer(v, id, "ok"), Answer(w, id, "err")}
    BY DEF OpenCommand, v
  <1> QED BY <1>1, <1>2, <1>3 DEF Quiet, Carries

LEMMA BodyQuiet ==
  ASSUME NEW w \in WorkerType, NEW id \in Ids, NEW op
  PROVE  Quiet(BodyCommand(w, id, op), w)
  <1> DEFINE b == BodyNext(w.body, op)
             v == [w EXCEPT !.body = b]
  <1>1. b \in {"active", "complete", "failed"}
    BY DEF BodyNext
  <1>2. CASE b = "failed"
    BY <1>2, FailsQuiet DEF BodyCommand
  <1>3. CASE b # "failed"
    <2>1. BodyCommand(w, id, op) = Answer(v, id, "ok")
      BY <1>3 DEF BodyCommand
    <2> HIDE DEF b
    <2>2. v \in WorkerType /\ v.opened = w.opened /\ v.o = w.o /\ v.gone = w.gone /\ v.x = w.x
      BY <1>1, <1>3 DEF WorkerType
    <2> HIDE DEF v
    <2>3. Quiet(Answer(v, id, "ok"), v)
      BY <2>2, OkErr, AnswerQuiet
    <2> QED BY <2>1, <2>2, <2>3 DEF Quiet, Carries
  <1> QED BY <1>2, <1>3

LEMMA CreditQuiet ==
  ASSUME NEW w \in WorkerType, NEW id \in Ids, NEW seq \in Nat
  PROVE  Quiet(CreditCommand(w, id, seq), w)
  <1> DEFINE c == Ack(w.credit, seq)
             v == [w EXCEPT !.credit = c]
  <1>1. w.credit \in [started : BOOLEAN, assigned : Nat, written : Nat, acked : Nat]
    BY DEF WorkerType
  <1>2. c \in [started : BOOLEAN, assigned : Nat, written : Nat, acked : Nat]
    BY <1>1 DEF Ack
  <1>3. CreditCommand(w, id, seq) \in
          {Answer(w, id, "err"), [w EXCEPT !.failed = TRUE], Answer(v, id, "ok")}
    BY DEF CreditCommand
  <1> HIDE DEF c
  <1>4. v \in WorkerType /\ v.opened = w.opened /\ v.o = w.o /\ v.gone = w.gone /\ v.x = w.x
    BY <1>2 DEF WorkerType
  <1> HIDE DEF v
  <1>5. Quiet(Answer(v, id, "ok"), v) /\ Quiet(Answer(w, id, "err"), w)
    BY <1>4, OkErr, AnswerQuiet
  <1>6. Quiet(Answer(v, id, "ok"), w)
    BY <1>4, <1>5 DEF Quiet, Carries
  <1> QED BY <1>3, <1>5, <1>6, FailsQuiet

LEMMA CloseQuiet ==
  ASSUME NEW w \in WorkerType, NEW id \in Ids
  PROVE  Quiet(CloseCommand(w, id), w)
  <1> DEFINE c == ClearReports(w)
  <1>1. Quiet(c, w) /\ c \in WorkerType
    BY EndedQuiet DEF Quiet, Carries
  <1>2. "none" \in {"none", "active", "complete"}
    OBVIOUS
  <1>3. Quiet([Answer(c, id, "ok") EXCEPT !.closing = TRUE], c)
    BY <1>1, <1>2, OkErr, AnswerCloses
  <1> QED BY <1>1, <1>3 DEF CloseCommand, Quiet, Carries

\* Begin hands the exchange to the network, or closes the worker.
LEMMA BeginShape ==
  ASSUME NEW w \in WorkerType, NEW id \in Ids, NEW k \in {"request", "observe"}
  PROVE  LET v == Begin(w, id, k)
         IN Carries(v, w) /\ v.gone = w.gone /\ v.x = Transmit(w.x, k)
  <1> DEFINE y == Transmit(w.x, k)
             a == Answer(w, id, "err")
             u == [a EXCEPT !.x = y, !.closing = TRUE]
             v == [w EXCEPT !.x = y, !.req = id]
  <1>1. w.x \in ExchangeType
    BY DEF WorkerType
  <1>2. y \in ExchangeType
    BY <1>1, TransmitTyped
  <1>3. Quiet(a, w) /\ a \in WorkerType
    BY OkErr, AnswerQuiet DEF Quiet, Carries
  <1>4. Begin(w, id, k) \in {u, v}
    BY DEF Begin
  <1> HIDE DEF y, a
  <1>5. u \in WorkerType /\ u.opened = a.opened /\ u.o = a.o /\ u.gone = a.gone /\ u.x = y
    BY <1>2, <1>3 DEF WorkerType
  <1>6. v \in WorkerType /\ v.opened = w.opened /\ v.o = w.o /\ v.gone = w.gone /\ v.x = y
    BY <1>2 DEF WorkerType
  <1> QED BY <1>3, <1>4, <1>5, <1>6 DEF Quiet, Carries, y

LEMMA RequestCommandKept ==
  ASSUME NEW w \in WorkerType, NEW p \in Peers, NEW msgs \in SUBSET MessageType, Exchange(w, p, msgs),
         NEW id \in Ids, NEW body \in BOOLEAN
  PROVE  Kept(RequestCommand(w, id, body), w, p, msgs)
  <1> DEFINE u == [w EXCEPT !.body = "none"]
             v == Begin(u, id, "request")
  <1>1. \/ Quiet(RequestCommand(w, id, body), w)
        \/ RequestAllowed(w.x) /\ RequestCommand(w, id, body) = v
    <2>1. "none" \in {"none", "active", "complete"}
      OBVIOUS
    <2>2. /\ Quiet(Answer(w, id, "err"), w)
          /\ Quiet([Answer(w, id, "err") EXCEPT !.body = "none"], w)
          /\ Quiet([Answer(w, id, "err") EXCEPT !.closing = TRUE, !.body = "none"], w)
      BY <2>1, OkErr, AnswerQuiet, AnswerCloses
    <2>3. \/ RequestCommand(w, id, body) \in
               {Answer(w, id, "err"), [Answer(w, id, "err") EXCEPT !.body = "none"],
                [Answer(w, id, "err") EXCEPT !.closing = TRUE, !.body = "none"]}
          \/ RequestAllowed(w.x) /\ RequestCommand(w, id, body) = v
      BY DEF RequestCommand, RequestAllowed
    <2> QED BY <2>2, <2>3
  <1>2. u \in WorkerType /\ u.opened = w.opened /\ u.o = w.o /\ u.gone = w.gone /\ u.x = w.x
    BY DEF WorkerType
  <1> HIDE DEF u
  <1>3. Carries(v, u) /\ v.gone = u.gone /\ v.x = Transmit(u.x, "request")
    BY <1>2, BeginShape
  <1>4. RequestAllowed(w.x) => Kept(v, w, p, msgs)
    BY <1>2, <1>3, RequestKeeps DEF Kept, Carries
  <1> QED BY <1>1, <1>4, QuietKept

LEMMA ObserveCommandKept ==
  ASSUME NEW w \in WorkerType, NEW p \in Peers, NEW msgs \in SUBSET MessageType, Exchange(w, p, msgs),
         NEW id \in Ids, NEW event \in BOOLEAN, NEW renew \in BOOLEAN, w.opened
  PROVE  Kept(ObserveCommand(w, id, event, renew), w, p, msgs)
  <1> DEFINE u == [w EXCEPT !.o.path = TRUE, !.o.renew = renew, !.o.event = event]
             a == Answer(u, id, "err")
             r == [a EXCEPT !.o.event = FALSE]
             c == [r EXCEPT !.closing = TRUE]
             v == Begin(u, id, "observe")
  <1>1. \/ ObserveCommand(w, id, event, renew) \in {Answer(w, id, "err"), r, c}
        \/ RequestAllowed(w.x) /\ ~w.o.used /\ ObserveCommand(w, id, event, renew) = v
    BY DEF ObserveCommand, RequestAllowed
  <1>2. /\ u \in WorkerType /\ u.opened = w.opened /\ u.gone = w.gone /\ u.x = w.x
        /\ u.o.path /\ u.o.used = w.o.used
    BY DEF WorkerType, ObservationType
  <1> HIDE DEF u
  <1>3. Quiet(Answer(w, id, "err"), w) /\ Quiet(a, u) /\ a \in WorkerType
    BY <1>2, OkErr, AnswerQuiet DEF Quiet, Carries
  <1> HIDE DEF a
  <1>4. /\ r \in WorkerType /\ r.opened = a.opened /\ r.gone = a.gone /\ r.x = a.x
        /\ r.o.path = a.o.path /\ r.o.used = a.o.used
    BY <1>3 DEF WorkerType, ObservationType
  <1> HIDE DEF r
  <1>5. c \in WorkerType /\ c.opened = r.opened /\ c.gone = r.gone /\ c.x = r.x /\ c.o = r.o
    BY <1>4 DEF WorkerType
  <1>6. Quiet(r, w) /\ Quiet(c, w)
    BY <1>2, <1>3, <1>4, <1>5 DEF Quiet, Carries
  <1>7. Carries(v, u) /\ v.gone = u.gone /\ v.x = Transmit(u.x, "observe")
    BY <1>2, BeginShape
  <1>8. RequestAllowed(w.x) /\ ~w.o.used => Kept(v, w, p, msgs)
    BY <1>2, <1>7, ObserveKeeps DEF Kept, Carries
  <1> QED BY <1>1, <1>3, <1>6, <1>8, QuietKept

LEMMA CancelCommandKept ==
  ASSUME NEW w \in WorkerType, NEW p \in Peers, NEW msgs \in SUBSET MessageType, Exchange(w, p, msgs),
         NEW id \in Ids
  PROVE  Kept(CancelCommand(w, id), w, p, msgs)
  <1> DEFINE e == ClearReports(w)
             q == [e EXCEPT !.o.cancelling = TRUE, !.o.renewing = FALSE, !.req = id]
             y == Cancelled(w.x)
             v == [q EXCEPT !.x = y]
             u == [q EXCEPT !.x = y, !.req = 0, !.o.cancelling = FALSE, !.closing = TRUE]
  <1>1. CancelCommand(w, id) \in {Answer(w, id, "err"), v, Answer(u, id, "err")}
    BY DEF CancelCommand
  <1>2. w.x \in ExchangeType
    BY DEF WorkerType
  <1>3. y \in ExchangeType
    BY <1>2, CancelTyped
  <1>4. Quiet(e, w) /\ e \in WorkerType
    BY EndedQuiet DEF Quiet, Carries
  <1> HIDE DEF e, y
  <1>5. /\ q \in WorkerType /\ q.opened = e.opened /\ q.gone = e.gone
        /\ q.o.path = e.o.path /\ q.o.used = e.o.used
    BY <1>4 DEF WorkerType, ObservationType
  <1> HIDE DEF q
  <1>6. v \in WorkerType /\ v.opened = q.opened /\ v.gone = q.gone /\ v.o = q.o /\ v.x = y
    BY <1>3, <1>5 DEF WorkerType
  <1>7. /\ u \in WorkerType /\ u.opened = q.opened /\ u.gone = q.gone /\ u.x = y
        /\ u.o.path = q.o.path /\ u.o.used = q.o.used
    BY <1>3, <1>5, ZeroId DEF WorkerType, ObservationType
  <1> HIDE DEF u, v
  <1>8. Quiet(Answer(u, id, "err"), u) /\ Quiet(Answer(w, id, "err"), w)
    BY <1>7, OkErr, AnswerQuiet
  <1>9. Settled(v, w) /\ Settled(Answer(u, id, "err"), w)
    BY <1>4, <1>5, <1>6, <1>7, <1>8 DEF Settled, Quiet, Carries, y
  <1>10. Kept(v, w, p, msgs) /\ Kept(Answer(u, id, "err"), w, p, msgs)
    BY <1>9, SettledKeeps DEF Kept, Settled, Carries
  <1> QED BY <1>1, <1>8, <1>10, QuietKept

LEMMA ExecuteKept ==
  ASSUME NEW w \in WorkerType, NEW p \in Peers, NEW msgs \in SUBSET MessageType, Exchange(w, p, msgs),
         NEW id \in Ids, NEW c, c.flag \in BOOLEAN, c.arg \in Nat
  PROVE  Kept(Execute(w, id, c), w, p, msgs)
  <1>1. \/ Execute(w, id, c) \in {[w EXCEPT !.failed = TRUE], OpenCommand(w, id, c.flag),
                                  Answer(w, id, "err"), CreditCommand(w, id, c.arg),
                                  CancelCommand(w, id), CloseCommand(w, id),
                                  RequestCommand(w, id, c.flag), BodyCommand(w, id, c.op)}
        \/ w.opened /\ Execute(w, id, c) = ObserveCommand(w, id, c.arg = 1, c.flag)
    BY DEF Execute, WorkerType
  <1>2. /\ Quiet([w EXCEPT !.failed = TRUE], w) /\ Quiet(OpenCommand(w, id, c.flag), w)
        /\ Quiet(Answer(w, id, "err"), w) /\ Quiet(CreditCommand(w, id, c.arg), w)
        /\ Quiet(CloseCommand(w, id), w) /\ Quiet(BodyCommand(w, id, c.op), w)
    BY OkErr, FailsQuiet, OpenQuiet, AnswerQuiet, CreditQuiet, CloseQuiet, BodyQuiet
  <1>3. Kept(CancelCommand(w, id), w, p, msgs) /\ Kept(RequestCommand(w, id, c.flag), w, p, msgs)
    BY CancelCommandKept, RequestCommandKept
  <1>4. w.opened => Kept(ObserveCommand(w, id, c.arg = 1, c.flag), w, p, msgs)
    <2> DEFINE event == c.arg = 1
    <2>1. event \in BOOLEAN
      OBVIOUS
    <2> HIDE DEF event
    <2>2. w.opened => Kept(ObserveCommand(w, id, event, c.flag), w, p, msgs)
      BY <2>1, ObserveCommandKept
    <2> QED BY <2>2 DEF event
  <1> QED BY <1>1, <1>2, <1>3, <1>4, QuietKept

-----------------------------------------------------------------------------
(* Actions.                                                                *)

\* A step of the worker that keeps its exchange sound.
LEMMA KeptStep ==
  ASSUME IInv, ~s.gone, NEW v, Kept(v, s, peer, down), s' = v, peer' = peer,
         down' \subseteq down, load'.cmds \in Nat, load'.max \in 0..MaxCmds
  PROVE  IInv'
  <1>1. StateType'
    BY DEF IInv, StateType, Kept
  <1>2. ~s'.gone /\ Exchange(s', peer, down)
    BY DEF Kept
  <1>3. Exchange(s', peer, down')
    BY <1>2 DEF Exchange, Messages, Known
  <1> QED BY <1>1, <1>2, <1>3 DEF IInv

LEMMA CommandShape ==
  ASSUME s \in WorkerType, NEW op, NEW c \in Commands(op)
  PROVE  c.flag \in BOOLEAN /\ c.arg \in Nat
  <1>1. s.credit.assigned + 1 \in Nat
    BY DEF WorkerType
  <1>2. \A n \in 0..(s.credit.assigned + 1) : n \in Nat
    BY <1>1
  <1>3. CASE op = "credit"
    <2>1. c \in [op : {op}, flag : {TRUE}, arg : 0..(s.credit.assigned + 1)]
      BY <1>3 DEF Commands
    <2> QED BY <1>2, <2>1
  <1>4. CASE op # "credit"
    <2>1. \/ c \in [op : {op}, flag : BOOLEAN, arg : {0, 1}]
          \/ c \in [op : {op}, flag : BOOLEAN, arg : {0}]
          \/ c \in [op : {op}, flag : {TRUE}, arg : {0}]
      BY <1>4 DEF Commands
    <2>2. c.arg \in {0, 1}
      BY <2>1
    <2>3. c.flag \in BOOLEAN
      BY <2>1, Zenon
    <2> QED BY <2>2, <2>3
  <1> QED BY <1>3, <1>4

LEMMA CommandKeeps == ASSUME IInv, NEW op, Command(op) PROVE IInv'
  <1> DEFINE id == load.cmds + 1
  <1>1. PICK c \in Commands(op), more \in BOOLEAN :
          s' = [Execute(s, id, c) EXCEPT !.more = Execute(s, id, c).closing /\ more]
    BY DEF Command
  <1>2. c.flag \in BOOLEAN /\ c.arg \in Nat
    BY CommandShape DEF IInv, StateType
  <1>3. id \in Ids
    BY WorkerAssumption DEF IInv, StateType, Command, Ids
  <1>4. ~s.gone /\ s \in WorkerType /\ Exchange(s, peer, down) /\ peer \in Peers /\ down \in SUBSET MessageType
    BY DEF IInv, StateType, Command, Running, Peers
  <1> DEFINE w == Execute(s, id, c)
             v == [w EXCEPT !.more = w.closing /\ more]
  <1>5. Kept(w, s, peer, down)
    BY <1>2, <1>3, <1>4, ExecuteKept
  <1> HIDE DEF w, id
  <1>6. w \in WorkerType
    BY <1>5 DEF Kept
  <1>7. (w.closing /\ more) \in BOOLEAN
    OBVIOUS
  <1>8. v \in WorkerType /\ v.opened = w.opened /\ v.o = w.o /\ v.gone = w.gone /\ v.x = w.x
    BY <1>6, <1>7 DEF WorkerType
  <1> HIDE DEF v
  <1>9. Kept(v, s, peer, down)
    BY <1>5, <1>6, <1>8, ExchangeSame DEF Kept, Carries
  <1>10. load'.cmds \in Nat /\ load'.max \in 0..MaxCmds
    BY DEF IInv, StateType, Command
  <1>11. s' = v /\ UNCHANGED <<peer, down>>
    BY <1>1 DEF Command, v, w, id
  <1> QED BY <1>4, <1>9, <1>10, <1>11, KeptStep

\* The steps of the loop that read no command.
LEMMA LoopState ==
  ASSUME IInv, ~s.gone
  PROVE  /\ s \in WorkerType /\ Exchange(s, peer, down) /\ peer \in Peers /\ down \in SUBSET MessageType
         /\ load.cmds \in Nat /\ load.max \in 0..MaxCmds
  BY DEF IInv, StateType, Peers

LEMMA QuietStep ==
  ASSUME IInv, ~s.gone, NEW v, Quiet(v, s), s' = v, UNCHANGED <<peer, down, load>>
  PROVE  IInv'
  BY LoopState, QuietKept, KeptStep

LEMMA SettledStep ==
  ASSUME IInv, ~s.gone, NEW v, Settled(v, s), s' = v, UNCHANGED <<peer, down, load>>
  PROVE  IInv'
  <1>1. Kept(v, s, peer, down)
    BY LoopState, SettledKeeps DEF Settled, Carries, Kept
  <1> QED BY <1>1, LoopState, KeptStep

LEMMA MalformedKeeps == ASSUME IInv, MalformedLine PROVE IInv'
  BY LoopState, FailsQuiet, QuietStep DEF MalformedLine, Running

LEMMA ReceiveKeeps == ASSUME IInv, Receive PROVE IInv'
  <1>1. PICK m \in down, keep \in BOOLEAN :
          s' = Received(s, m) /\ down' = IF keep THEN down ELSE down \ {m}
    BY DEF Receive
  <1>2. ~s.gone /\ UNCHANGED <<peer, load>>
    BY DEF Receive, Idle, Running
  <1>3. Kept(Received(s, m), s, peer, down)
    BY <1>2, LoopState, ReceivedKeeps DEF Kept
  <1> QED BY <1>1, <1>2, <1>3, LoopState, KeptStep

LEMMA ExchangeFailsKeeps == ASSUME IInv, ExchangeFails PROVE IInv'
  <1> DEFINE v == FailureCallback([s EXCEPT !.x = FailedExchange(@)])
  <1>1. ~s.gone /\ s' = v /\ UNCHANGED <<peer, down, load>>
    BY DEF ExchangeFails, Idle, Running
  <1>2. Kept(v, s, peer, down)
    BY <1>1, LoopState, FailureKeeps DEF Kept
  <1> QED BY <1>1, <1>2, LoopState, KeptStep

LEMMA TimeoutKeeps == ASSUME IInv, RequestTimeout PROVE IInv'
  <1>1. ~s.gone /\ s \in WorkerType /\ UNCHANGED <<peer, down, load>>
    BY LoopState DEF RequestTimeout, Idle, Running
  <1>2. Quiet([s EXCEPT !.stream = "none", !.failed = TRUE], s)
    BY <1>1 DEF Quiet, Carries, WorkerType
  <1>3. Quiet([Finish(s, "err") EXCEPT !.closing = TRUE], s)
    BY <1>1, OkErr, FinishCloses
  <1> QED BY <1>1, <1>2, <1>3, QuietStep DEF RequestTimeout

LEMMA MaintainKeeps == ASSUME IInv, Maintain PROVE IInv'
  <1>1. ~s.gone /\ UNCHANGED <<peer, down, load>>
    BY DEF Maintain, Idle, Running
  <1> DEFINE x == Transmit(s.x, "renew")
             u == [s EXCEPT !.x = x]
             v == [s EXCEPT !.x = x, !.o.renewing = TRUE]
             t == [s EXCEPT !.x = s.x]
  <1>2. s \in WorkerType /\ s.x \in ExchangeType
    BY <1>1, LoopState DEF WorkerType
  <1>3. x \in ExchangeType
    BY <1>2, TransmitTyped
  <1>4. t = s
    BY <1>2 DEF WorkerType
  <1>5. \/ s' = Terminal(s)
        \/ s' = Terminal(t)
        \/ RenewAllowed(s.x) /\ s' \in {Terminal(u), v}
    BY DEF Maintain
  <1> HIDE DEF x, t
  <1>6. u \in WorkerType /\ u.opened = s.opened /\ u.gone = s.gone /\ u.o = s.o /\ u.x = x
    BY <1>2, <1>3 DEF WorkerType
  <1>7. /\ v \in WorkerType /\ v.opened = s.opened /\ v.gone = s.gone /\ v.x = x
        /\ v.o.path = s.o.path /\ v.o.used = s.o.used
    BY <1>2, <1>3 DEF WorkerType, ObservationType
  <1> HIDE DEF u, v
  <1>8. RenewAllowed(s.x) => Exchange(u, peer, down) /\ Exchange(v, peer, down)
    BY <1>1, <1>6, <1>7, LoopState, RenewKeeps DEF Carries, x
  <1>9. CASE s' = Terminal(s)
    BY <1>1, <1>2, <1>9, TerminalSettled, SettledStep
  <1>10. CASE RenewAllowed(s.x) /\ s' = Terminal(u)
    <2>1. Settled(Terminal(u), u)
      BY <1>6, TerminalSettled
    <2>2. Kept(Terminal(u), s, peer, down)
      BY <1>1, <1>6, <1>8, <1>10, <2>1, LoopState, SettledKeeps DEF Kept, Settled, Carries
    <2> QED BY <1>1, <1>10, <2>2, LoopState, KeptStep
  <1>11. CASE RenewAllowed(s.x) /\ s' = v
    <2>1. Kept(v, s, peer, down)
      BY <1>7, <1>8, <1>11 DEF Kept
    <2> QED BY <1>1, <1>11, <2>1, LoopState, KeptStep
  <1> QED BY <1>4, <1>5, <1>9, <1>10, <1>11

LEMMA PumpStreamKeeps == ASSUME IInv, PumpStream PROVE IInv'
  <1>1. ~s.gone /\ s \in WorkerType /\ s.stream # "none" /\ UNCHANGED <<peer, down, load>>
    BY LoopState DEF PumpStream, Idle, Running
  <1> DEFINE f == Frame(s.stream, s.req, 0, 0)
             a == Put(s, f)
             v == [a EXCEPT !.stream = StreamNext[a.stream]]
             b == Finish(s, "ok")
             u == [b EXCEPT !.stream = "none"]
  <1>2. f \in FrameType
    BY <1>1 DEF Frame, FrameType, Kinds, WorkerType
  <1>3. Quiet(a, s) /\ a \in WorkerType /\ Quiet(b, s) /\ b \in WorkerType
    BY <1>1, <1>2, OkErr, PutQuiet, FinishQuiet DEF Quiet, Carries
  <1>4. a.stream = s.stream
    BY <1>1 DEF Put, WorkerType
  <1>5. CASE s.stream = "result"
    <2>1. s' = u
      BY <1>5 DEF PumpStream
    <2> HIDE DEF b
    <2>2. Quiet(u, s)
      BY <1>3 DEF Quiet, Carries, WorkerType
    <2> QED BY <1>1, <2>1, <2>2, QuietStep
  <1>6. CASE s.stream # "result"
    <2>1. s' = v
      BY <1>6 DEF PumpStream
    <2>2. StreamNext[a.stream] \in {"chunk", "end", "result"}
      BY <1>1, <1>4, <1>6 DEF StreamNext, WorkerType
    <2> DEFINE t == StreamNext[a.stream]
    <2> HIDE DEF a, t
    <2>3. Quiet([a EXCEPT !.stream = t], s)
      BY <1>3, <2>2 DEF Quiet, Carries, WorkerType, t
    <2> QED BY <1>1, <2>1, <2>3, QuietStep DEF t
  <1> QED BY <1>5, <1>6

LEMMA PumpReportKeeps == ASSUME IInv, PumpReport PROVE IInv'
  <1>1. ~s.gone /\ s \in WorkerType /\ s.rep # NoReport /\ UNCHANGED <<peer, down, load>>
    BY LoopState DEF PumpReport, Idle, Running
  <1> DEFINE seq == s.credit.assigned + 1
             f == Frame(s.rep.phase, 0, s.rep.n, seq)
             a == Put(s, f)
             w == [a EXCEPT !.credit.assigned = seq]
             u == [w EXCEPT !.rep = s.next, !.next = NoReport]
             v == [w EXCEPT !.rep.phase = StreamNext[w.rep.phase]]
  <1>2. s.rep \in [n : Nat, phase : {"begin", "chunk", "end", "result"}] /\ seq \in Nat
        /\ s.next \in ReportType
    BY <1>1 DEF WorkerType, ReportType
  <1>3. f \in FrameType
    BY <1>2, ZeroId DEF Frame, FrameType, Kinds
  <1>4. Quiet(a, s) /\ a \in WorkerType
    BY <1>1, <1>3, PutQuiet DEF Quiet, Carries
  <1>5. a.rep = s.rep
    BY <1>1 DEF Put, WorkerType
  <1>6. \/ s.rep.phase = "result" /\ s' = u
        \/ s.rep.phase # "result" /\ s' = v
    BY DEF PumpReport
  <1> HIDE DEF a, seq
  <1>7. w \in WorkerType /\ w.opened = a.opened /\ w.o = a.o /\ w.gone = a.gone /\ w.x = a.x
        /\ w.rep = a.rep
    BY <1>2, <1>4 DEF WorkerType
  <1> HIDE DEF w
  <1>8. NoReport \in ReportType
    BY DEF ReportType
  <1>9. u \in WorkerType /\ u.opened = w.opened /\ u.o = w.o /\ u.gone = w.gone /\ u.x = w.x
    BY <1>2, <1>7, <1>8 DEF WorkerType
  <1>10. s.rep.phase # "result" =>
           v \in WorkerType /\ v.opened = w.opened /\ v.o = w.o /\ v.gone = w.gone /\ v.x = w.x
    <2> SUFFICES ASSUME s.rep.phase # "result"
                 PROVE  v \in WorkerType /\ v.opened = w.opened /\ v.o = w.o /\ v.gone = w.gone
                        /\ v.x = w.x
      OBVIOUS
    <2> DEFINE r == [w.rep EXCEPT !.phase = StreamNext[w.rep.phase]]
    <2>1. StreamNext[w.rep.phase] \in {"chunk", "end", "result"}
      BY <1>2, <1>5, <1>7 DEF StreamNext
    <2>2. r \in ReportType
      BY <1>2, <1>5, <1>7, <2>1 DEF ReportType
    <2>3. v = [w EXCEPT !.rep = r]
      BY <1>7 DEF WorkerType
    <2> HIDE DEF r, v
    <2> QED BY <1>7, <2>2, <2>3 DEF WorkerType
  <1> HIDE DEF u, v
  <1>11. Quiet(s', s)
    BY <1>4, <1>6, <1>7, <1>9, <1>10 DEF Quiet, Carries
  <1> QED BY <1>1, <1>11, QuietStep

LEMMA FlushKeeps == ASSUME IInv, FlushOutput PROVE IInv'
  <1>1. ~s.gone /\ s \in WorkerType /\ s.out # <<>> /\ UNCHANGED <<peer, down, load>>
    BY LoopState DEF FlushOutput, Idle, Running
  <1> DEFINE f == Head(s.out)
             t == Tail(s.out)
             n == IF f.seq > 0 THEN s.credit.written + 1 ELSE s.credit.written
             b == s.o.written \/ (f.seq > 0 /\ f.k = "result")
             v == [s EXCEPT !.out = t, !.credit.written = n, !.o.written = b]
  <1>2. s' = v
    BY <1>1 DEF FlushOutput, WorkerType
  <1>3. t \in Seq(FrameType) /\ n \in Nat /\ b \in BOOLEAN
    BY <1>1 DEF WorkerType
  <1> HIDE DEF t, n, b
  <1>4. v \in WorkerType
    BY <1>1, <1>3 DEF WorkerType, ObservationType
  <1>5. /\ v.opened = s.opened /\ v.gone = s.gone /\ v.x = s.x
        /\ v.o.path = s.o.path /\ v.o.used = s.o.used
    BY <1>1 DEF WorkerType, ObservationType
  <1>6. Quiet(v, s)
    BY <1>4, <1>5 DEF Quiet, Carries
  <1> QED BY <1>1, <1>2, <1>6, QuietStep

LEMMA AgeKeeps == ASSUME IInv, Age PROVE IInv'
  <1>1. ~s.gone /\ s \in WorkerType /\ UNCHANGED <<peer, down, load>>
    BY LoopState DEF Age, Idle, Running
  <1>2. Quiet([s EXCEPT !.fresh.aged = TRUE], s)
    BY <1>1 DEF Quiet, Carries, WorkerType
  <1> QED BY <1>1, <1>2, QuietStep DEF Age

-----------------------------------------------------------------------------
(* The peer and the network.                                               *)

\* The exchange may lose requests on the way, and its store.
Less(y, x) ==
    /\ y \in ExchangeType /\ y.failed = x.failed /\ y.active = x.active /\ y.pending = x.pending
    /\ y.observing = x.observing /\ y.tok = x.tok /\ y.ep = x.ep /\ y.reg = x.reg /\ y.cancel = x.cancel
    /\ y.up \subseteq x.up

LEMMA LessShape ==
  ASSUME NEW x \in ExchangeType, NEW U \in SUBSET x.up
  PROVE  /\ Less([x EXCEPT !.up = U], x) /\ [x EXCEPT !.up = U].up = U
         /\ Less([x EXCEPT !.store = FALSE], x)
  <1>1. [x EXCEPT !.up = U] \in ExchangeType
    BY DEF ExchangeType
  <1>2. [x EXCEPT !.store = FALSE] \in ExchangeType
    BY DEF ExchangeType
  <1> QED BY <1>1, <1>2 DEF Less, ExchangeType

LEMMA LessWorker ==
  ASSUME NEW w \in WorkerType, NEW y, Less(y, w.x)
  PROVE  LET v == [w EXCEPT !.x = y]
         IN v \in WorkerType /\ v.x = y /\ v.gone = w.gone /\ v.opened = w.opened /\ v.o = w.o
  BY DEF Less, WorkerType

LEMMA LessNumbered ==
  ASSUME NEW x \in ExchangeType, NEW y, Less(y, x)
  PROVE  /\ Numbered(x) => Numbered(y)
         /\ Pending(x) => Pending(y)
         /\ NoRegistration(x) => NoRegistration(y)
  BY DEF Less, Numbered, Pending, NoRegistration

LEMMA LessKeeps ==
  ASSUME NEW w \in WorkerType, NEW p, NEW msgs, Exchange(w, p, msgs),
         NEW y, Less(y, w.x), NEW v \in WorkerType, v.x = y, v.opened = w.opened, v.o = w.o
  PROVE  Exchange(v, p, msgs)
  <1>1. w.x \in ExchangeType
    BY DEF WorkerType
  <1>2. Numbered(y) /\ Messages(y, p, msgs)
    BY <1>1, LessNumbered DEF Exchange, Messages, Less
  <1>3. y.reg > 0 => v.opened /\ v.o.path
    BY DEF Exchange, Less
  <1>4. ~y.failed => Pending(y) /\ (y.observing \/ y.cancel > 0 => v.o.used)
    BY <1>1, LessNumbered DEF Exchange, Less
  <1>5. ASSUME ~y.failed, y.cancel = 0 PROVE Known(y, p, msgs)
    <2>1. Known(w.x, p, msgs)
      BY <1>5 DEF Exchange, Less
    <2> QED BY <1>1, <2>1, LessNumbered DEF Known, Less
  <1> QED BY <1>2, <1>3, <1>4, <1>5 DEF Exchange

LEMMA StoreKeeps == ASSUME IInv, StoreFails PROVE IInv'
  <1> DEFINE y == [s.x EXCEPT !.store = FALSE]
             v == [s EXCEPT !.x = y]
  <1>1. ~s.gone /\ s \in WorkerType /\ s.x \in ExchangeType /\ UNCHANGED <<peer, down, load>>
    BY LoopState DEF StoreFails, Idle, Running, WorkerType
  <1>2. s' = v
    BY <1>1 DEF StoreFails, WorkerType
  <1>3. Less(y, s.x)
    BY <1>1, LessShape
  <1> HIDE DEF y
  <1>4. v \in WorkerType /\ v.x = y /\ v.gone = s.gone /\ v.opened = s.opened /\ v.o = s.o
    BY <1>1, <1>3, LessWorker
  <1>5. Kept(v, s, peer, down)
    BY <1>1, <1>3, <1>4, LoopState, LessKeeps DEF Kept
  <1> QED BY <1>1, <1>2, <1>5, LoopState, KeptStep

LEMMA LoseKeeps == ASSUME IInv, LoseMessage PROVE IInv'
  <1>1. ~s.gone /\ s \in WorkerType /\ s.x \in ExchangeType /\ UNCHANGED <<peer, load>>
    BY LoopState DEF LoseMessage, WorkerType
  <1>2. ASSUME NEW m \in down, down' = down \ {m}, s' = s PROVE IInv'
    BY <1>1, <1>2, LoopState, KeptStep DEF Kept
  <1>3. ASSUME NEW r \in s.x.up, s' = [s EXCEPT !.x.up = @ \ {r}], down' = down PROVE IInv'
    <2> DEFINE y == [s.x EXCEPT !.up = s.x.up \ {r}]
               v == [s EXCEPT !.x = y]
    <2>1. s' = v
      BY <1>1, <1>3 DEF WorkerType
    <2>2. Less(y, s.x)
      BY <1>1, LessShape
    <2> HIDE DEF y
    <2>3. v \in WorkerType /\ v.x = y /\ v.gone = s.gone /\ v.opened = s.opened /\ v.o = s.o
      BY <1>1, <2>2, LessWorker
    <2>4. Kept(v, s, peer, down)
      BY <1>1, <2>2, <2>3, LoopState, LessKeeps DEF Kept
    <2> QED BY <1>1, <1>3, <2>1, <2>4, LoopState, KeptStep
  <1> QED BY <1>2, <1>3 DEF LoseMessage

\* A message of the peer, and what the peer knows after it.
LEMMA PeerStep ==
  ASSUME IInv, ~s.gone, NEW p \in Peers, NEW m \in MessageType, NEW y, Less(y, s.x),
         p.ep <= y.ep, m.ep <= y.ep, m.obs => m.q \in {"ok", "changed"},
         ~y.failed /\ y.cancel = 0 => Known(y, p, down \cup {m}),
         s' = [s EXCEPT !.x = y], peer' = p, down' = down \cup {m}, load' = load
  PROVE  IInv'
  <1> DEFINE v == [s EXCEPT !.x = y]
  <1>1. s \in WorkerType /\ s.x \in ExchangeType
    BY LoopState DEF WorkerType
  <1>2. v \in WorkerType /\ v.x = y /\ v.gone = s.gone /\ v.opened = s.opened /\ v.o = s.o
    BY <1>1, LessWorker
  <1> HIDE DEF v
  <1>3. Exchange(v, peer, down)
    BY <1>1, <1>2, LoopState, LessKeeps
  <1>4. Messages(y, p, down \cup {m})
    BY <1>2, <1>3 DEF Exchange, Messages
  <1>5. Exchange(v, p, down \cup {m})
    BY <1>2, <1>3, <1>4 DEF Exchange
  <1>6. down \cup {m} \subseteq MessageType
    BY LoopState
  <1>7. StateType'
    BY <1>2, <1>6 DEF v, IInv, StateType, Peers
  <1> QED BY <1>2, <1>5, <1>7 DEF IInv, v

LEMMA EmittedShape ==
  ASSUME peer \in Peers, NEW m
  PROVE  Emitted(m) \in Peers /\ Emitted(m).tok = peer.tok /\ Emitted(m).ep = peer.ep
  <1> DEFINE n == peer.n + 1
             odd == IF m.q = "ok" THEN peer.odd ELSE peer.odd + 1
  <1>1. n \in Nat /\ odd \in Nat
    BY DEF Peers
  <1>2. Emitted(m) = [peer EXCEPT !.n = n, !.odd = odd]
    BY DEF Emitted, Peers
  <1> HIDE DEF n, odd
  <1> QED BY <1>1, <1>2 DEF Peers

LEMMA NotifiesKeep == ASSUME IInv, PeerNotifies PROVE IInv'
  <1>1. PICK q \in {"ok", "changed", "error"} :
          LET m == Message(peer.tok, peer.ep, q # "error", q)
          IN Emit(m) /\ peer' = IF q = "error" THEN [Emitted(m) EXCEPT !.tok = 0, !.ep = 0] ELSE Emitted(m)
    BY DEF PeerNotifies
  <1> DEFINE m == Message(peer.tok, peer.ep, q # "error", q)
             e == Emitted(m)
             p == IF q = "error" THEN [e EXCEPT !.tok = 0, !.ep = 0] ELSE e
  <1>2. ~s.gone /\ peer.tok # 0 /\ s' = s /\ load' = load /\ down' = down \cup {m} /\ peer' = p
    BY <1>1 DEF PeerNotifies, Emit
  <1>3. s \in WorkerType /\ s.x \in ExchangeType /\ peer \in Peers /\ Exchange(s, peer, down)
    BY <1>2, LoopState DEF WorkerType
  <1>4. m \in MessageType /\ m.ep = peer.ep /\ m.tok = peer.tok /\ m.obs = (q # "error") /\ m.q = q
    BY <1>3 DEF Message, MessageType, Peers
  <1>5. e \in Peers /\ e.tok = peer.tok /\ e.ep = peer.ep
    BY <1>3, EmittedShape
  <1> HIDE DEF e, m
  <1>6. p \in Peers /\ IF q = "error" THEN p.tok = 0 /\ p.ep = 0 ELSE p.tok = peer.tok /\ p.ep = peer.ep
    BY <1>5 DEF Peers
  <1> HIDE DEF p
  <1>7. Less(s.x, s.x) /\ s' = [s EXCEPT !.x = s.x]
    BY <1>2, <1>3 DEF Less, WorkerType
  <1>8. p.ep <= s.x.ep /\ m.ep <= s.x.ep
    BY <1>3, <1>4, <1>6 DEF Exchange, Messages, ExchangeType
  <1>9. ASSUME ~s.x.failed, s.x.cancel = 0 PROVE Known(s.x, p, down \cup {m})
    <2>1. Known(s.x, peer, down)
      BY <1>3, <1>9 DEF Exchange
    <2> QED BY <1>2, <1>4, <1>6, <2>1 DEF Known
  <1>10. m.obs => m.q \in {"ok", "changed"}
    BY <1>4
  <1> QED BY <1>2, <1>4, <1>6, <1>7, <1>8, <1>9, <1>10, PeerStep

LEMMA AnswersKeep == ASSUME IInv, PeerAnswers PROVE IInv'
  <1>1. PICK r \in s.x.up, q \in {"ok", "error", "malformed"}, accept \in BOOLEAN :
          LET obs == accept /\ r.k \in {"observe", "renew"} /\ q = "ok"
              m == Message(r.tok, r.ep, obs, q)
          IN /\ Emit(m)
             /\ (accept \/ r.k \in {"observe", "renew"})
             /\ s' = [s EXCEPT !.x.up = @ \ {r}]
             /\ peer' = CASE obs -> [Emitted(m) EXCEPT !.tok = r.tok, !.ep = r.ep]
                          [] ~obs /\ r.k # "request" /\ r.tok = peer.tok ->
                                [Emitted(m) EXCEPT !.tok = 0, !.ep = 0]
                          [] OTHER -> Emitted(m)
    BY DEF PeerAnswers
  <1> DEFINE obs == accept /\ r.k \in {"observe", "renew"} /\ q = "ok"
             m == Message(r.tok, r.ep, obs, q)
             e == Emitted(m)
             gone == ~obs /\ r.k # "request" /\ r.tok = peer.tok
             y == [s.x EXCEPT !.up = s.x.up \ {r}]
             p == CASE obs -> [e EXCEPT !.tok = r.tok, !.ep = r.ep]
                    [] gone -> [e EXCEPT !.tok = 0, !.ep = 0]
                    [] OTHER -> e
  <1>2. ~s.gone /\ load' = load /\ down' = down \cup {m} /\ peer' = p
    BY <1>1 DEF PeerAnswers, Emit
  <1>3. s \in WorkerType /\ s.x \in ExchangeType /\ peer \in Peers /\ Exchange(s, peer, down)
    BY <1>2, LoopState DEF WorkerType
  <1>4. r.tok \in Nat /\ r.ep \in Nat /\ r.k \in {"request", "observe", "renew", "cancel"}
    BY <1>3 DEF ExchangeType
  <1>5. obs \in BOOLEAN /\ (obs => r.k \in Registrations /\ q = "ok")
    BY DEF Registrations
  <1>6. s' = [s EXCEPT !.x = y]
    BY <1>1, <1>3 DEF WorkerType
  <1>7. Less(y, s.x) /\ y.up = s.x.up \ {r}
    <2>1. s.x.up \ {r} \in SUBSET s.x.up
      OBVIOUS
    <2> HIDE DEF obs, m
    <2> QED BY <1>3, <2>1, LessShape
  <1>8. e \in Peers /\ e.tok = peer.tok /\ e.ep = peer.ep
    BY <1>3, EmittedShape
  <1> HIDE DEF obs
  <1>9. m \in MessageType /\ m.ep = r.ep /\ m.obs = obs /\ m.q = q
    BY <1>3, <1>4, <1>5 DEF Message, MessageType, Peers
  <1> HIDE DEF e, m, y
  <1>10. /\ p \in Peers
         /\ obs => p.tok = r.tok /\ p.ep = r.ep
         /\ ~obs => ((p.tok = 0 /\ p.ep = 0) \/ (p.tok = peer.tok /\ p.ep = peer.ep))
         /\ gone => p.tok = 0
    <2>1. CASE obs
      <3>1. p = [e EXCEPT !.tok = r.tok, !.ep = r.ep]
        BY <2>1
      <3> HIDE DEF p
      <3> QED BY <1>4, <1>8, <2>1, <3>1 DEF Peers
    <2>2. CASE gone
      <3>1. p = [e EXCEPT !.tok = 0, !.ep = 0]
        BY <2>2
      <3> HIDE DEF p
      <3> QED BY <1>4, <1>8, <2>2, <3>1 DEF Peers
    <2>3. CASE ~obs /\ ~gone
      <3>1. p = e
        BY <2>3
      <3> HIDE DEF p, gone
      <3> QED BY <1>8, <2>3, <3>1
    <2> QED BY <2>1, <2>2, <2>3
  <1> HIDE DEF p
  <1>11. p.ep <= y.ep /\ m.ep <= y.ep
    BY <1>3, <1>4, <1>7, <1>9, <1>10 DEF Exchange, Messages, Numbered, Less, Peers, ExchangeType
  <1>12. m.obs => m.q \in {"ok", "changed"}
    BY <1>5, <1>9
  <1>13. ASSUME ~y.failed, y.cancel = 0 PROVE Known(y, p, down \cup {m})
    <2>1. Known(s.x, peer, down) /\ Numbered(s.x)
      BY <1>3, <1>7, <1>13 DEF Exchange, Less
    <2>2. y.tok = s.x.tok /\ y.reg = s.x.reg /\ y.observing = s.x.observing /\ y.pending = s.x.pending
      BY <1>7 DEF Less
    <2>3. r.k \in Registrations => NoRegistration(y)
      BY <1>7, <2>1 DEF Known, Numbered, NoRegistration
    <2>4. NoRegistration(s.x) => NoRegistration(y) /\ r.k \notin Registrations /\ ~obs
      BY <1>5, <1>7 DEF NoRegistration
    <2>5. r.k \in Registrations => r.ep = s.x.reg /\ r.tok = s.x.tok
      BY <2>1 DEF Known
    <2>6. \A x \in y.up : x.k \in Registrations => x.ep = y.reg /\ x.tok = y.tok
      BY <1>7, <2>1, <2>2 DEF Known
    <2>7. p.tok # 0 => p.tok = y.tok
      BY <1>5, <1>10, <2>1, <2>2, <2>5 DEF Known
    <2>8. p.tok # 0 /\ p.ep = y.reg => NoRegistration(y)
      BY <1>5, <1>10, <2>1, <2>2, <2>3, <2>4 DEF Known
    <2>9. y.observing /\ y.pending # "renew" => NoRegistration(y)
      BY <2>1, <2>2, <2>4 DEF Known
    <2>10. ~y.observing /\ y.pending \in {"none", "request"} => p.tok = 0 /\ NoRegistration(y)
      BY <1>10, <2>1, <2>2, <2>4 DEF Known
    <2>11. ASSUME NEW x \in down, x.ep = y.reg, y.reg > 0
           PROVE  NoRegistration(y) /\ (~x.obs => p.tok = 0)
      BY <1>10, <2>1, <2>2, <2>4, <2>11 DEF Known
    <2>12. ASSUME m.ep = y.reg, y.reg > 0
           PROVE  NoRegistration(y) /\ (~m.obs => p.tok = 0)
      <3>1. r.k \in Registrations
        BY <1>9, <2>1, <2>2, <2>12 DEF Numbered
      <3>2. ~obs => p.tok = 0
        BY <1>10, <2>1, <2>5, <3>1 DEF Known, Registrations
      <3> QED BY <1>9, <2>3, <3>1, <3>2
    <2> QED BY <2>6, <2>7, <2>8, <2>9, <2>10, <2>11, <2>12 DEF Known
  <1> QED BY <1>2, <1>6, <1>7, <1>9, <1>10, <1>11, <1>12, <1>13, PeerStep

-----------------------------------------------------------------------------
(* The end.                                                                *)

\* wco_exchange_abandon leaves a later cancellation behind wherever the peer
\* may have registered.
LEMMA AbandonReleases ==
  ASSUME NEW w \in WorkerType, NEW p \in Peers, NEW msgs \in SUBSET MessageType, Exchange(w, p, msgs)
  PROVE  LET y == Abandoned(w.x)
         IN /\ y \in ExchangeType
            /\ ~y.failed /\ y.reg > y.cancel => p.tok = 0 /\ NoRegistration(y)
  <1> DEFINE x == w.x
             y == Abandoned(x)
             z == [x EXCEPT !.observing = TRUE, !.active = FALSE, !.pending = "none"]
  <1>1. x \in ExchangeType /\ x.ep \in Nat /\ x.reg \in Nat /\ x.cancel \in Nat
    BY DEF WorkerType, ExchangeType
  <1>2. Numbered(x) /\ (~x.failed => Pending(x) /\ (x.cancel = 0 => Known(x, p, msgs)))
    BY DEF Exchange
  <1>3. /\ z \in ExchangeType /\ z.failed = x.failed /\ z.ep = x.ep /\ z.reg = x.reg
        /\ z.observing /\ ~z.active /\ z.store = x.store
    BY <1>1 DEF ExchangeType
  <1> HIDE DEF x, z
  <1>4. CASE x.failed
    <2>1. y = x
      BY <1>4 DEF Abandoned
    <2> HIDE DEF y
    <2> QED BY <1>1, <1>4, <2>1 DEF y, x
  <1>5. CASE ~x.failed /\ x.pending = "cancel"
    <2>1. y = x
      BY <1>5 DEF Abandoned
    <2>2. x.cancel > x.reg
      BY <1>1, <1>2, <1>5 DEF Pending
    <2> QED BY <1>1, <2>1, <2>2 DEF x
  <1>6. ASSUME NEW u \in ExchangeType, u.ep = x.ep, u.reg = x.reg, CancelAllowed(u), y = Cancelled(u)
        PROVE  y \in ExchangeType /\ (y.failed \/ y.cancel > y.reg)
    <2>1. y = Transmit(u, "cancel")
      BY <1>6 DEF Cancelled
    <2>2. CASE u.store
      <3>1. y \in ExchangeType /\ y.reg = u.reg /\ y.cancel = u.ep + 1
        BY <2>1, <2>2, TransmitShape
      <3> HIDE DEF y
      <3> QED BY <1>1, <1>2, <1>6, <3>1 DEF Numbered
    <2>3. CASE ~u.store
      <3>1. y = [u EXCEPT !.failed = TRUE]
        BY <2>1, <2>3, TransmitRefused
      <3>2. [u EXCEPT !.failed = TRUE] \in ExchangeType /\ [u EXCEPT !.failed = TRUE].failed
        BY DEF ExchangeType
      <3> QED BY <3>1, <3>2
    <2> QED BY <2>2, <2>3
  <1>7. CASE ~x.failed /\ x.pending = "observe"
    <2>1. y = Cancelled(z)
      BY <1>7 DEF Abandoned, z
    <2>2. CancelAllowed(z)
      BY <1>3, <1>7 DEF CancelAllowed
    <2>3. y \in ExchangeType /\ (y.failed \/ y.cancel > y.reg)
      BY <1>3, <1>6, <2>1, <2>2
    <2>4. y.cancel \in Nat /\ y.reg \in Nat
      BY <2>3 DEF ExchangeType
    <2> HIDE DEF y
    <2> QED BY <2>3, <2>4 DEF y, x
  <1>8. CASE ~x.failed /\ x.pending \notin {"cancel", "observe"} /\ x.observing
    <2>1. y = Cancelled(x)
      BY <1>8 DEF Abandoned
    <2>2. CancelAllowed(x)
      BY <1>2, <1>8 DEF CancelAllowed, Numbered, Pending, ExchangeType, x, WorkerType
    <2>3. y \in ExchangeType /\ (y.failed \/ y.cancel > y.reg)
      BY <1>1, <1>6, <2>1, <2>2
    <2>4. y.cancel \in Nat /\ y.reg \in Nat
      BY <2>3 DEF ExchangeType
    <2> HIDE DEF y
    <2> QED BY <2>3, <2>4 DEF y, x
  <1>9. CASE ~x.failed /\ x.pending \notin {"cancel", "observe"} /\ ~x.observing
    <2>1. y = x
      BY <1>9 DEF Abandoned, Cancelled, CancelAllowed
    <2>2. x.pending \in {"none", "request"}
      BY <1>1, <1>2, <1>9 DEF Pending, ExchangeType
    <2>3. x.reg > x.cancel => x.cancel = 0
      BY <1>1, <1>2, <1>9 DEF Pending
    <2>4. x.reg > x.cancel => p.tok = 0 /\ NoRegistration(x)
      BY <1>2, <1>9, <2>2, <2>3 DEF Known
    <2> QED BY <1>1, <2>1, <2>4 DEF x
  <1> QED BY <1>4, <1>5, <1>7, <1>8, <1>9 DEF x

LEMMA ExitKeeps == ASSUME IInv, Exit PROVE IInv'
  <1> DEFINE y == IF s.opened /\ s.o.path THEN Abandoned(s.x) ELSE s.x
             v == [s EXCEPT !.gone = TRUE, !.out = <<>>, !.x = y]
  <1>1. ~s.gone /\ UNCHANGED <<peer, down, load>> /\ s' = v
    BY DEF Exit
  <1>2. s \in WorkerType /\ peer \in Peers /\ Exchange(s, peer, down) /\ s.x \in ExchangeType
    BY <1>1, LoopState DEF WorkerType
  <1>3. y \in ExchangeType /\ (~y.failed /\ y.reg > y.cancel => peer.tok = 0 /\ NoRegistration(y))
    <2>1. CASE s.opened /\ s.o.path
      BY <1>1, <1>2, <2>1, LoopState, AbandonReleases
    <2>2. CASE ~(s.opened /\ s.o.path)
      BY <1>2, <2>2 DEF Exchange, ExchangeType
    <2> QED BY <2>1, <2>2
  <1> HIDE DEF y
  <1>4. v \in WorkerType /\ v.gone /\ v.x = y
    <2> DEFINE t == <<>>
    <2>1. t \in Seq(FrameType)
      OBVIOUS
    <2>2. v = [s EXCEPT !.gone = TRUE, !.out = t, !.x = y]
      OBVIOUS
    <2> HIDE DEF t, v
    <2> QED BY <1>2, <1>3, <2>1, <2>2 DEF WorkerType
  <1> HIDE DEF v
  <1>5. StateType'
    BY <1>1, <1>4 DEF IInv, StateType
  <1>6. ObserverReleased'
    BY <1>1, <1>3, <1>4 DEF ObserverReleased, NoRegistration, Registrations
  <1> QED BY <1>1, <1>4, <1>5, <1>6 DEF IInv

LEMMA InitIInv == Init => IInv
  <1> SUFFICES ASSUME Init PROVE IInv
    OBVIOUS
  <1> DEFINE f == Frame("ready", 0, 0, 0)
  <1>1. f \in FrameType
    BY ZeroId DEF Frame, FrameType, Kinds
  <1>2. <<f>> \in Seq(FrameType)
    BY <1>1
  <1>3. NewExchange \in ExchangeType /\ NewObservation \in ObservationType /\ NoReport \in ReportType
    BY DEF NewExchange, ExchangeType, NewObservation, ObservationType, ReportType
  <1>4. /\ NewFreshness \in [set : BOOLEAN, observe : Nat, aged : BOOLEAN]
        /\ NewCredit \in [started : BOOLEAN, assigned : Nat, written : Nat, acked : Nat]
    BY DEF NewFreshness, NewCredit
  <1>6. s \in WorkerType /\ ~s.gone /\ s.x = NewExchange
    BY <1>2, <1>3, <1>4, ZeroId DEF Init, NewWorker, WorkerType
  <1>7. peer \in [tok : Nat, ep : Nat, n : Nat, odd : Nat] /\ peer.tok = 0 /\ peer.ep = 0 /\ down = {}
    BY WorkerAssumption DEF Init
  <1>8. load.cmds \in Nat /\ load.max \in 0..MaxCmds
    BY WorkerAssumption DEF Init
  <1>9. Exchange(s, peer, down)
    BY <1>6, <1>7 DEF Exchange, NewExchange, Numbered, Pending, Messages, Known, NoRegistration
  <1> QED BY <1>6, <1>7, <1>8, <1>9 DEF IInv, StateType

LEMMA NextIInv == IInv /\ [Next]_vars => IInv'
  <1> SUFFICES ASSUME IInv, [Next]_vars PROVE IInv'
    OBVIOUS
  <1>1. CASE UNCHANGED vars
    BY <1>1 DEF IInv, StateType, vars, ObserverReleased
  <1>2. ASSUME NEW op \in load.ops, Command(op) PROVE IInv'
    BY <1>2, CommandKeeps
  <1>3. ASSUME \/ MalformedLine \/ Receive \/ ExchangeFails \/ RequestTimeout \/ Maintain
               \/ PumpStream \/ PumpReport \/ FlushOutput \/ Exit \/ StoreFails
               \/ PeerAnswers \/ PeerNotifies \/ LoseMessage \/ Age
        PROVE  IInv'
    BY <1>3, MalformedKeeps, ReceiveKeeps, ExchangeFailsKeeps, TimeoutKeeps, MaintainKeeps,
       PumpStreamKeeps, PumpReportKeeps, FlushKeeps, ExitKeeps, StoreKeeps, AnswersKeep,
       NotifiesKeep, LoseKeeps, AgeKeeps
  <1> QED BY <1>1, <1>2, <1>3 DEF Next

LEMMA IInvAlways == Spec => []IInv
  BY InitIInv, NextIInv, PTL DEF Spec

\* Whatever the network loses, repeats and reorders and however the worker
\* ends: if its exchange did not fail, a registration the peer may hold, now or
\* when a request still on its way arrives, is followed by a cancellation.
THEOREM ObserverAlwaysReleased == Spec => []ObserverReleased
  <1>1. IInv => ObserverReleased
    BY DEF IInv, ObserverReleased
  <1> QED BY <1>1, IInvAlways, PTL

-----------------------------------------------------------------------------
(* Answers and credit.                                                     *)

AnswersTo(id) == {f \in FrameType : f.k \in {"ok", "err"} /\ f.id = id}

ReportFrames == {f \in FrameType : f.seq > 0}

\* How many frames of q belong to F.
Hits(q, F) == Cardinality({j \in DOMAIN q : q[j] \in F})

One(i, id) == IF i = id THEN 1 ELSE 0

\* The answers to command id the worker still owes the BEAM.
Due(w, id) == Hits(w.out, AnswersTo(id)) + One(w.req, id)

\* The sequences acknowledged, written and assigned stay within one window.
Bounds(w) ==
    /\ w.credit.acked <= w.credit.written /\ w.credit.written <= w.credit.assigned
    /\ w.credit.assigned <= w.credit.acked + Window

\* What is assigned and not written is in the output.
Tally(w) == w.credit.written + Hits(w.out, ReportFrames) = w.credit.assigned

GotType == [ans : [1..MaxCmds -> Nat], reports : Seq(FrameType), ended : BOOLEAN]

Ledger ==
    /\ got \in GotType /\ Len(s.out) <= OutFrames
    /\ s.x.active <=> s.x.pending # "none"
    /\ Bounds(s) /\ (~s.gone => Tally(s))
    /\ \A id \in 1..MaxCmds :
         /\ got.ans[id] + Due(s, id) <= 1
         /\ id <= load.cmds /\ Running => got.ans[id] + Due(s, id) = 1
         /\ id > load.cmds => got.ans[id] + Due(s, id) = 0

LEMMA HitsNat ==
  ASSUME NEW q \in Seq(FrameType), NEW F
  PROVE  Hits(q, F) \in Nat /\ IsFiniteSet({j \in DOMAIN q : q[j] \in F})
  <1>1. IsFiniteSet(1..Len(q)) /\ DOMAIN q = 1..Len(q)
    BY FS_Interval
  <1>2. {j \in DOMAIN q : q[j] \in F} \in SUBSET (1..Len(q))
    BY <1>1
  <1> QED BY <1>1, <1>2, FS_Subset, FS_CardinalityType DEF Hits

LEMMA HitsAppend ==
  ASSUME NEW q \in Seq(FrameType), NEW f \in FrameType, NEW F
  PROVE  Hits(Append(q, f), F) = Hits(q, F) + (IF f \in F THEN 1 ELSE 0)
  <1> DEFINE S == {j \in DOMAIN q : q[j] \in F}
             T == {j \in DOMAIN Append(q, f) : Append(q, f)[j] \in F}
             n == Len(q) + 1
  <1>1. n \notin S /\ T = IF f \in F THEN S \cup {n} ELSE S
    OBVIOUS
  <1>2. IsFiniteSet(S) /\ Cardinality(S) \in Nat
    BY HitsNat DEF Hits
  <1> HIDE DEF S, T, n
  <1>3. Cardinality(T) = Cardinality(S) + (IF f \in F THEN 1 ELSE 0)
    <2>1. Cardinality(S \cup {n}) = Cardinality(S) + 1
      BY <1>1, <1>2, FS_AddElement
    <2> QED BY <1>1, <1>2, <2>1
  <1> QED BY <1>3 DEF Hits, S, T

LEMMA HitsTail ==
  ASSUME NEW q \in Seq(FrameType), q # <<>>, NEW F
  PROVE  Hits(q, F) = Hits(Tail(q), F) + (IF Head(q) \in F THEN 1 ELSE 0)
  <1> DEFINE S == {j \in DOMAIN q : q[j] \in F}
             T == {j \in DOMAIN Tail(q) : Tail(q)[j] \in F}
             U == S \ {1}
             g == [j \in U |-> j - 1]
  <1>1. /\ Tail(q) \in Seq(FrameType) /\ Len(q) \in Nat \ {0} /\ Len(Tail(q)) = Len(q) - 1
        /\ \A j \in 1..(Len(q) - 1) : Tail(q)[j] = q[j + 1]
    OBVIOUS
  <1>2. IsFiniteSet(S) /\ IsFiniteSet(T) /\ Cardinality(T) \in Nat /\ Cardinality(S) \in Nat
    BY <1>1, HitsNat DEF Hits
  <1>3. 1 \in S <=> Head(q) \in F
    BY <1>1
  <1>4. IsFiniteSet(U) /\ Cardinality(U) = IF Head(q) \in F THEN Cardinality(S) - 1 ELSE Cardinality(S)
    <2> HIDE DEF S
    <2> QED BY <1>2, <1>3, FS_RemoveElement
  <1>5. DOMAIN q = 1..Len(q) /\ DOMAIN Tail(q) = 1..(Len(q) - 1)
    BY <1>1
  <1>6. g \in [U -> T]
    <2> SUFFICES ASSUME NEW j \in U PROVE j - 1 \in T
      OBVIOUS
    <2>1. j \in 2..Len(q) /\ q[j] \in F
      BY <1>5
    <2>2. j - 1 \in 1..(Len(q) - 1) /\ Tail(q)[j - 1] = q[j]
      BY <1>1, <2>1
    <2> QED BY <1>5, <2>1, <2>2
  <1>7. \A j, k \in U : g[j] = g[k] => j = k
    BY <1>1, <1>5
  <1>8. \A i \in T : i + 1 \in U /\ g[i + 1] = i
    <2> SUFFICES ASSUME NEW i \in T PROVE i + 1 \in U /\ g[i + 1] = i
      OBVIOUS
    <2>1. i \in 1..(Len(q) - 1) /\ q[i + 1] \in F
      BY <1>1, <1>5
    <2>2. i + 1 \in 2..Len(q) /\ i + 1 - 1 = i
      BY <1>1, <2>1
    <2> QED BY <1>5, <2>1, <2>2
  <1> HIDE DEF S, T, U, g
  <1>9. ExistsBijection(U, T)
    <2>1. g \in Injection(U, T)
      BY <1>6, <1>7 DEF Injection, IsInjective
    <2>2. g \in Surjection(U, T)
      BY <1>6, <1>8 DEF Surjection
    <2> QED BY <2>1, <2>2 DEF ExistsBijection, Bijection
  <1>10. Cardinality(T) = Cardinality(U)
    BY <1>4, <1>9, FS_Bijection
  <1>11. Hits(q, F) = Cardinality(S) /\ Hits(Tail(q), F) = Cardinality(T)
    BY DEF Hits, S, T
  <1> QED BY <1>2, <1>4, <1>10, <1>11

Fits(w) == w \in WorkerType /\ Len(w.out) <= OutFrames

\* From w to v the worker comes to owe an answer to command id (to none, if
\* id is 0) and drops no other, or fails.
Adds(v, w, id) ==
    /\ Len(v.out) <= OutFrames
    /\ v.gone = w.gone /\ (w.failed => v.failed)
    /\ Bounds(w) /\ Tally(w) => Bounds(v) /\ Tally(v)
    /\ \A i \in 1..MaxCmds :
         /\ Due(v, i) <= Due(w, i) + One(i, id)
         /\ ~v.failed => Due(v, i) = Due(w, i) + One(i, id)

LEMMA DueNat ==
  ASSUME NEW w \in WorkerType, NEW id
  PROVE  Due(w, id) \in Nat
  <1>1. w.out \in Seq(FrameType)
    BY DEF WorkerType
  <1>2. Hits(w.out, AnswersTo(id)) \in Nat
    BY <1>1, HitsNat
  <1> QED BY <1>2 DEF Due, One

\* The steps that touch neither output, request nor credit.
Alike(v, w) ==
    /\ v.out = w.out /\ v.req = w.req /\ v.credit = w.credit
    /\ v.gone = w.gone /\ (w.failed => v.failed)

LEMMA AlikeAdds ==
  ASSUME NEW w, Fits(w), NEW v, Alike(v, w)
  PROVE  Adds(v, w, 0)
  <1>1. \A i \in 1..MaxCmds : Due(v, i) = Due(w, i) /\ One(i, 0) = 0 /\ Due(w, i) \in Nat
    BY WorkerAssumption, DueNat DEF Alike, Due, One, Fits
  <1> QED BY <1>1 DEF Adds, Alike, Fits, Bounds, Tally

LEMMA AddsThen ==
  ASSUME NEW u \in WorkerType, NEW v \in WorkerType, NEW w \in WorkerType, NEW a, NEW b,
         Adds(u, v, a), Adds(v, w, b), a = 0 \/ b = 0
  PROVE  Adds(u, w, IF a = 0 THEN b ELSE a)
  <1> DEFINE c == IF a = 0 THEN b ELSE a
  <1>1. ASSUME NEW i \in 1..MaxCmds
        PROVE  /\ Due(u, i) <= Due(w, i) + One(i, c)
               /\ ~u.failed => Due(u, i) = Due(w, i) + One(i, c)
    <2>1. Due(u, i) \in Nat /\ Due(v, i) \in Nat /\ Due(w, i) \in Nat
      BY DueNat
    <2>2. One(i, a) \in Nat /\ One(i, b) \in Nat /\ One(i, c) = One(i, a) + One(i, b)
      BY WorkerAssumption DEF One
    <2>3. /\ Due(u, i) <= Due(v, i) + One(i, a) /\ (~u.failed => Due(u, i) = Due(v, i) + One(i, a))
          /\ Due(v, i) <= Due(w, i) + One(i, b) /\ (~v.failed => Due(v, i) = Due(w, i) + One(i, b))
          /\ v.failed => u.failed
      BY DEF Adds
    <2> HIDE DEF c
    <2> QED BY <2>1, <2>2, <2>3
  <1> QED BY <1>1 DEF Adds

LEMMA EvenThen ==
  ASSUME NEW u \in WorkerType, NEW v \in WorkerType, NEW w \in WorkerType, NEW id,
         (Adds(u, v, id) /\ Adds(v, w, 0)) \/ (Adds(u, v, 0) /\ Adds(v, w, id))
  PROVE  Adds(u, w, id)
  <1>1. CASE Adds(u, v, id) /\ Adds(v, w, 0)
    <2>1. Adds(u, w, IF id = 0 THEN 0 ELSE id)
      BY <1>1, AddsThen
    <2> QED BY <2>1
  <1>2. CASE Adds(u, v, 0) /\ Adds(v, w, id)
    BY <1>2, AddsThen
  <1> QED BY <1>1, <1>2

LEMMA PutAdds ==
  ASSUME NEW w, Fits(w), NEW f \in FrameType, f.seq = 0
  PROVE  /\ f.k \notin {"ok", "err"} => Adds(Put(w, f), w, 0)
         /\ f.k \in {"ok", "err"} => Adds(Put(w, f), w, f.id)
  <1> DEFINE v == [w EXCEPT !.out = Append(w.out, f)]
             d == IF f.k \in {"ok", "err"} THEN f.id ELSE 0
  <1>1. w \in WorkerType /\ w.out \in Seq(FrameType) /\ Len(w.out) \in Nat /\ OutFrames \in Nat
    BY WorkerAssumption DEF Fits, WorkerType
  <1>2. CASE Len(w.out) = OutFrames
    <2> DEFINE u == [w EXCEPT !.failed = TRUE]
    <2>1. Put(w, f) = u
      BY <1>2 DEF Put
    <2>2. Alike(u, w) /\ u.failed
      BY <1>1 DEF Alike, WorkerType
    <2> HIDE DEF u
    <2>3. Adds(u, w, 0)
      BY <2>2, AlikeAdds
    <2>4. \A i \in 1..MaxCmds : Due(u, i) \in Nat /\ Due(w, i) \in Nat /\ One(i, 0) = 0 /\ One(i, f.id) \in Nat
      BY <1>1, <2>2, DueNat, WorkerAssumption DEF One, Due, Alike
    <2>5. Adds(u, w, f.id)
      BY <2>2, <2>3, <2>4 DEF Adds
    <2> QED BY <2>1, <2>3, <2>5
  <1>3. CASE Len(w.out) # OutFrames
    <2>1. Put(w, f) = v
      BY <1>3 DEF Put
    <2>2. /\ v.out = Append(w.out, f) /\ v.req = w.req /\ v.credit = w.credit
          /\ v.failed = w.failed /\ v.gone = w.gone
      BY <1>1 DEF WorkerType
    <2>3. Len(v.out) <= OutFrames
      BY <1>1, <1>3, <2>2 DEF Fits
    <2> HIDE DEF v
    <2>4. Hits(v.out, ReportFrames) = Hits(w.out, ReportFrames)
      <3>1. f \notin ReportFrames
        BY DEF ReportFrames
      <3>2. Hits(w.out, ReportFrames) \in Nat
        BY <1>1, HitsNat
      <3>3. Hits(v.out, ReportFrames) = Hits(w.out, ReportFrames) + 0
        BY <1>1, <2>2, <3>1, HitsAppend
      <3> QED BY <3>2, <3>3
    <2>5. ASSUME NEW i \in 1..MaxCmds PROVE Due(v, i) = Due(w, i) + One(i, d)
      <3>1. f \in AnswersTo(i) <=> i = d
        BY <2>5, WorkerAssumption DEF AnswersTo
      <3>2. Hits(v.out, AnswersTo(i)) = Hits(w.out, AnswersTo(i)) + One(i, d)
        BY <1>1, <2>2, <3>1, HitsAppend DEF One
      <3>3. Hits(w.out, AnswersTo(i)) \in Nat /\ One(i, d) \in Nat /\ One(w.req, i) \in Nat
        BY <1>1, HitsNat DEF One
      <3> HIDE DEF d
      <3> QED BY <2>2, <3>2, <3>3 DEF Due
    <2>6. \A i \in 1..MaxCmds : Due(w, i) \in Nat /\ One(i, d) \in Nat
      BY <1>1, DueNat DEF One
    <2> HIDE DEF d
    <2>7. Adds(v, w, d)
      BY <2>2, <2>3, <2>4, <2>5, <2>6 DEF Adds, Bounds, Tally
    <2> QED BY <2>1, <2>7 DEF d
  <1> QED BY <1>2, <1>3

Owes(v, w, id) == Fits(v) /\ Adds(v, w, id)

LEMMA OwesThen ==
  ASSUME NEW u, NEW v, NEW w, Fits(w), NEW id,
         (Owes(u, v, id) /\ Owes(v, w, 0)) \/ (Owes(u, v, 0) /\ Owes(v, w, id))
  PROVE  Owes(u, w, id)
  BY EvenThen DEF Owes, Fits

LEMMA AlikeOwes ==
  ASSUME NEW w, Fits(w), NEW v \in WorkerType, Alike(v, w)
  PROVE  Owes(v, w, 0)
  BY AlikeAdds DEF Owes, Fits, Alike

LEMMA OwesNothing == ASSUME NEW w, Fits(w) PROVE Owes(w, w, 0)
  BY AlikeOwes DEF Alike, Fits

\* A worker that failed owes nothing more.
LEMMA FailsOwes ==
  ASSUME NEW w, Fits(w), NEW id
  PROVE  Owes([w EXCEPT !.failed = TRUE], w, id)
  <1> DEFINE u == [w EXCEPT !.failed = TRUE]
  <1>1. w \in WorkerType /\ u \in WorkerType /\ u.failed /\ Alike(u, w)
    BY DEF Fits, WorkerType, Alike
  <1> HIDE DEF u
  <1>2. Owes(u, w, 0)
    BY <1>1, AlikeOwes
  <1>3. \A i \in 1..MaxCmds : /\ Due(u, i) \in Nat /\ Due(w, i) \in Nat
                              /\ One(i, 0) = 0 /\ One(i, id) \in Nat
    BY <1>1, DueNat, WorkerAssumption DEF One
  <1>4. Adds(u, w, id)
    BY <1>1, <1>2, <1>3 DEF Owes, Adds
  <1> QED BY <1>2, <1>4 DEF Owes, u

LEMMA AnswerOwes ==
  ASSUME NEW w, Fits(w), NEW id \in Ids, NEW k \in {"ok", "err"}
  PROVE  Owes(Answer(w, id, k), w, id) /\ Answer(w, id, k).req = w.req
  <1> DEFINE f == Frame(k, id, 0, 0)
  <1>1. f \in FrameType /\ f.seq = 0 /\ f.k = k /\ f.id = id
    BY DEF Frame, FrameType, Kinds
  <1>2. w \in WorkerType
    BY DEF Fits
  <1> HIDE DEF f
  <1>3. Put(w, f) \in WorkerType
    BY <1>1, <1>2, PutQuiet DEF Quiet, Carries
  <1>4. Adds(Put(w, f), w, id)
    BY <1>1, PutAdds
  <1>5. Put(w, f).req = w.req
    BY <1>2 DEF Put, WorkerType
  <1> QED BY <1>3, <1>4, <1>5 DEF Answer, f, Owes, Fits, Adds

LEMMA FinishOwes ==
  ASSUME NEW w, Fits(w), NEW k \in {"ok", "err"}
  PROVE  Owes(Finish(w, k), w, 0)
  <1> DEFINE a == Answer(w, w.req, k)
             v == [a EXCEPT !.req = 0]
  <1>1. w \in WorkerType /\ w.req \in Ids
    BY DEF Fits, WorkerType
  <1>2. Owes(a, w, w.req) /\ a.req = w.req /\ a \in WorkerType
    BY <1>1, AnswerOwes DEF Owes, Fits
  <1> HIDE DEF a
  <1>3. /\ v \in WorkerType /\ v.out = a.out /\ v.credit = a.credit /\ v.failed = a.failed
        /\ v.req = 0 /\ v.gone = a.gone
    BY <1>2, ZeroId DEF WorkerType
  <1> HIDE DEF v
  <1>4. ASSUME NEW i \in 1..MaxCmds
        PROVE  /\ Due(v, i) <= Due(w, i) + One(i, 0)
               /\ ~v.failed => Due(v, i) = Due(w, i) + One(i, 0)
    <2>1. Hits(a.out, AnswersTo(i)) \in Nat /\ Due(w, i) \in Nat
      <3>1. a.out \in Seq(FrameType)
        BY <1>2 DEF WorkerType
      <3> QED BY <1>1, <3>1, HitsNat, DueNat
    <2>2. One(0, i) = 0 /\ One(i, 0) = 0
      BY <1>4, WorkerAssumption DEF One
    <2>3. One(a.req, i) = One(i, w.req) /\ One(i, w.req) \in Nat
      BY <1>2 DEF One
    <2>4. Due(v, i) = Hits(a.out, AnswersTo(i)) + 0
      BY <1>3, <2>2 DEF Due
    <2>5. Due(a, i) = Hits(a.out, AnswersTo(i)) + One(i, w.req)
      BY <2>3 DEF Due
    <2>6. /\ Due(a, i) <= Due(w, i) + One(i, w.req)
          /\ ~a.failed => Due(a, i) = Due(w, i) + One(i, w.req)
      BY <1>2, <1>4 DEF Owes, Adds
    <2> QED BY <1>3, <2>1, <2>2, <2>3, <2>4, <2>5, <2>6
  <1>5. Adds(v, w, 0) /\ Len(v.out) <= OutFrames
    BY <1>2, <1>3, <1>4 DEF Owes, Adds, Bounds, Tally
  <1> QED BY <1>3, <1>5 DEF Owes, Fits, Finish, v, a

LEMMA EndedOwes ==
  ASSUME NEW w, Fits(w)
  PROVE  Owes(Ended(w), w, 0) /\ Owes(ClearReports(w), w, 0)
  <1>1. w \in WorkerType
    BY DEF Fits
  <1>2. Ended(w) \in WorkerType /\ ClearReports(w) \in WorkerType
    BY <1>1, EndedQuiet DEF Quiet, Carries
  <1>3. Alike(Ended(w), w) /\ Alike(ClearReports(w), w)
    BY <1>1 DEF Alike, Ended, ClearReports, WorkerType
  <1> QED BY <1>2, <1>3, AlikeOwes

LEMMA TerminalOwes ==
  ASSUME NEW w, Fits(w)
  PROVE  Owes(Terminal(w), w, 0)
  <1> DEFINE e == Ended(w)
             a == [e EXCEPT !.closing = TRUE, !.x = Cancelled(e.x)]
             f == Frame("error", 0, 0, 0)
  <1>1. Owes(e, w, 0) /\ e \in WorkerType /\ e.x \in ExchangeType
    BY EndedOwes DEF Owes, Fits, WorkerType
  <1>2. Cancelled(e.x) \in ExchangeType
    BY <1>1, CancelTyped
  <1>3. f \in FrameType /\ f.seq = 0 /\ f.k = "error"
    BY ZeroId DEF Frame, FrameType, Kinds
  <1>4. Terminal(w) = Put(a, f)
    BY DEF Terminal
  <1> HIDE DEF e, f
  <1>5. a \in WorkerType /\ Alike(a, e)
    BY <1>1, <1>2 DEF WorkerType, Alike
  <1> HIDE DEF a
  <1>6. Owes(a, e, 0)
    BY <1>1, <1>5, AlikeOwes DEF Owes
  <1>7. Owes(a, w, 0) /\ Fits(a)
    BY <1>1, <1>6, OwesThen DEF Owes
  <1>8. Put(a, f) \in WorkerType /\ Adds(Put(a, f), a, 0)
    BY <1>3, <1>5, <1>7, PutQuiet, PutAdds DEF Quiet, Carries
  <1>9. Owes(Put(a, f), a, 0)
    BY <1>8 DEF Owes, Fits, Adds
  <1> QED BY <1>4, <1>7, <1>9, OwesThen

LEMMA TakeOwes ==
  ASSUME NEW w, Fits(w), NEW m \in MessageType
  PROVE  Owes(Take(w, m), w, 0)
  <1>1. w \in WorkerType
    BY DEF Fits
  <1>2. Take(w, m) \in WorkerType
    BY <1>1, TakeQuiet DEF Quiet, Carries
  <1>3. Alike(Take(w, m), w)
    BY <1>1 DEF Alike, Take, WorkerType
  <1> QED BY <1>2, <1>3, AlikeOwes

LEMMA PlaceOwes ==
  ASSUME NEW w, Fits(w), NEW m \in MessageType
  PROVE  Owes(Place(w, m), w, 0)
  <1> DEFINE r == Report(m)
  <1>1. r \in ReportType /\ w \in WorkerType
    BY ReportTyped DEF Fits
  <1>2. Place(w, m) \in {Terminal(w), [w EXCEPT !.next = r], [w EXCEPT !.rep = r]}
    BY DEF Place
  <1> HIDE DEF r
  <1>3. /\ [w EXCEPT !.next = r] \in WorkerType /\ Alike([w EXCEPT !.next = r], w)
        /\ [w EXCEPT !.rep = r] \in WorkerType /\ Alike([w EXCEPT !.rep = r], w)
    BY <1>1 DEF WorkerType, Alike
  <1>4. Owes([w EXCEPT !.next = r], w, 0) /\ Owes([w EXCEPT !.rep = r], w, 0)
    BY <1>3, AlikeOwes
  <1> QED BY <1>2, <1>4, TerminalOwes

LEMMA FinishClosesOwes ==
  ASSUME NEW w, Fits(w), NEW k \in {"ok", "err"}
  PROVE  Owes([Finish(w, k) EXCEPT !.closing = TRUE], w, 0)
  <1> DEFINE a == Finish(w, k)
             v == [a EXCEPT !.closing = TRUE]
  <1>1. Owes(a, w, 0) /\ a \in WorkerType
    BY FinishOwes DEF Owes, Fits
  <1> HIDE DEF a
  <1>2. v \in WorkerType /\ Alike(v, a)
    BY <1>1 DEF WorkerType, Alike
  <1>3. Owes(v, a, 0)
    BY <1>1, <1>2, AlikeOwes DEF Owes
  <1> QED BY <1>1, <1>3, OwesThen DEF a

LEMMA InitialOwes ==
  ASSUME NEW w, Fits(w), NEW m \in MessageType
  PROVE  Owes(InitialResponse(w, m), w, 0)
  <1> DEFINE t == Take(w, m)
             a == Finish(t, "ok")
             r == [a EXCEPT !.rep = Report(m), !.o.established = TRUE, !.o.used = TRUE]
  <1>1. Owes(t, w, 0) /\ Fits(t)
    BY TakeOwes DEF Owes
  <1>2. Owes(a, t, 0) /\ Fits(a) /\ a \in WorkerType
    BY <1>1, FinishOwes DEF Owes, Fits
  <1>3. InitialResponse(w, m) \in
          {[w EXCEPT !.failed = TRUE], [Finish(w, "err") EXCEPT !.closing = TRUE], r}
    BY DEF InitialResponse
  <1>4. InitialResponse(w, m) \in WorkerType
    BY InitialQuiet DEF Fits, Quiet, Carries
  <1> HIDE DEF t, a
  <1>5. Alike(r, a)
    BY <1>2 DEF WorkerType, Alike
  <1> HIDE DEF r
  <1>6. CASE InitialResponse(w, m) = r
    <2>1. Owes(r, a, 0)
      BY <1>2, <1>4, <1>5, <1>6, AlikeOwes
    <2>2. Owes(a, w, 0)
      BY <1>1, <1>2, OwesThen
    <2> QED BY <1>6, <2>1, <2>2, OwesThen
  <1>7. CASE InitialResponse(w, m) # r
    BY <1>3, <1>7, FailsOwes, FinishClosesOwes
  <1> QED BY <1>6, <1>7

LEMMA LaterOwes ==
  ASSUME NEW w, Fits(w), NEW m \in MessageType, NEW renewal \in BOOLEAN
  PROVE  Owes(LaterReport(w, m, renewal), w, 0)
  <1> DEFINE t == Take(w, m)
             u == [t EXCEPT !.o.renewing = t.o.renewing /\ ~renewal]
  <1>1. Owes(t, w, 0) /\ Fits(t) /\ t \in WorkerType
    BY TakeOwes DEF Owes, Fits
  <1>2. LaterReport(w, m, renewal) \in {[w EXCEPT !.failed = TRUE], Terminal(w), w, Place(u, m)}
    BY DEF LaterReport
  <1> HIDE DEF t
  <1>3. u \in WorkerType /\ Alike(u, t)
    BY <1>1 DEF WorkerType, ObservationType, Alike
  <1> HIDE DEF u
  <1>4. Owes(u, w, 0) /\ Fits(u)
    BY <1>1, <1>3, AlikeOwes, OwesThen DEF Owes
  <1>5. Owes(Place(u, m), w, 0)
    BY <1>4, PlaceOwes, OwesThen
  <1> QED BY <1>2, <1>5, FailsOwes, TerminalOwes, OwesNothing

LEMMA ConfirmedOwes ==
  ASSUME NEW w, Fits(w), NEW m \in MessageType
  PROVE  Owes(CancelConfirmed(w, m), w, 0)
  <1> DEFINE a == Finish(w, "ok")
             e == Ended(a)
             v == [e EXCEPT !.o.event = FALSE]
  <1>1. Owes(a, w, 0) /\ Fits(a)
    BY FinishOwes DEF Owes
  <1>2. Owes(e, a, 0) /\ Fits(e) /\ e \in WorkerType
    BY <1>1, EndedOwes DEF Owes, Fits
  <1>3. CancelConfirmed(w, m) \in
          {[w EXCEPT !.failed = TRUE], [Finish(w, "err") EXCEPT !.closing = TRUE], v}
    BY DEF CancelConfirmed
  <1> HIDE DEF a, e
  <1>4. v \in WorkerType /\ Alike(v, e)
    BY <1>2 DEF WorkerType, ObservationType, Alike
  <1> HIDE DEF v
  <1>5. Owes(v, e, 0) /\ Owes(e, w, 0)
    BY <1>1, <1>2, <1>4, AlikeOwes, OwesThen
  <1>6. Owes(v, w, 0)
    BY <1>5, OwesThen
  <1>7. Owes([w EXCEPT !.failed = TRUE], w, 0) /\ Owes([Finish(w, "err") EXCEPT !.closing = TRUE], w, 0)
    BY FailsOwes, FinishClosesOwes
  <1> QED BY <1>3, <1>6, <1>7

LEMMA UnaryOwes ==
  ASSUME NEW w, Fits(w), NEW m \in MessageType
  PROVE  Owes(UnaryResponse(w, m), w, 0)
  <1> DEFINE v == [w EXCEPT !.stream = "begin"]
  <1>1. UnaryResponse(w, m) \in {[w EXCEPT !.failed = TRUE], Finish(w, "err"), Finish(w, "ok"), v}
    BY DEF UnaryResponse
  <1>2. v \in WorkerType /\ Alike(v, w)
    BY DEF Fits, WorkerType, Alike
  <1> HIDE DEF v
  <1>3. Owes(v, w, 0)
    BY <1>2, AlikeOwes
  <1> QED BY <1>1, <1>3, FailsOwes, FinishOwes

LEMMA MarkedOwes ==
  ASSUME NEW w, Fits(w), NEW r, Owes(r, w, 0)
  PROVE  Owes(Marked(r), w, 0)
  <1>1. r \in WorkerType /\ Fits(r)
    BY DEF Owes, Fits
  <1>2. Marked(r) \in WorkerType
    BY <1>1, MarkedShape
  <1>3. Alike(Marked(r), r)
    BY <1>1 DEF Marked, Alike, WorkerType
  <1> QED BY <1>1, <1>2, <1>3, AlikeOwes, OwesThen

LEMMA CallbackOwes ==
  ASSUME NEW w, Fits(w), NEW m \in MessageType, NEW d
  PROVE  Owes(Callback(w, m, d), w, 0)
  <1> DEFINE b == d = "renewed"
  <1>1. \E r \in {UnaryResponse(w, m), InitialResponse(w, m), LaterReport(w, m, b), w,
                  [w EXCEPT !.failed = TRUE], CancelConfirmed(w, m)} : Callback(w, m, d) = Marked(r)
    BY DEF Callback, Marked
  <1>2. b \in BOOLEAN
    OBVIOUS
  <1> HIDE DEF b
  <1>3. \A r \in {UnaryResponse(w, m), InitialResponse(w, m), LaterReport(w, m, b), w,
                  [w EXCEPT !.failed = TRUE], CancelConfirmed(w, m)} : Owes(r, w, 0)
    BY <1>2, UnaryOwes, InitialOwes, LaterOwes, OwesNothing, FailsOwes, ConfirmedOwes
  <1> QED BY <1>1, <1>3, MarkedOwes

LEMMA FailureOwes ==
  ASSUME NEW w, Fits(w)
  PROVE  Owes(FailureCallback(w), w, 0)
  <1> DEFINE a == Finish(w, "err")
             e == Ended(a)
             v == [e EXCEPT !.closing = TRUE]
  <1>1. Owes(a, w, 0) /\ Fits(a)
    BY FinishOwes DEF Owes
  <1>2. Owes(e, a, 0) /\ Fits(e) /\ e \in WorkerType
    BY <1>1, EndedOwes DEF Owes, Fits
  <1>3. FailureCallback(w) \in {Terminal(w), [w EXCEPT !.failed = TRUE], v}
    BY DEF FailureCallback
  <1> HIDE DEF a, e
  <1>4. v \in WorkerType /\ Alike(v, e)
    BY <1>2 DEF WorkerType, Alike
  <1> HIDE DEF v
  <1>5. Owes(v, e, 0) /\ Owes(e, w, 0)
    BY <1>1, <1>2, <1>4, AlikeOwes, OwesThen
  <1>6. Owes(v, w, 0)
    BY <1>5, OwesThen
  <1> QED BY <1>3, <1>6, FailsOwes, TerminalOwes

\* The failure callback after fail().
LEMMA EndedExchangeOwes ==
  ASSUME NEW w, Fits(w), w.x.active <=> w.x.pending # "none"
  PROVE  Owes(FailureCallback([w EXCEPT !.x = FailedExchange(@)]), w, 0)
  <1> DEFINE y == FailedExchange(w.x)
             u == [w EXCEPT !.x = y]
  <1>1. w \in WorkerType /\ w.x \in ExchangeType
    BY DEF Fits, WorkerType
  <1>2. y \in ExchangeType
    BY <1>1, FailedShape
  <1> HIDE DEF y
  <1>3. u \in WorkerType /\ Alike(u, w)
    BY <1>1, <1>2 DEF WorkerType, Alike
  <1> HIDE DEF u
  <1>4. Owes(u, w, 0) /\ Fits(u)
    BY <1>3, AlikeOwes DEF Owes
  <1>5. Owes(FailureCallback(u), w, 0)
    BY <1>4, FailureOwes, OwesThen
  <1> QED BY <1>5 DEF u, y

LEMMA ReceivedOwes ==
  ASSUME NEW w, Fits(w), NEW m \in MessageType, w.x.active <=> w.x.pending # "none"
  PROVE  Owes(Received(w, m), w, 0)
  <1> DEFINE y == Delivered(w.x, m)
             u == [w EXCEPT !.x = y]
             d == Delivery(w.x, m)
             e == FailureCallback([w EXCEPT !.x = FailedExchange(@)])
  <1>1. w \in WorkerType /\ w.x \in ExchangeType
    BY DEF Fits, WorkerType
  <1>2. y \in ExchangeType
    BY <1>1, DeliveredShape
  <1>3. Received(w, m) \in {w, e, Callback(u, m, d)}
    BY DEF Received
  <1>4. Owes(e, w, 0)
    BY EndedExchangeOwes
  <1> HIDE DEF y, d, e
  <1>5. u \in WorkerType /\ Alike(u, w)
    BY <1>1, <1>2 DEF WorkerType, Alike
  <1> HIDE DEF u
  <1>6. Owes(u, w, 0) /\ Fits(u)
    BY <1>5, AlikeOwes DEF Owes
  <1>7. Owes(Callback(u, m, d), w, 0)
    BY <1>6, CallbackOwes, OwesThen
  <1> QED BY <1>3, <1>4, <1>7, OwesNothing

\* A request in progress is owed its answer.
LEMMA AskOwes ==
  ASSUME NEW w, Fits(w), w.req = 0, NEW id \in Ids, NEW v \in WorkerType,
         v.out = w.out, v.credit = w.credit, v.req = id, v.gone = w.gone, w.failed => v.failed
  PROVE  Owes(v, w, id)
  <1>1. w \in WorkerType /\ w.out \in Seq(FrameType)
    BY DEF Fits, WorkerType
  <1>2. ASSUME NEW i \in 1..MaxCmds
        PROVE  Due(v, i) = Due(w, i) + One(i, id) /\ Due(w, i) \in Nat /\ One(i, id) \in Nat
    <2>1. One(w.req, i) = 0 /\ One(v.req, i) = One(i, id) /\ One(i, id) \in Nat
      BY <1>2, WorkerAssumption DEF One
    <2>2. Hits(w.out, AnswersTo(i)) \in Nat
      BY <1>1, HitsNat
    <2> QED BY <2>1, <2>2 DEF Due
  <1>3. Adds(v, w, id)
    BY <1>2 DEF Adds, Fits, Bounds, Tally
  <1> QED BY <1>3 DEF Owes, Fits

LEMMA BeginOwes ==
  ASSUME NEW w, Fits(w), w.req = 0, NEW id \in Ids, NEW k \in {"request", "observe"}
  PROVE  Owes(Begin(w, id, k), w, id)
  <1> DEFINE y == Transmit(w.x, k)
             a == Answer(w, id, "err")
             u == [a EXCEPT !.x = y, !.closing = TRUE]
             v == [w EXCEPT !.x = y, !.req = id]
  <1>1. w \in WorkerType /\ w.x \in ExchangeType
    BY DEF Fits, WorkerType
  <1>2. y \in ExchangeType
    BY <1>1, TransmitTyped
  <1>3. Owes(a, w, id) /\ Fits(a) /\ a \in WorkerType
    BY AnswerOwes DEF Owes, Fits
  <1>4. Begin(w, id, k) \in {u, v}
    BY DEF Begin
  <1> HIDE DEF y, a
  <1>5. u \in WorkerType /\ Alike(u, a)
    BY <1>2, <1>3 DEF WorkerType, Alike
  <1>6. /\ v \in WorkerType /\ v.out = w.out /\ v.credit = w.credit /\ v.req = id
        /\ v.gone = w.gone /\ v.failed = w.failed
    BY <1>1, <1>2 DEF WorkerType
  <1> HIDE DEF u, v
  <1>7. Owes(u, w, id)
    BY <1>3, <1>5, AlikeOwes, OwesThen
  <1>8. Owes(v, w, id)
    BY <1>6, AskOwes
  <1> QED BY <1>4, <1>7, <1>8

\* An answer after a step that owes none.
LEMMA AnswerAfter ==
  ASSUME NEW w, Fits(w), NEW u \in WorkerType, Alike(u, w), NEW id \in Ids, NEW k \in {"ok", "err"}
  PROVE  Owes(Answer(u, id, k), w, id)
  <1>1. Owes(u, w, 0) /\ Fits(u)
    BY AlikeOwes DEF Owes
  <1> QED BY <1>1, AnswerOwes, OwesThen

LEMMA OpenOwes ==
  ASSUME NEW w, Fits(w), NEW id \in Ids, NEW ok \in BOOLEAN
  PROVE  Owes(OpenCommand(w, id, ok), w, id)
  <1> DEFINE v == [w EXCEPT !.opened = TRUE]
  <1>1. v \in WorkerType /\ Alike(v, w)
    BY DEF Fits, WorkerType, Alike
  <1>2. OpenCommand(w, id, ok) \in {Answer(v, id, "ok"), Answer(w, id, "err")}
    BY DEF OpenCommand
  <1> HIDE DEF v
  <1> QED BY <1>1, <1>2, AnswerAfter, AnswerOwes

LEMMA BodyOwes ==
  ASSUME NEW w, Fits(w), NEW id \in Ids, NEW op
  PROVE  Owes(BodyCommand(w, id, op), w, id)
  <1> DEFINE b == BodyNext(w.body, op)
             v == [w EXCEPT !.body = b]
  <1>1. b \in {"active", "complete", "failed"}
    BY DEF BodyNext
  <1>2. CASE b = "failed"
    <2>1. BodyCommand(w, id, op) = [w EXCEPT !.failed = TRUE]
      BY <1>2 DEF BodyCommand
    <2> QED BY <2>1, FailsOwes
  <1>3. CASE b # "failed"
    <2>1. BodyCommand(w, id, op) = Answer(v, id, "ok")
      BY <1>3 DEF BodyCommand
    <2> HIDE DEF b
    <2>2. v \in WorkerType /\ Alike(v, w)
      BY <1>1, <1>3 DEF Fits, WorkerType, Alike
    <2> HIDE DEF v
    <2> QED BY <2>1, <2>2, AnswerAfter
  <1> QED BY <1>2, <1>3

LEMMA CreditOwes ==
  ASSUME NEW w, Fits(w), NEW id \in Ids, NEW seq \in Nat
  PROVE  Owes(CreditCommand(w, id, seq), w, id)
  <1> DEFINE c == Ack(w.credit, seq)
             v == [w EXCEPT !.credit = c]
  <1>1. w \in WorkerType
        /\ w.credit \in [started : BOOLEAN, assigned : Nat, written : Nat, acked : Nat]
    BY DEF Fits, WorkerType
  <1>2. /\ c \in [started : BOOLEAN, assigned : Nat, written : Nat, acked : Nat]
        /\ c.written = w.credit.written /\ c.assigned = w.credit.assigned
        /\ c.acked = IF seq > w.credit.acked THEN seq ELSE w.credit.acked
    BY <1>1 DEF Ack
  <1>3. \/ CreditCommand(w, id, seq) \in {Answer(w, id, "err"), [w EXCEPT !.failed = TRUE]}
        \/ AckValid(w.credit, seq) /\ CreditCommand(w, id, seq) = Answer(v, id, "ok")
    BY DEF CreditCommand
  <1> HIDE DEF c
  <1>4. /\ v \in WorkerType /\ v.out = w.out /\ v.req = w.req /\ v.credit = c
        /\ v.gone = w.gone /\ v.failed = w.failed
    BY <1>1, <1>2 DEF WorkerType
  <1> HIDE DEF v
  <1>5. ASSUME AckValid(w.credit, seq) PROVE Owes(v, w, 0)
    <2>1. \A i \in 1..MaxCmds : Due(v, i) = Due(w, i) /\ One(i, 0) = 0 /\ Due(w, i) \in Nat
      BY <1>1, <1>4, WorkerAssumption, DueNat DEF Due, One
    <2>2. Bounds(w) /\ Tally(w) => Bounds(v) /\ Tally(v)
      <3>1. Bounds(w) => Bounds(v)
        BY <1>1, <1>2, <1>4, <1>5, ExchangeAssumption DEF AckValid, Bounds
      <3>2. Tally(w) => Tally(v)
        BY <1>2, <1>4 DEF Tally
      <3> QED BY <3>1, <3>2
    <2>3. Adds(v, w, 0)
      BY <1>4, <2>1, <2>2 DEF Adds, Fits
    <2> QED BY <1>4, <2>3 DEF Owes, Fits, Adds
  <1>6. AckValid(w.credit, seq) => Owes(Answer(v, id, "ok"), w, id)
    <2> SUFFICES ASSUME AckValid(w.credit, seq) PROVE Owes(Answer(v, id, "ok"), w, id)
      OBVIOUS
    <2>1. Owes(v, w, 0) /\ Fits(v)
      BY <1>5 DEF Owes
    <2> QED BY <2>1, AnswerOwes, OwesThen
  <1>7. Owes(Answer(w, id, "err"), w, id) /\ Owes([w EXCEPT !.failed = TRUE], w, id)
    BY AnswerOwes, FailsOwes
  <1> QED BY <1>3, <1>6, <1>7

LEMMA CloseOwes ==
  ASSUME NEW w, Fits(w), NEW id \in Ids
  PROVE  Owes(CloseCommand(w, id), w, id)
  <1> DEFINE c == ClearReports(w)
             a == Answer(c, id, "ok")
             v == [a EXCEPT !.closing = TRUE]
  <1>1. Owes(c, w, 0) /\ Fits(c)
    BY EndedOwes DEF Owes
  <1> HIDE DEF c
  <1>2. Owes(a, c, id) /\ a \in WorkerType
    BY <1>1, AnswerOwes DEF Owes, Fits
  <1>3. Owes(a, w, id) /\ Fits(a)
    BY <1>1, <1>2, OwesThen DEF Owes
  <1> HIDE DEF a
  <1>4. v \in WorkerType /\ Alike(v, a)
    BY <1>2 DEF WorkerType, Alike
  <1> HIDE DEF v
  <1>5. Owes(v, w, id)
    BY <1>3, <1>4, AlikeOwes, OwesThen
  <1> QED BY <1>5 DEF CloseCommand, v, a, c

\* What else an answer may set.
LEMMA AnswerThen ==
  ASSUME NEW w, Fits(w), NEW id \in Ids
  PROVE  LET a == Answer(w, id, "err")
         IN /\ Owes([a EXCEPT !.body = "none"], w, id)
            /\ Owes([a EXCEPT !.closing = TRUE, !.body = "none"], w, id)
            /\ Owes([a EXCEPT !.o.event = FALSE], w, id)
            /\ Owes([[a EXCEPT !.o.event = FALSE] EXCEPT !.closing = TRUE], w, id)
  <1> DEFINE a == Answer(w, id, "err")
  <1>1. Owes(a, w, id) /\ Fits(a) /\ a \in WorkerType
    BY AnswerOwes DEF Owes, Fits
  <1> HIDE DEF a
  <1>2. \A v \in WorkerType : Alike(v, a) => Owes(v, w, id)
    BY <1>1, AlikeOwes, OwesThen
  <1>3. LET v == [a EXCEPT !.body = "none"] IN v \in WorkerType /\ Alike(v, a)
    BY <1>1 DEF WorkerType, Alike
  <1>4. LET v == [a EXCEPT !.closing = TRUE, !.body = "none"] IN v \in WorkerType /\ Alike(v, a)
    BY <1>1 DEF WorkerType, Alike
  <1>5. LET v == [a EXCEPT !.o.event = FALSE] IN v \in WorkerType /\ Alike(v, a)
    BY <1>1 DEF WorkerType, ObservationType, Alike
  <1>6. LET v == [[a EXCEPT !.o.event = FALSE] EXCEPT !.closing = TRUE] IN v \in WorkerType /\ Alike(v, a)
    BY <1>1 DEF WorkerType, ObservationType, Alike
  <1> QED BY <1>2, <1>3, <1>4, <1>5, <1>6 DEF a

LEMMA RequestOwes ==
  ASSUME NEW w, Fits(w), w.req = 0, NEW id \in Ids, NEW body \in BOOLEAN
  PROVE  Owes(RequestCommand(w, id, body), w, id)
  <1> DEFINE u == [w EXCEPT !.body = "none"]
             a == Answer(w, id, "err")
  <1>1. RequestCommand(w, id, body) \in
          {a, [a EXCEPT !.body = "none"], [a EXCEPT !.closing = TRUE, !.body = "none"],
           Begin(u, id, "request")}
    BY DEF RequestCommand
  <1>2. u \in WorkerType /\ Alike(u, w) /\ u.req = 0
    BY DEF Fits, WorkerType, Alike
  <1> HIDE DEF u
  <1>3. Owes(u, w, 0) /\ Fits(u)
    BY <1>2, AlikeOwes DEF Owes
  <1>4. Owes(Begin(u, id, "request"), u, id)
    BY <1>2, <1>3, BeginOwes
  <1>5. Owes(Begin(u, id, "request"), w, id)
    BY <1>3, <1>4, OwesThen
  <1>6. /\ Owes(a, w, id) /\ Owes([a EXCEPT !.body = "none"], w, id)
        /\ Owes([a EXCEPT !.closing = TRUE, !.body = "none"], w, id)
    BY AnswerOwes, AnswerThen
  <1> QED BY <1>1, <1>5, <1>6

LEMMA ObserveOwes ==
  ASSUME NEW w, Fits(w), w.req = 0, NEW id \in Ids, NEW event \in BOOLEAN, NEW renew \in BOOLEAN
  PROVE  Owes(ObserveCommand(w, id, event, renew), w, id)
  <1> DEFINE u == [w EXCEPT !.o.path = TRUE, !.o.renew = renew, !.o.event = event]
             a == Answer(u, id, "err")
             r == [a EXCEPT !.o.event = FALSE]
             c == [r EXCEPT !.closing = TRUE]
             v == Begin(u, id, "observe")
  <1>1. ObserveCommand(w, id, event, renew) \in {Answer(w, id, "err"), r, c, v}
    BY DEF ObserveCommand
  <1>2. u \in WorkerType /\ Alike(u, w) /\ u.req = 0
    BY DEF Fits, WorkerType, ObservationType, Alike
  <1> HIDE DEF u
  <1>3. Owes(u, w, 0) /\ Fits(u)
    BY <1>2, AlikeOwes DEF Owes
  <1>4. Owes(r, u, id) /\ Owes(c, u, id) /\ Owes(v, u, id)
    BY <1>2, <1>3, AnswerThen, BeginOwes
  <1> HIDE DEF r, c, v
  <1>5. Owes(r, w, id) /\ Owes(c, w, id) /\ Owes(v, w, id)
    BY <1>3, <1>4, OwesThen
  <1>6. Owes(Answer(w, id, "err"), w, id)
    BY AnswerOwes
  <1> QED BY <1>1, <1>5, <1>6

LEMMA CancelOwes ==
  ASSUME NEW w, Fits(w), w.req = 0, NEW id \in Ids
  PROVE  Owes(CancelCommand(w, id), w, id)
  <1> DEFINE e == ClearReports(w)
             q == [e EXCEPT !.o.cancelling = TRUE, !.o.renewing = FALSE, !.req = id]
             y == Cancelled(w.x)
             v == [q EXCEPT !.x = y]
             u == [q EXCEPT !.x = y, !.req = 0, !.o.cancelling = FALSE, !.closing = TRUE]
  <1>1. CancelCommand(w, id) \in {Answer(w, id, "err"), v, Answer(u, id, "err")}
    BY DEF CancelCommand
  <1>2. w \in WorkerType /\ w.x \in ExchangeType
    BY DEF Fits, WorkerType
  <1>3. y \in ExchangeType
    BY <1>2, CancelTyped
  <1>4. e \in WorkerType
    BY <1>2, EndedQuiet DEF Quiet, Carries
  <1>5. Alike(e, w) /\ e.failed = w.failed
    BY <1>2 DEF ClearReports, Alike, WorkerType
  <1> HIDE DEF e, y
  <1>6. /\ q \in WorkerType /\ q.out = e.out /\ q.req = id /\ q.credit = e.credit
        /\ q.gone = e.gone /\ q.failed = e.failed
    BY <1>4 DEF WorkerType, ObservationType
  <1> HIDE DEF q
  <1>7. /\ v \in WorkerType /\ v.out = q.out /\ v.req = id /\ v.credit = q.credit
        /\ v.gone = q.gone /\ v.failed = q.failed
    BY <1>3, <1>6 DEF WorkerType
  <1>8. /\ u \in WorkerType /\ u.out = q.out /\ u.req = 0 /\ u.credit = q.credit
        /\ u.gone = q.gone /\ u.failed = q.failed
    BY <1>3, <1>6, ZeroId DEF WorkerType, ObservationType
  <1> HIDE DEF u, v
  <1>9. Owes(v, w, id)
    <2>1. v.out = w.out /\ v.credit = w.credit /\ v.gone = w.gone /\ v.failed = w.failed
      BY <1>5, <1>6, <1>7 DEF Alike
    <2> QED BY <1>7, <2>1, AskOwes
  <1>10. Owes(Answer(u, id, "err"), w, id)
    <2>1. Alike(u, w)
      BY <1>5, <1>6, <1>8 DEF Alike
    <2> QED BY <1>8, <2>1, AnswerAfter
  <1>11. Owes(Answer(w, id, "err"), w, id)
    BY AnswerOwes
  <1> QED BY <1>1, <1>9, <1>10, <1>11

LEMMA ExecuteOwes ==
  ASSUME NEW w, Fits(w), NEW id \in Ids, NEW c, c.flag \in BOOLEAN, c.arg \in Nat
  PROVE  Owes(Execute(w, id, c), w, id)
  <1> DEFINE event == c.arg = 1
  <1>1. \/ Execute(w, id, c) \in {[w EXCEPT !.failed = TRUE], OpenCommand(w, id, c.flag),
                                  Answer(w, id, "err")}
        \/ w.req = 0 /\ Execute(w, id, c) \in
             {CreditCommand(w, id, c.arg), CancelCommand(w, id), CloseCommand(w, id),
              RequestCommand(w, id, c.flag), BodyCommand(w, id, c.op),
              ObserveCommand(w, id, event, c.flag)}
    BY DEF Execute, Fits, WorkerType
  <1>2. event \in BOOLEAN
    OBVIOUS
  <1> HIDE DEF event
  <1>3. /\ Owes([w EXCEPT !.failed = TRUE], w, id) /\ Owes(OpenCommand(w, id, c.flag), w, id)
        /\ Owes(Answer(w, id, "err"), w, id)
    BY FailsOwes, OpenOwes, AnswerOwes
  <1>4. w.req = 0 =>
          /\ Owes(CreditCommand(w, id, c.arg), w, id) /\ Owes(CancelCommand(w, id), w, id)
          /\ Owes(CloseCommand(w, id), w, id) /\ Owes(RequestCommand(w, id, c.flag), w, id)
          /\ Owes(BodyCommand(w, id, c.op), w, id)
          /\ Owes(ObserveCommand(w, id, event, c.flag), w, id)
    BY <1>2, CreditOwes, CancelOwes, CloseOwes, RequestOwes, BodyOwes, ObserveOwes
  <1> QED BY <1>1, <1>3, <1>4

\* The ledger after a step of the worker that reads command id (none, if 0).
LEMMA OwesStep ==
  ASSUME IInv, IInv', Ledger, ~s.gone, NEW id, Owes(s', s, id), got' = got,
         load'.cmds = load.cmds + (IF id = 0 THEN 0 ELSE 1),
         id # 0 => id = load.cmds + 1 /\ id \in 1..MaxCmds
  PROVE  Ledger'
  <1>1. /\ Fits(s') /\ Adds(s', s, id) /\ s \in WorkerType /\ s' \in WorkerType
        /\ load.cmds \in Nat /\ got \in GotType
    BY DEF Owes, Fits, IInv, StateType, Ledger
  <1>2. ~s'.gone /\ Bounds(s') /\ Tally(s') /\ Len(s'.out) <= OutFrames
    BY <1>1 DEF Adds, Ledger
  <1>3. s'.x.active <=> s'.x.pending # "none"
    BY <1>2 DEF IInv, Exchange, Numbered
  <1>4. ASSUME NEW i \in 1..MaxCmds
        PROVE  /\ got.ans[i] + Due(s', i) <= 1
               /\ i <= load'.cmds /\ ~s'.failed => got.ans[i] + Due(s', i) = 1
               /\ i > load'.cmds => got.ans[i] + Due(s', i) = 0
    <2>1. Due(s', i) \in Nat /\ Due(s, i) \in Nat /\ got.ans[i] \in Nat /\ i \in Nat /\ i > 0
      BY <1>1, <1>4, DueNat, WorkerAssumption DEF GotType
    <2>2. /\ Due(s', i) <= Due(s, i) + One(i, id) /\ (s.failed => s'.failed)
          /\ ~s'.failed => Due(s', i) = Due(s, i) + One(i, id)
      BY <1>1, <1>4 DEF Adds
    <2>3. /\ got.ans[i] + Due(s, i) <= 1
          /\ i <= load.cmds /\ ~s.failed => got.ans[i] + Due(s, i) = 1
          /\ i > load.cmds => got.ans[i] + Due(s, i) = 0
      BY <1>4 DEF Ledger, Running
    <2>4. CASE id = 0
      <3>1. One(i, id) = 0 /\ load'.cmds = load.cmds
        BY <1>1, <2>1, <2>4 DEF One
      <3> QED BY <1>1, <2>1, <2>2, <2>3, <3>1
    <2>5. CASE id # 0 /\ i = id
      <3>1. One(i, id) = 1 /\ load'.cmds = load.cmds + 1 /\ i = load.cmds + 1
        BY <2>5 DEF One
      <3> QED BY <1>1, <2>1, <2>2, <2>3, <3>1
    <2>6. CASE id # 0 /\ i # id
      <3>1. One(i, id) = 0 /\ load'.cmds = load.cmds + 1 /\ i # load.cmds + 1
        BY <2>6 DEF One
      <3>2. i <= load.cmds + 1 <=> i <= load.cmds
        BY <1>1, <2>1, <3>1
      <3>3. Due(s', i) <= Due(s, i) /\ (~s'.failed => ~s.failed /\ Due(s', i) = Due(s, i))
        BY <2>1, <2>2, <3>1
      <3> QED BY <1>1, <2>1, <2>3, <3>1, <3>2, <3>3
    <2> QED BY <2>4, <2>5, <2>6
  <1>5. \A i \in 1..MaxCmds : Due(s, i)' = Due(s', i)
    BY DEF Due, Hits, One, AnswersTo, FrameType, Ids
  <1>6. (Bounds(s) /\ Tally(s))' /\ (got \in GotType)'
    BY <1>1, <1>2 DEF Bounds, Tally, Hits, ReportFrames, FrameType, Ids, GotType
  <1> QED BY <1>2, <1>3, <1>4, <1>5, <1>6 DEF Ledger, Running

LEMMA CommandLedger == ASSUME IInv, Ledger, NEW op, Command(op) PROVE Ledger'
  <1> DEFINE id == load.cmds + 1
  <1>1. PICK c \in Commands(op), more \in BOOLEAN :
          s' = [Execute(s, id, c) EXCEPT !.more = Execute(s, id, c).closing /\ more]
    BY DEF Command
  <1>2. c.flag \in BOOLEAN /\ c.arg \in Nat
    BY CommandShape DEF IInv, StateType
  <1>3. /\ ~s.gone /\ Fits(s) /\ id \in 1..MaxCmds /\ id \in Ids /\ id # 0
        /\ load'.cmds = id /\ got' = got /\ load.cmds \in Nat
    BY WorkerAssumption DEF IInv, StateType, Command, Running, Ids, Fits, Ledger
  <1> DEFINE w == Execute(s, id, c)
             b == w.closing /\ more
             v == [w EXCEPT !.more = b]
  <1>4. Owes(w, s, id) /\ w \in WorkerType
    BY <1>2, <1>3, ExecuteOwes DEF Owes, Fits
  <1>5. b \in BOOLEAN
    OBVIOUS
  <1> HIDE DEF w, b
  <1>6. v \in WorkerType /\ Alike(v, w)
    BY <1>4, <1>5 DEF WorkerType, Alike
  <1> HIDE DEF v
  <1>7. Owes(v, w, 0)
    BY <1>4, <1>6, AlikeOwes DEF Owes
  <1>8. Owes(v, s, id)
    BY <1>3, <1>4, <1>7, OwesThen
  <1>9. s' = v
    BY <1>1 DEF v, w, b
  <1> HIDE DEF id
  <1>10. IInv'
    BY CommandKeeps
  <1>11. load'.cmds = load.cmds + 1 /\ id = load.cmds + 1
    BY <1>3 DEF id
  <1> QED BY <1>3, <1>8, <1>9, <1>10, <1>11, OwesStep

\* The steps of the loop that owe nothing.
LEMMA EvenStep ==
  ASSUME IInv, IInv', Ledger, ~s.gone, Owes(s', s, 0), UNCHANGED <<got, load>>
  PROVE  Ledger'
  <1>1. load'.cmds = load.cmds + 0
    BY DEF IInv, StateType
  <1> QED BY <1>1, OwesStep

LEMMA LoopLedger ==
  ASSUME IInv, IInv', Ledger,
         MalformedLine \/ Receive \/ ExchangeFails \/ RequestTimeout \/ Maintain \/ Age
         \/ StoreFails \/ PeerAnswers \/ PeerNotifies \/ LoseMessage
  PROVE  Ledger'
  <1>1. ~s.gone /\ UNCHANGED <<got, load>>
    BY DEF MalformedLine, Receive, ExchangeFails, RequestTimeout, Maintain, Age, StoreFails,
           PeerAnswers, PeerNotifies, LoseMessage, Idle, Running
  <1>2. /\ Fits(s) /\ s \in WorkerType /\ s.x \in ExchangeType /\ s' \in WorkerType
        /\ s.x.active <=> s.x.pending # "none"
    BY DEF IInv, StateType, Ledger, Fits, WorkerType
  <1>3. CASE MalformedLine
    <2>1. Owes(s', s, 0)
      BY <1>2, <1>3, FailsOwes DEF MalformedLine
    <2> QED BY <1>1, <2>1, EvenStep
  <1>4. CASE Receive
    <2>1. PICK m \in down : s' = Received(s, m)
      BY <1>4 DEF Receive
    <2>2. m \in MessageType
      BY DEF IInv, StateType
    <2>3. Owes(s', s, 0)
      BY <1>2, <2>1, <2>2, ReceivedOwes
    <2> QED BY <1>1, <2>3, EvenStep
  <1>5. CASE ExchangeFails
    <2>1. Owes(s', s, 0)
      BY <1>2, <1>5, EndedExchangeOwes DEF ExchangeFails
    <2> QED BY <1>1, <2>1, EvenStep
  <1>6. CASE RequestTimeout
    <2> DEFINE v == [s EXCEPT !.stream = "none", !.failed = TRUE]
    <2>1. v \in WorkerType /\ Alike(v, s)
      BY <1>2 DEF WorkerType, Alike
    <2>2. s' \in {v, [Finish(s, "err") EXCEPT !.closing = TRUE]}
      BY <1>6 DEF RequestTimeout
    <2> HIDE DEF v
    <2>3. Owes(v, s, 0) /\ Owes([Finish(s, "err") EXCEPT !.closing = TRUE], s, 0)
      BY <1>2, <2>1, AlikeOwes, FinishClosesOwes
    <2>4. Owes(s', s, 0)
      BY <2>2, <2>3
    <2> QED BY <1>1, <2>4, EvenStep
  <1>7. CASE Maintain
    <2> DEFINE x == Transmit(s.x, "renew")
               u == [s EXCEPT !.x = x]
               v == [s EXCEPT !.x = x, !.o.renewing = TRUE]
               t == [s EXCEPT !.x = s.x]
    <2>1. x \in ExchangeType
      BY <1>2, TransmitTyped
    <2>2. t = s
      BY <1>2 DEF WorkerType
    <2>3. s' \in {Terminal(s), Terminal(t), Terminal(u), v}
      BY <1>7 DEF Maintain
    <2> HIDE DEF x, t
    <2>4. u \in WorkerType /\ Alike(u, s) /\ v \in WorkerType /\ Alike(v, s)
      BY <1>2, <2>1 DEF WorkerType, ObservationType, Alike
    <2> HIDE DEF u, v
    <2>5. Owes(u, s, 0) /\ Fits(u) /\ Owes(v, s, 0)
      BY <1>2, <2>4, AlikeOwes DEF Owes
    <2>6. Owes(Terminal(u), s, 0) /\ Owes(Terminal(s), s, 0)
      BY <1>2, <2>5, TerminalOwes, OwesThen
    <2>7. Owes(s', s, 0)
      BY <2>2, <2>3, <2>5, <2>6
    <2> QED BY <1>1, <2>7, EvenStep
  <1>8. CASE Age \/ StoreFails \/ PeerAnswers \/ PeerNotifies \/ LoseMessage
    <2>1. Alike(s', s)
      <3>1. CASE Age
        BY <1>2, <3>1 DEF Age, Alike, WorkerType
      <3>2. CASE StoreFails
        BY <1>2, <3>2 DEF StoreFails, Alike, WorkerType
      <3>3. CASE PeerAnswers
        <4>1. PICK r : s' = [s EXCEPT !.x.up = @ \ {r}]
          BY <3>3 DEF PeerAnswers
        <4> QED BY <1>2, <4>1 DEF Alike, WorkerType
      <3>4. CASE PeerNotifies
        BY <3>4 DEF PeerNotifies, Alike
      <3>5. CASE LoseMessage
        BY <1>2, <3>5 DEF LoseMessage, Alike, WorkerType
      <3> QED BY <1>8, <3>1, <3>2, <3>3, <3>4, <3>5
    <2>2. Owes(s', s, 0)
      BY <1>2, <2>1, AlikeOwes
    <2> QED BY <1>1, <2>2, EvenStep
  <1> QED BY <1>3, <1>4, <1>5, <1>6, <1>7, <1>8

LEMMA PumpStreamLedger == ASSUME IInv, IInv', Ledger, PumpStream PROVE Ledger'
  <1>1. ~s.gone /\ s \in WorkerType /\ Fits(s) /\ s.stream # "none" /\ UNCHANGED <<got, load>>
    BY DEF PumpStream, Idle, Running, IInv, StateType, Ledger, Fits
  <1> DEFINE f == Frame(s.stream, s.req, 0, 0)
             a == Put(s, f)
             b == Finish(s, "ok")
             u == [b EXCEPT !.stream = "none"]
             v == [a EXCEPT !.stream = StreamNext[a.stream]]
  <1>2. f \in FrameType /\ f.seq = 0 /\ f.k \notin {"ok", "err"}
    BY <1>1 DEF Frame, FrameType, Kinds, WorkerType
  <1>3. s' \in {u, v} /\ s' \in WorkerType
    BY DEF PumpStream, IInv, StateType
  <1> HIDE DEF f
  <1>4. Owes(a, s, 0) /\ Fits(a) /\ a \in WorkerType
    BY <1>1, <1>2, PutQuiet, PutAdds DEF Quiet, Carries, Owes, Fits, Adds
  <1>5. Owes(b, s, 0) /\ Fits(b) /\ b \in WorkerType
    BY <1>1, FinishOwes DEF Owes, Fits
  <1> HIDE DEF a, b
  <1>6. Alike(u, b) /\ Alike(v, a)
    BY <1>4, <1>5 DEF Alike, WorkerType
  <1> HIDE DEF u, v
  <1>7. Owes(s', s, 0)
    BY <1>1, <1>3, <1>4, <1>5, <1>6, AlikeOwes, OwesThen
  <1> QED BY <1>1, <1>7, EvenStep

LEMMA PumpReportLedger == ASSUME IInv, IInv', Ledger, PumpReport PROVE Ledger'
  <1>1. /\ ~s.gone /\ s \in WorkerType /\ Fits(s) /\ s.rep # NoReport /\ UNCHANGED <<got, load>>
        /\ CreditAvailable(s.credit) /\ Len(s.out) < OutFrames /\ Bounds(s) /\ Tally(s)
    BY DEF PumpReport, Idle, Running, IInv, StateType, Ledger, Fits
  <1> DEFINE seq == s.credit.assigned + 1
             f == Frame(s.rep.phase, 0, s.rep.n, seq)
             a == Put(s, f)
             w == [a EXCEPT !.credit.assigned = seq]
             u == [w EXCEPT !.rep = s.next, !.next = NoReport]
             v == [w EXCEPT !.rep.phase = StreamNext[w.rep.phase]]
  <1>2. /\ s.rep \in [n : Nat, phase : {"begin", "chunk", "end", "result"}] /\ seq \in Nat
        /\ s.out \in Seq(FrameType) /\ Len(s.out) \in Nat /\ OutFrames \in Nat
        /\ s.credit \in [started : BOOLEAN, assigned : Nat, written : Nat, acked : Nat]
    BY <1>1, WorkerAssumption DEF WorkerType, ReportType
  <1>3. f \in FrameType /\ f \in ReportFrames /\ \A i : f \notin AnswersTo(i)
    BY <1>2, ZeroId DEF Frame, FrameType, Kinds, ReportFrames, AnswersTo
  <1>4. a = [s EXCEPT !.out = Append(s.out, f)]
    BY <1>1, <1>2 DEF Put
  <1>5. s' \in {u, v} /\ s' \in WorkerType
    BY DEF PumpReport, IInv, StateType
  <1> HIDE DEF f, seq
  <1>6. /\ a.out = Append(s.out, f) /\ a.req = s.req /\ a.credit = s.credit
        /\ a.gone = s.gone /\ a.failed = s.failed /\ a \in WorkerType
    <2>1. Append(s.out, f) \in Seq(FrameType)
      BY <1>2, <1>3
    <2> DEFINE q == Append(s.out, f)
    <2>2. a = [s EXCEPT !.out = q]
      BY <1>4
    <2> HIDE DEF q, a
    <2> QED BY <1>1, <2>1, <2>2 DEF WorkerType, q
  <1> HIDE DEF a
  <1>7. /\ w \in WorkerType /\ w.out = a.out /\ w.req = a.req
        /\ w.credit = [a.credit EXCEPT !.assigned = seq]
        /\ w.gone = a.gone /\ w.failed = a.failed
    BY <1>2, <1>6 DEF WorkerType
  <1> HIDE DEF w
  <1>8. Owes(w, s, 0)
    <2>1. \A i \in 1..MaxCmds : Due(w, i) = Due(s, i) /\ One(i, 0) = 0 /\ Due(s, i) \in Nat
      <3> SUFFICES ASSUME NEW i \in 1..MaxCmds
                   PROVE  Due(w, i) = Due(s, i) /\ One(i, 0) = 0 /\ Due(s, i) \in Nat
        OBVIOUS
      <3>1. Hits(s.out, AnswersTo(i)) \in Nat
        BY <1>2, HitsNat
      <3>2. Hits(w.out, AnswersTo(i)) = Hits(s.out, AnswersTo(i)) + 0
        BY <1>2, <1>3, <1>6, <1>7, HitsAppend
      <3> QED BY <1>1, <1>6, <1>7, <3>1, <3>2, DueNat, WorkerAssumption DEF Due, One
    <2>2. Hits(w.out, ReportFrames) = Hits(s.out, ReportFrames) + 1 /\ Hits(s.out, ReportFrames) \in Nat
      <3>1. Hits(s.out, ReportFrames) \in Nat
        BY <1>2, HitsNat
      <3>2. Hits(w.out, ReportFrames) = Hits(s.out, ReportFrames) + 1
        BY <1>2, <1>3, <1>6, <1>7, HitsAppend
      <3> QED BY <3>1, <3>2
    <2>3. /\ w.credit.assigned = s.credit.assigned + 1
          /\ w.credit.written = s.credit.written /\ w.credit.acked = s.credit.acked
      BY <1>2, <1>6, <1>7 DEF seq
    <2>4. Tally(w)
      BY <1>1, <1>2, <2>2, <2>3 DEF Tally
    <2>5. Bounds(w)
      BY <1>1, <1>2, <2>3, ExchangeAssumption DEF Bounds, CreditAvailable
    <2>6. Len(w.out) <= OutFrames
      BY <1>1, <1>2, <1>3, <1>6, <1>7
    <2> QED BY <1>6, <1>7, <2>1, <2>4, <2>5, <2>6 DEF Owes, Fits, Adds
  <1>9. Alike(u, w) /\ Alike(v, w)
    BY <1>7 DEF Alike, WorkerType
  <1> HIDE DEF u, v
  <1>10. Owes(s', w, 0)
    BY <1>5, <1>8, <1>9, AlikeOwes DEF Owes
  <1>11. Owes(s', s, 0)
    BY <1>1, <1>8, <1>10, OwesThen
  <1> QED BY <1>1, <1>11, EvenStep

\* Counting an answer adds one to the count of its command and to no other.
LEMMA Bumped ==
  ASSUME NEW S, NEW g \in [S -> Nat], NEW z
  PROVE  /\ [g EXCEPT ![z] = g[z] + 1] \in [S -> Nat]
         /\ \A i \in S : [g EXCEPT ![z] = g[z] + 1][i] = g[i] + (IF i = z THEN 1 ELSE 0)
  <1>1. CASE z \in S
    <2>1. g[z] \in Nat
      BY <1>1
    <2> QED BY <1>1, <2>1
  <1>2. CASE z \notin S
    <2> DEFINE b == [g EXCEPT ![z] = g[z] + 1]
    <2>1. \A i \in S : g[i] \in Nat /\ i # z
      BY <1>2
    <2>2. b = [i \in S |-> g[i]]
      BY <1>2
    <2> HIDE DEF b
    <2>3. b \in [S -> Nat] /\ \A i \in S : b[i] = g[i]
      BY <2>1, <2>2
    <2>4. \A i \in S : b[i] = g[i] + (IF i = z THEN 1 ELSE 0)
      BY <2>1, <2>3
    <2> QED BY <2>3, <2>4 DEF b
  <1> QED BY <1>1, <1>2

\* A frame leaves the output: an answer is then with the BEAM.
LEMMA FlushLedger == ASSUME IInv, IInv', Ledger, FlushOutput PROVE Ledger'
  <1>1. /\ ~s.gone /\ ~s.failed /\ s \in WorkerType /\ s' \in WorkerType /\ s.out # <<>> /\ load' = load
        /\ Bounds(s) /\ Tally(s) /\ got \in GotType /\ Len(s.out) <= OutFrames
    BY DEF FlushOutput, Idle, Running, IInv, StateType, Ledger
  <1> DEFINE f == Head(s.out)
             t == Tail(s.out)
             n == IF f.seq > 0 THEN s.credit.written + 1 ELSE s.credit.written
             b == s.o.written \/ (f.seq > 0 /\ f.k = "result")
             v == [s EXCEPT !.out = t, !.credit.written = n, !.o.written = b]
  <1>2. s' = v
    BY <1>1 DEF FlushOutput, WorkerType
  <1>3. /\ s.out \in Seq(FrameType) /\ Len(s.out) \in Nat /\ OutFrames \in Nat
        /\ s.credit \in [started : BOOLEAN, assigned : Nat, written : Nat, acked : Nat]
    BY <1>1, WorkerAssumption DEF WorkerType
  <1>4. f \in FrameType /\ t \in Seq(FrameType) /\ Len(t) = Len(s.out) - 1
    BY <1>1, <1>3
  <1>5. \A F : Hits(s.out, F) = Hits(t, F) + (IF f \in F THEN 1 ELSE 0) /\ Hits(t, F) \in Nat
    BY <1>1, <1>3, <1>4, HitsTail, HitsNat
  <1>6. f.seq \in Nat /\ f.id \in Ids /\ f.k \in Kinds
    <2> HIDE DEF f
    <2> QED BY <1>4 DEF FrameType
  <1>7. /\ got' \in GotType
        /\ \A i \in 1..MaxCmds : got'.ans[i] = got.ans[i] + (IF f \in AnswersTo(i) THEN 1 ELSE 0)
    <2>1. /\ got.ans \in [1..MaxCmds -> Nat] /\ got.reports \in Seq(FrameType)
          /\ \A i \in 1..MaxCmds : got.ans[i] \in Nat
      BY <1>1 DEF GotType
    <2>2. CASE f.k \in {"ok", "err"}
      <3> DEFINE a == [got.ans EXCEPT ![f.id] = got.ans[f.id] + 1]
      <3>1. got' = [got EXCEPT !.ans = a]
        BY <2>2 DEF FlushOutput
      <3> HIDE DEF f
      <3>2. /\ \A i \in 1..MaxCmds : a[i] = got.ans[i] + (IF i = f.id THEN 1 ELSE 0)
            /\ a \in [1..MaxCmds -> Nat]
        BY <2>1, Bumped
      <3>4. \A i \in 1..MaxCmds : f \in AnswersTo(i) <=> i = f.id
        BY <1>4, <2>2 DEF AnswersTo
      <3> HIDE DEF a
      <3>5. got' \in GotType /\ got'.ans = a
        BY <1>1, <3>1, <3>2 DEF GotType
      <3> QED BY <3>2, <3>4, <3>5
    <2>3. CASE f.k \notin {"ok", "err"}
      <3>1. got' \in {[got EXCEPT !.ended = TRUE], [got EXCEPT !.reports = Append(got.reports, f)], got}
        BY <2>3 DEF FlushOutput
      <3>2. \A i \in 1..MaxCmds : f \notin AnswersTo(i)
        BY <2>3 DEF AnswersTo
      <3> HIDE DEF f
      <3> DEFINE q == Append(got.reports, f)
      <3>3. q \in Seq(FrameType)
        BY <1>4, <2>1
      <3> HIDE DEF q
      <3>4. got' \in GotType /\ got'.ans = got.ans
        BY <1>1, <3>1, <3>3 DEF GotType, q
      <3> QED BY <2>1, <3>2, <3>4
    <2> QED BY <2>2, <2>3
  <1>8. n \in Nat /\ b \in BOOLEAN
    <2> HIDE DEF f
    <2> QED BY <1>3
  <1>9. n + Hits(t, ReportFrames) = s.credit.assigned /\ n <= s.credit.assigned /\ s.credit.written <= n
    <2>1. f \in ReportFrames <=> f.seq > 0
      BY <1>4 DEF ReportFrames
    <2> DEFINE h == Hits(t, ReportFrames)
               g == Hits(s.out, ReportFrames)
    <2>2. g = h + (IF f.seq > 0 THEN 1 ELSE 0) /\ h \in Nat
      BY <1>5, <2>1
    <2>3. s.credit.written + g = s.credit.assigned
      BY <1>1 DEF Tally
    <2> HIDE DEF f, h, g
    <2>4. n + h = s.credit.assigned /\ n <= s.credit.assigned /\ s.credit.written <= n
      BY <1>3, <2>2, <2>3
    <2> QED BY <2>4 DEF h
  <1> HIDE DEF f, t, n, b
  <1>10. /\ v.out = t /\ v.req = s.req /\ v.gone = s.gone /\ v.failed = s.failed /\ v.x = s.x
         /\ v.credit.written = n /\ v.credit.assigned = s.credit.assigned
         /\ v.credit.acked = s.credit.acked
    BY <1>1, <1>3 DEF WorkerType
  <1> HIDE DEF v
  <1>11. Bounds(v) /\ Tally(v) /\ Len(v.out) <= OutFrames
    BY <1>1, <1>3, <1>4, <1>8, <1>9, <1>10 DEF Bounds, Tally
  <1>12. ASSUME NEW i \in 1..MaxCmds PROVE got'.ans[i] + Due(v, i) = got.ans[i] + Due(s, i)
    <2> DEFINE h == Hits(t, AnswersTo(i))
               g == Hits(s.out, AnswersTo(i))
               d == IF f \in AnswersTo(i) THEN 1 ELSE 0
    <2>1. g = h + d /\ h \in Nat /\ got'.ans[i] = got.ans[i] + d
      BY <1>5, <1>7
    <2>2. Due(v, i) = h + One(s.req, i) /\ Due(s, i) = g + One(s.req, i)
      BY <1>10 DEF Due
    <2>3. got.ans[i] \in Nat /\ d \in Nat /\ One(s.req, i) \in Nat
      BY <1>1 DEF GotType, One
    <2> HIDE DEF h, g, d
    <2> QED BY <2>1, <2>2, <2>3
  <1>13. \A i \in 1..MaxCmds : Due(s, i)' = Due(v, i)
    BY <1>2 DEF Due, Hits, One, AnswersTo, FrameType, Ids
  <1>14. (Bounds(s) /\ Tally(s))' /\ (got \in GotType)'
    BY <1>2, <1>7, <1>11 DEF Bounds, Tally, Hits, ReportFrames, FrameType, Ids, GotType
  <1> QED BY <1>1, <1>2, <1>10, <1>11, <1>12, <1>13, <1>14 DEF Ledger, Running

LEMMA AbandonedPending ==
  ASSUME NEW x \in ExchangeType, x.active <=> x.pending # "none"
  PROVE  Abandoned(x).active <=> Abandoned(x).pending # "none"
  <1>1. ASSUME NEW u \in ExchangeType, u.active <=> u.pending # "none"
        PROVE  Cancelled(u).active <=> Cancelled(u).pending # "none"
    <2>1. CASE CancelAllowed(u) /\ u.store
      BY <2>1 DEF Cancelled, Transmit, ExchangeType
    <2>2. CASE CancelAllowed(u) /\ ~u.store
      BY <1>1, <2>2 DEF Cancelled, Transmit, ExchangeType
    <2>3. CASE ~CancelAllowed(u)
      BY <1>1, <2>3 DEF Cancelled
    <2> QED BY <2>1, <2>2, <2>3
  <1> DEFINE z == [x EXCEPT !.observing = TRUE, !.active = FALSE, !.pending = "none"]
  <1>2. z \in ExchangeType /\ (z.active <=> z.pending # "none")
    BY DEF ExchangeType
  <1>3. Abandoned(x) \in {x, Cancelled(x), Cancelled(z)}
    BY DEF Abandoned
  <1> HIDE DEF z
  <1> QED BY <1>1, <1>2, <1>3

LEMMA ExitLedger == ASSUME IInv, Ledger, Exit PROVE Ledger'
  <1> DEFINE y == IF s.opened /\ s.o.path THEN Abandoned(s.x) ELSE s.x
             t == <<>>
             v == [s EXCEPT !.gone = TRUE, !.out = t, !.x = y]
  <1>1. UNCHANGED <<got, load>> /\ s' = v
    BY DEF Exit
  <1>2. /\ s \in WorkerType /\ s.x \in ExchangeType /\ (s.x.active <=> s.x.pending # "none")
        /\ Bounds(s) /\ got \in GotType
    BY DEF IInv, StateType, WorkerType, Ledger
  <1>3. y.active <=> y.pending # "none"
    BY <1>2, AbandonedPending
  <1>4. Len(t) = 0 /\ \A F : Hits(t, F) = 0
    <2>1. \A F : {j \in DOMAIN t : t[j] \in F} = {}
      OBVIOUS
    <2>2. Len(t) = 0
      OBVIOUS
    <2> QED BY <2>1, <2>2, FS_EmptySet DEF Hits
  <1> HIDE DEF y, t
  <1>5. v.gone /\ v.out = t /\ v.req = s.req /\ v.credit = s.credit /\ v.x = y
    BY <1>2 DEF WorkerType
  <1> HIDE DEF v
  <1>6. ASSUME NEW i \in 1..MaxCmds PROVE Due(v, i) <= Due(s, i) /\ Due(v, i) \in Nat /\ Due(s, i) \in Nat
    <2>1. s.out \in Seq(FrameType)
      BY <1>2 DEF WorkerType
    <2>2. Hits(s.out, AnswersTo(i)) \in Nat /\ Hits(t, AnswersTo(i)) = 0
      BY <1>4, <2>1, HitsNat
    <2> QED BY <1>5, <2>2 DEF Due, One
  <1>7. \A i \in 1..MaxCmds : Due(s, i)' = Due(v, i)
    BY <1>1 DEF Due, Hits, One, AnswersTo, FrameType, Ids
  <1>8. Bounds(s)' /\ (got \in GotType)' /\ (Len(s.out) <= OutFrames)'
    BY <1>1, <1>2, <1>4, <1>5, WorkerAssumption DEF Bounds, GotType, FrameType, Ids
  <1>9. ASSUME NEW i \in 1..MaxCmds
        PROVE  got'.ans[i] + Due(v, i) <= 1 /\ (i > load'.cmds => got'.ans[i] + Due(v, i) = 0)
    <2>1. got.ans[i] \in Nat /\ got.ans[i] + Due(s, i) <= 1
          /\ (i > load.cmds => got.ans[i] + Due(s, i) = 0)
      BY <1>2 DEF GotType, Ledger
    <2> QED BY <1>1, <1>6, <2>1
  <1> QED BY <1>1, <1>3, <1>5, <1>7, <1>8, <1>9 DEF Ledger, Running

LEMMA InitLedger == ASSUME Init, IInv PROVE Ledger
  <1> DEFINE f == Frame("ready", 0, 0, 0)
             q == <<f>>
  <1>1. /\ s.out = q /\ s.req = 0 /\ s.x = NewExchange /\ s.credit = NewCredit
        /\ got = [ans |-> [i \in 1..MaxCmds |-> 0], reports |-> <<>>, ended |-> FALSE]
    BY DEF Init, NewWorker
  <1>2. load.cmds = 0
    BY DEF Init
  <1>3. got \in GotType /\ \A i \in 1..MaxCmds : got.ans[i] = 0
    BY <1>1 DEF GotType
  <1>4. f.k = "ready" /\ f.seq = 0
    BY DEF Frame
  <1> HIDE DEF f
  <1>5. Len(q) = 1 /\ \A F : f \notin F => {j \in DOMAIN q : q[j] \in F} = {}
    OBVIOUS
  <1> HIDE DEF q
  <1>6. \A F : f \notin F => Hits(q, F) = 0
    BY <1>5, FS_EmptySet DEF Hits
  <1>7. Hits(q, ReportFrames) = 0 /\ \A i : Hits(q, AnswersTo(i)) = 0
    BY <1>4, <1>6 DEF ReportFrames, AnswersTo
  <1>8. Bounds(s) /\ Tally(s)
    BY <1>1, <1>7, ExchangeAssumption DEF Bounds, Tally, NewCredit
  <1>9. Len(s.out) <= OutFrames /\ (s.x.active <=> s.x.pending # "none")
    BY <1>1, <1>5, WorkerAssumption DEF NewExchange
  <1>10. \A i \in 1..MaxCmds : Due(s, i) = 0 /\ i > 0
    BY <1>1, <1>7, WorkerAssumption DEF Due, One
  <1> QED BY <1>2, <1>3, <1>8, <1>9, <1>10, WorkerAssumption DEF Ledger

LEMMA NextLedger == IInv /\ Ledger /\ [Next]_vars => Ledger'
  <1> SUFFICES ASSUME IInv, Ledger, [Next]_vars PROVE Ledger'
    OBVIOUS
  <1>1. IInv'
    BY NextIInv
  <1>2. CASE UNCHANGED vars
    <2>1. s' = s /\ got' = got /\ load' = load
      BY <1>2 DEF vars
    <2>2. \A i : (Due(s, i))' = Due(s, i)
      BY <2>1 DEF Due, Hits, One, AnswersTo, FrameType, Ids
    <2>3. (Bounds(s))' = Bounds(s) /\ (Tally(s))' = Tally(s)
      BY <2>1 DEF Bounds, Tally, Hits, ReportFrames, FrameType, Ids
    <2>4. GotType' = GotType /\ Running' = Running
      BY <2>1 DEF GotType, Running, FrameType, Ids
    <2> QED BY <2>1, <2>2, <2>3, <2>4 DEF Ledger
  <1>3. ASSUME NEW op \in load.ops, Command(op) PROVE Ledger'
    BY <1>3, CommandLedger
  <1> QED BY <1>1, <1>2, <1>3, LoopLedger, PumpStreamLedger, PumpReportLedger, FlushLedger,
             ExitLedger DEF Next

\* Whatever the commands, the network and the peer do: no command is answered
\* twice, one that the running worker took is answered, or its answer is in the
\* output, or it is the request in progress; and the report credit stays
\* within its window (execute, run, flush_output).
THEOREM CommandsAnsweredOnce == Spec => []AnsweredOnce
  <1>1. IInv /\ Ledger => AnsweredOnce
    <2> SUFFICES ASSUME IInv, Ledger PROVE AnsweredOnce
      OBVIOUS
    <2>1. s \in WorkerType /\ s.x \in ExchangeType /\ s.out \in Seq(FrameType)
      BY DEF IInv, StateType, WorkerType
    <2>2. TypeOK
      BY <2>1 DEF TypeOK, Ledger, Bounds, WorkerType, ExchangeType, FrameType, Ids
    <2>3. \A i \in 1..MaxCmds : Queued(i) = Hits(s.out, AnswersTo(i))
      <3> SUFFICES ASSUME NEW i \in 1..MaxCmds PROVE Queued(i) = Hits(s.out, AnswersTo(i))
        OBVIOUS
      <3>1. \A j \in DOMAIN s.out : s.out[j] \in FrameType
        BY <2>1
      <3>2. {j \in DOMAIN s.out : s.out[j].k \in {"ok", "err"} /\ s.out[j].id = i}
              = {j \in DOMAIN s.out : s.out[j] \in AnswersTo(i)}
        BY <3>1 DEF AnswersTo
      <3> QED BY <3>2 DEF Queued, Hits
    <2>4. \A i \in 1..MaxCmds :
            /\ Hits(s.out, AnswersTo(i)) \in Nat /\ got.ans[i] \in Nat
            /\ got.ans[i] + Queued(i) + (IF s.req = i THEN 1 ELSE 0) = got.ans[i] + Due(s, i)
      <3> SUFFICES ASSUME NEW i \in 1..MaxCmds
                   PROVE  /\ Hits(s.out, AnswersTo(i)) \in Nat /\ got.ans[i] \in Nat
                          /\ got.ans[i] + Queued(i) + (IF s.req = i THEN 1 ELSE 0)
                               = got.ans[i] + Due(s, i)
        OBVIOUS
      <3>1. Hits(s.out, AnswersTo(i)) \in Nat /\ got.ans[i] \in Nat
        BY <2>1, HitsNat DEF Ledger, GotType
      <3> QED BY <2>3, <3>1 DEF Due, One
    <2> QED BY <2>2, <2>4 DEF AnsweredOnce, Ledger
  <1>2. Init => Ledger
    BY InitIInv, InitLedger
  <1>3. Spec => []Ledger
    BY <1>2, IInvAlways, NextLedger, PTL DEF Spec
  <1> QED BY <1>1, <1>3, IInvAlways, PTL

=============================================================================
