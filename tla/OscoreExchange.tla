--------------------------- MODULE OscoreExchange ---------------------------
(***************************************************************************)
(* The protected exchange of one OSCORE worker (exchange.c) and the helpers*)
(* it shares with the worker: report credit (credit.c), freshness of       *)
(* notifications (observation.c) and the body upload (body.c).             *)
(*                                                                         *)
(* A message from the peer is [tok, ep, obs, q, n]: the token it answers,  *)
(* the request its protection is bound to, whether it carries Observe, a   *)
(* quality and the peer's sequence number n, whose value modulo Ring is    *)
(* the Observe value.  Quality "ok" is a success with well-formed options, *)
(* "changed" one in another content format, "error" a failure code and     *)
(* "malformed" one whose options libcoap's client refuses.                 *)
(***************************************************************************)
EXTENDS Naturals, Sequences

CONSTANTS Ring,   \* Observe values, 2^24
          Window  \* report frames in flight, 8

ASSUME ExchangeAssumption == Ring \in Nat \ {0, 1} /\ Window \in Nat \ {0}

-----------------------------------------------------------------------------
\* credit.c
NewCredit == [started |-> FALSE, assigned |-> 0, written |-> 0, acked |-> 0]

AckValid(c, seq) == IF c.started THEN seq <= c.written ELSE seq = 0

Ack(c, seq) ==
    [c EXCEPT !.started = TRUE, !.acked = IF seq > @ THEN seq ELSE @]

CreditAvailable(c) == c.started /\ c.assigned - c.acked < Window

-----------------------------------------------------------------------------
\* observation.c.  aged: more than 128 s passed since the last fresh report.
NewFreshness == [set |-> FALSE, observe |-> 0, aged |-> FALSE]

Observe(m) == m.n % Ring

\* Mutant: Observe values are compared without the wrap.
StaleLinear(f, m) == ~f.aged /\ Observe(m) <= f.observe

Stale(f, m) ==
    /\ ~f.aged
    /\ \/ Observe(m) = f.observe
       \/ (Observe(m) + Ring - f.observe) % Ring >= Ring \div 2

Freshness(f, m, renewal) ==
    CASE ~f.set -> "fresh"
      [] ~renewal /\ Stale(f, m) -> "stale"
      [] m.q = "changed" -> "changed"
      [] OTHER -> "fresh"

Freshened(m) == [set |-> TRUE, observe |-> Observe(m), aged |-> FALSE]

-----------------------------------------------------------------------------
\* body.c: every refused step poisons the upload.
BodyNext(body, op) ==
    CASE op = "body_begin" /\ body = "none" -> "active"
      [] op = "body_chunk" /\ body = "active" -> "active"
      [] op = "body_end" /\ body = "active" -> "complete"
      [] OTHER -> "failed"

-----------------------------------------------------------------------------
\* exchange.c.  ep names the last request sent; tok the request that chose
\* the token; store is FALSE once wco_store_reserve refuses for good.
NewExchange == [failed |-> FALSE, active |-> FALSE, pending |-> "none",
                observing |-> FALSE, tok |-> 0, ep |-> 0, store |-> TRUE,
                up |-> {}, reg |-> 0, cancel |-> 0]

\* coap_send of a request of kind k; reg and cancel remember the last
\* registration and the last cancellation.
Transmit(x, k) ==
    LET ep == x.ep + 1
        tok == IF k \in {"request", "observe"} THEN ep ELSE x.tok
    IN IF ~x.store THEN [x EXCEPT !.failed = TRUE]
       ELSE [x EXCEPT !.ep = ep, !.tok = tok, !.active = TRUE, !.pending = k,
                      !.up = @ \cup {[k |-> k, tok |-> tok, ep |-> ep]},
                      !.reg = IF k \in {"observe", "renew"} THEN ep ELSE @,
                      !.cancel = IF k = "cancel" THEN ep ELSE @]

RequestAllowed(x) == ~x.failed /\ ~x.active /\ ~x.observing

RenewAllowed(x) == ~x.failed /\ ~x.active /\ x.observing

CancelAllowed(x) ==
    ~x.failed /\ (x.active => x.pending = "renew") /\ x.observing

\* wco_exchange_cancel, what it leaves when it is refused included.
Cancelled(x) == IF CancelAllowed(x) THEN Transmit(x, "cancel") ELSE x

\* Mutant: a registration without an answer is taken not to exist.
AbandonedUnsent(x) ==
    IF x.failed \/ x.pending = "cancel" THEN x ELSE Cancelled(x)

\* wco_exchange_abandon: a registration sent may have created an observer.
Abandoned(x) ==
    IF x.failed \/ x.pending = "cancel" THEN x
    ELSE Cancelled(IF x.pending = "observe"
                   THEN [x EXCEPT !.observing = TRUE, !.active = FALSE, !.pending = "none"]
                   ELSE x)

\* libcoap finds the association of the token and verifies the protection;
\* otherwise the message is dropped, or ends an exchange without observation.
Correlated(x, m) == (x.active \/ x.observing) /\ m.tok = x.tok

Verified(x, m) == m.ep = x.ep

Registered(m) == m.obs /\ m.q \in {"ok", "changed"}

\* response_handler: how the message is delivered.
Delivery(x, m) ==
    CASE x.pending = "request" -> "unary"
      [] x.pending = "observe" -> "initial"
      [] x.pending = "renew" -> "renewed"
      [] x.pending = "cancel" -> IF m.obs THEN "intervening" ELSE "cancelled"
      [] OTHER -> "report"

Delivered(x, m) ==
    CASE Delivery(x, m) = "unary" -> [x EXCEPT !.active = FALSE, !.pending = "none"]
      [] Delivery(x, m) \in {"initial", "renewed"} ->
            [x EXCEPT !.active = FALSE, !.pending = "none", !.observing = Registered(m)]
      [] Delivery(x, m) = "cancelled" ->
            [x EXCEPT !.active = FALSE, !.pending = "none", !.observing = FALSE]
      [] OTHER -> x

\* fail(): the exchange ends, the callback has still to run.
FailedExchange(x) ==
    [x EXCEPT !.failed = TRUE, !.active = FALSE, !.observing = FALSE, !.pending = "none"]

=============================================================================
