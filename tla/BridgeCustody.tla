---------------------------- MODULE BridgeCustody ----------------------------
(***************************************************************************)
(* What the threads of the Matter bridge host share, each operation done   *)
(* under one mutex:                                                        *)
(*                                                                         *)
(*   c  request custody: bridge_handoff.cpp behind bridge_handoff_owner    *)
(*   o  the output queue: bridge_output.cpp                                *)
(*   s  the session flags: Session of bridge_process.cpp                   *)
(*                                                                         *)
(* Tickets are numbered from 1 and never reused.  Time is counted in       *)
(* steps; a ticket's deadline is Duration steps after its admission.  The  *)
(* clock is monotonic, so the InvalidClock answers are not reached.        *)
(***************************************************************************)
EXTENDS Naturals, FiniteSets, Sequences

CONSTANTS MaxTickets,      \* bound: tickets of one generation
          Capacity,        \* kCapacity: unconsumed tickets
          Duration,        \* kMaximumDurationMs
          RequestSlots,    \* kRequestCapacity
          ControlSlots,    \* kControlCapacity
          ObservationSlots \* kObservationCapacity

ASSUME CustodyAssumption ==
    /\ MaxTickets \in Nat /\ Duration \in Nat \ {0}
    /\ {Capacity, RequestSlots, ControlSlots, ObservationSlots} \subseteq Nat \ {0}

Tickets == 1..MaxTickets

-----------------------------------------------------------------------------
(* Custody.                                                                *)

NoTicket == [due |-> 0, out |-> "none"]

NewCustody == [closed |-> FALSE, last |-> 0, e |-> [t \in Tickets |-> NoTicket]]

Pending(c) == {t \in Tickets : c.e[t].due # 0}

\* Reserve: "ok", or why not.
Admission(c) ==
    CASE c.closed -> "closed"
      [] ~c.closed /\ Cardinality(Pending(c)) = Capacity -> "busy"
      [] OTHER -> "ok"

Reserve(c, now) ==
    [c EXCEPT !.last = @ + 1, !.e[c.last + 1] = [due |-> now + Duration, out |-> "none"]]

\* Resolve: what becomes of a consumer's result.
Resolution(c, t, now) ==
    CASE t \notin Pending(c) -> "unknown"
      [] t \in Pending(c) /\ c.closed -> "closed"
      [] t \in Pending(c) /\ ~c.closed /\ c.e[t].out # "none" -> "duplicate"
      [] OTHER -> "stored"

Resolve(c, t, outcome, now) ==
    IF Resolution(c, t, now) # "stored" THEN c
    ELSE [c EXCEPT !.e[t].out = IF now >= c.e[t].due THEN "timed_out" ELSE outcome]

\* Mutant: a result that came in time stays good however late it is taken.
OutcomeKept(c, t, now) ==
    IF ~c.closed /\ now >= c.e[t].due /\ c.e[t].out = "none" THEN "timed_out" ELSE c.e[t].out

\* Take: the outcome its waiter would get now; "none" while it is pending.
Outcome(c, t, now) ==
    IF ~c.closed /\ now >= c.e[t].due THEN "timed_out" ELSE c.e[t].out

Consume(c, t) == [c EXCEPT !.e[t] = NoTicket]

\* Mutant: a close forgets the tickets instead of resolving them.
CloseCustodyForgets(c) ==
    [c EXCEPT !.closed = TRUE, !.e = [t \in Tickets |-> NoTicket]]

CloseCustody(c) ==
    [c EXCEPT !.closed = TRUE,
              !.e = [t \in Tickets |-> IF t \in Pending(c) THEN [c.e[t] EXCEPT !.out = "closed"]
                                       ELSE c.e[t]]]

-----------------------------------------------------------------------------
(* Output.                                                                 *)

NewOutput == [st |-> "open", slots |-> {}, next |-> 1, term |-> 0]

Frame(t, id) == [t |-> t, id |-> id]

Slot(n, k, s, frame) == [n |-> n, k |-> k, s |-> s, f |-> frame]

SlotsOf(k) ==
    CASE k = "request" -> RequestSlots [] k = "control" -> ControlSlots [] OTHER -> ObservationSlots

Open(o) == o.st = "open" /\ o.term = 0

\* Push and ReserveObservation, but for a mutex that was taken.
PushResult(o, k) ==
    CASE ~Open(o) -> "closed"
      [] Open(o) /\ Cardinality({x \in o.slots : x.k = k}) = SlotsOf(k) -> "full"
      [] OTHER -> "ok"

Push(o, k, s, frame) ==
    [o EXCEPT !.next = @ + 1, !.slots = @ \union {Slot(o.next, k, s, frame)}]

\* CommitObservation: a reserved slot gets its frame and keeps its place.
CommitObservation(o, n, frame) ==
    [o EXCEPT !.slots = {IF x.n = n THEN Slot(n, x.k, "queued", frame) ELSE x : x \in @}]

Writing(o) == {x \in o.slots : x.s = "writing"}

\* Finish: only the frame being written and the last one remain.
Finish(o, frame) ==
    [o EXCEPT !.slots = Writing(o) \union {Slot(o.next, "control", "queued", frame)},
              !.next = @ + 1, !.term = o.next]

Queued(o, ks) == {x \in o.slots : x.s = "queued" /\ x.k \in ks}

\* Mutant: the newest frame is taken.
OldestNewest(slots) == CHOOSE x \in slots : \A z \in slots : z.n <= x.n

Oldest(slots) == CHOOSE x \in slots : \A z \in slots : x.n <= z.n

\* Take: controls go first, then the older of requests and receipts.
NextSlot(o) ==
    IF Queued(o, {"control"}) # {} THEN Oldest(Queued(o, {"control"}))
    ELSE Oldest(Queued(o, {"request", "observation"}))

TakeSlot(o) ==
    [o EXCEPT !.slots = (@ \ {NextSlot(o)}) \union {[NextSlot(o) EXCEPT !.s = "writing"]}]

Release(o) == [o EXCEPT !.slots = @ \ Writing(o)]

\* End, under the output mutex; only the first end has an effect.
End(o, state) ==
    IF o.st = "open" THEN [o EXCEPT !.st = state, !.slots = Writing(o)] ELSE o

-----------------------------------------------------------------------------
(* Session.                                                                *)

NewSession == [starting |-> TRUE, cleaning |-> FALSE, cancel |-> FALSE, rstop |-> FALSE,
               wstop |-> FALSE, failure |-> "none"]

\* ArmCleanup, once, and not while the startup budget runs.
Armed(s) == [s EXCEPT !.cleaning = @ \/ ~s.starting]

Reason(s, reason) == [s EXCEPT !.failure = IF @ = "none" THEN reason ELSE @]

SessionClosed(s) == [Armed(s) EXCEPT !.cancel = TRUE]

Fail(s, reason) ==
    [Reason(Armed(s), reason) EXCEPT !.cancel = TRUE, !.rstop = TRUE, !.wstop = TRUE]

Phase(s, cleanup) ==
    [s EXCEPT !.starting = FALSE, !.cleaning = @ \/ cleanup \/ s.cancel]
=============================================================================
