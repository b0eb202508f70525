----------------------------- MODULE Admission -----------------------------
(***************************************************************************)
(* The bounded request queue in front of a UDP socket owner (wotex-udp,    *)
(* admission.ex): what enqueue, take and release promise, each as one      *)
(* atomic step on the queue's state.  AdmissionCAS shows that the          *)
(* compare-and-replace loops of the code implement it; UdpOwner uses it.   *)
(***************************************************************************)
EXTENDS AdmissionQueue

VARIABLES
    adm,       \* the queue
    outcome    \* outcome[r]: "none", or what enqueue returned for r

vars == <<adm, outcome>>

Init == adm = NewQueue /\ outcome = [r \in Requests |-> "none"]

Answer(r, o) == outcome[r] = "none" /\ outcome' = [outcome EXCEPT ![r] = o]

Enqueue(r) == Verdict(adm, r) = "ok" /\ adm' = Admitted(adm, r) /\ Answer(r, "ok")

Refuse(r) == Verdict(adm, r) # "ok" /\ Answer(r, Verdict(adm, r)) /\ UNCHANGED adm

\* Too much contention is reported as overload too.
Contend(r) == Answer(r, "overload") /\ UNCHANGED adm

Take == adm.note < MaxTakes /\ adm' = Taken(adm, adm.note + 1) /\ UNCHANGED outcome

\* The owner releases what it has taken.
Release(r) ==
    /\ r \in Held(adm) /\ adm.requests[r].claimed
    /\ adm' = Released(adm, r) /\ UNCHANGED outcome

Next ==
    \/ \E r \in Requests : Enqueue(r) \/ Refuse(r) \/ Contend(r) \/ Release(r)
    \/ Take

Spec == Init /\ [][Next]_vars
=============================================================================
