---------------------------- MODULE AdmissionCAS ----------------------------
(***************************************************************************)
(* The queue of Admission as admission.ex implements it: the state is one  *)
(* ETS object that any caller may read and replace; an update reads it,    *)
(* computes the new value and replaces the object only if it still equals  *)
(* the value read (reserve/3, mutate/2, replace/3).                        *)
(***************************************************************************)
EXTENDS AdmissionQueue

CONSTANT Attempts      \* reserve/3's retry budget (64)

VARIABLES
    table,                    \* the ETS object
    outcome,                  \* what enqueue/2 returned
    cpc, snap, tries,         \* per caller: control, value read, attempts left
    opc, task, osnap, losses  \* owner: control, its mutation, value read, failed tries

callerVars == <<outcome, cpc, snap, tries>>
ownerVars == <<opc, task, osnap, losses>>
vars == <<table, callerVars, ownerVars>>

A == INSTANCE Admission WITH adm <- table

ASSUME CASAssumption == Attempts \in Nat

NoTask == [op |-> "none", id |-> 0]

Init ==
    /\ A!Init
    /\ cpc = [r \in Requests |-> "read"]
    /\ snap = [r \in Requests |-> NewQueue]
    /\ tries = [r \in Requests |-> Attempts]
    /\ opc = "idle" /\ task = NoTask /\ osnap = NewQueue /\ losses = 0

-----------------------------------------------------------------------------
(* A caller in enqueue/2 *)

Return(r, o) ==
    /\ outcome' = [outcome EXCEPT ![r] = o]
    /\ cpc' = [cpc EXCEPT ![r] = "done"]

\* Read and decide; every refusal returns at once.
Read(r) ==
    /\ cpc[r] = "read"
    /\ IF tries[r] = 0
       THEN Return(r, "overload") /\ UNCHANGED snap
       ELSE IF Verdict(table, r) # "ok"
       THEN Return(r, Verdict(table, r)) /\ UNCHANGED snap
       ELSE /\ snap' = [snap EXCEPT ![r] = table]
            /\ cpc' = [cpc EXCEPT ![r] = "replace"]
            /\ UNCHANGED outcome
    /\ UNCHANGED <<table, tries, ownerVars>>

\* Mutant: the comparison is dropped.
ReplaceBlindly(r) ==
    /\ cpc[r] = "replace"
    /\ table' = Admitted(snap[r], r) /\ Return(r, "ok")
    /\ UNCHANGED <<snap, tries, ownerVars>>

\* select_replace: one atomic comparison and replacement.
Replace(r) ==
    /\ cpc[r] = "replace"
    /\ IF table = snap[r]
       THEN table' = Admitted(snap[r], r) /\ Return(r, "ok") /\ UNCHANGED tries
       ELSE /\ cpc' = [cpc EXCEPT ![r] = "read"]
            /\ tries' = [tries EXCEPT ![r] = @ - 1]
            /\ UNCHANGED <<table, outcome>>
    /\ snap' = [snap EXCEPT ![r] = NewQueue]
    /\ UNCHANGED ownerVars

-----------------------------------------------------------------------------
(* The owner in mutate/2 *)

Begin(t) ==
    /\ opc = "idle" /\ opc' = "read"
    /\ task' = t
    /\ UNCHANGED <<table, osnap, losses, callerVars>>

BeginTake == table.note < MaxTakes /\ Begin([op |-> "take", id |-> table.note + 1])

\* Only requests it has taken; the id is a request, the take's a reference.
BeginRelease(r) ==
    /\ r \in Held(table) /\ table.requests[r].claimed
    /\ Begin([op |-> "release", id |-> r])

Mutated(s) == IF task.op = "take" THEN Taken(s, task.id) ELSE Released(s, task.id)

OwnerRead ==
    /\ opc = "read" /\ opc' = "replace"
    /\ osnap' = table
    /\ UNCHANGED <<table, task, losses, callerVars>>

OwnerReplace ==
    /\ opc = "replace"
    /\ IF table = osnap
       THEN table' = Mutated(osnap) /\ opc' = "idle" /\ task' = NoTask /\ losses' = 0
       ELSE opc' = "read" /\ losses' = losses + 1 /\ UNCHANGED <<table, task>>
    /\ osnap' = NewQueue
    /\ UNCHANGED callerVars

-----------------------------------------------------------------------------
Next ==
    \/ \E r \in Requests : Read(r) \/ Replace(r) \/ BeginRelease(r)
    \/ BeginTake \/ OwnerRead \/ OwnerReplace

Spec == Init /\ [][Next]_vars

-----------------------------------------------------------------------------
(* Properties *)

\* The loops implement the atomic operations of Admission.
Refinement == A!Spec

\* "At most max_calls successful insertions can delay an owner update"
\* (the comment above mutate/2): the owner's loop loses a bounded number of
\* times although it has no retry budget.
OwnerLossesBounded == losses <= MaxCalls

\* The object that every process replaces keeps, under any interleaving of
\* the loops, what the atomic queue promises.
QueueKept == Kept(table)
=============================================================================
