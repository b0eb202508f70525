---------------------------- MODULE MCMatterHost ----------------------------
(***************************************************************************)
(* The two halves of the Matter controller process: the streams with their *)
(* credit (MatterHost), and the interactions (MatterInteraction), a write, *)
(* a commissioning and a commissioning window with one place.  They share  *)
(* the threads and no table; a behaviour exercises one half.               *)
(***************************************************************************)
EXTENDS MatterHost

CONSTANT a

VARIABLES half,             \* the half that is exercised
          op, input, loop   \* the interactions, the input thread, the SDK thread

Interactions == {"write", "commission", "window"}

I == INSTANCE MatterInteraction WITH
         Ops <- Interactions, KindOf <- [k \in Interactions |-> k], MaxPending <- 1, h <- input, sdk <- loop

MCInit == Init /\ I!Init /\ half \in {"streams", "interactions"}

MCNext ==
    \/ half = "streams" /\ Next /\ UNCHANGED <<half, op, input, loop>>
    \/ half = "interactions" /\ I!Next /\ UNCHANGED <<half, vars>>

MCSpec == MCInit /\ [][MCNext]_<<half, vars, op, input, loop>>

-----------------------------------------------------------------------------
\* The tables of what is parsed, converted, encoded and decoded agree (SchemasAgree);
\* they are constants, so it is enough to look once.
TablesAgree == half = "streams" => SchemasAgree

\* Whatever the SDK thread answers, and whatever a waiter classifies before its
\* deadline, effect none means that the device was not asked to change.
EffectHonestInTime == I!EffectHonestInTime

\* Whatever a work item or an SDK callback may still reach while the event loop
\* runs is in the tables of interactions, and a finished interaction that is still
\* there has exactly one reap on the queue, so that its place is given back
\* (ReapPending, ReapCommissioning and ReapWindow).
InteractionCustody == I!NoDanglingInteraction /\ I!PlaceReturned
=============================================================================
