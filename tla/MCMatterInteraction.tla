------------------------- MODULE MCMatterInteraction -------------------------
EXTENDS MatterInteraction

CONSTANTS r, w, c, n

MCKindOf == [o \in Ops |-> CASE o = r -> "read" [] o = w -> "write"
                             [] o = c -> "commission" [] o = n -> "window"]
=============================================================================
