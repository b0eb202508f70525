--------------------------- MODULE MCOscoreStore ---------------------------
(***************************************************************************)
(* Materials that must not be consumed twice: the second differs from the  *)
(* first in the peer only and in the encoding of the salt, the third sends *)
(* where the first receives; the last is independent.                      *)
(***************************************************************************)
EXTENDS OscoreStore

MCMaterials ==
    {[secret |-> 1, salt |-> <<>>, context |-> 0, sender |-> 1, recipient |-> 2],
     [secret |-> 1, salt |-> <<0>>, context |-> 0, sender |-> 1, recipient |-> 3],
     [secret |-> 1, salt |-> <<>>, context |-> 0, sender |-> 2, recipient |-> 4],
     [secret |-> 2, salt |-> <<>>, context |-> 0, sender |-> 1, recipient |-> 2]}

=============================================================================
