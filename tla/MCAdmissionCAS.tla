--------------------------- MODULE MCAdmissionCAS ----------------------------
(* A small instance of AdmissionCAS: two sends, a poll, a close. *)
EXTENDS AdmissionCAS

CONSTANTS big, small, poll, close

Callers == {big, small, poll, close}
CallerOp == [r \in Callers |-> CASE r \in {big, small} -> "send"
                                 [] r = poll -> "recv"
                                 [] OTHER -> "close"]
CallerSize == [r \in Callers |-> CASE r = big -> 2 [] r = small -> 1 [] OTHER -> 0]
CallerPoll == [r \in Callers |-> r = poll]
=============================================================================
