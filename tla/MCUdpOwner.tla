---------------------------- MODULE MCUdpOwner ----------------------------
(* A small instance of UdpOwner: a batch receive, a send and a close. *)
EXTENDS UdpOwner

CONSTANTS batch1, send1, close1

Mixed == {batch1, send1, close1}
MixedOp == [r \in Mixed |-> CASE r = batch1 -> "batch" [] r = send1 -> "send"
                              [] OTHER -> "close"]
MixedSize == [r \in Mixed |-> IF r = send1 THEN 1 ELSE 0]
MixedPoll == [r \in Mixed |-> FALSE]
=============================================================================
