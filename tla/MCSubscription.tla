--------------------------- MODULE MCSubscription ---------------------------
(* Small instances of Subscription for TLC: one caller of stop/2 against    *)
(* an open of one buffered message, and the same with a named receiver.     *)
EXTENDS Subscription
=============================================================================
