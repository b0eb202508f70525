---------------------------- MODULE MCBluezHost ----------------------------
(***************************************************************************)
(* Workloads of the native BlueZ process: procedures beside a stream on an *)
(* owned link, pairing, and streams on a borrowed link with more values    *)
(* than their credit and their queue hold.                                 *)
(***************************************************************************)
EXTENDS BluezHost

Mixed == [owned |-> TRUE, link |-> "down", ids |-> 4, odd |-> 1, values |-> 1, chars |-> {1},
          kinds |-> {"discover", "write", "subscribe", "unsubscribe"}]

Pairing == [owned |-> TRUE, link |-> "down", ids |-> 3, odd |-> 2, values |-> 0, chars |-> {},
            kinds |-> {"pair", "agent_reply"}]

\* Two streams with more values than one stream's credit holds, and one odd step.
Streaming == [owned |-> FALSE, link |-> "resolved", ids |-> 3, odd |-> 1, values |-> 3,
              chars |-> {1, 2}, kinds |-> {"subscribe", "unsubscribe"}]

\* One stream past the end of its waiting queue, and two without an odd step.
Overflowing == [Streaming EXCEPT !.values = 5, !.chars = {1}]

Sharing == [Streaming EXCEPT !.values = 5, !.odd = 0]

Health == [Mixed EXCEPT !.ids = 3, !.kinds = {"health", "discover"}]

Loads == {Mixed, Pairing, Health, Streaming, Overflowing, Sharing}
=============================================================================
