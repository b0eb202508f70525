--------------------------- MODULE MCOscoreWorker ---------------------------
(***************************************************************************)
(* Three workloads: requests with bodies, an observation with many         *)
(* commands, and one with many messages of the peer.                       *)
(***************************************************************************)
EXTENDS OscoreWorker

RequestLoad ==
    [ops |-> {"open", "body_begin", "body_chunk", "body_end", "request", "close"},
     max |-> MaxCmds, notes |-> 2]

ObserveLoad ==
    [ops |-> {"open", "observe", "credit", "cancel", "close", "request"},
     max |-> MaxCmds, notes |-> 2]

NotifyLoad == [ObserveLoad EXCEPT !.max = MaxCmds - 1, !.notes = 3]

MCWorkloads == {RequestLoad, ObserveLoad, NotifyLoad}

=============================================================================
