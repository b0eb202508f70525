---------------------------- MODULE MCOpcuaHost ----------------------------
(***************************************************************************)
(* The workloads of the native OPC UA process: requests, browse chains and *)
(* browses that allow no continuation; and subscriptions: one with gaps    *)
(* and held messages, and several that are created and deleted.            *)
(***************************************************************************)
EXTENDS OpcuaHost

RequestLoad == [kinds |-> {"read", "write", "browse", "single", "next", "release"},
                ids |-> 3, msgs |-> 0, odd |-> 0]

GapLoad == [kinds |-> {"subscribe"}, ids |-> 1, msgs |-> 10, odd |-> 3]

EndLoad == [kinds |-> {"subscribe", "unsubscribe"}, ids |-> 2, msgs |-> 4, odd |-> 1]

Loads == {RequestLoad, GapLoad, EndLoad}
=============================================================================
