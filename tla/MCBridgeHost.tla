---------------------------- MODULE MCBridgeHost ----------------------------
(***************************************************************************)
(* The bridge with two Things, two endpoints and two device types.       *)
(***************************************************************************)
EXTENDS BridgeHost

CONSTANTS lamp, probe

Devs(a, b) == [t \in {lamp, probe} |-> IF t = lamp THEN a ELSE b]

Config(mode, devs) == [mode |-> mode, id |-> 1, devs |-> devs]

NewLamp == Config("create", Devs("light", NoType))
OldLamp == Config("existing", Devs("light", NoType))
OldBoth == Config("existing", Devs("light", "sensor"))

Quiet == [configs |-> {NewLamp}, kinds |-> {}, acts |-> {}, gens |-> 1, reqs |-> 0, obs |-> 0,
          sets |-> 0, odd |-> 0, crash |-> 0]

\* Peers and observations on a running bridge.
ServeLoads ==
    {[Quiet EXCEPT !.kinds = {"write"}, !.reqs = 1, !.odd = 1],
     [Quiet EXCEPT !.kinds = {"write", "invoke"}, !.reqs = 2],
     [Quiet EXCEPT !.kinds = {"invoke"}, !.reqs = 2, !.odd = 1],
     [Quiet EXCEPT !.kinds = {"read"}, !.reqs = 1, !.obs = 2],
     [Quiet EXCEPT !.kinds = {"invoke"}, !.reqs = 1, !.acts = {"remove"}, !.sets = 1]}

\* Starts, stops and faults of a bridge nobody uses.
FaultLoads ==
    {[Quiet EXCEPT !.configs = {NewLamp, OldLamp}, !.gens = 2, !.odd = 1],
     [Quiet EXCEPT !.odd = 2],
     [Quiet EXCEPT !.obs = 3], [Quiet EXCEPT !.obs = 1, !.odd = 1]}

\* Crashes around commits, over two generations.
StoreLoads ==
    {[Quiet EXCEPT !.configs = {NewLamp, OldLamp, OldBoth}, !.acts = {"add", "remove"}, !.sets = 2,
                   !.gens = 2, !.crash = 1, !.odd = 0]}

MCThings == {lamp, probe}
MCTypes == {"light", "sensor"}
MCWorkloads == ServeLoads \union FaultLoads \union StoreLoads
=============================================================================
