------------------------------ MODULE MCPeers ------------------------------
(***************************************************************************)
(* Two devices, one ICE restart before giving up, and the disturbances of  *)
(* each run: every single one, and the pairs with a timer that fires while *)
(* work is still under way.                                                *)
(***************************************************************************)
EXTENDS Peers

Once(K) == [k \in Disturbance |-> IF k \in K THEN 1 ELSE 0]

Mixes == {Once({k}) : k \in Disturbance}
            \cup {Once({"slow", k}) : k \in {"wedge", "drop", "send", "migrate"}}
Socket == {Once({"blip"})}
=============================================================================
