----------------------------- MODULE MCTransfer -----------------------------
(***************************************************************************)
(* Instances of Transfer for TLC: the mixes of disturbances that may happen *)
(***************************************************************************)
EXTENDS Transfer

None == [k \in Disturbance |-> 0]

LaneTimers == {[None EXCEPT !["lane"] = 1, !["timeout"] = 1]}
Drops == {[None EXCEPT !["drop"] = 1]}
Retries == [None EXCEPT !["drop"] = 2, !["timeout"] = 6]
CancelFault == [None EXCEPT !["cancel"] = 1, !["fault"] = 1, !["timeout"] = 5]
Pause == [None EXCEPT !["pause"] = 1]
Faults == {[None EXCEPT !["reload"] = 2, !["timeout"] = 6], Retries, CancelFault, Pause}
=============================================================================
