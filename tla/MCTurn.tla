------------------------------- MODULE MCTurn -------------------------------
(***************************************************************************)
(* Instances of Turn for TLC: two identities behind one address, one of    *)
(* them with two sessions, and the mixes of disturbances that may happen.  *)
(***************************************************************************)
EXTENDS Turn, TLC

CONSTANTS c1, c2, c3, p1, p2, ip

MCPrincipalOf == [c \in Cid |-> IF c = c3 THEN p2 ELSE p1]
MCIpOf == [c \in Cid |-> ip]

None == [k \in Disturbance |-> 0]
Abuse == [None EXCEPT !["issue"] = 2, !["relay"] = 2, !["poll"] = 1, !["disk"] = 1, !["crash"] = 1]
Retry == [None EXCEPT !["issue"] = 2, !["relay"] = 2, !["poll"] = 1, !["fail"] = 1, !["crash"] = 1]
Polls == [None EXCEPT !["issue"] = 2, !["relay"] = 1, !["poll"] = 2, !["fail"] = 1]
Kill == [None EXCEPT !["issue"] = 3, !["age"] = 1, !["sweep"] = 1]
Ending == [None EXCEPT !["issue"] = 2, !["relay"] = 2, !["poll"] = 1, !["fail"] = 1, !["age"] = 2]
Stop == [None EXCEPT !["issue"] = 2, !["stop"] = 1, !["lock"] = 1, !["disk"] = 1, !["fail"] = 1, !["tick"] = 1]
Aging == [None EXCEPT !["issue"] = 3, !["relay"] = 1, !["poll"] = 1, !["age"] = 2, !["month"] = 1]
Turnover == [None EXCEPT !["issue"] = 2, !["month"] = 1, !["fail"] = 1, !["poll"] = 1]
Loss == [None EXCEPT !["issue"] = 2, !["torn"] = 1, !["poll"] = 1, !["lock"] = 1, !["tick"] = 1]
Recovery == [None EXCEPT !["issue"] = 2, !["tick"] = 1, !["disk"] = 1, !["crash"] = 1, !["stop"] = 1]
Mixes == {Abuse, Retry, Polls, Kill, Ending, Stop, Aging, Turnover, Loss, Recovery}
=============================================================================
