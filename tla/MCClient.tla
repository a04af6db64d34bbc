------------------------------ MODULE MCClient ------------------------------
(***************************************************************************)
(* One tab, two node ids, up to two logins, every pair of disturbances and *)
(* every triple of those that cross a logout or a renewal.                 *)
(***************************************************************************)
EXTENDS Client

Mix(K) == [k \in Disturbance |-> IF k \notin K THEN 0 ELSE IF k = "connect" THEN 2 ELSE 1]

Others == Disturbance \ {"connect"}
Single == {Mix({"connect", k}) : k \in Others}
Pairs == {Mix({"connect", j, k}) : j, k \in Others}
Crossing == {"logout", "renew", "expire", "lost", "drop"}
Triples == Pairs \cup {Mix({"connect", i, j, k}) : i, j, k \in Crossing}
=============================================================================
