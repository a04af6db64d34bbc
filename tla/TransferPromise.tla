--------------------------- MODULE TransferPromise ---------------------------
(***************************************************************************)
(* What one file transfer promises, without engines, attempts, sessions or *)
(* messages: the file is offered, at most once stored for the user, and    *)
(* the sender reports it as saved only after that.  The report may be      *)
(* taken back (a later attempt of the same file starts over), the stored   *)
(* file may not.                                                           *)
(***************************************************************************)

VARIABLES
    stage,  \* "idle", "offered" or "stored"
    saved   \* whether the sender reports the transfer as saved

promise == <<stage, saved>>

Init == stage = "idle" /\ saved = FALSE

Offer == stage = "idle" /\ stage' = "offered" /\ UNCHANGED saved
Store == stage = "offered" /\ stage' = "stored" /\ UNCHANGED saved
Report == stage = "stored" /\ ~saved /\ saved' = TRUE /\ UNCHANGED stage
Retract == saved /\ saved' = FALSE /\ UNCHANGED stage

Next == Offer \/ Store \/ Report \/ Retract

Spec == Init /\ [][Next]_promise
=============================================================================
