----------------------------- MODULE AuthStore -----------------------------
(***************************************************************************)
(* The authentication store of one tab (store/auth.ts).  A connect         *)
(* operation first asks the browser for the lock of its node id, then the  *)
(* server for a session; an edit of the identity, a logout, an invalidated *)
(* session and a later connect supersede it.  The generation of the code   *)
(* is the id of the operation that owns it (cur), 0 once it is superseded  *)
(* or done.  An operation that was superseded while its request was out is *)
(* over, but what remains of it may still see the answer.                  *)
(*                                                                         *)
(* The operators take and return the tab as a record w.                    *)
(***************************************************************************)
EXTENDS NetworkScope

CONSTANTS Node, NoNode

ASSUME NodeNames == NoNode \notin Node

AuthType ==
    [node : Node, pass : BOOLEAN,                  \* identity; a passcode of six digits is typed
     tok : Token \cup {NoToken}, proof : BOOLEAN,  \* session; it came with a reRegisterProof
     pend : Token \cup {NoToken},                  \* pendingReRegisterProof
     loading : BOOLEAN, creds : BOOLEAN,           \* isLoading, credentialsRequired
     blocked : {"no", "soon", "full"},             \* connectBlockedUntil
     cur : Nat, held : Node \cup {NoNode}, owner : Nat,
     timer : BOOLEAN,                              \* renewTimer
     out : BOOLEAN]      \* history: logged out with no request of a page out, no connect since

NewAuth(n) ==
    [node |-> n, pass |-> FALSE, tok |-> NoToken, proof |-> FALSE, pend |-> NoToken, loading |-> FALSE,
     creds |-> FALSE, blocked |-> "no", cur |-> 0, held |-> NoNode, owner |-> 0, timer |-> FALSE, out |-> FALSE]

\* opt: the login page, an authenticated request that logs in again, the join page, the recovery.
\* A lock is asked for, or asked for while the release of the tab's own lease is still on its way.
\* A request that timed out goes on under the negated id of its operation.
OpType ==
    [id : Int, node : Node, pass : BOOLEAN, opt : {"plain", "again", "grant", "proof"}, prf : Token \cup {NoToken},
     at : {"asking", "crossing", "granted", "denied", "sent", "answered", "closing"},
     ans : {"none", "ok", "proofless", "busy", "full", "refused", "badproof", "error"},
     tok : Token \cup {NoToken}]

\* A session is released by up to two requests.
Release(t, why) == [tok |-> t, left |-> 2, why |-> why]

\* connectInFlight is this operation's.
Active(a, o) == o.id = a.cur \/ o.at \in {"asking", "crossing", "granted", "denied", "closing"}

(***************************************************************************)
(* The lock of the node id.                                                *)
(***************************************************************************)

\* releaseNodeIdLock: the browser frees the lock after the task that gives it up (AuthInvalid).
Unlocked(w) ==
    LET a == [w.auth EXCEPT !.held = NoNode, !.owner = 0]
    IN  IF w.auth.held = NoNode THEN [w EXCEPT !.auth = a]
        ELSE [w EXCEPT !.auth = a, !.locks[w.auth.held] = "free"]

UnlockedFor_Kept(w, id) == w

\* releaseNodeIdLockForGen
UnlockedFor(w, id) == IF w.auth.owner = id THEN Unlocked(w) ELSE w

(***************************************************************************)
(* The end of an operation.                                                *)
(***************************************************************************)

\* What follows an operation that did not commit: its finally block, then onAuthInvalid's.
Over(w, o) ==
    LET v == UnlockedFor(w, o.id)
    IN  [v EXCEPT !.auth.pend = IF o.opt = "proof" /\ @ = o.prf THEN NoToken ELSE @,
                  !.auth.cur = IF @ = o.id THEN 0 ELSE @]

\* authOpGen++ and the abort: a request that is out is dropped, a wait for the lock or a release goes on.
Superseded(w) ==
    LET out == {o \in w.ops : o.id = w.auth.cur /\ o.at \in {"sent", "answered"}}
        v == IF out = {} THEN w ELSE Over(w, CHOOSE o \in out : TRUE)
    IN  [v EXCEPT !.auth.cur = 0]

\* applyConnectFailure: a session there was before is torn down and released.
Failed(w, o, creds, blocked) ==
    LET prior == w.auth.tok
        v == IF prior = NoToken THEN w ELSE EndSession(w)
        u == [v EXCEPT !.auth = [@ EXCEPT !.pend = NoToken, !.tok = NoToken, !.proof = FALSE, !.loading = FALSE,
                                          !.creds = creds \/ v.auth.creds,
                                          !.blocked = IF blocked = "keep" THEN v.auth.blocked ELSE blocked]]
    IN  IF prior = NoToken THEN [Over(u, o) EXCEPT !.ops = @ \ {o}]
        ELSE [u EXCEPT !.ops = (@ \ {o}) \cup {[o EXCEPT !.at = "closing"]},
                       !.rels = @ \cup {Release(prior, o.id)}]

(***************************************************************************)
(* connect and doConnect.                                                  *)
(***************************************************************************)

\* The choice of the request once the lock is there; never a register without a passcode.
Requested(w, o) ==
    LET known == IF o.opt = "proof" THEN o.prf ELSE IF w.auth.proof THEN w.auth.tok ELSE NoToken
        again == o.opt # "grant" /\ known # NoToken /\ (o.opt = "proof" \/ ~o.pass)
        v == IF again THEN w ELSE [w EXCEPT !.auth.pend = NoToken]
        sent == [o EXCEPT !.at = "sent", !.prf = IF again THEN known ELSE NoToken]
    IN  IF ~again /\ o.opt # "grant" /\ ~o.pass THEN Failed(v, o, TRUE, "keep")
        ELSE [v EXCEPT !.ops = (@ \ {o}) \cup {sent}]

FreshId(w) ==
    LET used == {w.auth.owner, w.call.op} \cup {o.id : o \in w.ops} \cup {-o.id : o \in w.ops}
    IN  1 + (CHOOSE k \in used : \A j \in used : j <= k)

\* A new operation; the lock of the same node passes to it, that of another node is given up.
Begun(w, opt, prf) ==
    LET o == [id |-> FreshId(w), node |-> w.auth.node, pass |-> w.auth.pass, opt |-> opt, prf |-> prf,
              at |-> "asking", ans |-> "none", tok |-> NoToken]
        same == w.auth.held = o.node
        kept == IF same THEN [w EXCEPT !.auth.owner = o.id] ELSE IF w.auth.held # NoNode THEN Unlocked(w) ELSE w
        aborted == {p \in w.ops : p.id = w.auth.cur /\ p.at \in {"sent", "answered"}}
        v == IF aborted = {} THEN kept ELSE Over(kept, CHOOSE p \in aborted : TRUE)
        u == [v EXCEPT !.auth = [@ EXCEPT !.cur = o.id, !.loading = TRUE, !.creds = FALSE], !.ops = @ \cup {o}]
    IN  IF same THEN Requested(u, o) ELSE u

Ungranted == {"plain", "again"}

\* connect: refused while blocked, coalesced with the same operation in flight.
Connect(w, opt, prf) ==
    LET twin(o) == /\ o.id = w.auth.cur /\ (o.opt = opt \/ {o.opt, opt} = Ungranted)
                   /\ opt = "proof" => o.prf = prf
    IN  IF w.auth.blocked # "no" /\ opt \in Ungranted THEN w
        ELSE IF \E o \in w.ops : twin(o) THEN w
        ELSE Begun(w, opt, prf)

\* commitSession; a session there was before is only overwritten.
Committed(w, o) ==
    [w EXCEPT !.auth = [@ EXCEPT !.tok = o.tok, !.proof = (o.ans = "ok"), !.pend = NoToken, !.loading = FALSE,
                                 !.creds = FALSE, !.blocked = "no", !.timer = TRUE, !.cur = 0],
              !.ops = @ \ {o}]

\* The answer, when the operation still owns the generation.
Answered(w, o) ==
    CASE o.ans \in {"ok", "proofless"} -> Committed(w, o)
      [] o.ans = "badproof" -> Failed(w, o, TRUE, "no")
      [] o.ans = "busy" -> Failed(w, o, FALSE, "soon")
      [] o.ans = "full" -> Failed(w, o, FALSE, "full")
      [] o.ans = "refused" -> Failed(w, o, FALSE, "no")
      [] o.ans = "error" -> Failed(w, o, FALSE, "keep")

\* The late answer of a superseded or timed-out request.
Drained(w, o) ==
    [w EXCEPT !.ops = @ \ {o},
              !.rels = IF o.tok = NoToken THEN @ ELSE @ \cup {Release(o.tok, 0)}]

(***************************************************************************)
(* The other operations of the store.                                      *)
(***************************************************************************)

\* setNodeId, setPassCode, regenerate*
Edited(w, n, p) ==
    LET v == Superseded(w)
    IN  [v EXCEPT !.auth = [@ EXCEPT !.node = n, !.pass = p, !.loading = FALSE, !.blocked = "no"]]

\* invalidateSession: local only.
Invalidated(w) ==
    LET v == Unlocked(Superseded(w))
    IN  [v EXCEPT !.auth = [@ EXCEPT !.timer = FALSE, !.pend = NoToken, !.tok = NoToken, !.proof = FALSE]]

\* disconnect; a second one during the release of the first is the first.
LeavingStill(w) == \E r \in w.rels : r.why = -1

LoggedOut(w) ==
    LET t == w.auth.tok
        v == Unlocked(EndSession(Superseded(w)))
    IN  [v EXCEPT !.auth = [@ EXCEPT !.timer = FALSE, !.pend = NoToken, !.tok = NoToken, !.proof = FALSE,
                                     !.creds = FALSE, !.out = (w.call.at = "idle")],
                  !.rels = IF t = NoToken THEN @ ELSE @ \cup {Release(t, -1)}]

\* The operation that owns the store asked for its lock in the task that gave the lease up.
Crossed(w) ==
    [w EXCEPT !.ops = {IF o.id = w.auth.cur THEN [o EXCEPT !.at = "crossing"] ELSE o : o \in @}]

\* onAuthInvalid: the close codes 4001 and 4002; the live session's proof wins over a pending one.
AuthInvalid(w) ==
    LET a == w.auth
        prf == IF a.tok = NoToken THEN a.pend ELSE IF a.proof THEN a.tok ELSE NoToken
        v == Invalidated(w)
        twice == \E o \in w.ops : o.id = a.cur /\ o.at \in {"sent", "answered"} /\ o.opt = "proof" /\ o.prf = prf
        asks == Connect([v EXCEPT !.auth.pend = prf], "proof", prf)
        u == IF a.held = a.node THEN Crossed(asks) ELSE asks
    IN  IF prf = NoToken THEN [v EXCEPT !.auth = [@ EXCEPT !.creds = TRUE, !.loading = FALSE]]
        ELSE IF twice THEN [u EXCEPT !.auth.pend = NoToken] ELSE u

\* A page load: the session comes back from sessionStorage, the passcode does not.
Restored(a, valid) ==
    LET n == [NewAuth(a.node) EXCEPT !.out = a.out]
    IN  IF valid THEN [n EXCEPT !.tok = a.tok, !.proof = a.proof, !.timer = (a.tok # NoToken)] ELSE n
=============================================================================
