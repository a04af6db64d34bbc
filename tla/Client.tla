------------------------------- MODULE Client -------------------------------
(***************************************************************************)
(* One browser tab from the login to the joined signaling channel: the     *)
(* authentication store, the signaling socket and the network epoch,       *)
(* composed with what happens around them: the server's sessions, the      *)
(* pages of the tab and the effect of the network page that hands each new *)
(* token to the network, renewals, authenticated requests that log in again, the other tabs that *)
(* compete for the lock of a node id, page loads and the loss of requests  *)
(* and sockets.                                                            *)
(***************************************************************************)
EXTENDS AuthStore

CONSTANTS Bounds,   \* the disturbances of a behaviour: a set of functions on Disturbance
          Proofs    \* whether the answers of a server carry a reRegisterProof (those of an old one do not)

Disturbance == {"connect", "grant", "edit", "logout", "renew", "fetch", "reload", "expire", "refuse",
                "lost", "drop", "hole", "shutdown", "focus", "other", "leave", "nolock"}

VARIABLES auth, ops, locks, rels, ws, net, call,
          srv,      \* the renewal number of each session the server holds, 0 when it has none
          minted,   \* how many sessions the server has made
          renews,
          page,     \* the network page: not shown, shown and its effect due, its effect has run
          seen,     \* the token of the last run of its effect since the page load
          spent, limit

vars == <<auth, ops, locks, rels, ws, net, call, srv, minted, renews, page, seen, spent, limit>>

\* An authedFetch: its token, whether it is the retry, and the operation it waits for.
NoCall == [at |-> "idle", tok |-> NoToken, again |-> FALSE, ok |-> FALSE, op |-> 0]

Now == [auth |-> auth, ops |-> ops, locks |-> locks, rels |-> rels, ws |-> ws, net |-> net, call |-> call]

Moves(w) ==
    /\ auth' = w.auth /\ ops' = w.ops /\ locks' = w.locks /\ rels' = w.rels
    /\ ws' = w.ws /\ net' = w.net /\ call' = w.call

\* ProtectedRoute takes the network page away with the session, before its effect could see that.
Shows(w, p) == Moves(w) /\ page' = IF w.auth.tok = NoToken THEN "away" ELSE p

Becomes(w) == Shows(w, page)

Server == <<srv, minted>>
Outside == <<srv, minted, renews, seen>>

Spend(k) ==
    /\ spent[k] < limit[k]
    /\ spent' = [spent EXCEPT ![k] = @ + 1]
    /\ UNCHANGED limit

Free == UNCHANGED <<spent, limit>>

Live(t) == t # NoToken /\ srv[t.sid] = t.ver

\* The disturbance "nolock" is a browser without Web Locks.
HasLocks == limit["nolock"] = 0

(***************************************************************************)
(* The user.                                                               *)
(***************************************************************************)

UserConnects ==
    /\ auth.tok = NoToken /\ ~auth.loading /\ auth.pass /\ Spend("connect")
    /\ Becomes(Connect([Now EXCEPT !.auth.out = FALSE], "plain", NoToken))
    /\ UNCHANGED Outside

\* The join page, with the grant of a scanned code.
UserJoins ==
    /\ auth.pass /\ Spend("grant")
    /\ Shows(Connect([Now EXCEPT !.auth.out = FALSE], "grant", NoToken), "away")
    /\ UNCHANGED Outside

UserEdits(n, p) ==
    /\ <<n, p>> # <<auth.node, auth.pass>> \/ p
    /\ Spend("edit")
    /\ Becomes(Edited(Now, n, p))
    /\ UNCHANGED Outside

\* The button is there with a session only.
UserLogsOut ==
    /\ auth.tok # NoToken /\ Spend("logout")
    /\ Becomes(IF LeavingStill(Now) THEN Now ELSE LoggedOut(Now))
    /\ UNCHANGED Outside

UserOpens ==
    /\ page = "away" /\ auth.tok # NoToken
    /\ page' = "opening"
    /\ UNCHANGED <<auth, ops, locks, rels, ws, net, call>> /\ UNCHANGED Outside /\ Free

\* To another page of the program: the network goes on.
UserLeaves ==
    /\ page # "away" /\ Spend("leave")
    /\ Shows(Now, "away")
    /\ UNCHANGED Outside

CooldownEnds ==
    /\ auth.blocked = "soon"
    /\ Becomes([Now EXCEPT !.auth.blocked = "no"])
    /\ UNCHANGED Outside /\ Free

(***************************************************************************)
(* A connect operation.                                                    *)
(***************************************************************************)

\* The browser's lock manager takes the requests in their order and never waits; one that crosses
\* the release of the tab's own lease finds the lock held.  Without Web Locks the store says yes.
LockDecides(o) ==
    /\ o.at \in {"asking", "crossing"}
    /\ \A p \in ops : p.at \in {"asking", "crossing"} => o.id <= p.id
    /\ LET free == o.at = "asking" /\ locks[o.node] = "free"
       IN  Becomes([Now EXCEPT !.ops = (@ \ {o}) \cup
                                       {[o EXCEPT !.at = IF free \/ ~HasLocks THEN "granted" ELSE "denied"]},
                               !.locks[o.node] = IF free /\ HasLocks THEN "mine" ELSE @])
    /\ UNCHANGED Outside /\ Free

\* The callbacks of the locks, in the same order, and what follows the wait for each.
LockAnswers(o) ==
    LET lease == IF locks[o.node] = "mine" THEN o.node ELSE NoNode
        held == [Now EXCEPT !.auth = [@ EXCEPT !.held = lease, !.owner = o.id]]
        w == IF o.at = "granted" THEN held ELSE Now
    IN  /\ o.at \in {"granted", "denied"}
        /\ \A p \in ops : p.at \in {"granted", "denied"} => o.id <= p.id
        /\ Becomes(IF o.id # auth.cur THEN [Over(w, o) EXCEPT !.ops = @ \ {o}]
                   ELSE IF o.at = "denied" THEN Failed(w, o, FALSE, "keep")
                   ELSE Requested(w, o))
        /\ UNCHANGED Outside /\ Free

\* POST /register makes a session; POST /re-register replaces the one whose proof it shows.
ServerAdmits(o) ==
    /\ o.at = "sent" /\ minted < MaxSid
    /\ o.prf = NoToken \/ Live(o.prf)
    /\ LET t == [sid |-> minted + 1, ver |-> 1]
       IN  /\ minted' = minted + 1
           /\ srv' = [s \in DOMAIN srv |-> IF s = t.sid THEN 1
                                           ELSE IF o.prf # NoToken /\ s = o.prf.sid THEN 0 ELSE srv[s]]
           /\ \E p \in Proofs :
                Becomes([Now EXCEPT !.ops = (@ \ {o}) \cup {[o EXCEPT !.at = "answered", !.tok = t,
                                                                     !.ans = IF p THEN "ok" ELSE "proofless"]}])
    /\ UNCHANGED <<renews, seen>> /\ Free

Replies(o, ans) ==
    Becomes([Now EXCEPT !.ops = (@ \ {o}) \cup {[o EXCEPT !.at = "answered", !.ans = ans]}])

ServerRejectsProof(o) ==
    /\ o.at = "sent" /\ o.prf # NoToken /\ ~Live(o.prf)
    /\ Replies(o, "badproof")
    /\ UNCHANGED Outside /\ Free

ServerRefuses(o) ==
    /\ o.at = "sent" /\ Spend("refuse")
    /\ \E ans \in {"busy", "full", "refused"} : Replies(o, ans)
    /\ UNCHANGED Outside

\* The request or its answer is lost; the fetch of the browser fails.
AnswerLost(o) ==
    /\ o.at \in {"sent", "answered"} /\ Spend("lost")
    /\ Becomes([Now EXCEPT !.ops = (@ \ {o}) \cup {[o EXCEPT !.at = "answered", !.ans = "error", !.tok = NoToken]}])
    /\ UNCHANGED Outside

\* The page after an answer: the login and the join page go on to the network once their own
\* operation has committed, unless the join page was left meanwhile.
Onward(o) ==
    IF o.id # auth.cur \/ o.ans \notin {"ok", "proofless"} \/ page # "away" THEN {page}
    ELSE CASE o.opt = "plain" -> {"opening"}
           [] o.opt = "grant" -> {"opening", "away"}
           [] OTHER -> {"away"}

AnswerArrives_Late(o) ==
    /\ o.at = "answered"
    /\ Becomes(Answered(Now, o))
    /\ UNCHANGED Outside /\ Free

AnswerArrives(o) ==
    /\ o.at = "answered"
    /\ \E p \in Onward(o) : Shows(IF o.id = auth.cur THEN Answered(Now, o) ELSE Drained(Now, o), p)
    /\ UNCHANGED Outside /\ Free

\* The browser drops a request that was aborted, wherever it is.
AbortedRequestEnds(o) ==
    /\ o.at \in {"sent", "answered"} /\ o.id # auth.cur
    /\ Becomes([Now EXCEPT !.ops = @ \ {o}])
    /\ UNCHANGED Outside /\ Free

\* REGISTER_TIMEOUT_MS: the operation fails, its request may still be answered.
RequestTimesOut(o) ==
    /\ o.at \in {"sent", "answered"} /\ o.id = auth.cur /\ Spend("lost")
    /\ LET w == Failed(Now, o, FALSE, "keep")
       IN  Becomes([w EXCEPT !.ops = @ \cup {[o EXCEPT !.id = -o.id]}])
    /\ UNCHANGED Outside

\* A failed operation that ended a session waits for its release.
OperationCloses(o) ==
    /\ o.at = "closing"
    /\ \A r \in rels : r.why # o.id
    /\ Becomes([Over(Now, o) EXCEPT !.ops = @ \ {o}])
    /\ UNCHANGED Outside /\ Free

(***************************************************************************)
(* Releases and renewals.                                                  *)
(***************************************************************************)

\* POST /release: an unknown token is answered like a known one.
ServerReleases(r) ==
    /\ srv' = IF Live(r.tok) THEN [srv EXCEPT ![r.tok.sid] = 0] ELSE srv
    /\ Becomes([Now EXCEPT !.rels = @ \ {r}])
    /\ UNCHANGED <<minted, renews, seen>> /\ Free

ReleaseLost(r) ==
    /\ Spend("lost")
    /\ Becomes([Now EXCEPT !.rels = (@ \ {r}) \cup (IF r.left = 2 THEN {[r EXCEPT !.left = 1]} ELSE {})])
    /\ UNCHANGED Outside

RenewFires ==
    /\ auth.timer /\ Spend("renew")
    /\ Becomes([Now EXCEPT !.auth.timer = FALSE])
    /\ renews' = IF auth.tok = NoToken THEN renews
                 ELSE renews \cup {[tok |-> auth.tok, new |-> NoToken, at |-> "sent"]}
    /\ UNCHANGED <<srv, minted, seen>>

\* POST /session-renew
ServerRenews(r) ==
    /\ r.at = "sent" /\ UNCHANGED <<auth, ops, locks, rels, ws, net, call, page, minted, seen>> /\ Free
    /\ LET t == [r.tok EXCEPT !.ver = @ + 1]
       IN  IF Live(r.tok) /\ r.tok.ver < MaxVer
           THEN /\ srv' = [srv EXCEPT ![t.sid] = t.ver]
                /\ renews' = (renews \ {r}) \cup {[r EXCEPT !.new = t, !.at = "answered"]}
           ELSE /\ renews' = (renews \ {r}) \cup {[r EXCEPT !.at = "answered"]}
                /\ UNCHANGED srv

RenewalLost(r) ==
    /\ Spend("lost")
    /\ renews' = (renews \ {r}) \cup {[r EXCEPT !.new = NoToken, !.at = "answered"]}
    /\ UNCHANGED <<auth, ops, locks, rels, ws, net, call, page, srv, minted, seen>>

\* The session may have been replaced or dropped meanwhile; proof: the answer carries one.
Renewed(w, r, proof) ==
    IF w.auth.tok.sid # r.tok.sid THEN w
    ELSE IF r.new # NoToken THEN [w EXCEPT !.auth = [@ EXCEPT !.tok = r.new, !.proof = w.auth.proof \/ proof, !.timer = TRUE]]
    ELSE [w EXCEPT !.auth.timer = TRUE]

RenewAnswers(r) ==
    /\ r.at = "answered"
    /\ renews' = renews \ {r}
    /\ \E proof \in Proofs : Becomes(Renewed(Now, r, proof))
    /\ UNCHANGED <<srv, minted, seen>> /\ Free

(***************************************************************************)
(* authedFetch (lib/api.ts): on a 401 it connects once and tries again.    *)
(***************************************************************************)

Reauthenticates(w) ==
    LET v == Connect(w, "again", NoToken)
    IN  [v EXCEPT !.call = [@ EXCEPT !.at = "auth", !.op = v.auth.cur]]

\* Only the pages of a session and a running network call it; without a session it logs in first.
FetchStarts ==
    /\ call.at = "idle" /\ (auth.tok # NoToken \/ net.on) /\ Spend("fetch")
    /\ Becomes(IF auth.tok = NoToken THEN Reauthenticates(Now)
               ELSE [Now EXCEPT !.call = [NoCall EXCEPT !.at = "sent", !.tok = auth.tok]])
    /\ UNCHANGED Outside

FetchServed ==
    /\ call.at = "sent"
    /\ Becomes([Now EXCEPT !.call = [@ EXCEPT !.at = "answered", !.ok = Live(call.tok)]])
    /\ UNCHANGED Outside /\ Free

FetchAnswered ==
    /\ call.at = "answered"
    /\ Becomes(IF call.ok THEN [Now EXCEPT !.call = NoCall]
               ELSE IF call.again THEN [Invalidated(Now) EXCEPT !.call = NoCall]
               ELSE Reauthenticates(Now))
    /\ UNCHANGED Outside /\ Free

FetchResumes ==
    /\ call.at = "auth"
    /\ ~\E o \in ops : o.id = call.op /\ Active(auth, o)
    /\ Becomes(IF auth.tok = NoToken THEN [Invalidated(Now) EXCEPT !.call = NoCall]
               ELSE [Now EXCEPT !.call = [NoCall EXCEPT !.at = "sent", !.tok = auth.tok, !.again = (call.tok # NoToken)]])
    /\ UNCHANGED Outside /\ Free

(***************************************************************************)
(* The network page and the socket.                                        *)
(***************************************************************************)

\* The effect on auth.session?.token, when the page is shown and when the token changes under it.
PageEffect ==
    /\ page = "opening" \/ (page = "open" /\ seen # auth.tok)
    /\ seen' = auth.tok
    /\ Shows(InitNetwork(Now, auth.tok), "open")
    /\ UNCHANGED <<srv, minted, renews>> /\ Free

SocketOpens ==
    /\ ws.st = "connecting"
    /\ Becomes(SocketOpened(Now))
    /\ UNCHANGED Outside /\ Free

\* The server's answer to AUTH.
ServerWelcomes ==
    /\ ws.st = "open" /\ ~ws.wel /\ Live(ws.as)
    /\ Becomes(Welcome(Now))
    /\ UNCHANGED Outside /\ Free

\* 4002 for an unknown token, 4001 for a session that expired.
Invalid(w) == AuthInvalid(SocketGone(w, "invalid"))

ServerRejectsSocket ==
    /\ ws.st \in {"open", "closing"} /\ ws.as # NoToken
    /\ IF ws.wel THEN srv[ws.as.sid] = 0 ELSE ~Live(ws.as)
    /\ Becomes(Invalid(Now))
    /\ UNCHANGED Outside /\ Free

\* 1000 for a session that was released or replaced, 1006 and the like for a lost one.
ServerClosesReleased ==
    /\ ws.st = "open" /\ ws.wel /\ srv[ws.as.sid] = 0
    /\ Becomes(SocketGone(Now, "plain"))
    /\ UNCHANGED Outside /\ Free

SocketDrops ==
    /\ ws.st \in {"connecting", "open"} /\ Spend("drop")
    /\ Becomes(SocketGone(Now, "plain"))
    /\ UNCHANGED Outside

\* An error or the closing handshake: CLOSING now, closed later.
SocketCloses ==
    /\ ws.st \in {"connecting", "open"} /\ Spend("drop")
    /\ Becomes([Now EXCEPT !.ws.st = "closing"])
    /\ UNCHANGED Outside

SocketClosed ==
    /\ ws.st = "closing"
    /\ Becomes(SocketGone(Now, "plain"))
    /\ UNCHANGED Outside /\ Free

WatchdogBites ==
    /\ ws.st = "connecting" /\ ws.dog /\ Spend("hole")
    /\ Becomes([Now EXCEPT !.ws = Bitten(@)])
    /\ UNCHANGED Outside

ReconnectFires ==
    /\ ws.timer
    /\ Becomes([Now EXCEPT !.ws = Dialled([@ EXCEPT !.timer = FALSE])])
    /\ UNCHANGED Outside /\ Free

\* SERVER_SHUTDOWN and the close frame behind it.
ServerShutsDown ==
    /\ ws.st = "open" /\ net.on /\ Spend("shutdown")
    /\ Becomes([ShutdownTold(Now) EXCEPT !.ws.st = "closing"])
    /\ UNCHANGED Outside

\* The browser comes back online or to the foreground.
BackOnline ==
    /\ Spend("focus")
    /\ \E throws \in BOOLEAN : Becomes([Now EXCEPT !.ws = ReconnectedNow(@, throws)])
    /\ UNCHANGED Outside

\* The roster arrives and the epoch has something to lose.
PeersArrive ==
    /\ Ready(net) /\ ~net.peers
    /\ Becomes([Now EXCEPT !.net.peers = TRUE])
    /\ UNCHANGED Outside /\ Free

(***************************************************************************)
(* Around the tab.                                                         *)
(***************************************************************************)

\* A session expires, or the server restarts without it.
ServerForgets(s) ==
    /\ srv[s] # 0 /\ Spend("expire")
    /\ srv' = [srv EXCEPT ![s] = 0]
    /\ UNCHANGED <<auth, ops, locks, rels, ws, net, call, page, minted, renews, seen>>

OtherTabTakes(n) ==
    /\ locks[n] = "free" /\ Spend("other")
    /\ Becomes([Now EXCEPT !.locks[n] = "other"])
    /\ UNCHANGED Outside

OtherTabLeaves(n) ==
    /\ locks[n] = "other"
    /\ Becomes([Now EXCEPT !.locks[n] = "free"])
    /\ UNCHANGED Outside /\ Free

\* Of the network page or of another one.
PageLoads ==
    /\ Spend("reload")
    /\ \E valid \in BOOLEAN, p \in {"away", "opening"} :
        /\ Live(auth.tok) => valid
        /\ Shows([auth |-> Restored(auth, valid), ops |-> {}, rels |-> {}, ws |-> NewSocket, net |-> NewNet,
                    locks |-> [n \in Node |-> IF locks[n] = "mine" THEN "free" ELSE locks[n]], call |-> NoCall], p)
    /\ renews' = {} /\ seen' = NoToken
    /\ UNCHANGED Server

(***************************************************************************)
(* The specification.                                                      *)
(***************************************************************************)

Init ==
    /\ \E n \in Node : auth = [NewAuth(n) EXCEPT !.pass = TRUE]
    /\ ops = {} /\ rels = {} /\ renews = {}
    /\ locks = [n \in Node |-> "free"]
    /\ ws = NewSocket /\ net = NewNet /\ call = NoCall
    /\ srv = [s \in 1..MaxSid |-> 0] /\ minted = 0
    /\ page = "away" /\ seen = NoToken
    /\ spent = [k \in Disturbance |-> 0]
    /\ limit \in Bounds

Operation(o) ==
    \/ LockDecides(o) \/ LockAnswers(o) \/ ServerAdmits(o) \/ ServerRejectsProof(o)
    \/ AnswerArrives(o) \/ OperationCloses(o)

Page == FetchServed \/ FetchAnswered \/ FetchResumes \/ PageEffect

Socket == SocketOpens \/ ServerWelcomes \/ ServerRejectsSocket \/ ServerClosesReleased \/ SocketClosed \/ ReconnectFires

Next ==
    \/ UserConnects \/ UserJoins \/ (\E n \in Node, p \in BOOLEAN : UserEdits(n, p)) \/ UserLogsOut
    \/ UserOpens \/ UserLeaves \/ CooldownEnds
    \/ \E o \in ops : \/ Operation(o) \/ ServerRefuses(o) \/ AnswerLost(o)
                      \/ AbortedRequestEnds(o) \/ RequestTimesOut(o)
    \/ \E r \in rels : ServerReleases(r) \/ ReleaseLost(r)
    \/ \E r \in renews : ServerRenews(r) \/ RenewalLost(r) \/ RenewAnswers(r)
    \/ RenewFires
    \/ FetchStarts \/ Page
    \/ Socket \/ SocketDrops \/ SocketCloses \/ WatchdogBites
    \/ ServerShutsDown \/ BackOnline \/ PeersArrive
    \/ \E s \in 1..MaxSid : ServerForgets(s)
    \/ \E n \in Node : OtherTabTakes(n) \/ OtherTabLeaves(n)
    \/ PageLoads

\* The browser and the server answer, the reconnect timer fires, the effect of a shown page runs.
Answers ==
    \/ \E o \in ops : Operation(o)
    \/ \E r \in rels : ServerReleases(r)
    \/ Page \/ Socket

Fairness == WF_vars(Answers)

Spec == Init /\ [][Next]_vars /\ Fairness

(***************************************************************************)
(* Properties.                                                             *)
(***************************************************************************)

\* Shape of the state; the server never holds a session it has not made.
TypeOK ==
    /\ auth \in AuthType /\ ops \subseteq OpType /\ ws \in SocketType /\ net \in NetType
    /\ locks \in [Node -> {"free", "mine", "other"}]
    /\ srv \in [1..MaxSid -> 0..MaxVer] /\ minted \in 0..MaxSid
    /\ \A s \in 1..MaxSid : srv[s] # 0 => s <= minted
    /\ page \in {"away", "opening", "open"} /\ seen \in Token \cup {NoToken}
    /\ \A o \in ops, n \in ops : o.id = n.id => o = n

\* Once the network page has seen the session, the network speaks for it alone: its socket and
\* its token are of that session and so are the peers built under it; and after a logout nothing
\* of the network is left, no socket and no reconnect timer (signaling-controller.ts initNetwork,
\* session-scope.ts endSession).  Between the loss of a session by a close code or a second 401
\* and the next run of the effect the network of the dead session goes on.
SpeaksForSession ==
    /\ seen = auth.tok =>
        /\ ws.tok = auth.tok /\ net.cur = auth.tok /\ net.on = (auth.tok # NoToken)
        /\ ws.as # NoToken => ws.as.sid = auth.tok.sid
        /\ net.peers => net.sid = auth.tok.sid
    /\ auth.out => ~net.on /\ ~net.peers /\ ws.tok = NoToken /\ ws.st = "none" /\ ~ws.timer

\* A tab that neither has a session nor tries to get one leaves the lock of every node id
\* to the other tabs (auth.ts releaseNodeIdLockForGen).
LockFreedAtRest ==
    (auth.tok = NoToken /\ {o \in ops : Active(auth, o)} = {}) => \A n \in Node : locks[n] # "mine"

\* While the network page is shown the tab joins the channel with the session it has, again and
\* again, whatever socket, answer or session it loses on the way, unless a server announced its
\* shutdown (signaling.ts scheduleReconnect, Network.tsx's effect).  Off the page nothing starts
\* the network of a new session.
ComesOnline == []<>(page = "away" \/ (net.joined /\ net.cur = auth.tok) \/ spent["shutdown"] > 0)

\* Logged out means logged out until the user connects: neither an operation nor a renewal
\* nor a late close of the socket brings a session back (auth.ts disconnect), provided no
\* request of a page was out that could log in again.
StaysLoggedOut == auth.out => auth.tok = NoToken

\* What was built under a session is torn down only when the tab loses that session or its
\* page (auth.ts renewSession: "network epoch must survive").
RenewalKeepsEpoch ==
    [][net.peers /\ ~net'.peers /\ spent'["reload"] = spent["reload"]
        => auth.tok.sid # net.sid \/ auth'.tok.sid # net.sid]_vars
=============================================================================
