-------------------------- MODULE SessionRegistry --------------------------
(***************************************************************************)
(* The in-memory session registry of the signaling server: the maps of     *)
(* server/src/store.ts (sessions, cluster channels, re-register proofs,    *)
(* authenticated sockets, QR invitations) as the HTTP routes (http.ts),    *)
(* the WebSocket handlers (ws.ts), the single teardown path                *)
(* (session-lifecycle.ts) and the cleanup tick (cleanup.ts) change them.   *)
(*                                                                         *)
(* Node.js runs one handler at a time up to its next `await`, so a handler *)
(* without an await is one action.  POST /register and POST                *)
(* /release-by-ip await scrypt: each is a Start action, an entry of `pend` *)
(* holding what the closure captured, and the actions that finish it.      *)
(*                                                                         *)
(* A token and a re-register proof are both the pair (sid, generation):    *)
(* renewal mints the next generation of both.  `obj` keeps a session       *)
(* object after it left the map, because a socket's closure keeps it.      *)
(***************************************************************************)
EXTENDS AuthGuard

CONSTANTS
    Sid, Conn, Req, Qr, Pass,        \* sessions, sockets, HTTP requests, invitations, passcodes
    NoSid, NoConn, NoReq, NoQr, NoSession, NoInv,
    MaxNodes, MaxPerIp,              \* MAX_NODES, MAX_NODES_PER_IP
    MaxBlocked,                      \* MAX_BLOCKED_IDS
    MaxGen,                          \* bound: renewals of one session
    LateFrames,   \* whether a socket still delivers frames after close() was called on it
    Slowable,     \* sockets whose send buffer may be over WS_MAX_BUFFERED_BYTES
    Misuse        \* whether a client ever presents a stale proof or an unmatched release

ASSUME RegistryAssumption ==
    /\ NoSid \notin Sid /\ NoConn \notin Conn /\ NoQr \notin Qr
    /\ MaxNodes \in Nat \ {0} /\ MaxPerIp \in Nat \ {0}
    /\ MaxBlocked \in Nat /\ MaxGen \in Nat
    /\ LateFrames \in BOOLEAN /\ Misuse \in BOOLEAN
    /\ Slowable \subseteq Conn
    /\ IsFiniteSet(Sid)

Session == [node : Node, pass : Pass, ip : Ip, gen : 0..MaxGen,
            expired : BOOLEAN, joined : BOOLEAN, sock : Conn \cup {NoConn},
            blocked : SUBSET Sid, via : Qr \cup {NoQr}]

Request == [kind : {"register", "release"}, node : Node, pass : Pass, ip : Ip,
            cap : {"none", "held", "orphan"}, verdict : {"fresh", "ok", "bad"},
            via : Qr \cup {NoQr}]

Invitation == [node : Node, pass : Pass, wrong : 0..MaxAttempts,
               used : BOOLEAN, grant : BOOLEAN, expired : BOOLEAN]

Socket == [st : {"free", "open", "closing"}, sid : Sid \cup {NoSid}, ip : Ip]

ASSUME SentinelAssumption ==
    NoSession \notin Session /\ NoReq \notin Request /\ NoInv \notin Invitation

VARIABLES
    obj,       \* NodeSession objects, live or only referenced by a socket
    live,      \* keys of `nodes`
    proofs,    \* reRegisterProofIndex: the indexed (sid, generation) pairs
    channels,  \* `channels`: members of the cluster of a (node, passcode)
    conn,      \* WebSockets and the session their closure is bound to
    authed,    \* keys of `authedSockets`
    told,      \* sids announced (PEER_JOINED) on an open socket, not retracted
    pend,      \* HTTP requests waiting for scrypt
    inv        \* qrTokens records

sessionVars == <<obj, live, proofs, channels, conn, authed, told>>
vars == <<sessionVars, pend, inv, guardVars>>

RegistryTypeOK ==
    /\ obj \in [Sid -> Session \cup {NoSession}]
    /\ live \in SUBSET {s \in Sid : obj[s] # NoSession}
    /\ proofs \in SUBSET (Sid \X (0..MaxGen))
    /\ channels \in [Node \X Pass -> SUBSET Sid]
    /\ conn \in [Conn -> Socket]
    /\ authed \in SUBSET Conn
    /\ told \in [Conn -> SUBSET Sid]
    /\ pend \in [Req -> Request \cup {NoReq}]
    /\ inv \in [Qr -> Invitation \cup {NoInv}]
    /\ GuardTypeOK

Init ==
    /\ obj = [s \in Sid |-> NoSession]
    /\ live = {}
    /\ proofs = {}
    /\ channels = [k \in Node \X Pass |-> {}]
    /\ conn \in [Conn -> [st : {"free"}, sid : {NoSid}, ip : Ip]]
    /\ authed = {}
    /\ told = [c \in Conn |-> {}]
    /\ pend = [r \in Req |-> NoReq]
    /\ inv = [q \in Qr |-> NoInv]
    /\ GuardInit

----------------------------------------------------------------------------
(* Lookups.                                                                *)

Unminted == {s \in Sid : obj[s] = NoSession}
Occupants(node) == {s \in live : obj[s].node = node}
CountByIp(ip) == Cardinality({s \in live : obj[s].ip = ip})
HasRoom(ip) == Cardinality(live) < MaxNodes /\ CountByIp(ip) < MaxPerIp
Cluster(s) == <<obj[s].node, obj[s].pass>>

\* findSessionByToken with the current token of s: an expired one is refused.
TokenValid(s) == s \in live /\ ~obj[s].expired

\* resolveReRegisterProof with the current proof of s.
ProofValid(s) == <<s, obj[s].gen>> \in proofs /\ TokenValid(s)

FreshSession(node, pass, ip, via) ==
    [node |-> node, pass |-> pass, ip |-> ip, gen |-> 0, expired |-> FALSE,
     joined |-> FALSE, sock |-> NoConn, blocked |-> {}, via |-> via]

\* The sockets of S that can still be written to (readyState OPEN).
OpenSocks(S) == {c \in Conn : conn[c].st = "open" /\ \E s \in S : obj[s].sock = c}

----------------------------------------------------------------------------
(* terminateSession, for every session of S (the sweeps call it in a loop):*)
(* each operator is the next value of one variable.                        *)

Socks(S) == {c \in Conn : \E s \in S : obj[s].sock = c}

Detached(S) == [s \in Sid |-> IF s \in S
                  THEN [obj[s] EXCEPT !.joined = FALSE, !.sock = NoConn] ELSE obj[s]]

\* Mutation: the channel keeps the departed member.
Vacated_Kept(S) == channels

Vacated(S) == [k \in Node \X Pass |->
                  channels[k] \ {s \in S : obj[s].joined /\ Cluster(s) = k}]

HungUp(S) == [c \in Conn |-> IF c \in OpenSocks(S)
                 THEN [conn[c] EXCEPT !.st = "closing"] ELSE conn[c]]

\* Mutation: the teardown sends no PEER_LEFT.
Retracted_Silent(S) == [c \in Conn |-> IF c \in OpenSocks(S) THEN {} ELSE told[c]]

\* PEER_LEFT for the members of S to the other members of their channels.
Retracted(S) == [c \in Conn |->
    IF c \in OpenSocks(S) THEN {}
    ELSE told[c] \ {s \in S : obj[s].joined /\ c \in OpenSocks(live \cap channels[Cluster(s)])}]

\* Mutation: the old proof stays in the index.
Unindexed_Kept(S) == proofs

Unindexed(S) == proofs \ {<<s, obj[s].gen>> : s \in S}

TerminateAll(S) ==
    /\ obj' = Detached(S)
    /\ channels' = Vacated(S)
    /\ conn' = HungUp(S)
    /\ authed' = authed \ Socks(S)
    /\ told' = Retracted(S)
    /\ proofs' = Unindexed(S)
    /\ live' = live \ S

\* A lock entry deleted or replaced in the map: the requests that captured it
\* now hold an object nobody else sees.
Orphaned(p, keys) == [r \in Req |->
    IF p[r] # NoReq /\ p[r].cap = "held" /\ <<p[r].ip, p[r].node>> \in keys
    THEN [p[r] EXCEPT !.cap = "orphan"] ELSE p[r]]

----------------------------------------------------------------------------
(* POST /register.                                                         *)

GrantValid(q, node, pass) ==
    /\ inv[q] # NoInv /\ ~inv[q].used /\ ~inv[q].expired /\ inv[q].grant
    /\ inv[q].node = node /\ inv[q].pass = pass

\* The lock the handler captures; an elapsed one is deleted first.
Captured(k) == IF lock[k].st = "open" THEN "held" ELSE "none"
DropLapsed(k) == lock' = [lock EXCEPT ![k] = IF @.st = "lapsed" THEN NoLock ELSE @]

Enqueue(r, request) == pend' = [pend EXCEPT ![r] = request]

\* Up to the await.  The verdict of the hash is the comparison with the
\* passcode of a session that holds the node id now.
RegisterStart(r, node, pass, ip, via) ==
    LET k == <<ip, node>> IN
    /\ pend[r] = NoReq
    /\ via # NoQr => GrantValid(via, node, pass)
    /\ ~frozen[node]
    /\ ~Locked(k)
    /\ DropLapsed(k)
    /\ Occupants(node) = {} => HasRoom(ip)
    /\ \E verdict \in IF Occupants(node) = {} THEN {"fresh"}
                      ELSE {IF obj[d].pass = pass THEN "ok" ELSE "bad" : d \in Occupants(node)} :
          Enqueue(r, [kind |-> "register", node |-> node, pass |-> pass, ip |-> ip,
                      cap |-> Captured(k), verdict |-> verdict, via |-> via])
    /\ UNCHANGED <<sessionVars, inv, fails, frozen>>

\* ScryptBusyError: the hash queue is full and the request is refused.
ScryptBusy(r) ==
    /\ pend[r] # NoReq
    /\ pend' = [pend EXCEPT ![r] = NoReq]
    /\ UNCHANGED <<sessionVars, inv, guardVars>>

\* Mutation: the identity is not re-checked after the await.
Conflict_Unchecked(p) == FALSE

Conflict(p) == \E s \in Occupants(p.node) : obj[s].pass # p.pass

\* Mutation: a verified request does not re-check the identity it was verified against.
MustCharge_Verified(p) == p.verdict = "bad" \/ (Conflict(p) /\ p.verdict = "fresh")

\* After the await, a request whose node id was free re-checks the identity
\* before the capacity; one that was verified checks the capacity first.
MustCharge(p) ==
    \/ p.verdict = "bad"
    \/ Conflict(p) /\ (p.verdict = "fresh" \/ HasRoom(p.ip))

\* The attempt is charged to the lock captured before the await.
ChargeCaptured(r, p) ==
    LET k == <<p.ip, p.node>>
        done == [pend EXCEPT ![r] = NoReq]
    IN \/ /\ p.cap = "held"
          /\ lock' = [lock EXCEPT ![k] = Charged(@)]
          /\ pend' = done
       \/ /\ p.cap = "none"
          /\ lock' = [lock EXCEPT ![k] = Charged(NoLock)]
          /\ pend' = Orphaned(done, {k})
       \/ /\ p.cap = "orphan"
          /\ pend' = done
          /\ UNCHANGED lock

RegisterCharged(r) ==
    /\ pend[r] # NoReq /\ pend[r].kind = "register"
    /\ MustCharge(pend[r])
    /\ ChargeCaptured(r, pend[r])
    /\ RecordFailure(pend[r].node)
    /\ UNCHANGED <<sessionVars, inv>>

\* Mutation: a grant used during the await is accepted again.
GrantSpent_Expired(p) == p.via # NoQr /\ inv[p.via].expired

GrantSpent(p) == p.via # NoQr /\ (inv[p.via].used \/ inv[p.via].expired)

\* Mutation: the capacity is only checked before the await.
StillRoom_Skipped(p) == TRUE

\* The capacity, again, after the await.
StillRoom(p) == HasRoom(p.ip)

RegisterRefused(r) ==
    /\ pend[r] # NoReq /\ pend[r].kind = "register"
    /\ ~MustCharge(pend[r])
    /\ ~StillRoom(pend[r]) \/ GrantSpent(pend[r])
    /\ pend' = [pend EXCEPT ![r] = NoReq]
    /\ UNCHANGED <<sessionVars, inv, guardVars>>

RegisterAdmitted(r) ==
    LET p == pend[r]
        k == <<p.ip, p.node>>
    IN /\ p # NoReq /\ p.kind = "register"
       /\ ~MustCharge(p) /\ StillRoom(p) /\ ~GrantSpent(p)
       /\ inv' = [q \in Qr |-> IF q = p.via THEN [inv[q] EXCEPT !.used = TRUE] ELSE inv[q]]
       /\ \E s \in Unminted :
             /\ obj' = [obj EXCEPT ![s] = FreshSession(p.node, p.pass, p.ip, p.via)]
             /\ live' = live \cup {s}
             /\ proofs' = proofs \cup {<<s, 0>>}
       /\ lock' = [lock EXCEPT ![k] = NoLock]
       /\ pend' = Orphaned([pend EXCEPT ![r] = NoReq], {k})
       /\ ClearFreeze(p.node)
       /\ UNCHANGED <<channels, conn, authed, told>>

----------------------------------------------------------------------------
(* POST /re-register, /session-renew, /release, /release-by-ip.            *)

\* Same identity, new session: the old one is torn down in the same handler.
ReRegister(s, new, ip) ==
    LET k == <<ip, obj[s].node>> IN
    /\ obj[s] # NoSession /\ ProofValid(s)
    /\ ~Locked(k)
    /\ CountByIp(ip) < MaxPerIp \/ obj[s].ip = ip
    /\ new \in Unminted
    /\ obj' = [Detached({s}) EXCEPT ![new] = FreshSession(obj[s].node, obj[s].pass, ip, NoQr)]
    /\ live' = (live \ {s}) \cup {new}
    /\ proofs' = Unindexed({s}) \cup {<<new, 0>>}
    /\ channels' = Vacated({s})
    /\ conn' = HungUp({s})
    /\ authed' = authed \ Socks({s})
    /\ told' = Retracted({s})
    /\ lock' = [lock EXCEPT ![k] = NoLock]
    /\ pend' = Orphaned(pend, {k})
    /\ UNCHANGED <<inv, fails, frozen>>

\* An expired or retired proof of s, attributed to its node by the live
\* session or a tombstone.  (With the tombstone aged out, node 0 is charged,
\* which is outside the model.)  The lock entry exists before the freeze test.
ReRegisterRejected(s, ip) ==
    LET node == obj[s].node
        k == <<ip, node>>
    IN /\ Misuse
       /\ obj[s] # NoSession
       /\ ~ProofValid(s) \/ obj[s].gen > 0
       /\ ~Locked(k)
       /\ \/ /\ frozen[node]
             /\ lock[k] = NoLock
             /\ lock' = [lock EXCEPT ![k] = [n |-> 0, st |-> "open"]]
             /\ UNCHANGED <<fails, frozen>>
          \/ /\ ~frozen[node]
             /\ lock' = [lock EXCEPT ![k] = Charged(@)]
             /\ RecordFailure(node)
       /\ UNCHANGED <<sessionVars, pend, inv>>

Renew(s) ==
    /\ TokenValid(s) /\ obj[s].gen < MaxGen
    /\ obj' = [obj EXCEPT ![s].gen = @ + 1]
    /\ proofs' = Unindexed({s}) \cup {<<s, obj[s].gen + 1>>}
    /\ UNCHANGED <<live, channels, conn, authed, told, pend, inv, guardVars>>

Release(s) ==
    /\ TokenValid(s)
    /\ TerminateAll({s})
    /\ UNCHANGED <<pend, inv, guardVars>>

OnIp(node, pass, ip) ==
    {s \in live : obj[s].ip = ip /\ obj[s].node = node /\ obj[s].pass = pass}

\* Bearer path: the caller's identity, on the address of the request.
ReleaseByIp(s, ip) ==
    /\ TokenValid(s)
    /\ TerminateAll(OnIp(obj[s].node, obj[s].pass, ip))
    /\ UNCHANGED <<pend, inv, guardVars>>

\* Passcode path: without a match the attempt is charged at once, otherwise
\* the matching session's hash is awaited.
ReleaseStart(r, node, pass, ip) ==
    LET k == <<ip, node>> IN
    /\ pend[r] = NoReq
    /\ ~frozen[node] /\ ~Locked(k)
    /\ \/ /\ OnIp(node, pass, ip) # {}
          /\ DropLapsed(k)
          /\ Enqueue(r, [kind |-> "release", node |-> node, pass |-> pass, ip |-> ip,
                         cap |-> Captured(k), verdict |-> "ok", via |-> NoQr])
          /\ UNCHANGED <<fails, frozen>>
       \/ /\ Misuse
          /\ OnIp(node, pass, ip) = {}
          /\ lock' = [lock EXCEPT ![k] = Charged(IF @.st = "lapsed" THEN NoLock ELSE @)]
          /\ RecordFailure(node)
          /\ UNCHANGED pend
    /\ UNCHANGED <<sessionVars, inv>>

ReleaseFinish(r) ==
    LET p == pend[r]
        k == <<p.ip, p.node>>
    IN /\ p # NoReq /\ p.kind = "release"
       /\ lock' = [lock EXCEPT ![k] = NoLock]
       /\ pend' = Orphaned([pend EXCEPT ![r] = NoReq], {k})
       /\ ClearFreeze(p.node)
       /\ TerminateAll(OnIp(p.node, p.pass, p.ip))
       /\ UNCHANGED inv

----------------------------------------------------------------------------
(* QR invitations.                                                         *)

Invite(s, q) ==
    /\ TokenValid(s)
    /\ inv[q] = NoInv
    /\ inv' = [inv EXCEPT ![q] = [node |-> obj[s].node, pass |-> obj[s].pass, wrong |-> 0,
                                  used |-> FALSE, grant |-> FALSE, expired |-> FALSE]]
    /\ UNCHANGED <<sessionVars, pend, guardVars>>

Redeemable(q) ==
    inv[q] # NoInv /\ ~inv[q].used /\ ~inv[q].expired /\ ~frozen[inv[q].node]

Redeem(q) ==
    /\ Redeemable(q)
    /\ inv' = [inv EXCEPT ![q].grant = TRUE]
    /\ ClearFreeze(inv[q].node)
    /\ UNCHANGED <<sessionVars, pend, lock>>

RedeemRejected(q) ==
    LET more == inv[q].wrong + 1 IN
    /\ Redeemable(q)
    /\ inv' = [inv EXCEPT ![q].wrong = more, ![q].used = more >= MaxAttempts]
    /\ RecordFailure(inv[q].node)
    /\ UNCHANGED <<sessionVars, pend, lock>>

\* The token's time is over and the sweep drops its record: as good as used, and
\* nothing it held is read again.
Retired(v) == [node |-> v.node, pass |-> v.pass, wrong |-> 0,
               used |-> TRUE, grant |-> FALSE, expired |-> TRUE]

InvitationExpires(q) ==
    /\ inv[q] # NoInv /\ ~inv[q].expired
    /\ inv' = [inv EXCEPT ![q] = Retired(@)]
    /\ UNCHANGED <<sessionVars, pend, guardVars>>

----------------------------------------------------------------------------
(* WebSockets.                                                             *)

Connect(c, ip) ==
    /\ conn[c].st = "free"
    /\ conn' = [conn EXCEPT ![c] = [st |-> "open", sid |-> NoSid, ip |-> ip]]
    /\ UNCHANGED <<obj, live, proofs, channels, authed, told, pend, inv, guardVars>>

\* A frame reaches the 'message' handler.
CanDeliver(c) ==
    conn[c].st = "open" \/ (LateFrames /\ conn[c].st = "closing")

\* Mutation: the superseded socket stays in the index.
Remarked_Added(old, c) == authed \cup {c}

Remarked(old, c) == (authed \ {old}) \cup {c}

\* AUTH with the token of s supersedes the socket s had.  The session keeps
\* its channel; its address becomes the socket's.
Auth(c, s) ==
    LET old == obj[s].sock IN
    /\ CanDeliver(c) /\ conn[c].sid = NoSid
    /\ TokenValid(s)
    /\ conn' = [d \in Conn |->
                  IF d = c THEN [conn[c] EXCEPT !.sid = s]
                  ELSE IF d = old /\ conn[d].st = "open" THEN [conn[d] EXCEPT !.st = "closing"]
                  ELSE conn[d]]
    /\ obj' = [obj EXCEPT ![s].sock = c, ![s].ip = conn[c].ip]
    /\ authed' = Remarked(old, c)
    /\ told' = [d \in Conn |-> IF d = old THEN {} ELSE told[d]]
    /\ UNCHANGED <<live, proofs, channels, pend, inv, guardVars>>

\* close() from the server's side: a refused or missing AUTH, an expired
\* session, the rate limit, oversize frames, a slow consumer.
ServerCloses(c) ==
    /\ conn[c].st = "open"
    /\ conn' = [conn EXCEPT ![c].st = "closing"]
    /\ told' = [told EXCEPT ![c] = {}]
    /\ UNCHANGED <<obj, live, proofs, channels, authed, pend, inv, guardVars>>

\* Mutation: any session the closure is bound to departs.
Owners_Bound(c) == {s \in Sid : conn[c].sid = s}

Owners(c) == {s \in Sid : conn[c].sid = s /\ obj[s].sock = c}

\* The 'close' event.  Only the session that still owns the socket departs,
\* and it stays in the map for a reconnect.
SocketClosed(c) ==
    /\ conn[c].st # "free"
    /\ conn' = [conn EXCEPT ![c] = [@ EXCEPT !.st = "free", !.sid = NoSid]]
    /\ obj' = Detached(Owners(c))
    /\ channels' = Vacated(Owners(c))
    /\ told' = [Retracted(Owners(c)) EXCEPT ![c] = {}]
    /\ authed' = authed \ {c}
    /\ UNCHANGED <<live, proofs, pend, inv, guardVars>>

\* A frame of an authenticated socket on a session that has not expired.
Frame(c) == CanDeliver(c) /\ conn[c].sid # NoSid /\ ~obj[conn[c].sid].expired

\* A send to a socket over the soft mark drops the frame.
Hears(slow, S) == OpenSocks(S) \ slow

\* Mutation: only the joining side's block list is consulted.
Introduced_OneWay(s) == {p \in live \cap channels[Cluster(s)] : p \notin obj[s].blocked}

\* The members a joining session is introduced to.
Introduced(s) ==
    {p \in live \cap channels[Cluster(s)] : s \notin obj[p].blocked /\ p \notin obj[s].blocked}

Join(c, slow) ==
    LET s == conn[c].sid
        peers == Introduced(s)
    IN /\ Frame(c)
       /\ ~obj[s].joined
       /\ channels' = [channels EXCEPT ![Cluster(s)] = @ \cup {s}]
       /\ obj' = [obj EXCEPT ![s].joined = TRUE]
       /\ told' = [d \in Conn |->
             told[d] \cup (IF d \in Hears(slow, peers) THEN {s} ELSE {})
                     \cup (IF d = c /\ conn[c].st = "open" /\ c \notin slow THEN peers ELSE {})]
       /\ UNCHANGED <<live, proofs, conn, authed, pend, inv, guardVars>>

Leave(c, slow) ==
    LET s == conn[c].sid
        k == Cluster(s)
    IN /\ Frame(c)
       /\ obj[s].joined
       /\ channels' = [channels EXCEPT ![k] = @ \ {s}]
       /\ obj' = [obj EXCEPT ![s].joined = FALSE]
       /\ told' = [d \in Conn |->
             IF d \in Hears(slow, (live \cap channels[k]) \ {s}) THEN told[d] \ {s}
             ELSE IF d = c THEN {} ELSE told[d]]
       /\ UNCHANGED <<live, proofs, conn, authed, pend, inv, guardVars>>

Block(c, t, slow) ==
    LET s == conn[c].sid IN
    /\ Frame(c)
    /\ t \in obj[s].blocked \/ Cardinality(obj[s].blocked) < MaxBlocked
    /\ obj' = [obj EXCEPT ![s].blocked = @ \cup {t}]
    /\ told' = [d \in Conn |-> IF d \in Hears(slow, {t} \cap live) THEN told[d] \ {s} ELSE told[d]]
    /\ UNCHANGED <<live, proofs, channels, conn, authed, pend, inv, guardVars>>

\* SIGNAL_SDP, SIGNAL_ICE or SIGNAL_ICE_END to a session without an open
\* socket is answered PEER_OFFLINE.  (A reachable target of the same cluster
\* gets the signal, which changes nothing here.)
SignalOffline(c, t) ==
    /\ Frame(c)
    /\ conn[c].st = "open"
    /\ OpenSocks({t} \cap live) = {}
    /\ t \in told[c]
    /\ told' = [told EXCEPT ![c] = @ \ {t}]
    /\ UNCHANGED <<obj, live, proofs, channels, conn, authed, pend, inv, guardVars>>

----------------------------------------------------------------------------
(* Time and the cleanup tick.                                              *)

Expire(s) ==
    /\ s \in live /\ ~obj[s].expired
    /\ obj' = [obj EXCEPT ![s].expired = TRUE]
    /\ UNCHANGED <<live, proofs, channels, conn, authed, told, pend, inv, guardVars>>

Purged(idle) == {s \in live : obj[s].expired \/ s \in idle}

\* Expired sessions go, connected or not; of the disconnected ones those idle
\* past DISCONNECTED_TTL_MS; of the lock entries not in force, the idle ones.
Cleanup(idle, stale) ==
    /\ \A s \in idle : s \in live /\ obj[s].sock = NoConn
    /\ TerminateAll(Purged(idle))
    /\ lock' = PurgedLocks(stale)
    /\ pend' = Orphaned(pend, {k \in stale : ~Locked(k)})
    /\ UNCHANGED <<inv, fails, frozen>>

\* An expired session goes and a lock in force stays, idle or not.
CleanupTick ==
    \E idle \in SUBSET {s \in live : ~obj[s].expired},
       stale \in SUBSET {k \in Ip \X Node : lock[k] # NoLock /\ ~Locked(k)} : Cleanup(idle, stale)

\* LOCK_DURATION_MS and NODE_FREEZE_DURATION_MS are far longer than a hash, so
\* neither ends while a request that saw it not in force is still waiting.
Quiet(node) == \A r \in Req : pend[r] # NoReq => pend[r].node # node

TimePasses ==
    /\ \/ \E k \in Ip \X Node : Quiet(k[2]) /\ LockLapses(k)
       \/ \E n \in Node : WindowSlides(n) \/ (Quiet(n) /\ FreezeThaws(n))
    /\ UNCHANGED <<sessionVars, pend, inv>>

----------------------------------------------------------------------------

RegisterNext ==
    \/ \E r \in Req, n \in Node, p \in Pass, i \in Ip, q \in Qr \cup {NoQr} : RegisterStart(r, n, p, i, q)
    \/ \E r \in Req, n \in Node, p \in Pass, i \in Ip : ReleaseStart(r, n, p, i)
    \/ \E r \in Req : \/ ScryptBusy(r) \/ RegisterCharged(r) \/ RegisterRefused(r)
                      \/ RegisterAdmitted(r) \/ ReleaseFinish(r)

SessionNext ==
    \E s \in Sid :
       \/ \E i \in Ip : \/ \E t \in Sid : ReRegister(s, t, i)
                        \/ ReRegisterRejected(s, i)
                        \/ ReleaseByIp(s, i)
       \/ Renew(s)
       \/ Release(s)
       \/ Expire(s)
       \/ \E q \in Qr : Invite(s, q)

QrNext == \E q \in Qr : Redeem(q) \/ RedeemRejected(q) \/ InvitationExpires(q)

SocketNext ==
    \E c \in Conn :
       \/ \E i \in Ip : Connect(c, i)
       \/ \E s \in Sid : Auth(c, s)
       \/ ServerCloses(c)
       \/ SocketClosed(c)
       \/ \E t \in Sid : SignalOffline(c, t)
       \/ \E slow \in SUBSET Slowable : \/ Join(c, slow)
                                        \/ Leave(c, slow)
                                        \/ \E t \in Sid : Block(c, t, slow)

Next == RegisterNext \/ SessionNext \/ QrNext \/ SocketNext \/ CleanupTick \/ TimePasses

Spec == Init /\ [][Next]_vars

----------------------------------------------------------------------------
(* Properties.                                                             *)

\* Two devices share a node id only with the same passcode, although the
\* occupancy check and the insert of a register are separated by an await.
OneIdentityPerNode ==
    \A s, t \in live : obj[s].node = obj[t].node => obj[s].pass = obj[t].pass

\* The network never exceeds MAX_NODES, however many registers are hashing.
WithinCapacity == Cardinality(live) <= MaxNodes

\* One invitation admits at most one session, also when its grant is presented
\* by several registers that hash at the same time.
GrantAdmitsOnce ==
    \A s, t \in Sid : obj[s] # NoSession /\ obj[t] # NoSession /\ s # t
                         => obj[s].via = NoQr \/ obj[s].via # obj[t].via

\* The proof index resolves exactly the live sessions, each under its newest
\* proof, after any sequence of renew, re-register, release and expiry.
ProofIndexExact == proofs = {<<s, obj[s].gen>> : s \in live}

\* authedSockets is exactly the set of sockets live sessions point at, and no
\* two sessions point at the same socket ("it cannot drift from `nodes`").
SocketIndexExact ==
    /\ authed = Socks(live)
    /\ \A s, t \in live : obj[s].sock = obj[t].sock => s = t \/ obj[s].sock = NoConn

\* Channel membership and channelId agree: a cluster holds exactly its live
\* members, and each of them has a socket.
ChannelExact ==
    \A k \in Node \X Pass :
       channels[k] = {s \in live : obj[s].joined /\ obj[s].sock # NoConn /\ Cluster(s) = k}

\* A connected client never lists a peer that has left its cluster: every
\* announced peer is retracted on whichever route it goes.
NoGhostPeers ==
    \A c \in Conn : told[c] # {} => told[c] \subseteq channels[Cluster(conn[c].sid)] \cap live

\* A device that was blocked is not told of the one that blocked it, in
\* whatever order the two join, block, leave and come back.
BlockedNotTold ==
    \A s, t \in live : t \in obj[s].blocked /\ obj[t].sock # NoConn => s \notin told[obj[t].sock]

\* The late 'close' of a superseded socket does not take down the reconnect: a
\* surviving session loses its socket only when that very socket is closed.
LateCloseSparesReconnect ==
    [][\A s \in live \cap live' :
          obj[s].sock # NoConn /\ obj'[s].sock = NoConn => conn'[obj[s].sock].st = "free"]_vars

----------------------------------------------------------------------------
(* The registry implements the promise of Admission.                       *)

Identities ==
    [s \in Sid \ Unminted |-> [node |-> obj[s].node, pass |-> obj[s].pass, via |-> obj[s].via]]

Promise == INSTANCE Admission WITH present <- live, identity <- Identities

\* Hashes that overlap, guesses, renewals, re-registers, sockets and sweeps amount to
\* sessions admitted one at a time under the rules of the network, replaced or gone for
\* good: none comes back, and none changes its node id, passcode or invitation.
ImplementsAdmission == Promise!Spec
=============================================================================
