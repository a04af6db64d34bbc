--------------------------- MODULE Client_proofs ---------------------------
(***************************************************************************)
(* Safety of one tab, for any mix of disturbances.                         *)
(*                                                                         *)
(* The handlers are operators on the record of the tab, so the inductive   *)
(* invariant is stated of that record; what one operator does to it is a   *)
(* lemma, and an action is a few of these.                                 *)
(***************************************************************************)
EXTENDS Client, WellFoundedInduction, TLAPS

(***************************************************************************)
(* Types.                                                                  *)
(***************************************************************************)

Sort == Token \cup {NoToken}
Asked == [tok : Token, left : 0..2, why : Int]
Renewal == [tok : Token, new : Sort, at : {"sent", "answered"}]
Fetch == [at : {"idle", "sent", "answered", "auth"}, tok : Sort, again : BOOLEAN, ok : BOOLEAN, op : Nat]
Tab ==
    [auth : AuthType, ops : SUBSET OpType, locks : [Node -> {"free", "mine", "other"}], rels : SUBSET Asked,
     ws : SocketType, net : NetType, call : Fetch]

(***************************************************************************)
(* The invariant.                                                          *)
(***************************************************************************)

Waiting(o) == o.at \in {"asking", "crossing", "granted", "denied"}
Decided(o) == o.at \in {"granted", "denied"}

\* What holds of one operation.
Proper(o) ==
    /\ o.id # 0
    /\ o.id < 0 => o.at \in {"sent", "answered"}
    /\ o.at = "answered" => o.ans # "none"
    /\ o.ans \in {"ok", "proofless"} => o.tok # NoToken

\* Operations are told apart by their ids; the one that owns the store is the newest, and the
\* lock manager has answered the older ones first.
Queued(w) ==
    /\ \E b \in Nat : \A o \in w.ops : o.id \in -b..b
    /\ \A o \in w.ops : Proper(o)
    /\ \A o, p \in w.ops : o.id = p.id => o = p
    /\ \A o, p \in w.ops : o.id = -p.id /\ o.id > 0 => o.at = "closing"
    /\ w.auth.cur # 0 => \A o \in w.ops : o.id <= w.auth.cur
    /\ \A o, p \in w.ops : Decided(o) /\ p.at \in {"asking", "crossing"} => o.id < p.id

\* A lock of this tab is the one the store holds, or was granted and is not yet seen.  What the
\* store holds is of its current operation, and without a session of one that will end.
Guarded(w) ==
    /\ \A n \in Node : w.locks[n] = "mine" => n = w.auth.held \/ \E o \in w.ops : o.at = "granted" /\ o.node = n
    /\ w.auth.held # NoNode =>
        /\ w.auth.cur # 0 => w.auth.owner = w.auth.cur
        /\ w.auth.tok = NoToken => \E o \in w.ops : o.id = w.auth.owner /\ Active(w.auth, o)
        /\ \A o \in w.ops : ~Waiting(o)

\* The session id and the peers of the network are its token's.
Placed(n) == n.sid \in {0, n.cur.sid} /\ (n.peers => n.sid # 0)

\* The network runs for the token the page saw last, and the socket for the network.
Scoped(w, s) ==
    /\ w.net.on = (w.net.cur # NoToken) /\ w.ws.tok = w.net.cur
    /\ w.ws.as \in {NoToken, w.ws.tok}
    /\ w.net.on => w.net.cur = s
    /\ Placed(w.net)
    /\ ~w.net.on => w.ws.st = "none" /\ ~w.ws.timer /\ ~w.net.peers /\ w.net.sid = 0
    /\ w.auth.tok = s => w.net.on = (s # NoToken)

\* After a logout nothing is under way that could bring a session back, and the network is off.
Quiet(w) ==
    w.auth.out =>
        w.auth.tok = NoToken /\ w.auth.pend = NoToken /\ w.auth.cur = 0 /\ w.call.at = "idle" /\ w.net.on = FALSE

\* Sessions are told apart by the order they were made in, tokens of one session by their number.
Older(s, t) == s.sid < t.sid \/ (s.sid = t.sid /\ s.ver <= t.ver)

Aged(w, s, R, m) ==
    /\ w.auth.tok.sid <= m /\ s.sid <= m /\ \A r \in R : r.tok.sid <= m
    /\ w.auth.tok # NoToken => Older(s, w.auth.tok)
    /\ \A o \in w.ops : o.id = w.auth.cur /\ o.tok # NoToken =>
        /\ o.tok.sid <= m /\ s.sid < o.tok.sid /\ w.auth.tok.sid < o.tok.sid
        /\ \A r \in R : r.tok.sid < o.tok.sid
    /\ \A r \in R : r.new # NoToken => r.new.sid = r.tok.sid /\ r.new.ver = r.tok.ver + 1
    /\ \A r \in R : r.tok.sid = w.auth.tok.sid => r.tok = w.auth.tok /\ ~w.auth.timer
    /\ \A q, r \in R : q.tok.sid = w.auth.tok.sid /\ r.tok.sid = w.auth.tok.sid => q = r

Inv(w, s, R, m) == w \in Tab /\ Queued(w) /\ Guarded(w) /\ Scoped(w, s) /\ Quiet(w) /\ Aged(w, s, R, m)

\* The network page is there with a session only.
Shown == page \in {"away", "opening", "open"} /\ (page # "away" => auth.tok # NoToken)

ClientInv ==
    /\ Inv(Now, seen, renews, minted)
    /\ seen \in Sort /\ renews \subseteq Renewal /\ minted \in 0..MaxSid
    /\ srv \in [1..MaxSid -> 0..MaxVer] /\ \A s \in 1..MaxSid : srv[s] # 0 => s <= minted

(***************************************************************************)
(* Tokens, sockets and the network.                                        *)
(***************************************************************************)

LEMMA SortFacts ==
  /\ NoToken \in Sort /\ NoToken \notin Token /\ NoToken.sid = 0 /\ NoToken.ver = 0
  /\ \A t \in Sort : t.sid \in 0..MaxSid /\ t.ver \in 0..MaxVer
  /\ \A t \in Sort : t # NoToken => t \in Token
  /\ \A t \in Token : t \in Sort /\ t.sid \in 1..MaxSid /\ t.ver \in 1..MaxVer
  /\ \A t, u \in Sort : t.sid = u.sid /\ t.ver = u.ver => t = u
BY ClientBounds DEF Sort, Token, NoToken

LEMMA TabFields ==
  ASSUME NEW w \in Tab
  PROVE  /\ w.auth \in AuthType /\ w.ops \subseteq OpType /\ w.locks \in [Node -> {"free", "mine", "other"}]
         /\ w.rels \subseteq Asked /\ w.ws \in SocketType /\ w.net \in NetType /\ w.call \in Fetch
BY DEF Tab

LEMMA AuthFields ==
  ASSUME NEW a \in AuthType
  PROVE  /\ a.node \in Node /\ a.pass \in BOOLEAN /\ a.tok \in Sort /\ a.proof \in BOOLEAN /\ a.pend \in Sort
         /\ a.loading \in BOOLEAN /\ a.creds \in BOOLEAN /\ a.blocked \in {"no", "soon", "full"}
         /\ a.cur \in Nat /\ a.held \in Node \cup {NoNode} /\ a.owner \in Nat
         /\ a.timer \in BOOLEAN /\ a.out \in BOOLEAN
BY DEF AuthType, Sort

LEMMA OpFields ==
  ASSUME NEW o \in OpType
  PROVE  /\ o.id \in Int /\ o.node \in Node /\ o.pass \in BOOLEAN /\ o.opt \in {"plain", "again", "grant", "proof"}
         /\ o.prf \in Sort /\ o.tok \in Sort
         /\ o.at \in {"asking", "crossing", "granted", "denied", "sent", "answered", "closing"}
         /\ o.ans \in {"none", "ok", "proofless", "busy", "full", "refused", "badproof", "error"}
BY DEF OpType, Sort

LEMMA SocketFields ==
  ASSUME NEW s \in SocketType
  PROVE  /\ s.tok \in Sort /\ s.st \in {"none", "connecting", "open", "closing"} /\ s.as \in Sort
         /\ s.wel \in BOOLEAN /\ s.dog \in BOOLEAN /\ s.timer \in BOOLEAN /\ s.shut \in BOOLEAN
BY DEF SocketType, Sort

LEMMA DetachedFacts ==
  ASSUME NEW s \in SocketType
  PROVE  /\ Detached(s) \in SocketType /\ Detached(s).st = "none" /\ Detached(s).as = NoToken
         /\ Detached(s).tok = s.tok /\ Detached(s).timer = s.timer
BY DEF Detached, SocketType

LEMMA DialledFacts ==
  ASSUME NEW s \in SocketType
  PROVE  /\ Dialled(s) \in SocketType /\ Dialled(s).tok = s.tok /\ Dialled(s).timer = s.timer
         /\ Dialled(s).as \in {s.as, NoToken} /\ Dialled(s).st # "none"
BY DEF Dialled, Detached, SocketType

LEMMA ConnectedFacts ==
  ASSUME NEW s \in SocketType, NEW t \in Sort
  PROVE  /\ Connected(s, t) \in SocketType /\ Connected(s, t).tok = t
         /\ s.as \in {NoToken, s.tok} => Connected(s, t).as \in {NoToken, t}
<1> DEFINE old == IF s.tok # t THEN Detached(s) ELSE s
           new == [old EXCEPT !.tok = t, !.timer = FALSE, !.shut = FALSE]
<1>1. old \in SocketType /\ (s.as \in {NoToken, s.tok} => old.as \in {NoToken, t})
  BY DetachedFacts
<1>2. Connected(s, t) = Dialled(new)
  BY DEF Connected
<1> HIDE DEF old
<1>3. new \in SocketType /\ new.tok = t /\ new.as = old.as
  BY <1>1 DEF SocketType, Sort
<1> HIDE DEF new
<1> QED BY <1>1, <1>2, <1>3, DialledFacts

LEMMA ScheduledFacts ==
  ASSUME NEW s \in SocketType
  PROVE  /\ Scheduled(s) \in SocketType /\ Scheduled(s).tok = s.tok /\ Scheduled(s).as = s.as /\ Scheduled(s).st = s.st
BY DEF Scheduled, SocketType

LEMMA DisconnectedFacts ==
  ASSUME NEW s \in SocketType
  PROVE  /\ Disconnected(s) \in SocketType /\ Disconnected(s).tok = NoToken /\ Disconnected(s).as = NoToken
         /\ Disconnected(s).st = "none" /\ Disconnected(s).timer = FALSE
BY SortFacts DEF Disconnected, Detached, SocketType, Sort

LEMMA ReconnectedFacts ==
  ASSUME NEW s \in SocketType, NEW throws \in BOOLEAN
  PROVE  /\ ReconnectedNow(s, throws) \in SocketType /\ ReconnectedNow(s, throws).tok = s.tok
         /\ ReconnectedNow(s, throws).as \in {s.as, NoToken}
         /\ s.tok = NoToken => ReconnectedNow(s, throws) = s
<1> DEFINE v == [s EXCEPT !.timer = FALSE, !.shut = FALSE]
<1>1. v \in SocketType /\ v.tok = s.tok /\ v.as = s.as
  BY DEF SocketType
<1>2. ReconnectedNow(s, throws) \in {s, v, Dialled(Detached(v))}
  BY DEF ReconnectedNow
<1>3. s.tok = NoToken => ReconnectedNow(s, throws) = s
  BY DEF ReconnectedNow
<1> HIDE DEF v
<1>4. /\ Dialled(Detached(v)) \in SocketType /\ Dialled(Detached(v)).tok = v.tok
      /\ Dialled(Detached(v)).as = NoToken
  <2>1. Detached(v) \in SocketType /\ Detached(v).tok = v.tok /\ Detached(v).as = NoToken
    BY <1>1, DetachedFacts
  <2> QED BY <2>1, DialledFacts
<1> QED BY <1>1, <1>2, <1>3, <1>4

\* Nothing of the network or its socket is left.
Dark(w) ==
    /\ w.net.on = FALSE /\ w.net.cur = NoToken /\ w.net.peers = FALSE /\ w.net.sid = 0
    /\ w.ws.tok = NoToken /\ w.ws.as = NoToken /\ w.ws.st = "none" /\ w.ws.timer = FALSE

\* The fields of the tab outside the network and its socket.
Store(w) == <<w.auth, w.ops, w.locks, w.rels, w.call>>

LEMMA EndedFacts ==
  ASSUME NEW n \in NetType
  PROVE  /\ Ended(n) \in NetType /\ Ended(n).on = n.on /\ Ended(n).cur = n.cur
         /\ Ended(n).peers = FALSE /\ Ended(n).sid = 0
<1>1. 0 \in 0..MaxSid
  BY ClientBounds
<1>2. Ended(n) = [n EXCEPT !.joined = FALSE, !.sid = 0, !.peers = FALSE]
  BY DEF Ended
<1>3. Ended(n) \in NetType
  BY <1>1, <1>2 DEF NetType
<1>4. Ended(n).on = n.on /\ Ended(n).cur = n.cur
  BY <1>2 DEF NetType
<1>5. Ended(n).sid = 0
  BY <1>2 DEF NetType
<1>6. Ended(n).peers = FALSE
  BY <1>2 DEF NetType
<1> QED BY <1>3, <1>4, <1>5, <1>6

LEMMA DestroyFacts ==
  ASSUME NEW w \in Tab
  PROVE  DestroyNetwork(w) \in Tab /\ Dark(DestroyNetwork(w)) /\ Store(DestroyNetwork(w)) = Store(w)
<1> DEFINE v == DestroyNetwork(w)
           n == [Ended(w.net) EXCEPT !.on = FALSE, !.cur = NoToken, !.status = "idle"]
<1>1. w.ws \in SocketType /\ w.net \in NetType
  BY TabFields
<1>2. v = [w EXCEPT !.ws = Disconnected(w.ws), !.net = n]
  BY DEF DestroyNetwork
<1>3. n \in NetType /\ n.on = FALSE /\ n.cur = NoToken /\ n.peers = FALSE /\ n.sid = 0
  <2>1. Ended(w.net) \in NetType /\ Ended(w.net).peers = FALSE /\ Ended(w.net).sid = 0
    BY <1>1, EndedFacts
  <2> QED BY <2>1 DEF NetType
<1> HIDE DEF n, v
<1>4. v \in Tab /\ v.ws = Disconnected(w.ws) /\ v.net = n /\ Store(v) = Store(w)
  BY <1>1, <1>2, <1>3, DisconnectedFacts DEF Tab, Store
<1> QED BY <1>1, <1>3, <1>4, DisconnectedFacts DEF Dark, v

LEMMA EndSessionFacts ==
  ASSUME NEW w \in Tab, NEW s \in Sort, Scoped(w, s)
  PROVE  EndSession(w) \in Tab /\ Dark(EndSession(w)) /\ Store(EndSession(w)) = Store(w)
<1>1. CASE w.net.on
  BY <1>1, DestroyFacts DEF EndSession
<1>2. CASE ~w.net.on
  <2> DEFINE v == [w EXCEPT !.ws = Disconnected(w.ws)]
  <2>1. v \in Tab /\ v.ws = Disconnected(w.ws) /\ v.net = w.net /\ Store(v) = Store(w)
    BY TabFields, DisconnectedFacts DEF Tab, Store
  <2>2. EndSession(w) = v
    BY <1>2 DEF EndSession
  <2>3. w.net.on = FALSE /\ w.net.cur = NoToken /\ w.net.peers = FALSE /\ w.net.sid = 0
    BY <1>2, TabFields DEF Scoped, NetType
  <2> HIDE DEF v
  <2>4. w.ws \in SocketType
    BY TabFields
  <2>5. /\ Disconnected(w.ws).tok = NoToken /\ Disconnected(w.ws).as = NoToken
        /\ Disconnected(w.ws).st = "none" /\ Disconnected(w.ws).timer = FALSE
    BY <2>4, DisconnectedFacts
  <2>6. Dark(v)
    BY <2>1, <2>3, <2>5 DEF Dark
  <2> QED BY <2>1, <2>2, <2>6
<1> QED BY <1>1, <1>2

(***************************************************************************)
(* How a step changes the store.                                           *)
(***************************************************************************)

\* The session and the identity are as they were.
Same(a, b) == b.tok = a.tok /\ b.timer = a.timer /\ b.out = a.out /\ b.node = a.node

Beside(w, v) == v.ws = w.ws /\ v.net = w.net /\ v.call = w.call

\* The lock is kept, or given up.
Holds(w, v) == v.auth.held = w.auth.held /\ v.auth.owner = w.auth.owner /\ v.locks = w.locks
Loosens(w, v) ==
    /\ v.auth.held = NoNode /\ v.auth.owner \in {0, w.auth.owner}
    /\ \A n \in Node : v.locks[n] = "mine" => w.locks[n] = "mine" /\ n # w.auth.held

LEMMA SameAuth ==
  ASSUME NEW a \in AuthType, NEW h \in Node \cup {NoNode}, NEW k \in Nat
  PROVE  LET b == [a EXCEPT !.held = h, !.owner = k]
         IN  /\ b \in AuthType /\ Same(a, b) /\ b.cur = a.cur /\ b.pend = a.pend
             /\ b.held = h /\ b.owner = k
BY DEF AuthType, Same

LEMMA UnlockedFacts ==
  ASSUME NEW w \in Tab
  PROVE  LET v == Unlocked(w)
         IN  /\ v \in Tab /\ v.ops = w.ops /\ v.rels = w.rels /\ Beside(w, v) /\ Same(w.auth, v.auth)
             /\ v.auth.cur = w.auth.cur /\ v.auth.pend = w.auth.pend /\ v.auth.owner = 0 /\ Loosens(w, v)
<1> DEFINE a == [w.auth EXCEPT !.held = NoNode, !.owner = 0]
           v == Unlocked(w)
<1>0. w.auth \in AuthType /\ w.locks \in [Node -> {"free", "mine", "other"}] /\ w.auth.held \in Node \cup {NoNode}
  BY TabFields, AuthFields
<1>1. /\ a \in AuthType /\ Same(w.auth, a) /\ a.cur = w.auth.cur /\ a.pend = w.auth.pend
      /\ a.held = NoNode /\ a.owner = 0
  BY <1>0 DEF AuthType, Same
<1>2. CASE w.auth.held = NoNode
  <2>1. v = [w EXCEPT !.auth = a]
    BY <1>2 DEF Unlocked
  <2> HIDE DEF a, v
  <2>2. /\ v \in Tab /\ v.auth = a /\ v.locks = w.locks /\ v.ops = w.ops /\ v.rels = w.rels /\ Beside(w, v)
    BY <1>1, <2>1 DEF Tab, Beside
  <2>3. Loosens(w, v)
    BY <1>1, <1>2, <2>2, NodeNames DEF Loosens
  <2> QED BY <1>1, <2>2, <2>3 DEF v
<1>3. CASE w.auth.held # NoNode
  <2> DEFINE L == [w.locks EXCEPT ![w.auth.held] = "free"]
  <2>1. v = [w EXCEPT !.auth = a, !.locks[w.auth.held] = "free"]
    BY <1>3 DEF Unlocked
  <2>2. L \in [Node -> {"free", "mine", "other"}] /\ \A n \in Node : L[n] = "mine" => w.locks[n] = "mine" /\ n # w.auth.held
    BY <1>0, <1>3
  <2>3. v = [w EXCEPT !.auth = a, !.locks = L]
    BY <2>1
  <2> HIDE DEF a, v, L
  <2>4. /\ v \in Tab /\ v.auth = a /\ v.locks = L /\ v.ops = w.ops /\ v.rels = w.rels /\ Beside(w, v)
    BY <1>1, <2>2, <2>3 DEF Tab, Beside
  <2>5. Loosens(w, v)
    BY <1>1, <2>2, <2>4 DEF Loosens
  <2> QED BY <1>1, <2>4, <2>5 DEF v
<1> QED BY <1>2, <1>3

LEMMA UnlockedForFacts ==
  ASSUME NEW w \in Tab, NEW k
  PROVE  LET v == UnlockedFor(w, k)
         IN  /\ v \in Tab /\ v.ops = w.ops /\ v.rels = w.rels /\ Beside(w, v) /\ Same(w.auth, v.auth)
             /\ v.auth.cur = w.auth.cur /\ v.auth.pend = w.auth.pend
             /\ IF w.auth.owner = k THEN Loosens(w, v) ELSE Holds(w, v)
<1>1. CASE w.auth.owner = k
  BY <1>1, UnlockedFacts DEF UnlockedFor
<1>2. CASE w.auth.owner # k
  BY <1>2 DEF UnlockedFor, Beside, Same, Holds
<1> QED BY <1>1, <1>2

LEMMA OverFacts ==
  ASSUME NEW w \in Tab, NEW o \in OpType
  PROVE  LET v == Over(w, o)
         IN  /\ v \in Tab /\ v.ops = w.ops /\ v.rels = w.rels /\ Beside(w, v) /\ Same(w.auth, v.auth)
             /\ v.auth.cur = (IF w.auth.cur = o.id THEN 0 ELSE w.auth.cur)
             /\ v.auth.pend \in {w.auth.pend, NoToken}
             /\ IF w.auth.owner = o.id THEN Loosens(w, v) ELSE Holds(w, v)
<1> DEFINE u == UnlockedFor(w, o.id)
           p == IF o.opt = "proof" /\ u.auth.pend = o.prf THEN NoToken ELSE u.auth.pend
           c == IF u.auth.cur = o.id THEN 0 ELSE u.auth.cur
           a == [u.auth EXCEPT !.pend = p, !.cur = c]
           v == Over(w, o)
<1>1. /\ u \in Tab /\ u.ops = w.ops /\ u.rels = w.rels /\ Beside(w, u) /\ Same(w.auth, u.auth)
      /\ u.auth.cur = w.auth.cur /\ u.auth.pend = w.auth.pend
      /\ IF w.auth.owner = o.id THEN Loosens(w, u) ELSE Holds(w, u)
  BY UnlockedForFacts
<1>2. v = [u EXCEPT !.auth.pend = p, !.auth.cur = c]
  BY DEF Over
<1> HIDE DEF u
<1>3. u.auth \in AuthType
  BY <1>1, TabFields
<1>4. p \in {u.auth.pend, NoToken} /\ p \in Sort /\ c \in Nat /\ c = (IF w.auth.cur = o.id THEN 0 ELSE w.auth.cur)
  BY <1>1, <1>3, AuthFields, SortFacts
<1> HIDE DEF p, c
<1>5. v = [u EXCEPT !.auth = a]
  BY <1>2
<1>6. /\ a \in AuthType /\ a.cur = c /\ a.pend = p /\ a.held = u.auth.held /\ a.owner = u.auth.owner
      /\ Same(u.auth, a)
  BY <1>3, <1>4 DEF AuthType, Sort, Same
<1> HIDE DEF a, v
<1>7. v \in Tab /\ v.auth = a /\ v.ops = u.ops /\ v.rels = u.rels /\ v.locks = u.locks /\ Beside(u, v)
  BY <1>1, <1>5, <1>6 DEF Tab, Beside
<1>8. Beside(w, v) /\ Same(w.auth, v.auth)
  BY <1>1, <1>6, <1>7 DEF Beside, Same
<1>9. IF w.auth.owner = o.id THEN Loosens(w, v) ELSE Holds(w, v)
  BY <1>1, <1>6, <1>7 DEF Loosens, Holds
<1> QED BY <1>1, <1>4, <1>6, <1>7, <1>8, <1>9 DEF v

\* No session is nearer than before, and the network is as it was or is gone with its session.
Softer(w, v) ==
    /\ v.auth.tok \in {w.auth.tok, NoToken}
    /\ v.auth.timer => w.auth.timer
    /\ \/ v.ws = w.ws /\ v.net = w.net
       \/ v.auth.tok = NoToken /\ Dark(v)
    /\ \A o \in v.ops : o.id = v.auth.cur /\ o.tok # NoToken =>
        w.auth.cur = o.id /\ \E p \in w.ops : p.id = o.id /\ p.tok = o.tok

LEMMA SofterKeeps ==
  ASSUME NEW w \in Tab, NEW v \in Tab, NEW s \in Sort, NEW R \in SUBSET Renewal, NEW m \in Nat,
         Scoped(w, s), Aged(w, s, R, m), Softer(w, v)
  PROVE  Scoped(v, s) /\ Aged(v, s, R, m)
<1>0. /\ w.auth.tok \in Sort /\ w.net.on \in BOOLEAN /\ NoToken.sid = 0
      /\ v.auth.tok \in Sort /\ v.auth.timer \in BOOLEAN /\ v.net.on \in BOOLEAN
      /\ \A r \in R : r.tok \in Token /\ r.tok.sid >= 1 /\ r.tok.sid \in Int
      /\ \A o \in v.ops : o \in OpType /\ o.tok \in Sort /\ o.tok.sid \in Int
      /\ \A o \in v.ops : o.tok # NoToken => o.tok.sid >= 1
      /\ w.auth.tok.sid \in Int /\ v.auth.tok.sid \in Int /\ s.sid \in Int
  <2>1. \A r \in R : r.tok \in Token
    BY DEF Renewal
  <2>2. w.auth \in AuthType /\ v.auth \in AuthType /\ w.net \in NetType /\ v.net \in NetType /\ v.ops \subseteq OpType
    BY TabFields
  <2>3. \A o \in v.ops : o \in OpType /\ o.tok \in Sort
    BY <2>2, OpFields
  <2>4. w.auth.tok \in Sort /\ v.auth.tok \in Sort /\ v.auth.timer \in BOOLEAN
    BY <2>2, AuthFields
  <2>5. w.net.on \in BOOLEAN /\ v.net.on \in BOOLEAN
    BY <2>2 DEF NetType
  <2> QED BY <2>1, <2>3, <2>4, <2>5, SortFacts
<1>1. Scoped(v, s)
  <2>1. CASE v.ws = w.ws /\ v.net = w.net
    BY <1>0, <2>1 DEF Scoped, Softer
  <2>2. CASE v.auth.tok = NoToken /\ Dark(v)
    BY <1>0, <2>2 DEF Scoped, Placed, Dark
  <2> QED BY <2>1, <2>2 DEF Softer
<1>2. v.auth.tok = w.auth.tok \/ (v.auth.tok = NoToken /\ v.auth.tok.sid = 0)
  BY <1>0 DEF Softer
<1>3. v.auth.tok.sid <= m /\ v.auth.tok.sid <= w.auth.tok.sid /\ (v.auth.tok # NoToken => Older(s, v.auth.tok))
  BY <1>0, <1>2, SortFacts DEF Aged
<1>4. \A r \in R : r.tok.sid = v.auth.tok.sid => r.tok = v.auth.tok /\ ~v.auth.timer
  BY <1>0, <1>2 DEF Aged, Softer
<1>5. \A q, r \in R : q.tok.sid = v.auth.tok.sid /\ r.tok.sid = v.auth.tok.sid => q = r
  BY <1>0, <1>2 DEF Aged
<1>6. \A o \in v.ops : o.id = v.auth.cur /\ o.tok # NoToken =>
        /\ o.tok.sid <= m /\ s.sid < o.tok.sid /\ v.auth.tok.sid < o.tok.sid
        /\ \A r \in R : r.tok.sid < o.tok.sid
  <2> SUFFICES ASSUME NEW o \in v.ops, o.id = v.auth.cur, o.tok # NoToken
               PROVE  /\ o.tok.sid <= m /\ s.sid < o.tok.sid /\ v.auth.tok.sid < o.tok.sid
                      /\ \A r \in R : r.tok.sid < o.tok.sid
    OBVIOUS
  <2>1. PICK p \in w.ops : p.id = o.id /\ p.tok = o.tok /\ p.id = w.auth.cur
    BY DEF Softer
  <2>2. /\ p.tok.sid <= m /\ s.sid < p.tok.sid /\ w.auth.tok.sid < p.tok.sid
        /\ \A r \in R : r.tok.sid < p.tok.sid
    BY <2>1 DEF Aged
  <2>3. /\ o.tok.sid <= m /\ s.sid < o.tok.sid /\ w.auth.tok.sid < o.tok.sid
        /\ \A r \in R : r.tok.sid < o.tok.sid
    BY <2>1, <2>2
  <2>4. v.auth.tok.sid <= w.auth.tok.sid
    BY <1>3
  <2>5. v.auth.tok.sid < o.tok.sid
    BY <1>0, <2>3, <2>4
  <2> QED BY <2>3, <2>5
<1> QED BY <1>1, <1>3, <1>4, <1>5, <1>6 DEF Aged

\* What an edit, a logout and an invalidated session begin with.
LEMMA SupersededFacts ==
  ASSUME NEW w \in Tab, Queued(w)
  PROVE  LET v == Superseded(w)
         IN  /\ v \in Tab /\ v.ops = w.ops /\ v.rels = w.rels /\ Beside(w, v) /\ Same(w.auth, v.auth)
             /\ v.auth.cur = 0 /\ v.auth.pend \in {w.auth.pend, NoToken}
             /\ \/ Loosens(w, v)
                \/ /\ Holds(w, v)
                   /\ \A o \in w.ops : o.id = w.auth.cur /\ o.id = w.auth.owner => Active(v.auth, o)
<1> DEFINE out == {o \in w.ops : o.id = w.auth.cur /\ o.at \in {"sent", "answered"}}
           u == IF out = {} THEN w ELSE Over(w, CHOOSE o \in out : TRUE)
           v == Superseded(w)
<1>1. /\ u \in Tab /\ u.ops = w.ops /\ u.rels = w.rels /\ Beside(w, u) /\ Same(w.auth, u.auth)
      /\ u.auth.pend \in {w.auth.pend, NoToken}
      /\ \/ Loosens(w, u)
         \/ /\ Holds(w, u)
            /\ \A o \in w.ops : o.id = w.auth.cur /\ o.id = w.auth.owner => o.at \notin {"sent", "answered"}
  <2>1. CASE out = {}
    BY <2>1 DEF Beside, Same, Holds
  <2>2. CASE out # {}
    <3> DEFINE p == CHOOSE o \in out : TRUE
    <3>1. p \in out
      BY <2>2
    <3>2. u = Over(w, p)
      BY <2>2
    <3> HIDE DEF p, u
    <3>3. p \in w.ops /\ p \in OpType /\ p.id = w.auth.cur
      BY <3>1, TabFields
    <3>4. /\ u \in Tab /\ u.ops = w.ops /\ u.rels = w.rels /\ Beside(w, u) /\ Same(w.auth, u.auth)
          /\ u.auth.pend \in {w.auth.pend, NoToken}
          /\ IF w.auth.owner = p.id THEN Loosens(w, u) ELSE Holds(w, u)
      BY <3>2, <3>3, OverFacts
    <3> QED BY <3>3, <3>4
  <2> QED BY <2>1, <2>2
<1>2. v = [u EXCEPT !.auth.cur = 0]
  BY DEF Superseded
<1> HIDE DEF u, v
<1> DEFINE a == [u.auth EXCEPT !.cur = 0]
<1>3. u.auth \in AuthType /\ \A o \in w.ops : o \in OpType
  BY <1>1, TabFields
<1>4. a \in AuthType /\ a.cur = 0 /\ a.pend = u.auth.pend /\ a.held = u.auth.held /\ a.owner = u.auth.owner /\ Same(u.auth, a)
  BY <1>3 DEF AuthType, Same
<1>5. v = [u EXCEPT !.auth = a]
  BY <1>2
<1> HIDE DEF a
<1>6. v \in Tab /\ v.auth = a /\ v.ops = u.ops /\ v.rels = u.rels /\ v.locks = u.locks /\ Beside(u, v)
  BY <1>1, <1>4, <1>5 DEF Tab, Beside
<1>7. Beside(w, v) /\ Same(w.auth, v.auth)
  BY <1>1, <1>4, <1>6 DEF Beside, Same
<1>8. Loosens(w, u) => Loosens(w, v)
  BY <1>4, <1>6 DEF Loosens
<1>9. Holds(w, u) => Holds(w, v)
  BY <1>4, <1>6 DEF Holds
<1>10. \A o \in w.ops : o.at \notin {"sent", "answered"} => Active(v.auth, o)
  BY <1>3, OpFields DEF Active
<1> QED BY <1>1, <1>4, <1>6, <1>7, <1>8, <1>9, <1>10 DEF v

LEMMA QuitKeeps ==
  ASSUME NEW s \in Sort, NEW R \in SUBSET Renewal, NEW m \in Nat, NEW w, Inv(w, s, R, m), NEW v \in Tab,
         v.ops = w.ops, Beside(w, v), Same(w.auth, v.auth), v.auth.cur \in {0, w.auth.cur},
         v.auth.pend \in {w.auth.pend, NoToken},
         \/ Loosens(w, v)
         \/ /\ Holds(w, v)
            /\ \A o \in w.ops : o.id = w.auth.cur /\ o.id = w.auth.owner => Active(v.auth, o)
  PROVE  Inv(v, s, R, m)
<1>0. w \in Tab /\ Queued(w) /\ Guarded(w) /\ Scoped(w, s) /\ Quiet(w) /\ Aged(w, s, R, m)
  BY DEF Inv
<1>1. Queued(v)
  BY <1>0 DEF Queued
<1>2. Guarded(v)
  <2>1. CASE Loosens(w, v)
    BY <1>0, <2>1 DEF Guarded, Loosens
  <2>2. CASE Holds(w, v) /\ \A o \in w.ops : o.id = w.auth.cur /\ o.id = w.auth.owner => Active(v.auth, o)
    <3>1. \A o \in w.ops : o.id = w.auth.owner /\ Active(w.auth, o) => Active(v.auth, o)
      BY <2>2 DEF Active
    <3> QED BY <1>0, <2>2, <3>1 DEF Guarded, Holds, Same
  <2> QED BY <2>1, <2>2
<1>3. Softer(w, v)
  <2>1. v.auth.timer => w.auth.timer
    BY DEF Same
  <2>2. \A o \in v.ops : o.id = v.auth.cur => o.id = w.auth.cur
    BY <1>0 DEF Queued, Proper
  <2> QED BY <2>1, <2>2 DEF Softer, Same, Beside
<1>4. Scoped(v, s) /\ Aged(v, s, R, m)
  BY <1>0, <1>3, SofterKeeps
<1>5. Quiet(v)
  BY <1>0 DEF Quiet, Same, Beside
<1> QED BY <1>1, <1>2, <1>4, <1>5 DEF Inv

LEMMA RestKeeps ==
  ASSUME NEW s \in Sort, NEW R \in SUBSET Renewal, NEW m \in Nat, NEW w, Inv(w, s, R, m), NEW v \in Tab,
         w.auth.cur = 0, v.ops = w.ops, Loosens(w, v), v.auth.cur = 0,
         v.auth.tok = NoToken, v.auth.pend = NoToken, v.auth.timer = FALSE,
         v.auth.out => v.call.at = "idle" /\ v.net.on = FALSE,
         (v.ws = w.ws /\ v.net = w.net) \/ Dark(v)
  PROVE  Inv(v, s, R, m)
<1>0. w \in Tab /\ Queued(w) /\ Guarded(w) /\ Scoped(w, s) /\ Quiet(w) /\ Aged(w, s, R, m)
  BY DEF Inv
<1>1. Queued(v)
  BY <1>0 DEF Queued
<1>2. Guarded(v)
  BY <1>0 DEF Guarded, Loosens
<1>3. Softer(w, v)
  <2>1. \A o \in v.ops : o.id # v.auth.cur
    BY <1>0 DEF Queued, Proper
  <2> QED BY <2>1 DEF Softer
<1>4. Scoped(v, s) /\ Aged(v, s, R, m)
  BY <1>0, <1>3, SofterKeeps
<1>5. Quiet(v)
  BY DEF Quiet
<1> QED BY <1>1, <1>2, <1>4, <1>5 DEF Inv

LEMMA SupersededKeeps ==
  ASSUME NEW s \in Sort, NEW R \in SUBSET Renewal, NEW m \in Nat, NEW w, Inv(w, s, R, m)
  PROVE  LET v == Superseded(w)
         IN  /\ Inv(v, s, R, m) /\ v.ops = w.ops /\ v.rels = w.rels /\ Beside(w, v) /\ Same(w.auth, v.auth)
             /\ v.auth.cur = 0 /\ v.auth.pend \in {w.auth.pend, NoToken}
<1> DEFINE v == Superseded(w)
<1>0. w \in Tab /\ Queued(w)
  BY DEF Inv
<1>1. /\ v \in Tab /\ v.ops = w.ops /\ v.rels = w.rels /\ Beside(w, v) /\ Same(w.auth, v.auth)
      /\ v.auth.cur = 0 /\ v.auth.pend \in {w.auth.pend, NoToken}
      /\ \/ Loosens(w, v)
         \/ /\ Holds(w, v)
            /\ \A o \in w.ops : o.id = w.auth.cur /\ o.id = w.auth.owner => Active(v.auth, o)
  BY <1>0, SupersededFacts
<1> HIDE DEF v
<1>2. Inv(v, s, R, m)
  BY <1>1, QuitKeeps
<1> QED BY <1>1, <1>2 DEF v

\* What an invalidated login keeps of the tab, and what it clears.
SignedOff(w, v) ==
    /\ v.ops = w.ops /\ v.rels = w.rels /\ Beside(w, v)
    /\ v.auth.out = w.auth.out /\ v.auth.node = w.auth.node /\ v.auth.held = NoNode
    /\ v.auth.tok = NoToken /\ v.auth.pend = NoToken /\ v.auth.cur = 0 /\ v.auth.timer = FALSE

LEMMA InvalidatedKeeps ==
  ASSUME NEW s \in Sort, NEW R \in SUBSET Renewal, NEW m \in Nat, NEW w, Inv(w, s, R, m)
  PROVE  Inv(Invalidated(w), s, R, m) /\ SignedOff(w, Invalidated(w))
<1> DEFINE u == Superseded(w)
           x == Unlocked(u)
           a == [x.auth EXCEPT !.timer = FALSE, !.pend = NoToken, !.tok = NoToken, !.proof = FALSE]
           v == Invalidated(w)
<1>1. /\ Inv(u, s, R, m) /\ u.ops = w.ops /\ u.rels = w.rels /\ Beside(w, u) /\ Same(w.auth, u.auth)
      /\ u.auth.cur = 0
  BY SupersededKeeps
<1> HIDE DEF u
<1>2. u \in Tab /\ Quiet(u)
  BY <1>1 DEF Inv
<1>3. /\ x \in Tab /\ x.ops = u.ops /\ x.rels = u.rels /\ Beside(u, x) /\ Same(u.auth, x.auth)
      /\ x.auth.cur = u.auth.cur /\ Loosens(u, x)
  BY <1>2, UnlockedFacts
<1>4. v = [x EXCEPT !.auth = a]
  BY DEF Invalidated, u
<1> HIDE DEF x
<1>5. x.auth \in AuthType
  BY <1>3, TabFields
<1>6. /\ a \in AuthType /\ a.timer = FALSE /\ a.pend = NoToken /\ a.tok = NoToken
      /\ a.cur = x.auth.cur /\ a.held = x.auth.held /\ a.owner = x.auth.owner
      /\ a.out = x.auth.out /\ a.node = x.auth.node
  BY <1>5 DEF AuthType
<1> HIDE DEF a, v
<1>7. v \in Tab /\ v.auth = a /\ v.ops = x.ops /\ v.rels = x.rels /\ v.locks = x.locks /\ Beside(x, v)
  BY <1>3, <1>4, <1>6 DEF Tab, Beside
<1>8. Loosens(u, v)
  BY <1>3, <1>6, <1>7 DEF Loosens
<1>9. v.ws = u.ws /\ v.net = u.net /\ v.call = u.call /\ v.auth.out = u.auth.out /\ v.auth.node = u.auth.node
  BY <1>3, <1>6, <1>7 DEF Beside, Same
<1>10. v.auth.out => v.call.at = "idle" /\ v.net.on = FALSE
  BY <1>2, <1>9 DEF Quiet
<1>11. v.ops = u.ops /\ v.auth.cur = 0 /\ v.auth.tok = NoToken /\ v.auth.pend = NoToken /\ v.auth.timer = FALSE
  BY <1>1, <1>3, <1>6, <1>7
<1>12. Inv(v, s, R, m)
  BY <1>1, <1>7, <1>8, <1>9, <1>10, <1>11, RestKeeps
<1>13. SignedOff(w, v)
  BY <1>1, <1>3, <1>7, <1>8, <1>9, <1>11 DEF SignedOff, Beside, Same, Loosens
<1> QED BY <1>12, <1>13 DEF v

LEMMA EditedKeeps ==
  ASSUME NEW s \in Sort, NEW R \in SUBSET Renewal, NEW m \in Nat, NEW w, Inv(w, s, R, m),
         NEW n \in Node, NEW p \in BOOLEAN
  PROVE  Inv(Edited(w, n, p), s, R, m)
<1> DEFINE u == Superseded(w)
           a == [u.auth EXCEPT !.node = n, !.pass = p, !.loading = FALSE, !.blocked = "no"]
           v == Edited(w, n, p)
<1>1. Inv(u, s, R, m)
  BY SupersededKeeps
<1>2. v = [u EXCEPT !.auth = a]
  BY DEF Edited
<1> HIDE DEF u
<1>3. u \in Tab /\ Queued(u) /\ Guarded(u) /\ Scoped(u, s) /\ Quiet(u) /\ Aged(u, s, R, m) /\ u.auth \in AuthType
  BY <1>1, TabFields DEF Inv
<1>4. /\ a \in AuthType /\ a.tok = u.auth.tok /\ a.cur = u.auth.cur /\ a.held = u.auth.held /\ a.owner = u.auth.owner
      /\ a.pend = u.auth.pend
  BY <1>3 DEF AuthType
<1>5. a.timer = u.auth.timer /\ a.out = u.auth.out
  BY <1>3 DEF AuthType
<1> HIDE DEF a, v
<1>6. v \in Tab /\ v.auth = a /\ v.ops = u.ops /\ v.rels = u.rels /\ v.locks = u.locks /\ Beside(u, v)
  BY <1>2, <1>3, <1>4 DEF Tab, Beside
<1>7. Queued(v)
  BY <1>3, <1>4, <1>6 DEF Queued
<1>8. Guarded(v)
  BY <1>3, <1>4, <1>6 DEF Guarded, Active
<1>9. Scoped(v, s) /\ Aged(v, s, R, m)
  BY <1>3, <1>4, <1>5, <1>6 DEF Scoped, Aged, Beside
<1>10. Quiet(v)
  BY <1>3, <1>4, <1>5, <1>6 DEF Quiet, Beside
<1> QED BY <1>6, <1>7, <1>8, <1>9, <1>10 DEF Inv, v

LEMMA LoggedOutKeeps ==
  ASSUME NEW s \in Sort, NEW R \in SUBSET Renewal, NEW m \in Nat, NEW w, Inv(w, s, R, m)
  PROVE  Inv(LoggedOut(w), s, R, m)
<1> DEFINE u == Superseded(w)
           e == EndSession(u)
           x == Unlocked(e)
           a == [x.auth EXCEPT !.timer = FALSE, !.pend = NoToken, !.tok = NoToken, !.proof = FALSE,
                               !.creds = FALSE, !.out = (w.call.at = "idle")]
           r == IF w.auth.tok = NoToken THEN x.rels ELSE x.rels \cup {Release(w.auth.tok, -1)}
           v == LoggedOut(w)
<1>1. /\ Inv(u, s, R, m) /\ u.ops = w.ops /\ u.rels = w.rels /\ Beside(w, u) /\ Same(w.auth, u.auth)
      /\ u.auth.cur = 0
  BY SupersededKeeps
<1> HIDE DEF u
<1>2. u \in Tab /\ Scoped(u, s)
  BY <1>1 DEF Inv
<1>3. e \in Tab /\ Dark(e) /\ Store(e) = Store(u)
  BY <1>2, EndSessionFacts
<1> HIDE DEF e
<1>4. /\ x \in Tab /\ x.ops = e.ops /\ x.rels = e.rels /\ Beside(e, x) /\ Same(e.auth, x.auth)
      /\ x.auth.cur = e.auth.cur /\ Loosens(e, x)
  BY <1>3, UnlockedFacts
<1>5. v = [x EXCEPT !.auth = a, !.rels = r]
  BY DEF LoggedOut, e, u
<1> HIDE DEF x
<1>6. x.auth \in AuthType /\ x.rels \subseteq Asked /\ w.auth.tok \in Sort
  <2>1. w \in Tab
    BY DEF Inv
  <2> QED BY <1>4, <2>1, TabFields, AuthFields
<1>7. r \in SUBSET Asked
  <2>1. CASE w.auth.tok = NoToken
    BY <1>6, <2>1
  <2>2. CASE w.auth.tok # NoToken
    <3>1. Release(w.auth.tok, -1) \in Asked
      BY <1>6, <2>2, SortFacts DEF Release, Asked
    <3> QED BY <1>6, <2>2, <3>1
  <2> QED BY <2>1, <2>2
<1>8. /\ a \in AuthType /\ a.timer = FALSE /\ a.pend = NoToken /\ a.tok = NoToken
      /\ a.cur = x.auth.cur /\ a.held = x.auth.held /\ a.owner = x.auth.owner
  BY <1>6 DEF AuthType
<1>9. a.out => w.call.at = "idle"
  BY <1>6 DEF AuthType
<1> HIDE DEF a, r, v
<1>10. v \in Tab /\ v.auth = a /\ v.ops = x.ops /\ v.locks = x.locks /\ Beside(x, v)
  BY <1>4, <1>5, <1>7, <1>8 DEF Tab, Beside
<1>11. v.call = w.call /\ v.ops = u.ops /\ Loosens(u, v) /\ Dark(v) /\ v.auth.cur = 0
  BY <1>1, <1>3, <1>4, <1>8, <1>10 DEF Beside, Store, Loosens, Dark
<1>12. v.auth.out => v.call.at = "idle" /\ v.net.on = FALSE
  BY <1>9, <1>10, <1>11 DEF Dark
<1>13. Inv(v, s, R, m)
  BY <1>1, <1>8, <1>10, <1>11, <1>12, RestKeeps
<1> QED BY <1>13 DEF v

(***************************************************************************)
(* A new operation.                                                        *)
(***************************************************************************)

\* A bounded set of integers with a natural number in it has a greatest element.
LEMMA Greatest ==
  ASSUME NEW S \in SUBSET Int, NEW k \in S, k >= 0, NEW b \in Nat, \A j \in S : j <= b
  PROVE  \E x \in S : \A j \in S : j <= x
<1> DEFINE T == {n \in Nat : \A j \in S : j <= n}
<1>1. T \subseteq Nat /\ T # {}
  <2>1. b \in T
    OBVIOUS
  <2> QED BY <2>1
<1>2. PICK x \in T : \A y \in T : ~ (<<y, x>> \in OpToRel(<, Nat))
  <2> HIDE DEF T
  <2> QED BY <1>1, NatLessThanWellFounded, WFMin
<1>3. \A y \in T : ~ (y < x)
  <2> SUFFICES ASSUME NEW y \in T, y < x PROVE FALSE
    OBVIOUS
  <2>1. <<y, x>> \in OpToRel(<, Nat)
    BY DEF OpToRel
  <2> QED BY <1>2, <2>1
<1>4. x \in S
  <2> SUFFICES ASSUME x \notin S PROVE FALSE
    OBVIOUS
  <2>1. \A j \in S : j < x
    OBVIOUS
  <2>2. x - 1 \in Nat /\ \A j \in S : j <= x - 1
    BY <2>1
  <2>3. x - 1 \in T
    BY <2>2
  <2> QED BY <1>3, <2>3
<1> QED BY <1>4

LEMMA FreshFacts ==
  ASSUME NEW w \in Tab, Queued(w)
  PROVE  FreshId(w) \in Nat /\ FreshId(w) > 0 /\ \A o \in w.ops : o.id < FreshId(w) /\ -o.id < FreshId(w)
<1> DEFINE used == {w.auth.owner, w.call.op} \cup {o.id : o \in w.ops} \cup {-o.id : o \in w.ops}
           x == CHOOSE k \in used : \A j \in used : j <= k
<1>0. w.auth.owner \in Nat /\ w.call.op \in Nat /\ \A o \in w.ops : o.id \in Int
  <2>1. w.auth \in AuthType /\ w.call \in Fetch /\ w.ops \subseteq OpType
    BY TabFields
  <2> QED BY <2>1, AuthFields, OpFields DEF Fetch
<1>1. used \in SUBSET Int /\ w.auth.owner \in used /\ w.auth.owner >= 0
  BY <1>0
<1>2. PICK b \in Nat : \A o \in w.ops : o.id \in -b..b
  BY DEF Queued
<1>3. b + w.auth.owner + w.call.op \in Nat /\ \A j \in used : j <= b + w.auth.owner + w.call.op
  BY <1>0, <1>2
<1>4. (\A o \in w.ops : o.id \in used /\ -o.id \in used) /\ FreshId(w) = 1 + x
  BY DEF FreshId
<1> HIDE DEF used
<1>5. \E k \in used : \A j \in used : j <= k
  BY <1>1, <1>3, Greatest
<1>6. x \in used /\ \A j \in used : j <= x
  BY <1>5
<1> HIDE DEF x
<1>7. x \in Nat
  BY <1>0, <1>1, <1>6
<1> QED BY <1>0, <1>4, <1>6, <1>7

\* The operation that owns the store and the lock the store holds; it has asked for no other.
Charge(w, o) ==
    /\ o \in w.ops /\ o.id = w.auth.cur
    /\ \A n \in Node : w.locks[n] = "mine" =>
        n = w.auth.held \/ \E p \in w.ops : p # o /\ p.at = "granted" /\ p.node = n
    /\ w.auth.held # NoNode => w.auth.owner = o.id /\ \A p \in w.ops : p # o => ~Waiting(p)

LEMMA FailedKeeps ==
  ASSUME NEW s \in Sort, NEW w \in Tab, Queued(w), Scoped(w, s), ~w.auth.out,
         NEW o, Charge(w, o), NEW c \in BOOLEAN, NEW b \in {"keep", "no", "soon", "full"}
  PROVE  LET v == Failed(w, o, c, b)
         IN  /\ v \in Tab /\ Queued(v) /\ Guarded(v) /\ Softer(w, v) /\ ~v.auth.out /\ v.call = w.call
             /\ \A p \in v.ops : p.id = o.id => p.at = "closing"
             /\ \A p \in v.ops : p.id # o.id => p \in w.ops
             /\ v.auth.cur \in {0, o.id}
<1> DEFINE prior == w.auth.tok
           x == IF prior = NoToken THEN w ELSE EndSession(w)
           q == IF b = "keep" THEN x.auth.blocked ELSE b
           a == [x.auth EXCEPT !.pend = NoToken, !.tok = NoToken, !.proof = FALSE, !.loading = FALSE,
                               !.creds = c \/ x.auth.creds, !.blocked = q]
           u == [x EXCEPT !.auth = a]
           v == Failed(w, o, c, b)
<1>0. /\ o \in OpType /\ o \in w.ops /\ o.id = w.auth.cur /\ o.id > 0 /\ o.id \in Nat
      /\ w.auth \in AuthType /\ prior \in Sort /\ w.ops \subseteq OpType /\ w.rels \subseteq Asked
      /\ w.auth.cur # 0
  <2>1. o \in w.ops /\ o.id = w.auth.cur /\ o.id # 0
    BY DEF Charge, Queued, Proper
  <2> QED BY <2>1, TabFields, AuthFields
<1>1. x \in Tab /\ Store(x) = Store(w) /\ (\/ prior = NoToken /\ x.ws = w.ws /\ x.net = w.net
                                           \/ prior # NoToken /\ Dark(x))
  BY EndSessionFacts DEF Store
<1>2. v = IF prior = NoToken THEN [Over(u, o) EXCEPT !.ops = @ \ {o}]
          ELSE [u EXCEPT !.ops = (@ \ {o}) \cup {[o EXCEPT !.at = "closing"]}, !.rels = @ \cup {Release(prior, o.id)}]
  BY DEF Failed
<1> HIDE DEF x, prior
<1>3. x.auth = w.auth /\ x.ops = w.ops /\ x.locks = w.locks /\ x.rels = w.rels /\ x.call = w.call
  BY <1>1 DEF Store
<1>4. q \in {"no", "soon", "full"} /\ (c \/ x.auth.creds) \in BOOLEAN
  BY <1>0, <1>3, AuthFields
<1> HIDE DEF q
<1>5. /\ a \in AuthType /\ a.tok = NoToken /\ a.pend = NoToken
      /\ a.cur = o.id /\ a.held = w.auth.held /\ a.owner = w.auth.owner
  BY <1>0, <1>3, <1>4 DEF AuthType
<1>6. a.timer = w.auth.timer /\ a.out = w.auth.out
  BY <1>0, <1>3, <1>4 DEF AuthType
<1> HIDE DEF a
<1>7. /\ u \in Tab /\ u.auth = a /\ u.ops = w.ops /\ u.locks = w.locks /\ u.rels = w.rels /\ u.call = w.call
      /\ u.ws = x.ws /\ u.net = x.net
  BY <1>1, <1>3, <1>5 DEF Tab
<1> HIDE DEF u
<1>8. u.net \in NetType /\ (Dark(x) => Dark(u))
  BY <1>7, TabFields DEF Dark
<1>9. CASE prior = NoToken
  <2> DEFINE y == Over(u, o)
  <2>1. /\ y \in Tab /\ y.ops = u.ops /\ y.rels = u.rels /\ Beside(u, y) /\ Same(u.auth, y.auth)
        /\ y.auth.cur = (IF u.auth.cur = o.id THEN 0 ELSE u.auth.cur)
        /\ y.auth.pend \in {u.auth.pend, NoToken}
        /\ IF u.auth.owner = o.id THEN Loosens(u, y) ELSE Holds(u, y)
    BY <1>0, <1>7, OverFacts
  <2>2. v = [y EXCEPT !.ops = y.ops \ {o}]
    BY <1>2, <1>9
  <2> HIDE DEF y, v
  <2>3. v \in Tab /\ v.auth = y.auth /\ v.locks = y.locks /\ v.ops = w.ops \ {o} /\ Beside(y, v)
    BY <1>7, <2>1, <2>2 DEF Tab, Beside
  <2>4. v.auth.cur = 0 /\ v.auth.tok = NoToken /\ v.auth.timer = w.auth.timer /\ v.auth.out = w.auth.out /\ v.call = w.call
    BY <1>5, <1>6, <1>7, <2>1, <2>3 DEF Same, Beside
  <2>5. Queued(v)
    BY <2>3, <2>4 DEF Queued
  <2>6. v.auth.held = NoNode
    BY <1>5, <1>7, <2>1, <2>3 DEF Charge, Loosens, Holds
  <2>7. \A n \in Node : v.locks[n] = "mine" => w.locks[n] = "mine" /\ n # w.auth.held
    BY <1>5, <1>7, <2>1, <2>3, <2>6, NodeNames DEF Loosens, Holds
  <2>8. Guarded(v)
    BY <2>3, <2>6, <2>7 DEF Guarded, Charge
  <2>9. v.ws = w.ws /\ v.net = w.net
    BY <1>1, <1>7, <1>9, <2>1, <2>3 DEF Beside
  <2>10. \A p \in v.ops : p.id # 0 /\ p.id # o.id /\ p \in w.ops
    BY <1>0, <2>3 DEF Queued, Proper
  <2>11. Softer(w, v)
    BY <2>4, <2>9, <2>10 DEF Softer
  <2> QED BY <2>3, <2>4, <2>5, <2>8, <2>10, <2>11 DEF v
<1>10. CASE prior # NoToken
  <2> DEFINE g == [o EXCEPT !.at = "closing"]
             r == w.rels \cup {Release(prior, o.id)}
             O == (w.ops \ {o}) \cup {g}
  <2>1. v = [u EXCEPT !.ops = O, !.rels = r]
    BY <1>2, <1>7, <1>10
  <2>2. g \in OpType /\ g.id = o.id /\ g.at = "closing" /\ g.ans = o.ans /\ g.tok = o.tok
    BY <1>0 DEF OpType
  <2>3. r \in SUBSET Asked
    <3>1. Release(prior, o.id) \in Asked
      BY <1>0, <1>10, SortFacts DEF Release, Asked
    <3> QED BY <1>0, <3>1
  <2> HIDE DEF g, r, v
  <2>4. O \in SUBSET OpType
    BY <1>0, <2>2
  <2>5. \A p \in O : p = g \/ (p \in w.ops /\ p # o /\ p.id # o.id)
    BY <1>0 DEF Queued
  <2>6. g \in O /\ \A p \in w.ops : p # o => p \in O
    OBVIOUS
  <2> HIDE DEF O
  <2>7. v \in Tab /\ v.auth = a /\ v.ops = O /\ v.locks = w.locks /\ v.ws = u.ws /\ v.net = u.net /\ v.call = w.call
    BY <1>7, <2>1, <2>3, <2>4 DEF Tab
  <2>8. Queued(v)
    <3>1. PICK k \in Nat : \A p \in w.ops : p.id \in -k..k
      BY DEF Queued
    <3>2. \A p \in v.ops : p.id \in -k..k
      BY <1>0, <2>2, <2>5, <2>7, <3>1
    <3>3. \A p \in v.ops : Proper(p)
      BY <1>0, <2>2, <2>5, <2>7 DEF Queued, Proper
    <3>4. \A p, z \in v.ops : p.id = z.id => p = z
      BY <2>2, <2>5, <2>7 DEF Queued
    <3>5. \A p, z \in v.ops : p.id = -z.id /\ p.id > 0 => p.at = "closing"
      BY <1>0, <2>2, <2>5, <2>7 DEF Queued
    <3>6. \A p \in v.ops : p.id <= v.auth.cur
      BY <1>0, <1>5, <2>2, <2>5, <2>7 DEF Queued
    <3>7. \A p, z \in v.ops : Decided(p) /\ z.at \in {"asking", "crossing"} => p.id < z.id
      BY <2>2, <2>5, <2>7 DEF Queued, Decided
    <3> QED BY <3>1, <3>2, <3>3, <3>4, <3>5, <3>6, <3>7 DEF Queued
  <2>9. Guarded(v)
    <3>1. \A n \in Node : v.locks[n] = "mine" => n = v.auth.held \/ \E p \in v.ops : p.at = "granted" /\ p.node = n
      BY <1>5, <2>6, <2>7 DEF Charge
    <3>2. v.auth.held # NoNode => v.auth.owner = v.auth.cur /\ Active(v.auth, g) /\ g.id = v.auth.owner
      BY <1>5, <2>2, <2>7 DEF Charge, Active
    <3>3. v.auth.held # NoNode => \A p \in v.ops : ~Waiting(p)
      BY <1>5, <2>2, <2>5, <2>7 DEF Charge, Waiting
    <3> QED BY <2>6, <2>7, <3>1, <3>2, <3>3 DEF Guarded
  <2>10. Softer(w, v)
    <3>1. Dark(v)
      BY <1>1, <1>8, <1>10, <2>7 DEF Dark
    <3>2. v.auth.tok = NoToken /\ v.auth.timer = w.auth.timer
      BY <1>5, <1>6, <2>7
    <3>3. \A p \in v.ops : p.id = v.auth.cur => w.auth.cur = p.id /\ o \in w.ops /\ o.id = p.id /\ o.tok = p.tok
      BY <1>0, <1>5, <2>2, <2>5, <2>7
    <3> QED BY <3>1, <3>2, <3>3 DEF Softer
  <2> QED BY <1>0, <1>5, <1>6, <2>2, <2>5, <2>7, <2>8, <2>9, <2>10 DEF v
<1> QED BY <1>9, <1>10

\* What a connect operation does to the tab when it makes its request, or fails before.
LEMMA RequestedKeeps ==
  ASSUME NEW s \in Sort, NEW w \in Tab, Queued(w), Scoped(w, s), ~w.auth.out,
         NEW o, Charge(w, o), Waiting(o)
  PROVE  LET v == Requested(w, o)
         IN  v \in Tab /\ Queued(v) /\ Guarded(v) /\ Softer(w, v) /\ ~v.auth.out /\ v.call = w.call
<1> DEFINE known == IF o.opt = "proof" THEN o.prf ELSE IF w.auth.proof THEN w.auth.tok ELSE NoToken
           again == o.opt # "grant" /\ known # NoToken /\ (o.opt = "proof" \/ ~o.pass)
           x == IF again THEN w ELSE [w EXCEPT !.auth.pend = NoToken]
           k == IF again THEN known ELSE NoToken
           sent == [o EXCEPT !.at = "sent", !.prf = k]
           y == [x EXCEPT !.ops = (x.ops \ {o}) \cup {sent}]
           v == Requested(w, o)
<1>0. /\ o \in OpType /\ o \in w.ops /\ o.id = w.auth.cur /\ o.id > 0 /\ o.id \in Nat
      /\ w.auth \in AuthType /\ w.auth.tok \in Sort /\ w.ops \subseteq OpType
      /\ w.auth.cur # 0
  <2>1. o \in w.ops /\ o.id = w.auth.cur /\ o.id # 0
    BY DEF Charge, Queued, Proper
  <2> QED BY <2>1, TabFields, AuthFields
<1>1. v = IF ~again /\ o.opt # "grant" /\ ~o.pass THEN Failed(x, o, TRUE, "keep") ELSE y
  BY DEF Requested
<1>2. k \in Sort
  BY <1>0, OpFields, SortFacts
<1>3. /\ x \in Tab /\ x.ops = w.ops /\ x.locks = w.locks /\ Beside(w, x) /\ Same(w.auth, x.auth)
      /\ x.auth.cur = w.auth.cur /\ x.auth.held = w.auth.held /\ x.auth.owner = w.auth.owner
  <2>1. CASE again
    BY <2>1 DEF Beside, Same
  <2>2. CASE ~again
    <3> DEFINE a == [w.auth EXCEPT !.pend = NoToken]
    <3>1. x = [w EXCEPT !.auth = a]
      BY <2>2
    <3>2. a \in AuthType /\ Same(w.auth, a) /\ a.cur = w.auth.cur /\ a.held = w.auth.held /\ a.owner = w.auth.owner
      BY <1>0 DEF AuthType, Same
    <3> HIDE DEF a, x
    <3> QED BY <3>1, <3>2 DEF Tab, Beside
  <2> QED BY <2>1, <2>2
<1>4. sent \in OpType /\ sent.id = o.id /\ sent.at = "sent" /\ sent.ans = o.ans /\ sent.tok = o.tok
  BY <1>0, <1>2 DEF OpType, Sort
<1> HIDE DEF x, sent, again
<1>5. Softer(w, x)
  BY <1>3 DEF Softer, Beside, Same
<1>6. CASE v = Failed(x, o, TRUE, "keep")
  <2>1. Queued(x) /\ Scoped(x, s) /\ ~x.auth.out /\ Charge(x, o)
    BY <1>3 DEF Queued, Scoped, Charge, Beside, Same
  <2> DEFINE f == Failed(x, o, TRUE, "keep")
  <2>2. f \in Tab /\ Queued(f) /\ Guarded(f) /\ Softer(x, f) /\ ~f.auth.out /\ f.call = x.call
    <3>1. TRUE \in BOOLEAN /\ "keep" \in {"keep", "no", "soon", "full"}
      OBVIOUS
    <3> QED BY <1>3, <2>1, <3>1, FailedKeeps
  <2> HIDE DEF f
  <2>3. Softer(w, f)
    BY <1>3, <2>2 DEF Softer, Beside, Same
  <2> QED BY <1>3, <1>6, <2>2, <2>3 DEF f, Beside
<1>7. CASE v = y
  <2> DEFINE O == (w.ops \ {o}) \cup {sent}
  <2>1. O \in SUBSET OpType
    BY <1>0, <1>4
  <2>2. \A p \in O : p = sent \/ (p \in w.ops /\ p # o /\ p.id # o.id)
    BY <1>0 DEF Queued
  <2>3. sent \in O /\ \A p \in w.ops : p # o => p \in O
    OBVIOUS
  <2>4. v = [x EXCEPT !.ops = O]
    BY <1>3, <1>7
  <2> HIDE DEF O, y, v
  <2>5. v \in Tab /\ v.auth = x.auth /\ v.ops = O /\ v.locks = w.locks /\ Beside(w, v)
    BY <1>3, <2>1, <2>4 DEF Tab, Beside
  <2>6. Queued(v)
    <3>1. PICK b \in Nat : \A p \in w.ops : p.id \in -b..b
      BY DEF Queued
    <3>2. \A p \in v.ops : p.id \in -b..b
      BY <1>0, <1>4, <2>2, <2>5, <3>1
    <3>3. \A p \in v.ops : Proper(p)
      BY <1>0, <1>4, <2>2, <2>5 DEF Queued, Proper
    <3>4. \A p, z \in v.ops : p.id = z.id => p = z
      BY <1>4, <2>2, <2>5 DEF Queued
    <3>5. \A p, z \in v.ops : p.id = -z.id /\ p.id > 0 => p.at = "closing"
      <4>1. \A z \in w.ops : o.id # -z.id
        BY <1>0 DEF Queued, Waiting
      <4> QED BY <1>0, <1>4, <2>2, <2>5, <4>1 DEF Queued
    <3>6. \A p \in v.ops : p.id <= v.auth.cur
      BY <1>0, <1>3, <1>4, <2>2, <2>5 DEF Queued
    <3>7. \A p, z \in v.ops : Decided(p) /\ z.at \in {"asking", "crossing"} => p.id < z.id
      BY <1>4, <2>2, <2>5 DEF Queued, Decided
    <3> QED BY <3>1, <3>2, <3>3, <3>4, <3>5, <3>6, <3>7 DEF Queued
  <2>7. Guarded(v)
    <3>1. \A n \in Node : v.locks[n] = "mine" => n = v.auth.held \/ \E p \in v.ops : p.at = "granted" /\ p.node = n
      BY <1>3, <2>3, <2>5 DEF Charge
    <3>2. v.auth.held # NoNode => v.auth.owner = v.auth.cur /\ Active(v.auth, sent) /\ sent.id = v.auth.owner
      BY <1>0, <1>3, <1>4, <2>5 DEF Charge, Active
    <3>3. v.auth.held # NoNode => \A p \in v.ops : ~Waiting(p)
      BY <1>3, <1>4, <2>2, <2>5 DEF Charge, Waiting
    <3> QED BY <2>3, <2>5, <3>1, <3>2, <3>3 DEF Guarded
  <2>8. Softer(w, v)
    <3>1. \A p \in v.ops : p.id = v.auth.cur => w.auth.cur = p.id /\ o \in w.ops /\ o.id = p.id /\ o.tok = p.tok
      BY <1>0, <1>3, <1>4, <2>2, <2>5
    <3> QED BY <1>3, <2>5, <3>1 DEF Softer, Beside, Same
  <2> QED BY <1>3, <2>5, <2>6, <2>7, <2>8 DEF v, Beside, Same
<1> QED BY <1>1, <1>6, <1>7

LEMMA SofterTransitive ==
  ASSUME NEW w, NEW u, NEW v, Softer(w, u), Softer(u, v)
  PROVE  Softer(w, v)
<1>1. (v.ws = w.ws /\ v.net = w.net) \/ (v.auth.tok = NoToken /\ Dark(v))
  BY DEF Softer, Dark
<1>2. \A o \in v.ops : o.id = v.auth.cur /\ o.tok # NoToken =>
        w.auth.cur = o.id /\ \E p \in w.ops : p.id = o.id /\ p.tok = o.tok
  BY DEF Softer
<1> QED BY <1>1, <1>2 DEF Softer

LEMMA BegunKeeps ==
  ASSUME NEW s \in Sort, NEW w \in Tab, Queued(w), Guarded(w), Scoped(w, s), ~w.auth.out,
         NEW opt \in {"plain", "again", "grant", "proof"}, NEW prf \in Sort
  PROVE  LET v == Begun(w, opt, prf)
         IN  v \in Tab /\ Queued(v) /\ Guarded(v) /\ Softer(w, v) /\ ~v.auth.out /\ v.call = w.call
<1> DEFINE i == FreshId(w)
           o == [id |-> i, node |-> w.auth.node, pass |-> w.auth.pass, opt |-> opt, prf |-> prf,
                 at |-> "asking", ans |-> "none", tok |-> NoToken]
           same == w.auth.held = w.auth.node
           kept == IF same THEN [w EXCEPT !.auth.owner = i] ELSE IF w.auth.held # NoNode THEN Unlocked(w) ELSE w
           aborted == {p \in w.ops : p.id = w.auth.cur /\ p.at \in {"sent", "answered"}}
           x == IF aborted = {} THEN kept ELSE Over(kept, CHOOSE p \in aborted : TRUE)
           a == [x.auth EXCEPT !.cur = i, !.loading = TRUE, !.creds = FALSE]
           u == [x EXCEPT !.auth = a, !.ops = x.ops \cup {o}]
           v == Begun(w, opt, prf)
<1>0. /\ w.auth \in AuthType /\ w.auth.node \in Node /\ w.auth.cur \in Nat /\ w.ops \subseteq OpType
      /\ \A p \in w.ops : p.id \in Int
  BY TabFields, AuthFields, OpFields
<1>1. i \in Nat /\ (\A p \in w.ops : p.id < i /\ -p.id < i) /\ i > 0
  BY FreshFacts
<1>2. o.id = i /\ o.node = w.auth.node
  OBVIOUS
<1>3. v = IF same THEN Requested(u, o) ELSE u
  BY DEF Begun
<1> HIDE DEF i
<1>4. o \in OpType /\ o.at = "asking" /\ o.tok = NoToken /\ o.ans = "none"
  BY <1>0, <1>1, AuthFields, SortFacts DEF OpType, Sort
<1> HIDE DEF o
<1>5. /\ kept \in Tab /\ kept.ops = w.ops /\ Beside(w, kept) /\ Same(w.auth, kept.auth)
      /\ IF same THEN kept.auth.held = w.auth.held /\ kept.auth.owner = i /\ kept.locks = w.locks
         ELSE /\ kept.auth.held = NoNode
              /\ \A n \in Node : kept.locks[n] = "mine" => w.locks[n] = "mine" /\ n # w.auth.held
  <2>1. CASE same
    <3> DEFINE b == [w.auth EXCEPT !.owner = i]
    <3>1. kept = [w EXCEPT !.auth = b]
      BY <2>1
    <3>2. b \in AuthType /\ Same(w.auth, b) /\ b.held = w.auth.held /\ b.owner = i
      BY <1>0, <1>1 DEF AuthType, Same
    <3> HIDE DEF b, kept
    <3>3. kept \in Tab /\ kept.auth = b /\ kept.ops = w.ops /\ Beside(w, kept) /\ kept.locks = w.locks
      BY <3>1, <3>2 DEF Tab, Beside
    <3> QED BY <2>1, <3>2, <3>3
  <2>2. CASE ~same /\ w.auth.held # NoNode
    BY <2>2, UnlockedFacts DEF Loosens
  <2>3. CASE ~same /\ w.auth.held = NoNode
    BY <2>3, NodeNames DEF Beside, Same
  <2> QED BY <2>1, <2>2, <2>3
<1> HIDE DEF kept
<1>6. /\ x \in Tab /\ x.ops = w.ops /\ Beside(w, x) /\ Same(w.auth, x.auth)
      /\ IF same THEN x.auth.held = w.auth.held /\ x.auth.owner = i /\ x.locks = w.locks
         ELSE /\ x.auth.held = NoNode
              /\ \A n \in Node : x.locks[n] = "mine" => w.locks[n] = "mine" /\ n # w.auth.held
  <2>1. CASE aborted = {}
    BY <1>5, <2>1
  <2>2. CASE aborted # {}
    <3> DEFINE p == CHOOSE p \in aborted : TRUE
    <3>1. p \in aborted
      BY <2>2
    <3>2. x = Over(kept, p)
      BY <2>2
    <3> HIDE DEF p, x
    <3>3. p \in OpType /\ p.id # i
      BY <1>0, <1>1, <3>1
    <3>4. /\ x \in Tab /\ x.ops = kept.ops /\ Beside(kept, x) /\ Same(kept.auth, x.auth)
          /\ IF kept.auth.owner = p.id THEN Loosens(kept, x) ELSE Holds(kept, x)
      BY <1>5, <3>2, <3>3, OverFacts
    <3>5. x.ops = w.ops /\ Beside(w, x) /\ Same(w.auth, x.auth)
      BY <1>5, <3>4 DEF Beside, Same
    <3>6. CASE same
      BY <1>5, <3>3, <3>4, <3>5, <3>6 DEF Holds
    <3>7. CASE ~same
      BY <1>5, <3>4, <3>5, <3>7 DEF Holds, Loosens
    <3> QED BY <3>6, <3>7
  <2> QED BY <2>1, <2>2
<1> HIDE DEF x, aborted
<1>7. a \in AuthType /\ a.cur = i /\ a.held = x.auth.held /\ a.owner = x.auth.owner /\ Same(x.auth, a)
  <2>1. x.auth \in AuthType
    BY <1>6, TabFields
  <2>2. a \in AuthType
    BY <1>1, <2>1 DEF AuthType
  <2>3. a.cur = i /\ a.held = x.auth.held /\ a.owner = x.auth.owner /\ Same(x.auth, a)
    BY <2>1 DEF AuthType, Same
  <2> QED BY <2>2, <2>3
<1> HIDE DEF a
<1>8. /\ u \in Tab /\ u.auth = a /\ u.ops = w.ops \cup {o} /\ u.locks = x.locks /\ Beside(w, u)
      /\ Same(w.auth, u.auth)
  <2>1. x.ops \cup {o} \in SUBSET OpType
    BY <1>0, <1>4, <1>6
  <2>2. u \in Tab /\ u.auth = a /\ u.ops = x.ops \cup {o} /\ u.locks = x.locks /\ Beside(x, u)
    BY <1>6, <1>7, <2>1 DEF Tab, Beside
  <2> QED BY <1>6, <1>7, <2>2 DEF Beside, Same
<1> HIDE DEF u, v
<1>9. Queued(u)
  <2>1. PICK b \in Nat : \A p \in w.ops : p.id \in -b..b
    BY DEF Queued
  <2>2. b + i \in Nat /\ \A p \in u.ops : p.id \in -(b + i)..(b + i)
    BY <1>0, <1>1, <1>2, <1>8, <2>1
  <2>3. \A p \in u.ops : Proper(p)
    BY <1>1, <1>2, <1>4, <1>8 DEF Queued, Proper
  <2>4. \A p, z \in u.ops : p.id = z.id => p = z
    BY <1>0, <1>1, <1>2, <1>8 DEF Queued
  <2>5. \A p, z \in u.ops : p.id = -z.id /\ p.id > 0 => p.at = "closing"
    BY <1>0, <1>1, <1>2, <1>8 DEF Queued
  <2>6. \A p \in u.ops : p.id <= u.auth.cur
    BY <1>0, <1>1, <1>2, <1>7, <1>8
  <2>7. \A p, z \in u.ops : Decided(p) /\ z.at \in {"asking", "crossing"} => p.id < z.id
    BY <1>0, <1>1, <1>2, <1>4, <1>8 DEF Queued, Decided
  <2> QED BY <2>2, <2>3, <2>4, <2>5, <2>6, <2>7 DEF Queued
<1>10. Softer(w, u)
  <2>1. \A p \in u.ops : p.id = u.auth.cur => p.tok = NoToken
    BY <1>0, <1>1, <1>2, <1>4, <1>7, <1>8
  <2> QED BY <1>8, <2>1 DEF Softer, Beside, Same
<1>11. CASE same
  <2>1. Charge(u, o)
    <3>1. o \in u.ops /\ o.id = u.auth.cur
      BY <1>2, <1>7, <1>8
    <3>2. o \notin w.ops
      BY <1>1, <1>2
    <3>3. \A n \in Node : u.locks[n] = "mine" =>
            n = u.auth.held \/ \E p \in u.ops : p # o /\ p.at = "granted" /\ p.node = n
      BY <1>6, <1>7, <1>8, <1>11, <3>2 DEF Guarded
    <3>4. u.auth.owner = o.id /\ \A p \in u.ops : p # o => ~Waiting(p)
      BY <1>0, <1>2, <1>6, <1>7, <1>8, <1>11, NodeNames DEF Guarded
    <3> QED BY <3>1, <3>3, <3>4 DEF Charge
  <2>2. Waiting(o) /\ Scoped(u, s) /\ ~u.auth.out
    BY <1>4, <1>8 DEF Waiting, Scoped, Beside, Same
  <2> DEFINE z == Requested(u, o)
  <2>3. z \in Tab /\ Queued(z) /\ Guarded(z) /\ Softer(u, z) /\ ~z.auth.out /\ z.call = u.call
    BY <1>8, <1>9, <2>1, <2>2, RequestedKeeps
  <2> HIDE DEF z
  <2>4. Softer(w, z)
    BY <1>10, <2>3, SofterTransitive
  <2> QED BY <1>3, <1>8, <1>11, <2>3, <2>4 DEF z, v, Beside
<1>12. CASE ~same
  <2>1. Guarded(u)
    BY <1>6, <1>7, <1>8, <1>12 DEF Guarded
  <2> QED BY <1>3, <1>8, <1>9, <1>10, <1>12, <2>1 DEF v, Beside, Same
<1> QED BY <1>11, <1>12

(***************************************************************************)
(* The end of an operation, and what the rest of the store does.           *)
(***************************************************************************)

LEMMA SofterInv ==
  ASSUME NEW s \in Sort, NEW R \in SUBSET Renewal, NEW m \in Nat, NEW w, Inv(w, s, R, m), NEW v \in Tab,
         Queued(v), Guarded(v), Softer(w, v), ~v.auth.out
  PROVE  Inv(v, s, R, m)
<1>1. Scoped(v, s) /\ Aged(v, s, R, m)
  BY SofterKeeps DEF Inv
<1> QED BY <1>1 DEF Inv, Quiet

\* A change of the store that none of its operations sees.
LEMMA PlainKeeps ==
  ASSUME NEW s \in Sort, NEW R \in SUBSET Renewal, NEW m \in Nat, NEW w, Inv(w, s, R, m), NEW v \in Tab,
         v.ops = w.ops, v.locks = w.locks, v.ws = w.ws, v.net = w.net, v.auth.tok = w.auth.tok, v.auth.cur = w.auth.cur,
         v.auth.held = w.auth.held, v.auth.owner = w.auth.owner, v.auth.timer => w.auth.timer, Quiet(v)
  PROVE  Inv(v, s, R, m)
<1>0. w \in Tab /\ Queued(w) /\ Guarded(w) /\ Scoped(w, s) /\ Aged(w, s, R, m)
  BY DEF Inv
<1>1. Queued(v)
  BY <1>0 DEF Queued
<1>2. Guarded(v)
  BY <1>0 DEF Guarded, Active
<1>3. Scoped(v, s) /\ Aged(v, s, R, m)
  BY <1>0 DEF Scoped, Aged
<1> QED BY <1>1, <1>2, <1>3 DEF Inv

LEMMA CurrentCharge ==
  ASSUME NEW s, NEW R, NEW m, NEW w, Inv(w, s, R, m), NEW o \in w.ops, o.id = w.auth.cur, o.at # "granted"
  PROVE  /\ Charge(w, o) /\ ~w.auth.out /\ o \in OpType /\ o.id # 0 /\ o.id > 0
         /\ w \in Tab /\ Queued(w) /\ Guarded(w) /\ Scoped(w, s) /\ Aged(w, s, R, m)
<1>0. w \in Tab /\ Queued(w) /\ Guarded(w) /\ Scoped(w, s) /\ Quiet(w) /\ Aged(w, s, R, m)
  BY DEF Inv
<1>1. o.id # 0 /\ o \in OpType /\ w.auth.cur \in Nat
  BY <1>0, TabFields, AuthFields DEF Queued, Proper
<1>2. Charge(w, o)
  BY <1>0, <1>1 DEF Charge, Guarded
<1>3. ~w.auth.out
  BY <1>0, <1>1 DEF Quiet
<1> QED BY <1>0, <1>1, <1>2, <1>3

LEMMA ConnectKeeps ==
  ASSUME NEW s \in Sort, NEW R \in SUBSET Renewal, NEW m \in Nat, NEW w, Inv(w, s, R, m), ~w.auth.out,
         NEW opt \in {"plain", "again", "grant", "proof"}, NEW prf \in Sort
  PROVE  LET v == Connect(w, opt, prf)
         IN  Inv(v, s, R, m) /\ ~v.auth.out /\ v.call = w.call
<1> DEFINE b == Begun(w, opt, prf)
<1>1. b \in Tab /\ Queued(b) /\ Guarded(b) /\ Softer(w, b) /\ ~b.auth.out /\ b.call = w.call
  BY BegunKeeps DEF Inv
<1>2. Connect(w, opt, prf) \in {w, b}
  BY DEF Connect
<1> HIDE DEF b
<1>3. Inv(b, s, R, m)
  BY <1>1, SofterInv
<1> QED BY <1>1, <1>2, <1>3

LEMMA PendSet ==
  ASSUME NEW s \in Sort, NEW R \in SUBSET Renewal, NEW m \in Nat, NEW w, Inv(w, s, R, m), ~w.auth.out,
         NEW t \in Sort
  PROVE  LET v == [w EXCEPT !.auth.pend = t]
         IN  Inv(v, s, R, m) /\ ~v.auth.out /\ v.call = w.call
<1> DEFINE a == [w.auth EXCEPT !.pend = t]
           v == [w EXCEPT !.auth = a]
<1>1. w \in Tab /\ w.auth \in AuthType
  BY TabFields DEF Inv
<1>2. /\ a \in AuthType /\ a.tok = w.auth.tok /\ a.cur = w.auth.cur /\ a.held = w.auth.held /\ a.owner = w.auth.owner
      /\ Same(w.auth, a)
  BY <1>1 DEF AuthType, Sort, Same
<1> HIDE DEF a
<1>3. v \in Tab /\ v.auth = a /\ v.ops = w.ops /\ v.locks = w.locks /\ v.ws = w.ws /\ v.net = w.net /\ v.call = w.call
  BY <1>1, <1>2 DEF Tab
<1>4. [w EXCEPT !.auth.pend = t] = v
  BY DEF a
<1> HIDE DEF v
<1>5. ~v.auth.out /\ (v.auth.timer => w.auth.timer)
  BY <1>2, <1>3 DEF Same
<1>6. Inv(v, s, R, m)
  BY <1>2, <1>3, <1>5, PlainKeeps DEF Quiet
<1> QED BY <1>3, <1>4, <1>5, <1>6

\* A store that holds no lock asks for one, whatever the operation is for.
LEMMA ConnectAsks ==
  ASSUME NEW w \in Tab, Queued(w), w.auth.held = NoNode, w.auth.cur = 0, NEW prf \in Sort
  PROVE  LET v == Connect(w, "proof", prf)
         IN  \A o \in v.ops : o.id = v.auth.cur => o.at = "asking"
<1> DEFINE i == FreshId(w)
           o == [id |-> i, node |-> w.auth.node, pass |-> w.auth.pass, opt |-> "proof", prf |-> prf,
                 at |-> "asking", ans |-> "none", tok |-> NoToken]
           a == [w.auth EXCEPT !.cur = i, !.loading = TRUE, !.creds = FALSE]
           u == [w EXCEPT !.auth = a, !.ops = w.ops \cup {o}]
<1>1. w.auth \in AuthType /\ w.auth.node \in Node /\ \A p \in w.ops : p.id # 0
  BY TabFields, AuthFields DEF Queued, Proper
<1>2. i \in Nat /\ \A p \in w.ops : p.id < i
  BY FreshFacts
<1>3. w.auth.held # w.auth.node /\ {p \in w.ops : p.id = w.auth.cur /\ p.at \in {"sent", "answered"}} = {}
  BY <1>1, NodeNames
<1>4. Begun(w, "proof", prf) = u
  BY <1>3 DEF Begun
<1>5. Connect(w, "proof", prf) = u
  BY <1>1, <1>4 DEF Connect, Ungranted
<1>6. a.cur = i /\ o.at = "asking"
  BY <1>1 DEF AuthType
<1> HIDE DEF i, o, a
<1>7. u.auth = a /\ u.ops = w.ops \cup {o}
  BY DEF Tab
<1> HIDE DEF u
<1>8. \A p \in w.ops : p.id # i
  <2> SUFFICES ASSUME NEW p \in w.ops PROVE p.id # i
    OBVIOUS
  <2>1. p.id \in Int
    BY TabFields, OpFields
  <2> QED BY <1>2, <2>1
<1> QED BY <1>5, <1>6, <1>7, <1>8

\* An operation that asks still asks when its request crosses the release.
LEMMA CrossedKeeps ==
  ASSUME NEW s \in Sort, NEW R \in SUBSET Renewal, NEW m \in Nat, NEW w, Inv(w, s, R, m), ~w.auth.out,
         \A o \in w.ops : o.id = w.auth.cur => o.at = "asking"
  PROVE  Inv(Crossed(w), s, R, m) /\ ~Crossed(w).auth.out
<1> DEFINE F(o) == IF o.id = w.auth.cur THEN [o EXCEPT !.at = "crossing"] ELSE o
           O == {F(o) : o \in w.ops}
           v == [w EXCEPT !.ops = O]
<1>0. w \in Tab /\ Queued(w) /\ Guarded(w) /\ Scoped(w, s) /\ Quiet(w) /\ Aged(w, s, R, m) /\ w.ops \subseteq OpType
  BY TabFields DEF Inv
<1>1. \A o \in w.ops :
        /\ F(o) \in OpType /\ F(o).id = o.id /\ F(o).tok = o.tok /\ F(o).ans = o.ans /\ F(o).node = o.node
        /\ F(o).at = o.at \/ (o.at = "asking" /\ F(o).at = "crossing")
  <2> SUFFICES ASSUME NEW o \in w.ops
               PROVE  /\ F(o) \in OpType /\ F(o).id = o.id /\ F(o).tok = o.tok /\ F(o).ans = o.ans /\ F(o).node = o.node
                      /\ F(o).at = o.at \/ (o.at = "asking" /\ F(o).at = "crossing")
    OBVIOUS
  <2>1. o \in OpType
    BY <1>0
  <2>2. CASE o.id = w.auth.cur
    BY <2>1, <2>2 DEF OpType
  <2>3. CASE o.id # w.auth.cur
    BY <2>1, <2>3
  <2> QED BY <2>2, <2>3
<1>2. Crossed(w) = v
  BY DEF Crossed
<1> HIDE DEF F
<1>3. (\A p \in O : \E o \in w.ops : p = F(o)) /\ (\A o \in w.ops : F(o) \in O) /\ O \subseteq OpType
  BY <1>1
<1> HIDE DEF O
<1>4. /\ v \in Tab /\ v.auth = w.auth /\ v.ops = O /\ v.locks = w.locks /\ v.ws = w.ws /\ v.net = w.net /\ v.call = w.call
  BY <1>0, <1>3 DEF Tab
<1> HIDE DEF v
<1>5. Queued(v)
  <2>1. PICK b \in Nat : \A o \in w.ops : o.id \in -b..b
    BY <1>0 DEF Queued
  <2>2. \A p \in v.ops : p.id \in -b..b
    BY <1>1, <1>3, <1>4, <2>1
  <2>3. \A p \in v.ops : Proper(p)
    BY <1>0, <1>1, <1>3, <1>4 DEF Queued, Proper
  <2>4. \A p, q \in v.ops : p.id = q.id => p = q
    BY <1>0, <1>1, <1>3, <1>4 DEF Queued
  <2>5. \A p, q \in v.ops : p.id = -q.id /\ p.id > 0 => p.at = "closing"
    BY <1>0, <1>1, <1>3, <1>4 DEF Queued
  <2>6. v.auth.cur # 0 => \A p \in v.ops : p.id <= v.auth.cur
    BY <1>0, <1>1, <1>3, <1>4 DEF Queued
  <2>7. \A p, q \in v.ops : Decided(p) /\ q.at \in {"asking", "crossing"} => p.id < q.id
    BY <1>0, <1>1, <1>3, <1>4 DEF Queued, Decided
  <2> QED BY <2>2, <2>3, <2>4, <2>5, <2>6, <2>7 DEF Queued
<1>6. Guarded(v)
  <2>1. \A n \in Node : v.locks[n] = "mine" => n = v.auth.held \/ \E p \in v.ops : p.at = "granted" /\ p.node = n
    <3> SUFFICES ASSUME NEW n \in Node, w.locks[n] = "mine", n # w.auth.held
                 PROVE  \E p \in O : p.at = "granted" /\ p.node = n
      BY <1>4
    <3>1. PICK o \in w.ops : o.at = "granted" /\ o.node = n
      BY <1>0 DEF Guarded
    <3>2. F(o) \in O /\ F(o).at = "granted" /\ F(o).node = n
      BY <1>1, <1>3, <3>1
    <3> QED BY <3>2
  <2>2. v.auth.tok = NoToken /\ v.auth.held # NoNode => \E p \in v.ops : p.id = v.auth.owner /\ Active(v.auth, p)
    <3> SUFFICES ASSUME w.auth.tok = NoToken, w.auth.held # NoNode
                 PROVE  \E p \in O : p.id = w.auth.owner /\ Active(w.auth, p)
      BY <1>4
    <3>1. PICK o \in w.ops : o.id = w.auth.owner /\ Active(w.auth, o)
      BY <1>0 DEF Guarded
    <3>2. F(o) \in O /\ F(o).id = o.id /\ Active(w.auth, F(o))
      BY <1>1, <1>3, <3>1 DEF Active
    <3> QED BY <3>1, <3>2
  <2>3. v.auth.held # NoNode => \A p \in v.ops : ~Waiting(p)
    BY <1>0, <1>1, <1>3, <1>4 DEF Guarded, Waiting
  <2> QED BY <1>0, <1>4, <2>1, <2>2, <2>3 DEF Guarded
<1>7. Scoped(v, s) /\ Quiet(v)
  BY <1>0, <1>4 DEF Scoped, Quiet
<1>8. Aged(v, s, R, m)
  <2>1. \A p \in v.ops : p.id = v.auth.cur /\ p.tok # NoToken =>
          /\ p.tok.sid <= m /\ s.sid < p.tok.sid /\ v.auth.tok.sid < p.tok.sid
          /\ \A r \in R : r.tok.sid < p.tok.sid
    BY <1>0, <1>1, <1>3, <1>4 DEF Aged
  <2> QED BY <1>0, <1>4, <2>1 DEF Aged
<1> QED BY <1>2, <1>4, <1>5, <1>6, <1>7, <1>8 DEF Inv

LEMMA AuthInvalidKeeps ==
  ASSUME NEW s \in Sort, NEW R \in SUBSET Renewal, NEW m \in Nat, NEW w, Inv(w, s, R, m)
  PROVE  Inv(AuthInvalid(w), s, R, m)
<1> DEFINE a == w.auth
           prf == IF a.tok = NoToken THEN a.pend ELSE IF a.proof THEN a.tok ELSE NoToken
           v == Invalidated(w)
           x == [v EXCEPT !.auth.pend = prf]
           u == Connect(x, "proof", prf)
           z == IF a.held = a.node THEN Crossed(u) ELSE u
           c == [v.auth EXCEPT !.creds = TRUE, !.loading = FALSE]
           y == [v EXCEPT !.auth = c]
<1>0. w \in Tab /\ Quiet(w) /\ a \in AuthType
  BY TabFields DEF Inv
<1>1. prf \in Sort /\ (a.out => prf = NoToken)
  BY <1>0, AuthFields, SortFacts DEF Quiet
<1>2. /\ prf = NoToken => AuthInvalid(w) = y
      /\ prf # NoToken => AuthInvalid(w) \in {z, [z EXCEPT !.auth.pend = NoToken]}
  BY DEF AuthInvalid
<1> HIDE DEF prf
<1>3. Inv(v, s, R, m) /\ v.auth.out = w.auth.out /\ v.call = w.call /\ v.auth.held = NoNode /\ v.auth.cur = 0
  <2> HIDE DEF a, x, u, z, c, y
  <2>1. Inv(Invalidated(w), s, R, m) /\ SignedOff(w, Invalidated(w))
    BY InvalidatedKeeps
  <2> QED BY <2>1 DEF SignedOff, Beside
<1> HIDE DEF v
<1>4. v \in Tab /\ v.auth \in AuthType /\ Quiet(v)
  BY <1>3, TabFields DEF Inv
<1>5. CASE prf = NoToken
  <2>1. /\ c \in AuthType /\ c.tok = v.auth.tok /\ c.cur = v.auth.cur /\ c.held = v.auth.held /\ c.owner = v.auth.owner
        /\ c.pend = v.auth.pend
    BY <1>4 DEF AuthType
  <2>2. c.timer = v.auth.timer /\ c.out = v.auth.out
    BY <1>4 DEF AuthType
  <2> HIDE DEF c
  <2>3. y \in Tab /\ y.auth = c /\ y.ops = v.ops /\ y.locks = v.locks /\ y.ws = v.ws /\ y.net = v.net /\ y.call = v.call
    BY <1>4, <2>1 DEF Tab
  <2> HIDE DEF y
  <2>4. Quiet(y)
    BY <1>4, <2>1, <2>2, <2>3 DEF Quiet
  <2>5. Inv(y, s, R, m)
    BY <1>3, <2>1, <2>2, <2>3, <2>4, PlainKeeps
  <2> QED BY <1>2, <1>5, <2>5
<1>6. CASE prf # NoToken
  <2>1. ~v.auth.out
    BY <1>1, <1>3, <1>6
  <2>2. Inv(x, s, R, m) /\ ~x.auth.out
    BY <1>1, <1>3, <2>1, PendSet
  <2>6. x.auth.held = NoNode /\ x.auth.cur = 0
    BY <1>3, <1>4 DEF Tab, AuthType
  <2> HIDE DEF x
  <2>3. Inv(u, s, R, m) /\ ~u.auth.out
    <3>1. "proof" \in {"plain", "again", "grant", "proof"}
      OBVIOUS
    <3> QED BY <1>1, <2>2, <3>1, ConnectKeeps
  <2>7. \A o \in u.ops : o.id = u.auth.cur => o.at = "asking"
    <3>1. x \in Tab /\ Queued(x)
      BY <2>2 DEF Inv
    <3> QED BY <1>1, <2>6, <3>1, ConnectAsks
  <2> HIDE DEF u
  <2>4. Inv(z, s, R, m) /\ ~z.auth.out
    BY <2>3, <2>7, CrossedKeeps
  <2> HIDE DEF z
  <2>5. Inv([z EXCEPT !.auth.pend = NoToken], s, R, m)
    BY <2>4, SortFacts, PendSet
  <2> QED BY <1>2, <1>6, <2>4, <2>5
<1> QED BY <1>5, <1>6

(***************************************************************************)
(* One operation leaves the store, or moves on.                            *)
(***************************************************************************)

\* The operation whose end gives up its lock.
LEMMA OverKeeps ==
  ASSUME NEW s \in Sort, NEW w \in Tab, Queued(w), NEW o \in w.ops,
         \/ Guarded(w) /\ o.at # "granted"
         \/ /\ w.auth.owner = o.id
            /\ \A n \in Node : w.locks[n] = "mine" =>
                n = w.auth.held \/ \E p \in w.ops : p # o /\ p.at = "granted" /\ p.node = n
  PROVE  LET v == [Over(w, o) EXCEPT !.ops = @ \ {o}]
         IN  /\ v \in Tab /\ Queued(v) /\ Guarded(v) /\ Softer(w, v) /\ Beside(w, v) /\ Same(w.auth, v.auth)
             /\ v.auth.pend \in {w.auth.pend, NoToken} /\ v.auth.cur \in {w.auth.cur, 0}
<1> DEFINE y == Over(w, o)
           v == [y EXCEPT !.ops = y.ops \ {o}]
<1>0. o \in OpType /\ o.id # 0
  BY TabFields DEF Queued, Proper
<1>1. /\ y \in Tab /\ y.ops = w.ops /\ Beside(w, y) /\ Same(w.auth, y.auth)
      /\ y.auth.cur = (IF w.auth.cur = o.id THEN 0 ELSE w.auth.cur)
      /\ y.auth.pend \in {w.auth.pend, NoToken}
      /\ IF w.auth.owner = o.id THEN Loosens(w, y) ELSE Holds(w, y)
  BY <1>0, OverFacts
<1> HIDE DEF y
<1>2. v \in Tab /\ v.auth = y.auth /\ v.ops = w.ops \ {o} /\ v.locks = y.locks /\ Beside(w, v)
  <2>1. y.ops \ {o} \in SUBSET OpType
    BY <1>1, TabFields
  <2> QED BY <1>1, <2>1 DEF Tab, Beside
<1> HIDE DEF v
<1>3. Queued(v)
  BY <1>1, <1>2 DEF Queued
<1>4. Guarded(v)
  <2>1. CASE w.auth.owner = o.id
    <3>1. v.auth.held = NoNode /\ \A n \in Node : v.locks[n] = "mine" => w.locks[n] = "mine" /\ n # w.auth.held
      BY <1>1, <1>2, <2>1 DEF Loosens
    <3>2. \A n \in Node : w.locks[n] = "mine" /\ n # w.auth.held => \E p \in v.ops : p.at = "granted" /\ p.node = n
      BY <1>2 DEF Guarded
    <3> QED BY <3>1, <3>2 DEF Guarded
  <2>2. CASE w.auth.owner # o.id
    <3>1. Guarded(w) /\ o.at # "granted" /\ Holds(w, y)
      BY <1>1, <2>2
    <3>2. \A q \in w.ops : q.id = w.auth.owner /\ Active(w.auth, q) => q \in v.ops /\ Active(v.auth, q)
      BY <1>1, <1>2, <2>2 DEF Active
    <3> QED BY <1>1, <1>2, <3>1, <3>2 DEF Guarded, Holds, Same
  <2> QED BY <2>1, <2>2
<1>5. Softer(w, v)
  <2>1. \A q \in v.ops : q.id = v.auth.cur => q.id = w.auth.cur /\ q \in w.ops
    BY <1>1, <1>2 DEF Queued, Proper
  <2> QED BY <1>1, <1>2, <2>1 DEF Softer, Same, Beside
<1> QED BY <1>1, <1>2, <1>3, <1>4, <1>5 DEF v, y

LEMMA CommittedKeeps ==
  ASSUME NEW s \in Sort, NEW R \in SUBSET Renewal, NEW m \in Nat, NEW w, Inv(w, s, R, m),
         NEW o \in w.ops, o.id = w.auth.cur, o.at = "answered", o.tok # NoToken
  PROVE  Inv(Committed(w, o), s, R, m)
<1> DEFINE a == [w.auth EXCEPT !.tok = o.tok, !.proof = (o.ans = "ok"), !.pend = NoToken, !.loading = FALSE,
                               !.creds = FALSE, !.blocked = "no", !.timer = TRUE, !.cur = 0]
           v == Committed(w, o)
<1>0. /\ Charge(w, o) /\ ~w.auth.out /\ o \in OpType /\ o.id # 0 /\ o.id > 0
      /\ w \in Tab /\ Queued(w) /\ Guarded(w) /\ Scoped(w, s) /\ Aged(w, s, R, m)
  BY CurrentCharge
<1>1. w.auth \in AuthType /\ o.tok \in Sort /\ w.ops \ {o} \in SUBSET OpType
  BY <1>0, TabFields, OpFields
<1>2. a \in AuthType /\ a.tok = o.tok /\ a.cur = 0 /\ a.held = w.auth.held
      /\ a.owner = w.auth.owner /\ a.out = w.auth.out
  <2> DEFINE k == (o.ans = "ok")
             b == [w.auth EXCEPT !.tok = o.tok, !.proof = k, !.pend = NoToken]
             c == [b EXCEPT !.loading = FALSE, !.creds = FALSE, !.blocked = "no"]
  <2>0. w.auth \in AuthType
    BY <1>1
  <2>1. a = [c EXCEPT !.timer = TRUE, !.cur = 0]
    BY ONLY <2>0 DEF AuthType
  <2>2. k \in BOOLEAN /\ NoToken \in Sort
    BY SortFacts
  <2> HIDE DEF a, k
  <2>5. o.tok \in Sort
    BY <1>1
  <2>6. b.tok = o.tok /\ b.held = w.auth.held /\ b.owner = w.auth.owner /\ b.out = w.auth.out
    BY ONLY <2>0 DEF AuthType
  <2>7. b \in AuthType
    <3>1. ASSUME NEW t \in Sort, NEW p \in BOOLEAN
          PROVE  [w.auth EXCEPT !.tok = t, !.proof = p, !.pend = NoToken] \in AuthType
      BY ONLY <2>0, <2>2, <3>1 DEF AuthType, Sort
    <3> QED BY <2>2, <2>5, <3>1
  <2>3. /\ b \in AuthType /\ b.tok = o.tok /\ b.held = w.auth.held
        /\ b.owner = w.auth.owner /\ b.out = w.auth.out
    BY <2>6, <2>7
  <2> HIDE DEF b
  <2>4. /\ c \in AuthType /\ c.tok = o.tok /\ c.held = w.auth.held
        /\ c.owner = w.auth.owner /\ c.out = w.auth.out
    BY <2>3 DEF AuthType
  <2> HIDE DEF c
  <2> QED BY <2>1, <2>4 DEF AuthType
<1>3. a.tok = o.tok /\ a.cur = 0 /\ a.held = w.auth.held /\ a.owner = w.auth.owner /\ a.out = w.auth.out
  BY <1>2
<1>4. v = [w EXCEPT !.auth = a, !.ops = w.ops \ {o}]
  BY DEF Committed
<1> HIDE DEF a, v
<1>5. v \in Tab /\ v.auth = a /\ v.ops = w.ops \ {o} /\ v.locks = w.locks /\ v.ws = w.ws /\ v.net = w.net
  BY <1>0, <1>1, <1>2, <1>4 DEF Tab
<1>6. Queued(v)
  BY <1>0, <1>3, <1>5 DEF Queued
<1>7. Guarded(v)
  BY <1>0, <1>3, <1>5 DEF Guarded
<1>8. /\ o.tok.sid <= m /\ s.sid < o.tok.sid /\ w.auth.tok.sid < o.tok.sid
      /\ \A r \in R : r.tok.sid < o.tok.sid
  BY <1>0 DEF Aged
<1>9. Scoped(v, s)
  <2>1. v.auth.tok # s
    BY <1>1, <1>3, <1>5, <1>8, SortFacts
  <2> QED BY <1>0, <1>5, <2>1 DEF Scoped
<1>10. Aged(v, s, R, m)
  <2>1. v.auth.tok = o.tok /\ o.tok.sid \in Int /\ s.sid \in Int /\ \A r \in R : r.tok.sid \in Int
    <3>1. \A r \in R : r.tok \in Token
      BY DEF Renewal
    <3> QED BY <1>1, <1>3, <1>5, <3>1, SortFacts
  <2>2. \A p \in v.ops : p.id # v.auth.cur
    BY <1>0, <1>3, <1>5 DEF Queued, Proper
  <2>3. \A r \in R : r.tok.sid # v.auth.tok.sid
    BY <1>8, <2>1
  <2>4. s.sid <= m /\ (\A r \in R : r.tok.sid <= m) /\ \A r \in R : r.new # NoToken => r.new.sid = r.tok.sid /\ r.new.ver = r.tok.ver + 1
    BY <1>0 DEF Aged
  <2> QED BY <1>8, <2>1, <2>2, <2>3, <2>4 DEF Aged, Older
<1>11. Quiet(v)
  BY <1>0, <1>3, <1>5 DEF Quiet
<1> QED BY <1>5, <1>6, <1>7, <1>9, <1>10, <1>11 DEF Inv, v

LEMMA FailedInv ==
  ASSUME NEW s \in Sort, NEW R \in SUBSET Renewal, NEW m \in Nat, NEW w, Inv(w, s, R, m),
         NEW o \in w.ops, o.id = w.auth.cur, o.at # "granted", NEW c \in BOOLEAN, NEW b \in {"keep", "no", "soon", "full"}
  PROVE  Inv(Failed(w, o, c, b), s, R, m)
<1> DEFINE v == Failed(w, o, c, b)
<1>0. /\ Charge(w, o) /\ ~w.auth.out /\ w \in Tab /\ Queued(w) /\ Scoped(w, s)
  BY CurrentCharge
<1>1. v \in Tab /\ Queued(v) /\ Guarded(v) /\ Softer(w, v) /\ ~v.auth.out
  BY <1>0, FailedKeeps
<1> HIDE DEF v
<1>2. Inv(v, s, R, m)
  BY <1>1, SofterInv
<1> QED BY <1>2 DEF v

LEMMA AnsweredKeeps ==
  ASSUME NEW s \in Sort, NEW R \in SUBSET Renewal, NEW m \in Nat, NEW w, Inv(w, s, R, m),
         NEW o \in w.ops, o.id = w.auth.cur, o.at = "answered"
  PROVE  Inv(Answered(w, o), s, R, m)
<1>0. o \in OpType /\ o.ans # "none" /\ (o.ans \in {"ok", "proofless"} => o.tok # NoToken)
  BY CurrentCharge DEF Queued, Proper
<1>1. o.ans \in {"ok", "proofless", "busy", "full", "refused", "badproof", "error"} /\ o.at # "granted"
  BY <1>0, OpFields
<1>2. CASE o.ans \in {"ok", "proofless"}
  <2>1. Answered(w, o) = Committed(w, o)
    BY <1>2 DEF Answered
  <2> QED BY <1>0, <1>2, <2>1, CommittedKeeps
<1>3. CASE o.ans \in {"busy", "full", "refused", "badproof", "error"}
  <2>1. \E c \in BOOLEAN, b \in {"keep", "no", "soon", "full"} : Answered(w, o) = Failed(w, o, c, b)
    BY <1>3 DEF Answered
  <2> QED BY <1>1, <2>1, FailedInv
<1> QED BY <1>1, <1>2, <1>3

\* A request that no one waits for any more ends.
LEMMA RemovedKeeps ==
  ASSUME NEW s \in Sort, NEW R \in SUBSET Renewal, NEW m \in Nat, NEW w, Inv(w, s, R, m),
         NEW o \in w.ops, o.id # w.auth.cur, o.at \in {"sent", "answered"}, NEW v \in Tab,
         v.ops = w.ops \ {o}, v.auth = w.auth, v.locks = w.locks, Beside(w, v)
  PROVE  Inv(v, s, R, m)
<1>0. w \in Tab /\ Queued(w) /\ Guarded(w) /\ Scoped(w, s) /\ Quiet(w) /\ Aged(w, s, R, m)
  BY DEF Inv
<1>1. Queued(v)
  BY <1>0 DEF Queued
<1>2. Guarded(v)
  <2>1. ~Active(w.auth, o)
    BY DEF Active
  <2> QED BY <1>0, <2>1 DEF Guarded
<1>3. Scoped(v, s) /\ Quiet(v) /\ Aged(v, s, R, m)
  BY <1>0 DEF Scoped, Quiet, Aged, Beside
<1> QED BY <1>1, <1>2, <1>3 DEF Inv

\* The token of the answer to the current operation is newer than all that are known.
Newer(w, g, s, R, m) ==
    g.id = w.auth.cur /\ g.tok # NoToken =>
        /\ g.tok.sid <= m /\ s.sid < g.tok.sid /\ w.auth.tok.sid < g.tok.sid
        /\ \A r \in R : r.tok.sid < g.tok.sid

LEMMA SwappedKeeps ==
  ASSUME NEW s \in Sort, NEW R \in SUBSET Renewal, NEW m \in Nat, NEW w, Inv(w, s, R, m),
         NEW o \in w.ops, NEW g \in OpType, g.id = o.id, g.node = o.node, Proper(g),
         \/ o.at \in {"sent", "answered"} /\ g.at = "answered"
         \/ /\ o.at \in {"asking", "crossing"} /\ g.at \in {"granted", "denied"}
            /\ \A p \in w.ops : p.at \in {"asking", "crossing"} => o.id <= p.id,
         NEW v \in Tab, v.ops = (w.ops \ {o}) \cup {g}, v.auth = w.auth, Beside(w, v),
         \A n \in Node : v.locks[n] = "mine" => w.locks[n] = "mine" \/ (g.at = "granted" /\ n = g.node),
         NEW k \in Nat, k >= m, Newer(w, g, s, R, k)
  PROVE  Inv(v, s, R, k)
<1>0. w \in Tab /\ Queued(w) /\ Guarded(w) /\ Scoped(w, s) /\ Quiet(w) /\ Aged(w, s, R, m)
  BY DEF Inv
<1>1. o \in OpType /\ o.id # 0 /\ o.at # "closing" /\ \A p \in w.ops : p \in OpType /\ p.id \in Int
  BY <1>0, TabFields, OpFields DEF Queued, Proper
<1>2. \A p \in v.ops : p = g \/ (p \in w.ops /\ p # o /\ p.id # o.id)
  BY <1>0 DEF Queued
<1>3. g \in v.ops /\ \A p \in w.ops : p # o => p \in v.ops
  OBVIOUS
<1>4. Queued(v)
  <2>1. PICK b \in Nat : \A p \in w.ops : p.id \in -b..b
    BY <1>0 DEF Queued
  <2>2. \A p \in v.ops : p.id \in -b..b
    BY <1>2, <2>1
  <2>3. \A p \in v.ops : Proper(p)
    BY <1>0, <1>2 DEF Queued
  <2>4. \A p, z \in v.ops : p.id = z.id => p = z
    BY <1>0, <1>2 DEF Queued
  <2>5. \A p, z \in v.ops : p.id = -z.id /\ p.id > 0 => p.at = "closing"
    <3>1. \A z \in w.ops : o.id > 0 => o.id # -z.id
      BY <1>0, <1>1 DEF Queued
    <3> QED BY <1>0, <1>1, <1>2, <3>1 DEF Queued
  <2>6. v.auth.cur # 0 => \A p \in v.ops : p.id <= v.auth.cur
    BY <1>0, <1>2 DEF Queued
  <2>7. \A p, z \in v.ops : Decided(p) /\ z.at \in {"asking", "crossing"} => p.id < z.id
    <3>1. CASE g.at = "answered"
      BY <1>0, <1>2, <3>1 DEF Queued, Decided
    <3>2. CASE o.at \in {"asking", "crossing"} /\ g.at \in {"granted", "denied"} /\ \A p \in w.ops : p.at \in {"asking", "crossing"} => o.id <= p.id
      <4>1. \A z \in v.ops : z.at \in {"asking", "crossing"} => z \in w.ops /\ o.id < z.id
        BY <1>1, <1>2, <3>2
      <4> QED BY <1>0, <1>2, <4>1 DEF Queued, Decided
    <3> QED BY <3>1, <3>2
  <2> QED BY <2>1, <2>2, <2>3, <2>4, <2>5, <2>6, <2>7 DEF Queued
<1>5. Guarded(v)
  <2>1. o.at # "granted"
    OBVIOUS
  <2>2. \A n \in Node : v.locks[n] = "mine" => n = v.auth.held \/ \E p \in v.ops : p.at = "granted" /\ p.node = n
    BY <1>0, <1>3, <2>1 DEF Guarded
  <2>3. o.id = w.auth.owner /\ Active(w.auth, o) => Active(v.auth, g)
    BY DEF Active
  <2>4. w.auth.tok = NoToken /\ w.auth.held # NoNode => \E p \in v.ops : p.id = w.auth.owner /\ Active(v.auth, p)
    BY <1>0, <1>3, <2>3 DEF Guarded
  <2>5. w.auth.held # NoNode => \A p \in v.ops : ~Waiting(p)
    BY <1>0, <1>2 DEF Guarded, Waiting
  <2> QED BY <1>0, <2>2, <2>4, <2>5 DEF Guarded
<1>6. Scoped(v, s) /\ Quiet(v)
  BY <1>0 DEF Scoped, Quiet, Beside
<1>7. Aged(v, s, R, k)
  <2>0. w.auth.tok.sid \in Int /\ s.sid \in Int /\ (\A r \in R : r.tok.sid \in Int) /\ \A p \in w.ops : p.tok.sid \in Int
    <3>1. \A r \in R : r.tok \in Token
      BY DEF Renewal
    <3>2. w.auth.tok \in Sort /\ \A p \in w.ops : p.tok \in Sort
      BY <1>0, <1>1, TabFields, AuthFields, OpFields
    <3> QED BY <3>1, <3>2, SortFacts
  <2>1. w.auth.tok.sid <= k /\ s.sid <= k /\ \A r \in R : r.tok.sid <= k
    BY <1>0, <2>0 DEF Aged
  <2>2. \A p \in v.ops : p.id = v.auth.cur /\ p.tok # NoToken =>
          /\ p.tok.sid <= k /\ s.sid < p.tok.sid /\ w.auth.tok.sid < p.tok.sid
          /\ \A r \in R : r.tok.sid < p.tok.sid
    <3> SUFFICES ASSUME NEW p \in v.ops, p.id = v.auth.cur, p.tok # NoToken
                 PROVE  /\ p.tok.sid <= k /\ s.sid < p.tok.sid /\ w.auth.tok.sid < p.tok.sid
                        /\ \A r \in R : r.tok.sid < p.tok.sid
      OBVIOUS
    <3>1. CASE p = g
      BY <3>1 DEF Newer
    <3>2. CASE p \in w.ops
      <4>1. /\ p.tok.sid <= m /\ s.sid < p.tok.sid /\ w.auth.tok.sid < p.tok.sid
            /\ \A r \in R : r.tok.sid < p.tok.sid
        BY <1>0, <3>2 DEF Aged
      <4> QED BY <2>0, <3>2, <4>1
    <3> QED BY <1>2, <3>1, <3>2
  <2> QED BY <1>0, <2>1, <2>2 DEF Aged
<1> QED BY <1>4, <1>5, <1>6, <1>7 DEF Inv

(***************************************************************************)
(* The actions of the store.                                               *)
(***************************************************************************)

LEMMA MovesNow ==
  ASSUME NEW w \in Tab, Moves(w)
  PROVE  Now' = w
BY DEF Moves, Now, Tab

LEMMA TabKept ==
  ASSUME ClientInv, NEW w, Inv(w, seen, renews, minted), Moves(w), UNCHANGED Outside
  PROVE  ClientInv'
<1>1. Now' = w
  BY MovesNow DEF Inv
<1> QED BY <1>1 DEF ClientInv, Outside

\* What the lemmas on the record of a tab ask for.
LEMMA Given ==
  ASSUME ClientInv
  PROVE  /\ Inv(Now, seen, renews, minted) /\ Now \in Tab /\ Queued(Now) /\ Guarded(Now)
         /\ Scoped(Now, seen) /\ Quiet(Now) /\ Aged(Now, seen, renews, minted)
         /\ seen \in Sort /\ renews \in SUBSET Renewal /\ minted \in Nat
         /\ Now.auth = auth /\ Now.ops = ops /\ Now.locks = locks /\ Now.rels = rels
         /\ Now.ws = ws /\ Now.net = net /\ Now.call = call
<1>1. minted \in Nat
  BY ClientBounds DEF ClientInv
<1> QED BY <1>1 DEF ClientInv, Inv, Now

LEMMA GivenTypes ==
  ASSUME ClientInv
  PROVE  /\ auth \in AuthType /\ ops \subseteq OpType /\ locks \in [Node -> {"free", "mine", "other"}]
         /\ rels \subseteq Asked /\ ws \in SocketType /\ net \in NetType /\ call \in Fetch
         /\ auth.tok \in Sort /\ auth.pend \in Sort /\ auth.cur \in Nat
<1>1. /\ auth \in AuthType /\ ops \subseteq OpType /\ locks \in [Node -> {"free", "mine", "other"}]
      /\ rels \subseteq Asked /\ ws \in SocketType /\ net \in NetType /\ call \in Fetch
  BY Given, TabFields
<1> QED BY <1>1, AuthFields

LEMMA InKeeps ==
  ASSUME ClientInv
  PROVE  LET v == [Now EXCEPT !.auth.out = FALSE]
         IN  Inv(v, seen, renews, minted) /\ ~v.auth.out /\ v.call = call
<1> DEFINE w == Now
           a == [w.auth EXCEPT !.out = FALSE]
           v == [w EXCEPT !.auth = a]
<1>1. /\ Inv(w, seen, renews, minted) /\ w \in Tab /\ seen \in Sort /\ renews \in SUBSET Renewal /\ minted \in Nat
      /\ w.auth = auth /\ w.call = call /\ w.auth \in AuthType
  BY Given, TabFields
<1>2. [Now EXCEPT !.auth.out = FALSE] = v
  OBVIOUS
<1> HIDE DEF w
<1>3. /\ a \in AuthType /\ a.tok = w.auth.tok /\ a.cur = w.auth.cur /\ a.held = w.auth.held /\ a.owner = w.auth.owner
  BY <1>1 DEF AuthType
<1>4. a.out = FALSE /\ a.timer = w.auth.timer
  BY <1>1 DEF AuthType
<1> HIDE DEF a
<1>5. v \in Tab /\ v.auth = a /\ v.ops = w.ops /\ v.locks = w.locks /\ v.ws = w.ws /\ v.net = w.net /\ v.call = w.call
  BY <1>1, <1>3 DEF Tab
<1> HIDE DEF v
<1>6. Quiet(v)
  BY <1>4, <1>5 DEF Quiet
<1>7. Inv(v, seen, renews, minted)
  BY <1>1, <1>3, <1>4, <1>5, <1>6, PlainKeeps
<1> QED BY <1>1, <1>2, <1>4, <1>5, <1>7

LEMMA LoginKeeps ==
  ASSUME ClientInv, NEW opt \in {"plain", "grant"},
         Moves(Connect([Now EXCEPT !.auth.out = FALSE], opt, NoToken)), UNCHANGED Outside
  PROVE  ClientInv'
<1> DEFINE w == [Now EXCEPT !.auth.out = FALSE]
<1>1. Inv(w, seen, renews, minted) /\ ~w.auth.out
  BY InKeeps
<1> HIDE DEF w
<1>2. Inv(Connect(w, opt, NoToken), seen, renews, minted)
  BY <1>1, ConnectKeeps, Given, SortFacts
<1> QED BY <1>2, TabKept DEF w

LEMMA EditsKeep ==
  ASSUME ClientInv, NEW n \in Node, NEW p \in BOOLEAN, UserEdits(n, p)
  PROVE  ClientInv'
<1>1. Inv(Edited(Now, n, p), seen, renews, minted)
  BY Given, EditedKeeps
<1> QED BY <1>1, TabKept DEF UserEdits, Becomes, Shows

LEMMA LogoutKeeps ==
  ASSUME ClientInv, UserLogsOut
  PROVE  ClientInv'
<1>1. Inv(LoggedOut(Now), seen, renews, minted) /\ Inv(Now, seen, renews, minted)
  BY Given, LoggedOutKeeps
<1>2. CASE LeavingStill(Now)
  BY <1>1, <1>2, TabKept DEF UserLogsOut, Becomes, Shows
<1>3. CASE ~LeavingStill(Now)
  BY <1>1, <1>3, TabKept DEF UserLogsOut, Becomes, Shows
<1> QED BY <1>2, <1>3

LEMMA CooldownKeeps ==
  ASSUME ClientInv, CooldownEnds
  PROVE  ClientInv'
<1> DEFINE w == Now
           a == [w.auth EXCEPT !.blocked = "no"]
           v == [w EXCEPT !.auth = a]
<1>1. /\ Inv(w, seen, renews, minted) /\ w \in Tab /\ Quiet(w) /\ seen \in Sort /\ renews \in SUBSET Renewal
      /\ minted \in Nat /\ w.auth \in AuthType
  BY Given, TabFields
<1>2. Moves(v) /\ UNCHANGED Outside
  BY DEF CooldownEnds, Becomes, Shows
<1> HIDE DEF w
<1>3. /\ a \in AuthType /\ a.tok = w.auth.tok /\ a.cur = w.auth.cur /\ a.held = w.auth.held /\ a.owner = w.auth.owner
      /\ a.pend = w.auth.pend
  BY <1>1 DEF AuthType
<1>4. a.out = w.auth.out /\ a.timer = w.auth.timer
  BY <1>1 DEF AuthType
<1> HIDE DEF a
<1>5. v \in Tab /\ v.auth = a /\ v.ops = w.ops /\ v.locks = w.locks /\ v.ws = w.ws /\ v.net = w.net /\ v.call = w.call
  BY <1>1, <1>3 DEF Tab
<1> HIDE DEF v
<1>6. Quiet(v)
  BY <1>1, <1>3, <1>4, <1>5 DEF Quiet
<1>7. Inv(v, seen, renews, minted)
  BY <1>1, <1>3, <1>4, <1>5, <1>6, PlainKeeps
<1> QED BY <1>2, <1>7, TabKept

LEMMA LockDecidesKeeps ==
  ASSUME ClientInv, NEW o \in ops, LockDecides(o)
  PROVE  ClientInv'
<1> DEFINE w == Now
           f == o.at = "asking" /\ locks[o.node] = "free"
           d == IF f \/ ~HasLocks THEN "granted" ELSE "denied"
           g == [o EXCEPT !.at = d]
           L == [locks EXCEPT ![o.node] = IF f /\ HasLocks THEN "mine" ELSE @]
           v == [w EXCEPT !.ops = (w.ops \ {o}) \cup {g}, !.locks = L]
<1>1. /\ Inv(w, seen, renews, minted) /\ w \in Tab /\ Queued(w) /\ Aged(w, seen, renews, minted)
      /\ seen \in Sort /\ renews \in SUBSET Renewal /\ minted \in Nat
      /\ w.ops = ops /\ w.locks = locks /\ w.auth = auth
  BY Given
<1>2. Moves(v) /\ UNCHANGED Outside /\ o.at \in {"asking", "crossing"} /\ \A p \in ops : p.at \in {"asking", "crossing"} => o.id <= p.id
  BY DEF LockDecides, Now, Becomes, Shows
<1> HIDE DEF w
<1>3. o \in OpType /\ Proper(o) /\ locks \in [Node -> {"free", "mine", "other"}]
  BY <1>1, TabFields DEF Queued
<1>4. o.node \in Node
  BY <1>3, OpFields
<1>5. L \in [Node -> {"free", "mine", "other"}] /\ \A n \in Node : L[n] = "mine" => locks[n] = "mine" \/ (d = "granted" /\ n = o.node)
  BY <1>3, <1>4
<1>6. d \in {"granted", "denied"}
  OBVIOUS
<1> HIDE DEF d, L
<1>7. g \in OpType /\ g.id = o.id /\ g.node = o.node /\ g.at = d /\ g.ans = o.ans /\ g.tok = o.tok
  BY <1>3, <1>6 DEF OpType
<1> HIDE DEF g
<1>8. Proper(g)
  BY <1>2, <1>3, <1>6, <1>7 DEF Proper
<1>9. v \in Tab /\ v.auth = w.auth /\ v.ops = (w.ops \ {o}) \cup {g} /\ v.locks = L /\ Beside(w, v)
  <2>1. (w.ops \ {o}) \cup {g} \in SUBSET OpType
    BY <1>1, <1>7, TabFields
  <2> QED BY <1>1, <1>5, <2>1 DEF Tab, Beside
<1> HIDE DEF v
<1>10. Newer(w, g, seen, renews, minted)
  BY <1>1, <1>7 DEF Newer, Aged
<1>11. \A n \in Node : v.locks[n] = "mine" => w.locks[n] = "mine" \/ (g.at = "granted" /\ n = g.node)
  BY <1>1, <1>5, <1>7, <1>9
<1>12. o \in w.ops /\ (\A p \in w.ops : p.at \in {"asking", "crossing"} => o.id <= p.id) /\ g.at \in {"granted", "denied"} /\ minted >= minted
  BY <1>1, <1>2, <1>6, <1>7
<1>13. Inv(v, seen, renews, minted)
  BY <1>1, <1>2, <1>7, <1>8, <1>9, <1>10, <1>11, <1>12, SwappedKeeps
<1> QED BY <1>2, <1>13, TabKept

LEMMA LockAnswersKeeps ==
  ASSUME ClientInv, NEW o \in ops, LockAnswers(o)
  PROVE  ClientInv'
<1> DEFINE n == Now
           b == IF locks[o.node] = "mine" THEN o.node ELSE NoNode
           a == [n.auth EXCEPT !.held = b, !.owner = o.id]
           h == [n EXCEPT !.auth = a]
           w == IF o.at = "granted" THEN h ELSE n
<1>1. /\ Inv(n, seen, renews, minted) /\ n \in Tab /\ Queued(n) /\ Guarded(n) /\ Scoped(n, seen)
      /\ Quiet(n) /\ Aged(n, seen, renews, minted)
      /\ seen \in Sort /\ renews \in SUBSET Renewal /\ minted \in Nat
      /\ n.ops = ops /\ n.locks = locks /\ n.auth = auth /\ n.call = call
  BY Given
<1>2. /\ o.at \in {"granted", "denied"} /\ UNCHANGED Outside
      /\ \A p \in ops : p.at \in {"granted", "denied"} => o.id <= p.id
      /\ Moves(IF o.id # auth.cur THEN [Over(w, o) EXCEPT !.ops = @ \ {o}]
                 ELSE IF o.at = "denied" THEN Failed(w, o, FALSE, "keep") ELSE Requested(w, o))
  BY DEF LockAnswers, Becomes, Shows
<1> HIDE DEF n
<1>3. /\ o \in n.ops /\ o \in OpType /\ o.node \in Node /\ o.id > 0 /\ o.id \in Nat /\ n.auth \in AuthType
      /\ n.auth.held = NoNode /\ Proper(o)
  <2>1. o \in n.ops /\ o \in OpType /\ n.auth \in AuthType /\ Proper(o)
    BY <1>1, TabFields DEF Queued
  <2>2. o.id \in Int /\ o.node \in Node /\ o.id > 0
    BY <1>2, <2>1, OpFields DEF Proper
  <2>3. n.auth.held = NoNode
    BY <1>1, <1>2, <2>1 DEF Guarded, Waiting
  <2> QED BY <2>1, <2>2, <2>3
<1>4. /\ a \in AuthType /\ Same(n.auth, a) /\ a.cur = n.auth.cur /\ a.pend = n.auth.pend /\ a.held = b
      /\ a.owner = o.id
  BY <1>3 DEF AuthType, Same
<1> HIDE DEF a
<1>5. h \in Tab /\ h.auth = a /\ h.ops = n.ops /\ h.locks = n.locks /\ Beside(n, h)
  BY <1>1, <1>4 DEF Tab, Beside
<1> HIDE DEF h
<1>6. /\ w \in Tab /\ w.ops = n.ops /\ w.locks = n.locks /\ Beside(n, w) /\ Same(n.auth, w.auth)
      /\ w.auth.cur = n.auth.cur /\ w.auth.pend = n.auth.pend
      /\ IF o.at = "granted" THEN w.auth.held = b /\ w.auth.owner = o.id ELSE w = n
  BY <1>1, <1>4, <1>5 DEF Beside, Same
<1>7. Queued(w) /\ Scoped(w, seen) /\ Softer(n, w)
  BY <1>1, <1>6 DEF Queued, Scoped, Softer, Beside, Same
<1> HIDE DEF w
<1>8. o.at = "granted" => \A k \in Node : w.locks[k] = "mine" =>
        k = w.auth.held \/ \E p \in w.ops : p # o /\ p.at = "granted" /\ p.node = k
  BY <1>1, <1>3, <1>6, NodeNames DEF Guarded
<1>9. CASE o.id # auth.cur
  <2> DEFINE v == [Over(w, o) EXCEPT !.ops = @ \ {o}]
  <2>1. \/ Guarded(w) /\ o.at # "granted"
        \/ /\ w.auth.owner = o.id
           /\ \A k \in Node : w.locks[k] = "mine" =>
                k = w.auth.held \/ \E p \in w.ops : p # o /\ p.at = "granted" /\ p.node = k
    BY <1>1, <1>6, <1>8
  <2>2. /\ v \in Tab /\ Queued(v) /\ Guarded(v) /\ Softer(w, v) /\ Beside(w, v) /\ Same(w.auth, v.auth)
        /\ v.auth.pend \in {w.auth.pend, NoToken} /\ v.auth.cur \in {w.auth.cur, 0}
    BY <1>1, <1>3, <1>6, <1>7, <2>1, OverKeeps
  <2>3. Moves(v)
    BY <1>2, <1>9
  <2> HIDE DEF v
  <2>4. Softer(n, v)
    BY <1>7, <2>2, SofterTransitive
  <2>5. Quiet(v)
    BY <1>1, <1>6, <2>2 DEF Quiet, Same, Beside
  <2>6. Scoped(v, seen) /\ Aged(v, seen, renews, minted)
    BY <1>1, <2>2, <2>4, SofterKeeps
  <2>7. Inv(v, seen, renews, minted)
    BY <2>2, <2>5, <2>6 DEF Inv
  <2> QED BY <1>2, <2>3, <2>7, TabKept
<1>10. CASE o.id = auth.cur
  <2>1. \A p \in w.ops : p # o => ~Waiting(p)
    <3> SUFFICES ASSUME NEW p \in n.ops, p # o, Waiting(p) PROVE FALSE
      BY <1>6
    <3>1. p.id \in Int /\ p.id # o.id /\ p.id <= o.id
      BY <1>1, <1>3, <1>10, TabFields, OpFields DEF Queued
    <3>2. CASE p.at \in {"asking", "crossing"}
      BY <1>1, <1>2, <1>3, <3>1, <3>2 DEF Queued, Decided
    <3>3. CASE p.at \in {"granted", "denied"}
      BY <1>1, <1>2, <1>3, <3>1, <3>3
    <3> QED BY <3>2, <3>3 DEF Waiting
  <2>2. Charge(w, o) /\ Waiting(o) /\ ~w.auth.out
    <3>1. o.at = "denied" => \A k \in Node : w.locks[k] = "mine" =>
            k = w.auth.held \/ \E p \in w.ops : p # o /\ p.at = "granted" /\ p.node = k
      BY <1>1, <1>3, <1>6 DEF Guarded
    <3>2. Charge(w, o)
      BY <1>1, <1>2, <1>3, <1>6, <1>8, <1>10, <2>1, <3>1 DEF Charge
    <3>3. ~w.auth.out
      BY <1>1, <1>3, <1>6, <1>10 DEF Quiet, Same
    <3> QED BY <1>2, <3>2, <3>3 DEF Waiting
  <2>3. ASSUME NEW v \in Tab, Queued(v), Guarded(v), Softer(w, v), ~v.auth.out, Moves(v) PROVE ClientInv'
    <3>1. Softer(n, v)
      BY <1>7, <2>3, SofterTransitive
    <3>2. Inv(v, seen, renews, minted)
      BY <1>1, <2>3, <3>1, SofterInv
    <3> QED BY <1>2, <2>3, <3>2, TabKept
  <2>4. CASE o.at = "denied"
    <3>1. FALSE \in BOOLEAN /\ "keep" \in {"keep", "no", "soon", "full"}
      OBVIOUS
    <3> DEFINE v == Failed(w, o, FALSE, "keep")
    <3>2. v \in Tab /\ Queued(v) /\ Guarded(v) /\ Softer(w, v) /\ ~v.auth.out
      BY <1>1, <1>6, <1>7, <2>2, <3>1, FailedKeeps
    <3>3. Moves(v)
      BY <1>2, <1>10, <2>4
    <3> HIDE DEF v
    <3> QED BY <2>3, <3>2, <3>3
  <2>5. CASE o.at = "granted"
    <3> DEFINE v == Requested(w, o)
    <3>2. v \in Tab /\ Queued(v) /\ Guarded(v) /\ Softer(w, v) /\ ~v.auth.out
      BY <1>1, <1>6, <1>7, <2>2, RequestedKeeps
    <3>3. Moves(v)
      BY <1>2, <1>10, <2>5
    <3> HIDE DEF v
    <3> QED BY <2>3, <3>2, <3>3
  <2> QED BY <1>2, <2>4, <2>5
<1> QED BY <1>9, <1>10

(***************************************************************************)
(* The actions of the server, and of the requests.                         *)
(***************************************************************************)

\* An answer to a request, whatever it says.
LEMMA ReplyKeeps ==
  ASSUME ClientInv, NEW o \in ops, o.at \in {"sent", "answered"},
         NEW ans \in {"ok", "proofless", "busy", "full", "refused", "badproof", "error"},
         NEW t \in Sort, ans \in {"ok", "proofless"} => t # NoToken, NEW k \in Nat, k >= minted,
         Newer(Now, [id |-> o.id, tok |-> t], seen, renews, k)
  PROVE  LET v == [Now EXCEPT !.ops = (@ \ {o}) \cup {[o EXCEPT !.at = "answered", !.ans = ans, !.tok = t]}]
         IN  Inv(v, seen, renews, k)
<1> DEFINE w == Now
           g == [o EXCEPT !.at = "answered", !.ans = ans, !.tok = t]
           v == [w EXCEPT !.ops = (w.ops \ {o}) \cup {g}]
<1>1. /\ Inv(w, seen, renews, minted) /\ w \in Tab /\ Queued(w)
      /\ seen \in Sort /\ renews \in SUBSET Renewal /\ minted \in Nat /\ w.ops = ops
  BY Given
<1>2. Newer(w, [id |-> o.id, tok |-> t], seen, renews, k)
  OBVIOUS
<1> HIDE DEF w
<1>3. o \in OpType /\ Proper(o) /\ o \in w.ops
  BY <1>1, TabFields DEF Queued
<1>4. g \in OpType /\ g.id = o.id /\ g.node = o.node /\ g.at = "answered" /\ g.ans = ans /\ g.tok = t
  BY <1>3 DEF OpType, Sort
<1> HIDE DEF g
<1>5. Proper(g) /\ Newer(w, g, seen, renews, k)
  BY <1>2, <1>3, <1>4 DEF Proper, Newer
<1>6. v \in Tab /\ v.auth = w.auth /\ v.ops = (w.ops \ {o}) \cup {g} /\ v.locks = w.locks /\ Beside(w, v)
  <2>1. (w.ops \ {o}) \cup {g} \in SUBSET OpType
    BY <1>1, <1>4, TabFields
  <2> QED BY <1>1, <2>1 DEF Tab, Beside
<1> HIDE DEF v
<1>7. Inv(v, seen, renews, k)
  BY <1>1, <1>3, <1>4, <1>5, <1>6, SwappedKeeps
<1> QED BY <1>7 DEF v, g, w

LEMMA AdmitsKeeps ==
  ASSUME ClientInv, NEW o \in ops, ServerAdmits(o)
  PROVE  ClientInv'
<1> DEFINE t == [sid |-> minted + 1, ver |-> 1]
           k == minted + 1
<1>1. /\ o.at = "sent" /\ minted < MaxSid /\ minted' = k
      /\ srv' = [s \in DOMAIN srv |-> IF s = t.sid THEN 1
                                      ELSE IF o.prf # NoToken /\ s = o.prf.sid THEN 0 ELSE srv[s]]
      /\ renews' = renews /\ seen' = seen
  BY DEF ServerAdmits, Becomes, Shows
<1>2. PICK p \in Proofs :
        Moves([Now EXCEPT !.ops = (@ \ {o}) \cup {[o EXCEPT !.at = "answered", !.tok = t,
                                                             !.ans = IF p THEN "ok" ELSE "proofless"]}])
  BY DEF ServerAdmits, Becomes, Shows
<1> DEFINE ans == IF p THEN "ok" ELSE "proofless"
           v == [Now EXCEPT !.ops = (@ \ {o}) \cup {[o EXCEPT !.at = "answered", !.ans = ans, !.tok = t]}]
<1>3. minted \in 0..MaxSid /\ minted \in Nat /\ k \in Nat /\ k >= minted /\ k \in 0..MaxSid
  BY <1>1, ClientBounds DEF ClientInv
<1>4. t \in Sort /\ t # NoToken
  BY <1>1, <1>3, ClientBounds DEF Sort, Token, NoToken
<1>5. Newer(Now, [id |-> o.id, tok |-> t], seen, renews, k)
  <2>1. Now.auth.tok.sid <= minted /\ seen.sid <= minted /\ \A r \in renews : r.tok.sid <= minted
    BY Given DEF Aged
  <2>2. Now.auth.tok.sid \in Int /\ seen.sid \in Int /\ \A r \in renews : r.tok.sid \in Int
    <3>1. \A r \in renews : r.tok \in Token
      BY Given DEF Renewal
    <3> QED BY <3>1, Given, GivenTypes, SortFacts
  <2> QED BY <1>3, <2>1, <2>2 DEF Newer
<1>6. v = [Now EXCEPT !.ops = (@ \ {o}) \cup {[o EXCEPT !.at = "answered", !.tok = t, !.ans = ans]}]
  <2>1. o \in OpType
    BY GivenTypes
  <2>2. [o EXCEPT !.at = "answered", !.tok = t, !.ans = ans] = [o EXCEPT !.at = "answered", !.ans = ans, !.tok = t]
    BY <2>1 DEF OpType
  <2> QED BY <2>2
<1>7. Moves(v)
  BY <1>2, <1>6
<1>8. Inv(v, seen, renews, k)
  <2>1. ans \in {"ok", "proofless"} /\ o.at \in {"sent", "answered"}
    BY <1>1
  <2> HIDE DEF ans, t, k
  <2>2. ans \in {"ok", "proofless", "busy", "full", "refused", "badproof", "error"}
    BY <2>1
  <2> QED BY <1>3, <1>4, <1>5, <2>1, <2>2, ReplyKeeps
<1> HIDE DEF v
<1>9. Now' = v
  BY <1>7, <1>8, MovesNow DEF Inv
<1>10. srv \in [1..MaxSid -> 0..MaxVer] /\ \A s \in 1..MaxSid : srv[s] # 0 => s <= minted
  BY DEF ClientInv
<1>11. srv' \in [1..MaxSid -> 0..MaxVer] /\ \A s \in 1..MaxSid : srv'[s] # 0 => s <= k
  <2>1. 1 \in 0..MaxVer /\ 0 \in 0..MaxVer /\ t.sid = k
    BY ClientBounds
  <2>2. srv' \in [1..MaxSid -> 0..MaxVer]
    BY <1>1, <1>10, <2>1
  <2>3. \A s \in 1..MaxSid : srv'[s] # 0 => s = k \/ srv[s] # 0
    BY <1>1, <1>10, <2>1
  <2> QED BY <1>3, <1>10, <2>2, <2>3
<1> QED BY <1>1, <1>3, <1>8, <1>9, <1>11 DEF ClientInv

LEMMA RepliesKeep ==
  ASSUME ClientInv, NEW o \in ops, o.at = "sent", NEW ans \in {"busy", "full", "refused", "badproof"},
         Replies(o, ans), UNCHANGED Outside
  PROVE  ClientInv'
<1>1. o \in OpType /\ o.tok \in Sort
  BY GivenTypes, OpFields
<1>2. [o EXCEPT !.at = "answered", !.ans = ans, !.tok = o.tok] = [o EXCEPT !.at = "answered", !.ans = ans]
  BY <1>1 DEF OpType
<1>3. Newer(Now, [id |-> o.id, tok |-> o.tok], seen, renews, minted)
  BY Given DEF Newer, Aged
<1> DEFINE v == [Now EXCEPT !.ops = (@ \ {o}) \cup {[o EXCEPT !.at = "answered", !.ans = ans, !.tok = o.tok]}]
<1>4. Inv(v, seen, renews, minted)
  <2>1. /\ o.at \in {"sent", "answered"} /\ ans \in {"ok", "proofless", "busy", "full", "refused", "badproof", "error"}
        /\ (ans \in {"ok", "proofless"} => o.tok # NoToken) /\ minted \in Nat /\ minted >= minted
    BY Given
  <2> QED BY <1>1, <1>3, <2>1, ReplyKeeps
<1>5. Moves(v)
  BY <1>2 DEF Replies, Becomes, Shows
<1> HIDE DEF v
<1> QED BY <1>4, <1>5, TabKept

LEMMA LossKeeps ==
  ASSUME ClientInv, NEW o \in ops, AnswerLost(o)
  PROVE  ClientInv'
<1> DEFINE ans == "error"
           v == [Now EXCEPT !.ops = (@ \ {o}) \cup {[o EXCEPT !.at = "answered", !.ans = ans, !.tok = NoToken]}]
<1>1. o.at \in {"sent", "answered"} /\ Moves(v) /\ UNCHANGED Outside
  BY DEF AnswerLost, Becomes, Shows
<1>2. ans \in {"ok", "proofless", "busy", "full", "refused", "badproof", "error"} /\ ans \notin {"ok", "proofless"}
  OBVIOUS
<1> HIDE DEF ans
<1>3. Newer(Now, [id |-> o.id, tok |-> NoToken], seen, renews, minted)
  BY DEF Newer
<1>4. Inv(v, seen, renews, minted)
  <2>1. minted \in Nat /\ minted >= minted /\ NoToken \in Sort
    BY Given, SortFacts
  <2> QED BY <1>1, <1>2, <1>3, <2>1, ReplyKeeps
<1> HIDE DEF v
<1> QED BY <1>1, <1>4, TabKept

LEMMA DroppedKeeps ==
  ASSUME ClientInv, NEW o \in ops, o.at \in {"sent", "answered"}, o.id # auth.cur, NEW r \in SUBSET Asked,
         Moves([Now EXCEPT !.ops = @ \ {o}, !.rels = r]), UNCHANGED Outside
  PROVE  ClientInv'
<1> DEFINE w == Now
           v == [w EXCEPT !.ops = w.ops \ {o}, !.rels = r]
<1>1. /\ Inv(w, seen, renews, minted) /\ w \in Tab
      /\ seen \in Sort /\ renews \in SUBSET Renewal /\ minted \in Nat /\ w.ops = ops /\ w.auth = auth
  BY Given
<1>2. Moves(v)
  OBVIOUS
<1> HIDE DEF w
<1>3. v \in Tab /\ v.auth = w.auth /\ v.ops = w.ops \ {o} /\ v.locks = w.locks /\ Beside(w, v)
  <2>1. w.ops \ {o} \in SUBSET OpType
    BY <1>1, TabFields
  <2> QED BY <1>1, <2>1 DEF Tab, Beside
<1> HIDE DEF v
<1>4. Inv(v, seen, renews, minted)
  BY <1>1, <1>3, RemovedKeeps
<1> QED BY <1>2, <1>4, TabKept

LEMMA ArrivesKeeps ==
  ASSUME ClientInv, NEW o \in ops, AnswerArrives(o)
  PROVE  ClientInv'
<1>1. CASE o.id = auth.cur
  <2>1. Moves(Answered(Now, o)) /\ o.at = "answered" /\ UNCHANGED Outside
    BY <1>1 DEF AnswerArrives, Becomes, Shows
  <2>2. Inv(Answered(Now, o), seen, renews, minted)
    BY <1>1, <2>1, Given, AnsweredKeeps
  <2> QED BY <2>1, <2>2, TabKept
<1>2. CASE o.id # auth.cur
  <2>1. Moves(Drained(Now, o)) /\ o.at = "answered" /\ UNCHANGED Outside
    BY <1>2 DEF AnswerArrives, Becomes, Shows
  <2> DEFINE r == IF o.tok = NoToken THEN rels ELSE rels \cup {Release(o.tok, 0)}
  <2>2. r \in SUBSET Asked
    <3>1. o.tok \in Sort /\ rels \subseteq Asked
      BY GivenTypes, OpFields
    <3>2. o.tok # NoToken => Release(o.tok, 0) \in Asked
      BY <3>1, SortFacts DEF Release, Asked
    <3> QED BY <3>1, <3>2
  <2>3. Drained(Now, o) = [Now EXCEPT !.ops = @ \ {o}, !.rels = r]
    BY DEF Drained, Now
  <2> HIDE DEF r
  <2> QED BY <1>2, <2>1, <2>2, <2>3, DroppedKeeps
<1> QED BY <1>1, <1>2

LEMMA AbortedKeeps ==
  ASSUME ClientInv, NEW o \in ops, AbortedRequestEnds(o)
  PROVE  ClientInv'
<1>1. [Now EXCEPT !.ops = @ \ {o}] = [Now EXCEPT !.ops = @ \ {o}, !.rels = rels]
  <2> DEFINE w == Now
  <2>1. w \in Tab /\ w.rels = rels
    BY Given
  <2> HIDE DEF w
  <2>2. [w EXCEPT !.ops = w.ops \ {o}] = [w EXCEPT !.ops = w.ops \ {o}, !.rels = rels]
    BY <2>1 DEF Tab
  <2> QED BY <2>2 DEF w
<1> QED BY <1>1, GivenTypes, DroppedKeeps DEF AbortedRequestEnds, Becomes, Shows

LEMMA TimeoutKeeps ==
  ASSUME ClientInv, NEW o \in ops, RequestTimesOut(o)
  PROVE  ClientInv'
<1> DEFINE n == Now
           w == Failed(n, o, FALSE, "keep")
           g == [o EXCEPT !.id = -o.id]
           v == [w EXCEPT !.ops = w.ops \cup {g}]
<1>1. /\ Inv(n, seen, renews, minted) /\ n \in Tab /\ Queued(n) /\ Scoped(n, seen)
      /\ seen \in Sort /\ renews \in SUBSET Renewal /\ minted \in Nat
      /\ n.ops = ops /\ n.auth = auth
  BY Given
<1>2. o.at \in {"sent", "answered"} /\ o.id = auth.cur /\ Moves(v) /\ UNCHANGED Outside
  BY DEF RequestTimesOut, Becomes, Shows
<1> HIDE DEF n
<1>3. Charge(n, o) /\ ~n.auth.out /\ o \in OpType /\ o.id > 0 /\ o.id \in Int /\ Proper(o)
  <2>1. o \in n.ops /\ o.id = n.auth.cur /\ o.at # "granted"
    BY <1>1, <1>2
  <2>2. Charge(n, o) /\ ~n.auth.out /\ o \in OpType /\ o.id > 0
    BY <1>1, <2>1, CurrentCharge
  <2> QED BY <1>1, <2>1, <2>2, OpFields DEF Queued
<1>4. /\ w \in Tab /\ Queued(w) /\ Guarded(w) /\ Softer(n, w) /\ ~w.auth.out
      /\ \A p \in w.ops : p.id = o.id => p.at = "closing"
      /\ \A p \in w.ops : p.id # o.id => p \in n.ops
      /\ w.auth.cur \in {0, o.id}
  <2>1. FALSE \in BOOLEAN /\ "keep" \in {"keep", "no", "soon", "full"}
    OBVIOUS
  <2>2. ASSUME NEW c \in BOOLEAN, NEW b \in {"keep", "no", "soon", "full"}
        PROVE  LET x == Failed(n, o, c, b)
               IN  /\ x \in Tab /\ Queued(x) /\ Guarded(x) /\ Softer(n, x) /\ ~x.auth.out
                   /\ \A p \in x.ops : p.id = o.id => p.at = "closing"
                   /\ \A p \in x.ops : p.id # o.id => p \in n.ops
                   /\ x.auth.cur \in {0, o.id}
    BY <1>1, <1>3, FailedKeeps
  <2> QED BY <2>1, <2>2
<1> HIDE DEF w
<1>5. g \in OpType /\ g.id = -o.id /\ g.at = o.at /\ g.ans = o.ans /\ g.tok = o.tok
  BY <1>3 DEF OpType
<1> HIDE DEF g
<1>6. v \in Tab /\ v.auth = w.auth /\ v.ops = w.ops \cup {g} /\ v.locks = w.locks /\ Beside(w, v)
  <2>1. w.ops \cup {g} \in SUBSET OpType
    BY <1>4, <1>5, TabFields
  <2> QED BY <1>4, <2>1 DEF Tab, Beside
<1> HIDE DEF v
<1>7. \A p \in w.ops : p \in OpType /\ p.id \in Int
  BY <1>4, TabFields, OpFields
<1>8. \A p \in w.ops : p.id # g.id
  <2>1. \A p \in n.ops : o.id # -p.id
    BY <1>1, <1>2, <1>3 DEF Queued
  <2> QED BY <1>3, <1>4, <1>5, <1>7, <2>1
<1>9. Queued(v)
  <2>1. PICK b \in Nat : \A p \in w.ops : p.id \in -b..b
    BY <1>4 DEF Queued
  <2>2. b + o.id \in Nat /\ \A p \in v.ops : p.id \in -(b + o.id)..(b + o.id)
    BY <1>3, <1>5, <1>6, <1>7, <2>1
  <2>3. \A p \in v.ops : Proper(p)
    BY <1>2, <1>3, <1>4, <1>5, <1>6 DEF Queued, Proper
  <2>4. \A p, z \in v.ops : p.id = z.id => p = z
    BY <1>4, <1>6, <1>8 DEF Queued
  <2>5. \A p, z \in v.ops : p.id = -z.id /\ p.id > 0 => p.at = "closing"
    BY <1>3, <1>4, <1>5, <1>6, <1>7 DEF Queued
  <2>6. v.auth.cur # 0 => \A p \in v.ops : p.id <= v.auth.cur
    BY <1>3, <1>4, <1>5, <1>6, <1>7 DEF Queued
  <2>7. \A p, z \in v.ops : Decided(p) /\ z.at \in {"asking", "crossing"} => p.id < z.id
    BY <1>2, <1>4, <1>5, <1>6 DEF Queued, Decided
  <2> QED BY <2>2, <2>3, <2>4, <2>5, <2>6, <2>7 DEF Queued
<1>10. Guarded(v)
  BY <1>2, <1>4, <1>5, <1>6 DEF Guarded, Waiting
<1>11. Softer(n, v)
  <2>1. \A p \in v.ops : p.id = v.auth.cur => p \in w.ops
    BY <1>3, <1>4, <1>5, <1>6
  <2> QED BY <1>4, <1>6, <2>1 DEF Softer, Beside, Dark
<1>12. Inv(v, seen, renews, minted)
  BY <1>1, <1>4, <1>6, <1>9, <1>10, <1>11, SofterInv
<1> QED BY <1>2, <1>12, TabKept

LEMMA ClosesKeeps ==
  ASSUME ClientInv, NEW o \in ops, OperationCloses(o)
  PROVE  ClientInv'
<1> DEFINE w == Now
           v == [Over(w, o) EXCEPT !.ops = @ \ {o}]
<1>1. /\ Inv(w, seen, renews, minted) /\ w \in Tab /\ Queued(w) /\ Guarded(w) /\ Scoped(w, seen)
      /\ Quiet(w) /\ Aged(w, seen, renews, minted)
      /\ seen \in Sort /\ renews \in SUBSET Renewal /\ minted \in Nat /\ w.ops = ops
  BY Given
<1>2. o.at = "closing" /\ Moves(v) /\ UNCHANGED Outside
  BY DEF OperationCloses, Becomes, Shows
<1> HIDE DEF w
<1>3. /\ v \in Tab /\ Queued(v) /\ Guarded(v) /\ Softer(w, v) /\ Beside(w, v) /\ Same(w.auth, v.auth)
      /\ v.auth.pend \in {w.auth.pend, NoToken} /\ v.auth.cur \in {w.auth.cur, 0}
  BY <1>1, <1>2, OverKeeps
<1> HIDE DEF v
<1>4. Quiet(v)
  BY <1>1, <1>3 DEF Quiet, Same, Beside
<1>5. Scoped(v, seen) /\ Aged(v, seen, renews, minted)
  BY <1>1, <1>3, SofterKeeps
<1>6. Inv(v, seen, renews, minted)
  BY <1>3, <1>4, <1>5 DEF Inv
<1> QED BY <1>2, <1>6, TabKept

\* A change that the invariant does not see, or that takes locks from this tab.
LEMMA OutsideKeeps ==
  ASSUME NEW s \in Sort, NEW R \in SUBSET Renewal, NEW m \in Nat, NEW w, Inv(w, s, R, m), NEW v \in Tab,
         v.auth = w.auth, v.ops = w.ops, Beside(w, v),
         \A n \in Node : v.locks[n] = "mine" => w.locks[n] = "mine"
  PROVE  Inv(v, s, R, m)
<1>0. w \in Tab /\ Queued(w) /\ Guarded(w) /\ Scoped(w, s) /\ Quiet(w) /\ Aged(w, s, R, m)
  BY DEF Inv
<1>1. Queued(v) /\ Guarded(v)
  BY <1>0 DEF Queued, Guarded
<1>2. Scoped(v, s) /\ Quiet(v) /\ Aged(v, s, R, m)
  BY <1>0 DEF Scoped, Quiet, Aged, Beside
<1> QED BY <1>1, <1>2 DEF Inv

LEMMA RelsSet ==
  ASSUME ClientInv, NEW r \in SUBSET Asked
  PROVE  Inv([Now EXCEPT !.rels = r], seen, renews, minted)
<1> DEFINE w == Now
           v == [w EXCEPT !.rels = r]
<1>1. /\ Inv(w, seen, renews, minted) /\ w \in Tab
      /\ seen \in Sort /\ renews \in SUBSET Renewal /\ minted \in Nat
  BY Given
<1> HIDE DEF w
<1>2. v \in Tab /\ v.auth = w.auth /\ v.ops = w.ops /\ v.locks = w.locks /\ Beside(w, v)
  BY <1>1 DEF Tab, Beside
<1> HIDE DEF v
<1>3. Inv(v, seen, renews, minted)
  BY <1>1, <1>2, OutsideKeeps
<1> QED BY <1>3 DEF v, w

LEMMA ReleasesKeep ==
  ASSUME ClientInv, NEW r \in rels, ServerReleases(r)
  PROVE  ClientInv'
<1> DEFINE v == [Now EXCEPT !.rels = rels \ {r}]
<1>1. Moves(v) /\ minted' = minted /\ renews' = renews /\ seen' = seen
      /\ srv' = IF Live(r.tok) THEN [srv EXCEPT ![r.tok.sid] = 0] ELSE srv
  BY DEF ServerReleases, Now, Becomes, Shows
<1>2. Inv(v, seen, renews, minted)
  BY GivenTypes, RelsSet
<1> HIDE DEF v
<1>3. Now' = v
  BY <1>1, <1>2, MovesNow DEF Inv
<1>4. srv \in [1..MaxSid -> 0..MaxVer] /\ \A s \in 1..MaxSid : srv[s] # 0 => s <= minted
  BY DEF ClientInv
<1>5. srv' \in [1..MaxSid -> 0..MaxVer] /\ \A s \in 1..MaxSid : srv'[s] # 0 => srv[s] # 0
  <2>1. 0 \in 0..MaxVer
    BY ClientBounds
  <2> QED BY <1>1, <1>4, <2>1
<1> QED BY <1>1, <1>2, <1>3, <1>4, <1>5 DEF ClientInv

LEMMA ReleaseLossKeeps ==
  ASSUME ClientInv, NEW r \in rels, ReleaseLost(r)
  PROVE  ClientInv'
<1> DEFINE q == (rels \ {r}) \cup (IF r.left = 2 THEN {[r EXCEPT !.left = 1]} ELSE {})
           v == [Now EXCEPT !.rels = q]
<1>1. Moves(v) /\ UNCHANGED Outside
  BY DEF ReleaseLost, Now, Becomes, Shows
<1>2. q \in SUBSET Asked
  <2>1. r \in Asked /\ rels \subseteq Asked
    BY GivenTypes
  <2>2. [r EXCEPT !.left = 1] \in Asked
    BY <2>1 DEF Asked
  <2> QED BY <2>1, <2>2
<1> HIDE DEF q
<1>3. Inv(v, seen, renews, minted)
  BY <1>2, RelsSet
<1> HIDE DEF v
<1> QED BY <1>1, <1>3, TabKept

(***************************************************************************)
(* Renewals and authenticated requests.                                    *)
(***************************************************************************)

LEMMA RenewFiresKeeps ==
  ASSUME ClientInv, RenewFires
  PROVE  ClientInv'
<1> DEFINE w == Now
           a == [w.auth EXCEPT !.timer = FALSE]
           v == [w EXCEPT !.auth = a]
           new == [tok |-> auth.tok, new |-> NoToken, at |-> "sent"]
           R == renews'
<1>1. /\ Inv(w, seen, renews, minted) /\ w \in Tab /\ Queued(w) /\ Guarded(w) /\ Scoped(w, seen) /\ Quiet(w)
      /\ Aged(w, seen, renews, minted) /\ seen \in Sort /\ renews \in SUBSET Renewal /\ minted \in Nat
      /\ w.auth = auth /\ w.auth \in AuthType /\ auth.tok \in Sort
  BY Given, GivenTypes, TabFields
<1>2. /\ Moves(v) /\ auth.timer /\ srv' = srv /\ minted' = minted /\ seen' = seen
      /\ R = IF auth.tok = NoToken THEN renews ELSE renews \cup {new}
  BY DEF RenewFires, Becomes, Shows
<1> HIDE DEF w
<1>3. /\ a \in AuthType /\ a.tok = w.auth.tok /\ a.cur = w.auth.cur /\ a.held = w.auth.held /\ a.owner = w.auth.owner
      /\ a.pend = w.auth.pend
  BY <1>1 DEF AuthType
<1>4. a.out = w.auth.out /\ a.timer = FALSE
  BY <1>1 DEF AuthType
<1> HIDE DEF a
<1>5. v \in Tab /\ v.auth = a /\ v.ops = w.ops /\ v.locks = w.locks /\ Beside(w, v)
  BY <1>1, <1>3 DEF Tab, Beside
<1> HIDE DEF v
<1>6. Inv(v, seen, renews, minted)
  <2>1. Quiet(v)
    BY <1>1, <1>3, <1>4, <1>5 DEF Quiet, Beside
  <2> QED BY <1>1, <1>3, <1>4, <1>5, <2>1, PlainKeeps DEF Beside
<1>7. new.tok = auth.tok /\ new.new = NoToken /\ (auth.tok # NoToken => new \in Renewal)
  BY <1>1, SortFacts DEF Renewal
<1> HIDE DEF new
<1>8. R \in SUBSET Renewal /\ \A r \in R : r \in renews \/ (r = new /\ auth.tok # NoToken)
  BY <1>1, <1>2, <1>7
<1>9. Aged(v, seen, R, minted)
  <2>0. Aged(v, seen, renews, minted) /\ v.auth.tok = auth.tok
    BY <1>1, <1>3, <1>5, <1>6 DEF Inv
  <2>1. auth.tok # NoToken => \A r \in renews : r.tok.sid # auth.tok.sid
    BY <1>1, <1>2 DEF Aged
  <2>2. \A r \in R : r.tok.sid <= minted
    BY <1>7, <1>8, <2>0 DEF Aged
  <2>3. \A r \in R : r.new # NoToken => r.new.sid = r.tok.sid /\ r.new.ver = r.tok.ver + 1
    BY <1>7, <1>8, <2>0 DEF Aged
  <2>4. \A r \in R : r.tok.sid = v.auth.tok.sid => r.tok = v.auth.tok /\ ~v.auth.timer
    BY <1>4, <1>5, <1>7, <1>8, <2>0 DEF Aged
  <2>5. \A q, r \in R : q.tok.sid = v.auth.tok.sid /\ r.tok.sid = v.auth.tok.sid => q = r
    BY <1>8, <2>0, <2>1 DEF Aged
  <2>6. \A o \in v.ops : o.id = v.auth.cur /\ o.tok # NoToken =>
          /\ o.tok.sid <= minted /\ seen.sid < o.tok.sid /\ v.auth.tok.sid < o.tok.sid
          /\ \A r \in R : r.tok.sid < o.tok.sid
    BY <1>7, <1>8, <2>0 DEF Aged
  <2> QED BY <2>0, <2>2, <2>3, <2>4, <2>5, <2>6 DEF Aged
<1>10. Inv(v, seen, R, minted)
  BY <1>6, <1>9 DEF Inv
<1>11. Now' = v
  BY <1>2, <1>5, MovesNow
<1> QED BY <1>2, <1>8, <1>10, <1>11 DEF ClientInv

\* The requests for a renewal may be answered, or lost, while the tab does nothing.
LEMMA RenewalsKeep ==
  ASSUME ClientInv, NEW r \in renews, NEW q \in Renewal, q.tok = r.tok,
         q.new # NoToken => q.new.sid = r.tok.sid /\ q.new.ver = r.tok.ver + 1,
         renews' = (renews \ {r}) \cup {q}, UNCHANGED <<auth, ops, locks, rels, ws, net, call, minted, seen>>,
         srv' \in [1..MaxSid -> 0..MaxVer], \A s \in 1..MaxSid : srv'[s] # 0 => s <= minted
  PROVE  ClientInv'
<1> DEFINE w == Now
           R == (renews \ {r}) \cup {q}
<1>1. /\ Inv(w, seen, renews, minted) /\ Aged(w, seen, renews, minted) /\ renews \in SUBSET Renewal
  BY Given
<1>2. Now' = w
  BY DEF Now
<1> HIDE DEF w
<1>3. R \in SUBSET Renewal
  BY <1>1
<1>4. \A z \in R : z = q \/ (z \in renews /\ z # r)
  OBVIOUS
<1> HIDE DEF R
<1>5. Aged(w, seen, R, minted)
  <2>1. \A z \in R : z.tok.sid <= minted
    BY <1>1, <1>4 DEF Aged
  <2>2. \A z \in R : z.new # NoToken => z.new.sid = z.tok.sid /\ z.new.ver = z.tok.ver + 1
    BY <1>1, <1>4 DEF Aged
  <2>3. \A z \in R : z.tok.sid = w.auth.tok.sid => z.tok = w.auth.tok /\ ~w.auth.timer
    BY <1>1, <1>4 DEF Aged
  <2>4. \A y, z \in R : y.tok.sid = w.auth.tok.sid /\ z.tok.sid = w.auth.tok.sid => y = z
    BY <1>1, <1>4 DEF Aged
  <2>5. \A o \in w.ops : o.id = w.auth.cur /\ o.tok # NoToken =>
          /\ o.tok.sid <= minted /\ seen.sid < o.tok.sid /\ w.auth.tok.sid < o.tok.sid
          /\ \A z \in R : z.tok.sid < o.tok.sid
    BY <1>1, <1>4 DEF Aged
  <2> QED BY <1>1, <2>1, <2>2, <2>3, <2>4, <2>5 DEF Aged
<1>6. Inv(w, seen, R, minted) /\ renews' = R
  BY <1>1, <1>5 DEF Inv, R
<1> QED BY <1>2, <1>3, <1>6 DEF ClientInv

LEMMA ServerRenewsKeeps ==
  ASSUME ClientInv, NEW r \in renews, ServerRenews(r)
  PROVE  ClientInv'
<1> DEFINE t == [r.tok EXCEPT !.ver = @ + 1]
           live == [r EXCEPT !.new = t, !.at = "answered"]
           dead == [r EXCEPT !.at = "answered"]
<1>1. /\ UNCHANGED <<auth, ops, locks, rels, ws, net, call, minted, seen>>
      /\ IF Live(r.tok) /\ r.tok.ver < MaxVer
         THEN srv' = [srv EXCEPT ![t.sid] = t.ver] /\ renews' = (renews \ {r}) \cup {live}
         ELSE renews' = (renews \ {r}) \cup {dead} /\ srv' = srv
  BY DEF ServerRenews
<1>2. /\ r \in Renewal /\ r.tok \in Token /\ srv \in [1..MaxSid -> 0..MaxVer]
      /\ (\A s \in 1..MaxSid : srv[s] # 0 => s <= minted)
      /\ (r.new # NoToken => r.new.sid = r.tok.sid /\ r.new.ver = r.tok.ver + 1)
      /\ r.tok.sid \in 1..MaxSid /\ r.tok.ver \in 1..MaxVer
  <2>1. r \in Renewal /\ srv \in [1..MaxSid -> 0..MaxVer] /\ \A s \in 1..MaxSid : srv[s] # 0 => s <= minted
    BY DEF ClientInv
  <2>2. r.new # NoToken => r.new.sid = r.tok.sid /\ r.new.ver = r.tok.ver + 1
    BY Given DEF Aged
  <2>3. r.tok \in Token
    BY <2>1 DEF Renewal
  <2> QED BY <2>1, <2>2, <2>3, SortFacts
<1>3. CASE Live(r.tok) /\ r.tok.ver < MaxVer
  <2>1. t \in Token /\ t.sid = r.tok.sid /\ t.ver = r.tok.ver + 1
    <3>1. r.tok.ver + 1 \in 1..MaxVer
      BY <1>2, <1>3, ClientBounds
    <3> QED BY <1>2, <3>1 DEF Token
  <2> HIDE DEF t
  <2>2. live \in Renewal /\ live.tok = r.tok /\ live.new = t
    BY <1>2, <2>1 DEF Renewal, Sort
  <2>3. t.ver \in 0..MaxVer /\ t.sid \in 1..MaxSid /\ srv[t.sid] # 0
    BY <1>2, <1>3, <2>1, SortFacts DEF Live
  <2>4. srv' \in [1..MaxSid -> 0..MaxVer] /\ \A s \in 1..MaxSid : srv'[s] # 0 => s <= minted
    BY <1>1, <1>2, <1>3, <2>3
  <2>5. renews' = (renews \ {r}) \cup {live}
    BY <1>1, <1>3
  <2> HIDE DEF live
  <2> QED BY <1>1, <2>1, <2>2, <2>4, <2>5, RenewalsKeep
<1>4. CASE ~(Live(r.tok) /\ r.tok.ver < MaxVer)
  <2>1. dead \in Renewal /\ dead.tok = r.tok /\ dead.new = r.new
    BY <1>2 DEF Renewal
  <2>2. renews' = (renews \ {r}) \cup {dead} /\ srv' = srv
    BY <1>1, <1>4
  <2> HIDE DEF dead
  <2> QED BY <1>1, <1>2, <2>1, <2>2, RenewalsKeep
<1> QED BY <1>3, <1>4

LEMMA RenewalLossKeeps ==
  ASSUME ClientInv, NEW r \in renews, RenewalLost(r)
  PROVE  ClientInv'
<1> DEFINE q == [r EXCEPT !.new = NoToken, !.at = "answered"]
<1>1. /\ UNCHANGED <<auth, ops, locks, rels, ws, net, call, minted, seen>> /\ srv' = srv
      /\ renews' = (renews \ {r}) \cup {q}
  BY DEF RenewalLost
<1>2. r \in Renewal /\ srv \in [1..MaxSid -> 0..MaxVer] /\ \A s \in 1..MaxSid : srv[s] # 0 => s <= minted
  BY DEF ClientInv
<1>3. q \in Renewal /\ q.tok = r.tok /\ q.new = NoToken
  BY <1>2, SortFacts DEF Renewal
<1> HIDE DEF q
<1> QED BY <1>1, <1>2, <1>3, RenewalsKeep

LEMMA RenewAnswersKeeps ==
  ASSUME ClientInv, NEW r \in renews, RenewAnswers(r)
  PROVE  ClientInv'
<1> DEFINE w == Now
           R == renews \ {r}
<1>1. /\ Inv(w, seen, renews, minted) /\ w \in Tab /\ Queued(w) /\ Guarded(w) /\ Scoped(w, seen) /\ Quiet(w)
      /\ Aged(w, seen, renews, minted) /\ seen \in Sort /\ renews \in SUBSET Renewal /\ minted \in Nat
      /\ w.auth \in AuthType
  BY Given, TabFields
<1>2. PICK proof \in Proofs : Moves(Renewed(w, r, proof))
  BY DEF RenewAnswers, Becomes, Shows
<1>3. renews' = R /\ srv' = srv /\ minted' = minted /\ seen' = seen
  BY DEF RenewAnswers, Becomes, Shows
<1> DEFINE p == w.auth.proof \/ proof
           a == [w.auth EXCEPT !.tok = r.new, !.proof = p, !.timer = TRUE]
           b == [w.auth EXCEPT !.timer = TRUE]
           v == Renewed(w, r, proof)
<1>4. v = IF w.auth.tok.sid # r.tok.sid THEN w
          ELSE IF r.new # NoToken THEN [w EXCEPT !.auth = a] ELSE [w EXCEPT !.auth = b]
  BY DEF Renewed
<1> HIDE DEF w
<1>5. Aged(w, seen, R, minted)
  BY <1>1 DEF Aged
<1>6. R \in SUBSET Renewal
  BY <1>1
<1>7. SUFFICES Inv(v, seen, R, minted)
  <2> HIDE DEF v
  <2>1. v \in Tab => Now' = v
    BY <1>2, MovesNow DEF v
  <2> QED BY <1>3, <1>6, <2>1 DEF ClientInv, Inv
<1>8. CASE w.auth.tok.sid # r.tok.sid
  BY <1>1, <1>4, <1>5, <1>8 DEF Inv
<1>9. CASE w.auth.tok.sid = r.tok.sid
  <2>1. /\ w.auth.tok = r.tok /\ w.auth.tok # NoToken /\ r.tok \in Token /\ r.new \in Sort
        /\ \A q \in R : q.tok.sid # r.tok.sid
    <3>1. r.tok \in Token /\ r.new \in Sort
      BY <1>1 DEF Renewal
    <3> QED BY <1>1, <1>9, <3>1, SortFacts DEF Aged
  <2>2. ~w.auth.out
    BY <1>1, <2>1 DEF Quiet
  <2>3. CASE r.new # NoToken
    <3>1. p \in BOOLEAN
      BY <1>1, AuthFields
    <3> HIDE DEF p
    <3>2. /\ a \in AuthType /\ a.tok = r.new /\ a.cur = w.auth.cur /\ a.held = w.auth.held /\ a.owner = w.auth.owner
      BY <1>1, <2>1, <3>1 DEF AuthType, Sort
    <3>3. a.out = w.auth.out
      BY <1>1 DEF AuthType
    <3> HIDE DEF a
    <3>4. v = [w EXCEPT !.auth = a]
      BY <1>4, <1>9, <2>3
    <3> HIDE DEF v
    <3>5. v \in Tab /\ v.auth = a /\ v.ops = w.ops /\ v.locks = w.locks /\ Beside(w, v)
      BY <1>1, <3>2, <3>4 DEF Tab, Beside
    <3>6. Queued(v) /\ Guarded(v)
      BY <1>1, <2>1, <2>3, <3>2, <3>5 DEF Queued, Guarded
    <3>7. /\ r.new.sid = r.tok.sid /\ r.new.ver = r.tok.ver + 1 /\ Older(seen, r.tok) /\ r.tok.sid <= minted
          /\ r.tok.ver \in Int /\ seen.ver \in Int /\ seen.sid \in Int
      BY <1>1, <2>1, <2>3, SortFacts DEF Aged
    <3>8. Older(seen, r.new) /\ r.new # seen
      BY <3>7 DEF Older
    <3>9. Scoped(v, seen)
      BY <1>1, <3>2, <3>5, <3>8 DEF Scoped, Beside
    <3>10. Aged(v, seen, R, minted)
      BY <1>5, <2>1, <3>2, <3>5, <3>7, <3>8 DEF Aged
    <3> QED BY <2>2, <3>3, <3>5, <3>6, <3>9, <3>10 DEF Inv, Quiet
  <2>4. CASE r.new = NoToken
    <3>2. /\ b \in AuthType /\ b.tok = w.auth.tok /\ b.cur = w.auth.cur /\ b.held = w.auth.held /\ b.owner = w.auth.owner
      BY <1>1 DEF AuthType
    <3>3. b.out = w.auth.out
      BY <1>1 DEF AuthType
    <3> HIDE DEF b
    <3>4. v = [w EXCEPT !.auth = b]
      BY <1>4, <1>9, <2>4
    <3> HIDE DEF v
    <3>5. v \in Tab /\ v.auth = b /\ v.ops = w.ops /\ v.locks = w.locks /\ Beside(w, v)
      BY <1>1, <3>2, <3>4 DEF Tab, Beside
    <3>6. Queued(v) /\ Guarded(v)
      BY <1>1, <2>1, <3>2, <3>5 DEF Queued, Guarded
    <3>9. Scoped(v, seen)
      BY <1>1, <3>2, <3>5 DEF Scoped, Beside
    <3>10. Aged(v, seen, R, minted)
      BY <1>5, <2>1, <3>2, <3>5 DEF Aged
    <3> QED BY <2>2, <3>3, <3>5, <3>6, <3>9, <3>10 DEF Inv, Quiet
  <2> QED BY <2>3, <2>4
<1> QED BY <1>8, <1>9

\* A step of an authenticated request.
LEMMA CallSet ==
  ASSUME NEW s \in Sort, NEW R \in SUBSET Renewal, NEW m \in Nat, NEW w, Inv(w, s, R, m), NEW c \in Fetch,
         ~w.auth.out \/ c.at = "idle"
  PROVE  Inv([w EXCEPT !.call = c], s, R, m)
<1> DEFINE v == [w EXCEPT !.call = c]
<1>1. w \in Tab /\ Quiet(w)
  BY DEF Inv
<1>2. /\ v \in Tab /\ v.auth = w.auth /\ v.ops = w.ops /\ v.locks = w.locks /\ v.ws = w.ws /\ v.net = w.net
      /\ v.call = c
  BY <1>1 DEF Tab
<1> HIDE DEF v
<1>3. Quiet(v)
  BY <1>1, <1>2 DEF Quiet
<1>4. Inv(v, s, R, m)
  BY <1>2, <1>3, PlainKeeps
<1> QED BY <1>4 DEF v

LEMMA NoCallFacts == NoCall \in Fetch /\ NoCall.at = "idle"
BY SortFacts DEF NoCall, Fetch

\* A request of a page that waits for a login.
LEMMA ReauthKeeps ==
  ASSUME ClientInv, ~Now.auth.out
  PROVE  Inv(Reauthenticates(Now), seen, renews, minted)
<1> DEFINE v == Connect(Now, "again", NoToken)
           c == [v.call EXCEPT !.at = "auth", !.op = v.auth.cur]
<1>1. Inv(v, seen, renews, minted) /\ ~v.auth.out
  <2>1. "again" \in {"plain", "again", "grant", "proof"}
    OBVIOUS
  <2> QED BY <2>1, Given, SortFacts, ConnectKeeps
<1>2. Reauthenticates(Now) = [v EXCEPT !.call = c]
  BY DEF Reauthenticates
<1> HIDE DEF v
<1>3. v.auth \in AuthType /\ v.call \in Fetch
  BY <1>1, TabFields DEF Inv
<1>4. c \in Fetch
  BY <1>3, AuthFields DEF Fetch
<1> HIDE DEF c
<1> QED BY <1>1, <1>2, <1>4, Given, CallSet

LEMMA FetchStartsKeeps ==
  ASSUME ClientInv, FetchStarts
  PROVE  ClientInv'
<1> DEFINE c == [NoCall EXCEPT !.at = "sent", !.tok = auth.tok]
<1>1. c \in Fetch
  BY NoCallFacts, GivenTypes DEF Fetch
<1>2. /\ UNCHANGED Outside /\ (auth.tok # NoToken \/ net.on)
      /\ Moves(IF auth.tok = NoToken THEN Reauthenticates(Now) ELSE [Now EXCEPT !.call = c])
  BY DEF FetchStarts, Becomes, Shows
<1> HIDE DEF c
<1>3. ~Now.auth.out
  BY <1>2, Given DEF Quiet
<1>4. CASE auth.tok = NoToken
  BY <1>2, <1>3, <1>4, ReauthKeeps, TabKept
<1>5. CASE auth.tok # NoToken
  <2>1. Inv([Now EXCEPT !.call = c], seen, renews, minted)
    BY <1>1, <1>3, Given, CallSet
  <2> QED BY <1>2, <1>5, <2>1, TabKept
<1> QED BY <1>4, <1>5

LEMMA FetchServedKeeps ==
  ASSUME ClientInv, FetchServed
  PROVE  ClientInv'
<1> DEFINE u == Live(call.tok)
           c == [call EXCEPT !.at = "answered", !.ok = u]
<1>1. Moves([Now EXCEPT !.call = c]) /\ UNCHANGED Outside /\ call.at = "sent"
  BY DEF FetchServed, Now, Becomes, Shows
<1>2. u \in BOOLEAN
  BY DEF Live
<1> HIDE DEF u
<1>3. c \in Fetch
  BY <1>2, GivenTypes DEF Fetch
<1> HIDE DEF c
<1>4. ~Now.auth.out
  BY <1>1, Given DEF Quiet
<1>5. Inv([Now EXCEPT !.call = c], seen, renews, minted)
  BY <1>3, <1>4, Given, CallSet
<1> QED BY <1>1, <1>5, TabKept

LEMMA GivenUpKeeps ==
  ASSUME ClientInv
  PROVE  Inv([Invalidated(Now) EXCEPT !.call = NoCall], seen, renews, minted)
<1> DEFINE w == Invalidated(Now)
<1>1. Inv(w, seen, renews, minted)
  BY Given, InvalidatedKeeps
<1> HIDE DEF w
<1>2. Inv([w EXCEPT !.call = NoCall], seen, renews, minted)
  BY <1>1, NoCallFacts, Given, CallSet
<1> QED BY <1>2 DEF w

LEMMA FetchAnsweredKeeps ==
  ASSUME ClientInv, FetchAnswered
  PROVE  ClientInv'
<1>1. /\ UNCHANGED Outside /\ call.at = "answered"
      /\ Moves(IF call.ok THEN [Now EXCEPT !.call = NoCall]
                 ELSE IF call.again THEN [Invalidated(Now) EXCEPT !.call = NoCall]
                 ELSE Reauthenticates(Now))
  BY DEF FetchAnswered, Becomes, Shows
<1>2. ~Now.auth.out
  BY <1>1, Given DEF Quiet
<1>3. CASE call.ok
  <2>1. Inv([Now EXCEPT !.call = NoCall], seen, renews, minted)
    BY NoCallFacts, Given, CallSet
  <2> QED BY <1>1, <1>3, <2>1, TabKept
<1>4. CASE ~call.ok /\ call.again
  BY <1>1, <1>4, GivenUpKeeps, TabKept
<1>5. CASE ~call.ok /\ ~call.again
  BY <1>1, <1>2, <1>5, ReauthKeeps, TabKept
<1> QED BY <1>3, <1>4, <1>5

LEMMA FetchResumesKeeps ==
  ASSUME ClientInv, FetchResumes
  PROVE  ClientInv'
<1> DEFINE c == [NoCall EXCEPT !.at = "sent", !.tok = auth.tok, !.again = (call.tok # NoToken)]
<1>1. /\ UNCHANGED Outside /\ call.at = "auth"
      /\ Moves(IF auth.tok = NoToken THEN [Invalidated(Now) EXCEPT !.call = NoCall] ELSE [Now EXCEPT !.call = c])
  BY DEF FetchResumes, Becomes, Shows
<1>2. c \in Fetch
  BY NoCallFacts, GivenTypes DEF Fetch
<1> HIDE DEF c
<1>3. ~Now.auth.out
  BY <1>1, Given DEF Quiet
<1>4. Inv([Now EXCEPT !.call = c], seen, renews, minted)
  BY <1>2, <1>3, Given, CallSet
<1>5. CASE auth.tok = NoToken
  BY <1>1, <1>5, GivenUpKeeps, TabKept
<1>6. CASE auth.tok # NoToken
  BY <1>1, <1>4, <1>6, TabKept
<1> QED BY <1>5, <1>6

(***************************************************************************)
(* The page and the socket.                                                *)
(***************************************************************************)

\* A change of the network that leaves its session and token alone.
LEMMA WireKeeps ==
  ASSUME NEW s \in Sort, NEW R \in SUBSET Renewal, NEW m \in Nat, NEW w, Inv(w, s, R, m), NEW v \in Tab,
         Store(v) = Store(w), v.net.on = w.net.on, v.net.cur = w.net.cur, v.ws.tok = w.ws.tok,
         v.ws.as \in {NoToken, v.ws.tok}, w.net.on, Placed(v.net)
  PROVE  Inv(v, s, R, m)
<1>0. w \in Tab /\ Queued(w) /\ Guarded(w) /\ Scoped(w, s) /\ Quiet(w) /\ Aged(w, s, R, m)
  BY DEF Inv
<1>1. v.auth = w.auth /\ v.ops = w.ops /\ v.locks = w.locks /\ v.call = w.call
  BY DEF Store
<1>2. Queued(v) /\ Guarded(v) /\ Quiet(v) /\ Aged(v, s, R, m)
  BY <1>0, <1>1 DEF Queued, Guarded, Quiet, Aged
<1>3. Scoped(v, s)
  BY <1>0, <1>1 DEF Scoped
<1> QED BY <1>2, <1>3 DEF Inv

\* Replaced socket and network state of a tab.
Wired(w, k, n) == [w EXCEPT !.ws = k, !.net = n]

LEMMA WireSet ==
  ASSUME NEW w \in Tab, NEW k \in SocketType, NEW n \in NetType
  PROVE  /\ Wired(w, k, n) \in Tab /\ Wired(w, k, n).ws = k /\ Wired(w, k, n).net = n
         /\ Store(Wired(w, k, n)) = Store(w)
<1> DEFINE v == [w EXCEPT !.ws = k, !.net = n]
<1>1. v \in Tab
  BY DEF Tab
<1>2. v.ws = k /\ v.net = n /\ v.auth = w.auth /\ v.ops = w.ops /\ v.locks = w.locks /\ v.rels = w.rels /\ v.call = w.call
  BY DEF Tab
<1> QED BY <1>1, <1>2 DEF Store, Wired

\* A socket is there, or a timer for one: the network is on.
LEMMA NetOn ==
  ASSUME NEW w \in Tab, NEW s, Scoped(w, s), w.ws.st # "none" \/ w.ws.timer \/ w.ws.tok # NoToken \/ w.net.sid # 0
  PROVE  /\ w.net.on = TRUE /\ w.ws \in SocketType /\ w.net \in NetType
         /\ w.ws.as \in {NoToken, w.ws.tok} /\ w.ws.as \in Sort /\ w.ws.tok = w.net.cur /\ Placed(w.net)
<1>1. w.net \in NetType /\ w.ws \in SocketType
  BY TabFields
<1>2. w.net.on \in BOOLEAN /\ w.ws.as \in Sort
  BY <1>1, SocketFields DEF NetType
<1> QED BY <1>1, <1>2 DEF Scoped

LEMMA WireStep ==
  ASSUME NEW s \in Sort, NEW R \in SUBSET Renewal, NEW m \in Nat, NEW w, Inv(w, s, R, m), w.net.on = TRUE,
         NEW k \in SocketType, NEW n \in NetType, n.on = TRUE, n.cur = w.net.cur, k.tok = w.ws.tok,
         k.as \in {NoToken, k.tok}, Placed(n)
  PROVE  Inv([w EXCEPT !.ws = k, !.net = n], s, R, m)
<1> DEFINE v == Wired(w, k, n)
<1>1. w \in Tab
  BY DEF Inv
<1>4. v \in Tab /\ v.ws = k /\ v.net = n /\ Store(v) = Store(w)
  BY <1>1, WireSet
<1> HIDE DEF v
<1>3. Inv(v, s, R, m)
  BY <1>4, WireKeeps
<1> QED BY <1>3 DEF v, Wired

LEMMA PageKeeps ==
  ASSUME ClientInv, Shown, PageEffect
  PROVE  ClientInv'
<1> DEFINE w == Now
           t == auth.tok
<1>1. /\ Inv(w, seen, renews, minted) /\ w \in Tab /\ Queued(w) /\ Guarded(w) /\ Scoped(w, seen) /\ Quiet(w)
      /\ Aged(w, seen, renews, minted) /\ seen \in Sort /\ renews \in SUBSET Renewal /\ minted \in Nat
      /\ w.auth = auth /\ t \in Sort /\ w.ws \in SocketType /\ w.net \in NetType
  BY Given, GivenTypes, TabFields
<1>2. /\ t # NoToken /\ seen' = t /\ srv' = srv /\ minted' = minted /\ renews' = renews
      /\ Moves(InitNetwork(w, t))
  BY DEF PageEffect, Shows, Shown
<1> HIDE DEF w
<1>3. ASSUME NEW v \in Tab, Store(v) = Store(w), Moves(v), Scoped(v, t) PROVE ClientInv'
  <2>1. v.auth = w.auth /\ v.ops = w.ops /\ v.locks = w.locks /\ v.call = w.call
    BY <1>3 DEF Store
  <2>2. Queued(v) /\ Guarded(v)
    BY <1>1, <2>1 DEF Queued, Guarded
  <2>3. Quiet(v)
    BY <1>1, <1>2, <2>1 DEF Quiet
  <2>4. Aged(v, t, renews, minted)
    <3>1. Older(t, t) /\ w.auth.tok = t
      BY <1>1, SortFacts DEF Older
    <3> HIDE DEF t
    <3> QED BY <1>1, <2>1, <3>1 DEF Aged
  <2>5. Inv(v, t, renews, minted)
    BY <1>3, <2>2, <2>3, <2>4 DEF Inv
  <2>6. Now' = v
    BY <1>3, MovesNow
  <2> QED BY <1>1, <1>2, <2>5, <2>6 DEF ClientInv
<1>4. CASE w.net.on /\ w.net.cur = t
  <2>1. InitNetwork(w, t) = w /\ Scoped(w, t)
    BY <1>1, <1>4 DEF InitNetwork, Scoped
  <2> QED BY <1>1, <1>2, <1>3, <2>1
<1>5. CASE ~(w.net.on /\ w.net.cur = t)
  <2> DEFINE e == IF w.net.on THEN Ended(w.net) ELSE w.net
             n == [e EXCEPT !.on = TRUE, !.cur = t, !.status = "connecting"]
             k == Connected(w.ws, t)
             v == Wired(w, k, n)
  <2>1. e \in NetType /\ e.sid = 0 /\ ~e.peers
    BY <1>1, EndedFacts DEF Scoped
  <2>2. InitNetwork(w, t) = v
    <3>1. InitNetwork(w, t) = [w EXCEPT !.net = n, !.ws = k]
      BY <1>5 DEF InitNetwork
    <3>2. [w EXCEPT !.net = n, !.ws = k] = [w EXCEPT !.ws = k, !.net = n]
      <4> HIDE DEF n, k
      <4> QED BY <1>1 DEF Tab
    <3> QED BY <3>1, <3>2 DEF Wired
  <2> HIDE DEF e
  <2>3. n \in NetType /\ n.on = TRUE /\ n.cur = t /\ Placed(n)
    BY <1>1, <2>1 DEF NetType, Sort, Placed
  <2>4. k \in SocketType /\ k.tok = t /\ k.as \in {NoToken, t}
    BY <1>1, ConnectedFacts DEF Scoped
  <2>5. Moves(v)
    BY <1>2, <2>2
  <2> HIDE DEF n, k
  <2>6. v \in Tab /\ v.ws = k /\ v.net = n /\ Store(v) = Store(w)
    BY <1>1, <2>3, <2>4, WireSet
  <2> HIDE DEF v
  <2>7. Scoped(v, t)
    BY <1>2, <2>3, <2>4, <2>6 DEF Scoped
  <2> QED BY <1>3, <2>5, <2>6, <2>7
<1> QED BY <1>4, <1>5

\* An action that only moves the socket and the state of a running network.
LEMMA WireInv ==
  ASSUME ClientInv, ws.st # "none" \/ ws.timer \/ ws.tok # NoToken \/ net.sid # 0,
         NEW k \in SocketType, NEW n \in NetType, n.on = TRUE, n.cur = net.cur, Placed(n),
         k.tok = ws.tok, k.as \in {NoToken, k.tok},
         Moves([Now EXCEPT !.ws = k, !.net = n]), UNCHANGED Outside
  PROVE  ClientInv'
<1> DEFINE w == Now
<1>1. /\ Inv(w, seen, renews, minted) /\ w \in Tab /\ Scoped(w, seen) /\ w.ws = ws /\ w.net = net
      /\ seen \in Sort /\ renews \in SUBSET Renewal /\ minted \in Nat
  BY Given
<1> HIDE DEF w
<1>2. w.net.on = TRUE
  BY <1>1, NetOn
<1>3. Inv([w EXCEPT !.ws = k, !.net = n], seen, renews, minted)
  BY <1>1, <1>2, WireStep
<1> QED BY <1>3, TabKept DEF w

LEMMA WireGiven ==
  ASSUME ClientInv, ws.st # "none" \/ ws.timer \/ ws.tok # NoToken \/ net.sid # 0
  PROVE  /\ net.on = TRUE /\ ws \in SocketType /\ net \in NetType
         /\ ws.as \in {NoToken, ws.tok} /\ ws.as \in Sort /\ ws.tok = net.cur /\ Placed(net)
BY Given, NetOn

\* The same, when only the socket changes.
LEMMA SocketInv ==
  ASSUME ClientInv, ws.st # "none" \/ ws.timer \/ ws.tok # NoToken \/ net.sid # 0,
         NEW k \in SocketType, k.tok = ws.tok, k.as \in {NoToken, k.tok},
         Moves([Now EXCEPT !.ws = k]), UNCHANGED Outside
  PROVE  ClientInv'
<1>1. net.on = TRUE /\ net \in NetType /\ Placed(net)
  BY WireGiven
<1>2. [Now EXCEPT !.ws = k] = [Now EXCEPT !.ws = k, !.net = net]
  <2> DEFINE w == Now
  <2>1. w \in Tab /\ w.net = net
    BY Given
  <2> HIDE DEF w
  <2>2. [w EXCEPT !.ws = k] = [w EXCEPT !.ws = k, !.net = net]
    BY <2>1 DEF Tab
  <2> QED BY <2>2 DEF w
<1> QED BY <1>1, <1>2, WireInv

LEMMA OpensKeeps ==
  ASSUME ClientInv, SocketOpens
  PROVE  ClientInv'
<1> DEFINE k == Opened(ws)
           q == IF net.on THEN "connecting" ELSE net.status
           n == [net EXCEPT !.status = q]
<1>1. ws.st = "connecting" /\ UNCHANGED Outside /\ Moves(SocketOpened(Now))
  BY DEF SocketOpens, Becomes, Shows
<1>2. net.on = TRUE /\ ws \in SocketType /\ net \in NetType /\ Placed(net)
  BY <1>1, WireGiven
<1>3. k \in SocketType /\ k.tok = ws.tok /\ k.as = ws.tok
  BY <1>2 DEF Opened, SocketType
<1>4. SocketOpened(Now) = [Now EXCEPT !.ws = k, !.net = n]
  BY DEF SocketOpened, Now
<1> HIDE DEF k
<1>5. n \in NetType /\ n.on = TRUE /\ n.cur = net.cur /\ Placed(n)
  BY <1>2 DEF NetType, Placed
<1> HIDE DEF n
<1> QED BY <1>1, <1>3, <1>4, <1>5, WireInv

LEMMA WelcomesKeeps ==
  ASSUME ClientInv, ServerWelcomes
  PROVE  ClientInv'
<1> DEFINE k == [ws EXCEPT !.wel = TRUE]
           e == IF net.sid \notin {0, ws.as.sid} THEN Ended(net) ELSE net
           n == [e EXCEPT !.sid = ws.as.sid, !.status = "online", !.joined = TRUE]
<1>1. ws.st = "open" /\ UNCHANGED Outside /\ Moves(Welcome(Now))
  BY DEF ServerWelcomes, Becomes, Shows
<1>2. /\ net.on = TRUE /\ ws \in SocketType /\ net \in NetType /\ ws.as \in {NoToken, ws.tok} /\ ws.as \in Sort
      /\ ws.tok = net.cur /\ Placed(net) /\ ws.as # NoToken
  BY <1>1, WireGiven DEF ServerWelcomes, Live
<1>3. k \in SocketType /\ k.tok = ws.tok /\ k.as = ws.as
  BY <1>2 DEF SocketType
<1>4. Welcome(Now) = [Now EXCEPT !.ws = k, !.net = n]
  <2> DEFINE w == Now
             x == IF w.net.sid \notin {0, w.ws.as.sid} THEN Ended(w.net) ELSE w.net
  <2>1. w \in Tab /\ w.net = net /\ w.ws = ws
    BY Given
  <2>2. Welcome(w) = [w EXCEPT !.ws.wel = TRUE,
                               !.net = [x EXCEPT !.sid = w.ws.as.sid, !.status = "online", !.joined = TRUE]]
    BY DEF Welcome
  <2> HIDE DEF w
  <2>3. [w EXCEPT !.ws.wel = TRUE, !.net = n] = [w EXCEPT !.ws = [w.ws EXCEPT !.wel = TRUE], !.net = n]
    OBVIOUS
  <2>4. Welcome(w) = [w EXCEPT !.ws.wel = TRUE, !.net = n]
    BY <2>1, <2>2
  <2> HIDE DEF n
  <2>5. Welcome(w) = [w EXCEPT !.ws = k, !.net = n]
    BY <2>1, <2>3, <2>4
  <2> QED BY <2>5 DEF w
<1> HIDE DEF k
<1>5. e \in NetType /\ e.on = net.on /\ e.cur = net.cur
  BY <1>2, EndedFacts
<1> HIDE DEF e
<1>6. ws.as.sid \in 0..MaxSid /\ ws.as.sid # 0 /\ ws.as = net.cur
  BY <1>2, SortFacts
<1>7. n \in NetType /\ n.on = TRUE /\ n.cur = net.cur /\ n.sid = ws.as.sid
  BY <1>2, <1>5, <1>6 DEF NetType
<1>8. Placed(n)
  BY <1>6, <1>7 DEF Placed
<1> HIDE DEF n
<1> QED BY <1>1, <1>2, <1>3, <1>4, <1>7, <1>8, WireInv

LEMMA GoneFacts ==
  ASSUME ClientInv, ws.st # "none", NEW code \in {"plain", "invalid"}
  PROVE  Inv(SocketGone(Now, code), seen, renews, minted)
<1> DEFINE w == Now
           k == Closed(ws, code)
           q == IF net.cur # NoToken THEN "reconnecting" ELSE "offline"
           n == [net EXCEPT !.joined = FALSE, !.status = q]
<1>1. /\ Inv(w, seen, renews, minted) /\ w \in Tab /\ w.ws = ws /\ w.net = net
      /\ seen \in Sort /\ renews \in SUBSET Renewal /\ minted \in Nat
  BY Given
<1>2. net.on = TRUE /\ ws \in SocketType /\ net \in NetType /\ Placed(net)
  BY WireGiven
<1>3. k \in SocketType /\ k.tok = ws.tok /\ k.as = NoToken
  <2> DEFINE d == Detached(ws)
  <2>1. d \in SocketType /\ d.as = NoToken /\ d.tok = ws.tok
    BY <1>2, DetachedFacts
  <2>2. k = IF code = "invalid" THEN [d EXCEPT !.shut = TRUE] ELSE Scheduled(d)
    BY DEF Closed
  <2> HIDE DEF d, k
  <2>3. CASE code = "invalid"
    BY <2>1, <2>2, <2>3 DEF SocketType
  <2>4. CASE code # "invalid"
    BY <2>1, <2>2, <2>4, ScheduledFacts
  <2> QED BY <2>3, <2>4
<1>4. SocketGone(w, code) = [w EXCEPT !.ws = k, !.net = n]
  <2> HIDE DEF w
  <2> QED BY <1>1, <1>2 DEF SocketGone
<1> HIDE DEF k, w
<1>5. q \in {"reconnecting", "offline"}
  OBVIOUS
<1> HIDE DEF q
<1>6. n \in NetType /\ n.on = TRUE /\ n.cur = net.cur /\ Placed(n)
  BY <1>2, <1>5 DEF NetType, Placed
<1> HIDE DEF n
<1>7. Inv([w EXCEPT !.ws = k, !.net = n], seen, renews, minted)
  BY <1>1, <1>2, <1>3, <1>6, WireStep
<1> QED BY <1>4, <1>7 DEF w

LEMMA GoneKeeps ==
  ASSUME ClientInv, ws.st # "none", Moves(SocketGone(Now, "plain")), UNCHANGED Outside
  PROVE  ClientInv'
<1>1. "plain" \in {"plain", "invalid"}
  OBVIOUS
<1> QED BY <1>1, GoneFacts, TabKept

LEMMA RejectsKeeps ==
  ASSUME ClientInv, ServerRejectsSocket
  PROVE  ClientInv'
<1> DEFINE w == SocketGone(Now, "invalid")
<1>1. ws.st \in {"open", "closing"} /\ Moves(AuthInvalid(w)) /\ UNCHANGED Outside
  BY DEF ServerRejectsSocket, Invalid, Becomes, Shows
<1>2. Inv(w, seen, renews, minted)
  <2>1. "invalid" \in {"plain", "invalid"} /\ ws.st # "none"
    BY <1>1
  <2> QED BY <2>1, GoneFacts
<1> HIDE DEF w
<1>3. Inv(AuthInvalid(w), seen, renews, minted)
  BY <1>2, Given, AuthInvalidKeeps
<1> QED BY <1>1, <1>3, TabKept

LEMMA SocketClosesKeeps ==
  ASSUME ClientInv, SocketCloses
  PROVE  ClientInv'
<1> DEFINE k == [ws EXCEPT !.st = "closing"]
<1>1. ws.st # "none" /\ UNCHANGED Outside /\ Moves([Now EXCEPT !.ws = k])
  BY DEF SocketCloses, Now, Becomes, Shows
<1>2. ws \in SocketType /\ ws.as \in {NoToken, ws.tok}
  BY <1>1, WireGiven
<1>3. k \in SocketType /\ k.tok = ws.tok /\ k.as = ws.as
  BY <1>2 DEF SocketType
<1> HIDE DEF k
<1> QED BY <1>1, <1>2, <1>3, SocketInv

LEMMA WatchdogKeeps ==
  ASSUME ClientInv, WatchdogBites
  PROVE  ClientInv'
<1> DEFINE k == Bitten(ws)
<1>1. ws.st # "none" /\ UNCHANGED Outside /\ Moves([Now EXCEPT !.ws = k])
  BY DEF WatchdogBites, Now, Becomes, Shows
<1>2. ws \in SocketType
  BY GivenTypes
<1>3. k \in SocketType /\ k.tok = ws.tok /\ k.as = NoToken
  <2>1. Detached(ws) \in SocketType /\ Detached(ws).as = NoToken /\ Detached(ws).tok = ws.tok
    BY <1>2, DetachedFacts
  <2> QED BY <2>1, ScheduledFacts DEF Bitten
<1> HIDE DEF k
<1> QED BY <1>1, <1>3, SocketInv

LEMMA ReconnectKeeps ==
  ASSUME ClientInv, ReconnectFires
  PROVE  ClientInv'
<1> DEFINE u == [ws EXCEPT !.timer = FALSE]
           k == Dialled(u)
<1>1. ws.timer /\ UNCHANGED Outside /\ Moves([Now EXCEPT !.ws = k])
  BY DEF ReconnectFires, Now, Becomes, Shows
<1>2. ws \in SocketType /\ ws.as \in {NoToken, ws.tok}
  BY <1>1, WireGiven
<1>3. u \in SocketType /\ u.tok = ws.tok /\ u.as = ws.as
  BY <1>2 DEF SocketType
<1> HIDE DEF u
<1>4. k \in SocketType /\ k.tok = ws.tok /\ k.as \in {ws.as, NoToken}
  BY <1>3, DialledFacts
<1> HIDE DEF k
<1> QED BY <1>1, <1>2, <1>4, SocketInv

LEMMA ShutdownKeeps ==
  ASSUME ClientInv, ServerShutsDown
  PROVE  ClientInv'
<1> DEFINE k == [ws EXCEPT !.shut = TRUE, !.st = "closing"]
           n == [net EXCEPT !.joined = FALSE, !.status = "offline"]
<1>1. ws.st # "none" /\ UNCHANGED Outside /\ Moves([ShutdownTold(Now) EXCEPT !.ws.st = "closing"])
  BY DEF ServerShutsDown, Becomes, Shows
<1>2. net.on = TRUE /\ ws \in SocketType /\ net \in NetType /\ ws.as \in {NoToken, ws.tok} /\ Placed(net)
  BY <1>1, WireGiven
<1>3. [ShutdownTold(Now) EXCEPT !.ws.st = "closing"] = [Now EXCEPT !.ws = k, !.net = n]
  <2> DEFINE w == Now
  <2>1. w \in Tab /\ w.net = net /\ w.ws = ws
    BY Given
  <2> HIDE DEF w
  <2> DEFINE x == [w EXCEPT !.ws.shut = TRUE, !.net = n]
             y == [w EXCEPT !.ws = [w.ws EXCEPT !.shut = TRUE], !.net = n]
  <2>2. ShutdownTold(w) = x /\ x = y
    BY <2>1 DEF ShutdownTold
  <2> HIDE DEF n, x
  <2>3. y.ws = [w.ws EXCEPT !.shut = TRUE]
    BY <2>1 DEF Tab
  <2>4. [y EXCEPT !.ws.st = "closing"] = [y EXCEPT !.ws = [y.ws EXCEPT !.st = "closing"]]
    OBVIOUS
  <2>5. [y EXCEPT !.ws = [y.ws EXCEPT !.st = "closing"]] = [w EXCEPT !.ws = [y.ws EXCEPT !.st = "closing"], !.net = n]
    <3> DEFINE z == [y.ws EXCEPT !.st = "closing"]
    <3> HIDE DEF z
    <3> QED BY <2>1 DEF Tab
  <2>6. [y.ws EXCEPT !.st = "closing"] = k
    BY <1>2, <2>1, <2>3 DEF SocketType
  <2> QED BY <2>2, <2>4, <2>5, <2>6 DEF w
<1>4. k \in SocketType /\ k.tok = ws.tok /\ k.as = ws.as
  BY <1>2 DEF SocketType
<1>5. n \in NetType /\ n.on = TRUE /\ n.cur = net.cur /\ Placed(n)
  BY <1>2 DEF NetType, Placed
<1> HIDE DEF k, n
<1> QED BY <1>1, <1>2, <1>3, <1>4, <1>5, WireInv

LEMMA BackOnlineKeeps ==
  ASSUME ClientInv, BackOnline
  PROVE  ClientInv'
<1>1. UNCHANGED Outside
  BY DEF BackOnline, Becomes, Shows
<1>2. PICK throws \in BOOLEAN : Moves([Now EXCEPT !.ws = ReconnectedNow(ws, throws)])
  BY DEF BackOnline, Now, Becomes, Shows
<1> DEFINE k == ReconnectedNow(ws, throws)
<1>3. ws \in SocketType
  BY GivenTypes
<1>4. k \in SocketType /\ k.tok = ws.tok /\ k.as \in {ws.as, NoToken} /\ (ws.tok = NoToken => k = ws)
  BY <1>3, ReconnectedFacts
<1> HIDE DEF k
<1>5. CASE ws.tok # NoToken
  <2>1. ws.as \in {NoToken, ws.tok}
    BY <1>5, WireGiven
  <2> QED BY <1>1, <1>2, <1>4, <1>5, <2>1, SocketInv DEF k
<1>6. CASE ws.tok = NoToken
  <2> DEFINE w == Now
  <2>1. w \in Tab /\ w.ws = ws /\ Inv(w, seen, renews, minted)
    BY Given
  <2>2. Moves([w EXCEPT !.ws = ws])
    BY <1>2, <1>4, <1>6 DEF k
  <2> HIDE DEF w
  <2>3. [w EXCEPT !.ws = ws] = w
    BY <2>1 DEF Tab
  <2> QED BY <1>1, <2>1, <2>2, <2>3, TabKept
<1> QED BY <1>5, <1>6

LEMMA PeersKeeps ==
  ASSUME ClientInv, PeersArrive
  PROVE  ClientInv'
<1> DEFINE n == [net EXCEPT !.peers = TRUE]
<1>1. net.sid # 0 /\ UNCHANGED Outside /\ Moves([Now EXCEPT !.net = n])
  BY DEF PeersArrive, Ready, Now, Becomes, Shows
<1>2. net.on = TRUE /\ ws \in SocketType /\ net \in NetType /\ ws.as \in {NoToken, ws.tok} /\ Placed(net)
  BY <1>1, WireGiven
<1>3. n \in NetType /\ n.on = TRUE /\ n.cur = net.cur /\ Placed(n)
  BY <1>1, <1>2 DEF NetType, Placed
<1> HIDE DEF n
<1>4. [Now EXCEPT !.net = n] = [Now EXCEPT !.ws = ws, !.net = n]
  <2> DEFINE w == Now
  <2>1. w \in Tab /\ w.ws = ws
    BY Given
  <2> HIDE DEF w
  <2>2. [w EXCEPT !.net = n] = [w EXCEPT !.ws = ws, !.net = n]
    BY <2>1 DEF Tab
  <2> QED BY <2>2 DEF w
<1> QED BY <1>1, <1>2, <1>3, <1>4, WireInv

(***************************************************************************)
(* Around the tab.                                                         *)
(***************************************************************************)

LEMMA ForgetsKeeps ==
  ASSUME ClientInv, NEW s \in 1..MaxSid, ServerForgets(s)
  PROVE  ClientInv'
<1>1. /\ srv' = [srv EXCEPT ![s] = 0] /\ minted' = minted /\ renews' = renews /\ seen' = seen /\ Now' = Now
  BY DEF ServerForgets, Now
<1>2. srv \in [1..MaxSid -> 0..MaxVer] /\ \A k \in 1..MaxSid : srv[k] # 0 => k <= minted
  BY DEF ClientInv
<1>3. srv' \in [1..MaxSid -> 0..MaxVer] /\ \A k \in 1..MaxSid : srv'[k] # 0 => srv[k] # 0
  <2>1. 0 \in 0..MaxVer
    BY ClientBounds
  <2> QED BY <1>1, <1>2, <2>1
<1> QED BY <1>1, <1>2, <1>3 DEF ClientInv

\* The locks of the other tabs.
LEMMA OtherLocks ==
  ASSUME ClientInv, NEW n \in Node, NEW d \in {"free", "other"},
         Moves([Now EXCEPT !.locks[n] = d]), UNCHANGED Outside
  PROVE  ClientInv'
<1> DEFINE w == Now
           L == [locks EXCEPT ![n] = d]
           v == [w EXCEPT !.locks = L]
<1>1. Inv(w, seen, renews, minted) /\ w \in Tab /\ seen \in Sort /\ renews \in SUBSET Renewal /\ minted \in Nat /\ w.locks = locks
  BY Given
<1>2. locks \in [Node -> {"free", "mine", "other"}]
  BY GivenTypes
<1>3. L \in [Node -> {"free", "mine", "other"}] /\ \A k \in Node : L[k] = "mine" => locks[k] = "mine"
  BY <1>2
<1>4. Moves(v)
  BY DEF Now
<1> HIDE DEF w, L
<1>5. v \in Tab /\ v.auth = w.auth /\ v.ops = w.ops /\ Beside(w, v) /\ v.locks = L
  BY <1>1, <1>3 DEF Tab, Beside
<1> HIDE DEF v
<1>6. Inv(v, seen, renews, minted)
  BY <1>1, <1>3, <1>5, OutsideKeeps
<1> QED BY <1>4, <1>6, TabKept

LEMMA OthersKeep ==
  ASSUME ClientInv, NEW n \in Node, OtherTabTakes(n) \/ OtherTabLeaves(n)
  PROVE  ClientInv'
<1>1. CASE OtherTabTakes(n)
  <2>1. Moves([Now EXCEPT !.locks[n] = "other"]) /\ UNCHANGED Outside
    BY <1>1 DEF OtherTabTakes, Becomes, Shows
  <2> QED BY <2>1, OtherLocks
<1>2. CASE OtherTabLeaves(n)
  <2>1. Moves([Now EXCEPT !.locks[n] = "free"]) /\ UNCHANGED Outside
    BY <1>2 DEF OtherTabLeaves, Becomes, Shows
  <2> QED BY <2>1, OtherLocks
<1> QED BY <1>1, <1>2

LEMMA NewFacts ==
  /\ NewSocket \in SocketType /\ NewSocket.tok = NoToken /\ NewSocket.as = NoToken /\ NewSocket.st = "none"
  /\ NewSocket.timer = FALSE
  /\ NewNet \in NetType /\ NewNet.on = FALSE /\ NewNet.cur = NoToken /\ NewNet.sid = 0 /\ NewNet.peers = FALSE
<1>1. 0 \in 0..MaxSid
  BY ClientBounds
<1> QED BY <1>1, SortFacts DEF NewSocket, SocketType, NewNet, NetType, Sort

LEMMA NewAuthFacts ==
  ASSUME NEW n \in Node
  PROVE  /\ NewAuth(n) \in AuthType /\ NewAuth(n).tok = NoToken /\ NewAuth(n).pend = NoToken
         /\ NewAuth(n).cur = 0 /\ NewAuth(n).held = NoNode /\ NewAuth(n).out = FALSE
BY DEF NewAuth, AuthType

\* A page that has just been loaded.
Fresh(a, L) ==
    [auth |-> a, ops |-> {}, rels |-> {}, ws |-> NewSocket, net |-> NewNet, locks |-> L, call |-> NoCall]

LEMMA FreshInv ==
  ASSUME NEW a \in AuthType, NEW m \in Nat, a.tok.sid <= m, a.cur = 0, a.held = NoNode,
         a.out => a.tok = NoToken /\ a.pend = NoToken,
         NEW L \in [Node -> {"free", "mine", "other"}], \A n \in Node : L[n] # "mine"
  PROVE  Inv(Fresh(a, L), NoToken, {}, m)
<1> DEFINE v == Fresh(a, L)
<1>1. /\ v.auth = a /\ v.ops = {} /\ v.rels = {} /\ v.ws = NewSocket /\ v.net = NewNet /\ v.locks = L /\ v.call = NoCall
  BY DEF Fresh
<1>2. v \in Tab
  BY NewFacts, NoCallFacts DEF Fresh, Tab
<1> HIDE DEF v
<1>3. Queued(v)
  BY <1>1 DEF Queued
<1>4. Guarded(v)
  BY <1>1 DEF Guarded
<1>5. Scoped(v, NoToken)
  BY <1>1, NewFacts DEF Scoped, Placed
<1>6. Quiet(v)
  BY <1>1, NoCallFacts, NewFacts DEF Quiet
<1>7. Aged(v, NoToken, {}, m)
  <2>1. a.tok \in Sort
    BY AuthFields
  <2>2. a.tok # NoToken => Older(NoToken, a.tok)
    BY <2>1, SortFacts DEF Older
  <2> QED BY <1>1, <2>2, SortFacts DEF Aged
<1> QED BY <1>2, <1>3, <1>4, <1>5, <1>6, <1>7 DEF Inv, v

LEMMA LoadsKeeps ==
  ASSUME ClientInv, PageLoads
  PROVE  ClientInv'
<1> DEFINE L == [n \in Node |-> IF locks[n] = "mine" THEN "free" ELSE locks[n]]
<1>1. PICK valid \in BOOLEAN : Moves(Fresh(Restored(auth, valid), L))
  BY DEF PageLoads, Fresh, Shows
<1>2. renews' = {} /\ seen' = NoToken /\ srv' = srv /\ minted' = minted
  BY DEF PageLoads, Server, Becomes, Shows
<1>3. auth \in AuthType /\ locks \in [Node -> {"free", "mine", "other"}] /\ minted \in Nat
  BY GivenTypes, Given
<1>4. Quiet(Now) /\ Aged(Now, seen, renews, minted) /\ Now.auth = auth
  BY Given
<1>5. L \in [Node -> {"free", "mine", "other"}] /\ \A n \in Node : L[n] # "mine"
  BY <1>3
<1> DEFINE n == [NewAuth(auth.node) EXCEPT !.out = auth.out]
           a == Restored(auth, valid)
<1>6. /\ n \in AuthType /\ n.tok = NoToken /\ n.pend = NoToken /\ n.cur = 0 /\ n.held = NoNode /\ n.out = auth.out
  <2>1. auth.node \in Node /\ auth.out \in BOOLEAN
    BY <1>3, AuthFields
  <2> DEFINE b == NewAuth(auth.node)
  <2>2. b \in AuthType /\ b.tok = NoToken /\ b.pend = NoToken /\ b.cur = 0 /\ b.held = NoNode
    BY <2>1, NewAuthFacts
  <2> HIDE DEF b
  <2>3. n = [b EXCEPT !.out = auth.out]
    BY DEF b
  <2> HIDE DEF n
  <2> QED BY <2>1, <2>2, <2>3 DEF AuthType
<1>7. a \in {n, [n EXCEPT !.tok = auth.tok, !.proof = auth.proof, !.timer = (auth.tok # NoToken)]}
  BY DEF Restored
<1> HIDE DEF n, a
<1>8. a \in AuthType /\ a.tok \in {NoToken, auth.tok} /\ a.cur = 0 /\ a.held = NoNode /\ a.pend = NoToken
  <2>1. auth.tok \in Token \cup {NoToken} /\ auth.proof \in BOOLEAN /\ (auth.tok # NoToken) \in BOOLEAN
    BY <1>3 DEF AuthType
  <2> QED BY <1>6, <1>7, <2>1 DEF AuthType
<1>9. a.out = auth.out
  BY <1>6, <1>7 DEF AuthType
<1>10. a.tok.sid <= minted
  BY <1>3, <1>4, <1>8, SortFacts DEF Aged
<1>11. a.out => a.tok = NoToken /\ a.pend = NoToken
  BY <1>4, <1>8, <1>9 DEF Quiet
<1> HIDE DEF L
<1>12. Inv(Fresh(a, L), NoToken, {}, minted)
  BY <1>3, <1>5, <1>8, <1>10, <1>11, FreshInv
<1>13. Now' = Fresh(a, L)
  BY <1>1, <1>12, MovesNow DEF Inv, a
<1> QED BY <1>2, <1>12, <1>13, SortFacts DEF ClientInv

(***************************************************************************)
(* The invariant.                                                          *)
(***************************************************************************)

LEMMA ClientInit == Init => ClientInv
<1> SUFFICES ASSUME Init PROVE ClientInv
  OBVIOUS
<1>1. PICK n \in Node : auth = [NewAuth(n) EXCEPT !.pass = TRUE]
  BY DEF Init
<1> DEFINE L == [k \in Node |-> "free"]
           b == NewAuth(n)
<1>2. b \in AuthType /\ b.tok = NoToken /\ b.pend = NoToken /\ b.cur = 0 /\ b.held = NoNode
  BY NewAuthFacts
<1> HIDE DEF b
<1>3. auth = [b EXCEPT !.pass = TRUE]
  BY <1>1 DEF b
<1>4. auth \in AuthType /\ auth.tok = NoToken /\ auth.pend = NoToken /\ auth.cur = 0 /\ auth.held = NoNode
  BY <1>2, <1>3 DEF AuthType
<1>5. L \in [Node -> {"free", "mine", "other"}] /\ \A k \in Node : L[k] # "mine"
  OBVIOUS
<1>6. Now = Fresh(auth, L)
  BY DEF Init, Now, Fresh
<1> HIDE DEF L
<1>7. 0 \in Nat /\ auth.tok.sid <= 0
  BY <1>4, SortFacts
<1>8. Inv(Fresh(auth, L), NoToken, {}, 0)
  BY <1>4, <1>5, <1>7, FreshInv
<1>9. renews = {} /\ seen = NoToken /\ minted = 0 /\ srv = [s \in 1..MaxSid |-> 0]
  BY DEF Init
<1>10. 0 \in 0..MaxSid /\ 0 \in 0..MaxVer
  BY ClientBounds
<1> QED BY <1>6, <1>8, <1>9, <1>10, SortFacts DEF ClientInv

LEMMA StutterKeeps ==
  ASSUME ClientInv, UNCHANGED vars
  PROVE  ClientInv'
BY DEF vars, ClientInv, Now

\* A page change alone.
LEMMA OpensPageKeeps ==
  ASSUME ClientInv, UserOpens \/ UserLeaves
  PROVE  ClientInv'
<1>1. CASE UserOpens
  BY <1>1 DEF UserOpens, Outside, ClientInv, Now
<1>2. CASE UserLeaves
  <2>1. Inv(Now, seen, renews, minted) /\ Moves(Now) /\ UNCHANGED Outside
    BY <1>2, Given DEF UserLeaves, Shows
  <2> QED BY <2>1, TabKept
<1> QED BY <1>1, <1>2

LEMMA OperationKeeps ==
  ASSUME ClientInv, NEW o \in ops,
         Operation(o) \/ ServerRefuses(o) \/ AnswerLost(o) \/ AbortedRequestEnds(o) \/ RequestTimesOut(o)
  PROVE  ClientInv'
<1>1. CASE LockDecides(o)
  BY <1>1, LockDecidesKeeps
<1>2. CASE LockAnswers(o)
  BY <1>2, LockAnswersKeeps
<1>3. CASE ServerAdmits(o)
  BY <1>3, AdmitsKeeps
<1>4. CASE ServerRejectsProof(o)
  <2>1. o.at = "sent" /\ Replies(o, "badproof") /\ UNCHANGED Outside
    BY <1>4 DEF ServerRejectsProof
  <2> QED BY <2>1, RepliesKeep
<1>5. CASE ServerRefuses(o)
  <2>1. PICK ans \in {"busy", "full", "refused"} : Replies(o, ans)
    BY <1>5 DEF ServerRefuses
  <2>2. o.at = "sent" /\ UNCHANGED Outside
    BY <1>5 DEF ServerRefuses
  <2> QED BY <2>1, <2>2, RepliesKeep
<1>6. CASE AnswerLost(o)
  BY <1>6, LossKeeps
<1>7. CASE AnswerArrives(o)
  BY <1>7, ArrivesKeeps
<1>8. CASE AbortedRequestEnds(o)
  BY <1>8, AbortedKeeps
<1>9. CASE RequestTimesOut(o)
  BY <1>9, TimeoutKeeps
<1>10. CASE OperationCloses(o)
  BY <1>10, ClosesKeeps
<1> QED BY <1>1, <1>2, <1>3, <1>4, <1>5, <1>6, <1>7, <1>8, <1>9, <1>10 DEF Operation

LEMMA ServerKeeps ==
  ASSUME ClientInv,
         \/ \E r \in rels : ServerReleases(r) \/ ReleaseLost(r)
         \/ \E r \in renews : ServerRenews(r) \/ RenewalLost(r) \/ RenewAnswers(r)
         \/ RenewFires
  PROVE  ClientInv'
BY ReleasesKeep, ReleaseLossKeeps, ServerRenewsKeeps, RenewalLossKeeps, RenewAnswersKeeps, RenewFiresKeeps

LEMMA SocketKeeps ==
  ASSUME ClientInv, Socket \/ SocketDrops \/ SocketCloses \/ WatchdogBites \/ ServerShutsDown \/ BackOnline \/ PeersArrive
  PROVE  ClientInv'
<1>1. CASE SocketOpens
  BY <1>1, OpensKeeps
<1>2. CASE ServerWelcomes
  BY <1>2, WelcomesKeeps
<1>3. CASE ServerRejectsSocket
  BY <1>3, RejectsKeeps
<1>4. CASE ServerClosesReleased \/ SocketDrops \/ SocketClosed
  <2>1. ws.st # "none" /\ Moves(SocketGone(Now, "plain")) /\ UNCHANGED Outside
    BY <1>4 DEF ServerClosesReleased, SocketDrops, SocketClosed, Becomes, Shows
  <2> QED BY <2>1, GoneKeeps
<1>5. CASE ReconnectFires
  BY <1>5, ReconnectKeeps
<1>6. CASE SocketCloses
  BY <1>6, SocketClosesKeeps
<1>7. CASE WatchdogBites
  BY <1>7, WatchdogKeeps
<1>8. CASE ServerShutsDown
  BY <1>8, ShutdownKeeps
<1>9. CASE BackOnline
  BY <1>9, BackOnlineKeeps
<1>10. CASE PeersArrive
  BY <1>10, PeersKeeps
<1> QED BY <1>1, <1>2, <1>3, <1>4, <1>5, <1>6, <1>7, <1>8, <1>9, <1>10 DEF Socket

LEMMA UserKeeps ==
  ASSUME ClientInv, Shown,
         \/ UserConnects \/ UserJoins \/ (\E n \in Node, p \in BOOLEAN : UserEdits(n, p)) \/ UserLogsOut
         \/ UserOpens \/ UserLeaves \/ CooldownEnds
         \/ FetchStarts \/ Page
         \/ \E s \in 1..MaxSid : ServerForgets(s)
         \/ \E n \in Node : OtherTabTakes(n) \/ OtherTabLeaves(n)
         \/ PageLoads
  PROVE  ClientInv'
<1>1. CASE UserConnects
  <2>1. Moves(Connect([Now EXCEPT !.auth.out = FALSE], "plain", NoToken)) /\ UNCHANGED Outside
    BY <1>1 DEF UserConnects, Becomes, Shows
  <2> QED BY <2>1, LoginKeeps
<1>2. CASE UserJoins
  <2>1. Moves(Connect([Now EXCEPT !.auth.out = FALSE], "grant", NoToken)) /\ UNCHANGED Outside
    BY <1>2 DEF UserJoins, Becomes, Shows
  <2> QED BY <2>1, LoginKeeps
<1>3. CASE \E n \in Node, p \in BOOLEAN : UserEdits(n, p)
  BY <1>3, EditsKeep
<1>4. CASE UserLogsOut
  BY <1>4, LogoutKeeps
<1>5. CASE CooldownEnds
  BY <1>5, CooldownKeeps
<1>6. CASE FetchStarts
  BY <1>6, FetchStartsKeeps
<1>7. CASE Page
  BY <1>7, FetchServedKeeps, FetchAnsweredKeeps, FetchResumesKeeps, PageKeeps DEF Page
<1>8. CASE \E s \in 1..MaxSid : ServerForgets(s)
  BY <1>8, ForgetsKeeps
<1>9. CASE \E n \in Node : OtherTabTakes(n) \/ OtherTabLeaves(n)
  BY <1>9, OthersKeep
<1>10. CASE PageLoads
  BY <1>10, LoadsKeeps
<1>11. CASE UserOpens \/ UserLeaves
  BY <1>11, OpensPageKeeps
<1> QED BY <1>1, <1>2, <1>3, <1>4, <1>5, <1>6, <1>7, <1>8, <1>9, <1>10, <1>11

\* Whatever a step does to the store, the page it shows needs a session.
LEMMA ShownNext == Shown /\ [Next]_vars => Shown'
<1> SUFFICES ASSUME Shown, [Next]_vars PROVE Shown'
  OBVIOUS
<1>1. ASSUME NEW w, NEW p \in {"away", "opening", "open"}, Shows(w, p) PROVE Shown'
  BY <1>1 DEF Shows, Moves, Shown
<1>2. ASSUME NEW w, Becomes(w) PROVE Shown'
  <2>1. Shows(w, page) /\ page \in {"away", "opening", "open"}
    BY <1>2 DEF Becomes, Shown
  <2> QED BY <1>1, <2>1
<1>3. CASE UNCHANGED <<page, auth>>
  BY <1>3 DEF Shown
<1>4. CASE UNCHANGED vars
  BY <1>3, <1>4 DEF vars
<1>5. CASE \/ UserConnects \/ UserJoins \/ (\E n \in Node, p \in BOOLEAN : UserEdits(n, p)) \/ UserLogsOut
           \/ UserOpens \/ UserLeaves \/ CooldownEnds
  <2>1. CASE UserConnects
    BY <1>2, <2>1 DEF UserConnects
  <2>2. CASE UserJoins
    BY <1>1, <2>2 DEF UserJoins
  <2>3. CASE \E n \in Node, p \in BOOLEAN : UserEdits(n, p)
    BY <1>2, <2>3 DEF UserEdits
  <2>4. CASE UserLogsOut
    BY <1>2, <2>4 DEF UserLogsOut
  <2>5. CASE UserOpens
    BY <2>5 DEF UserOpens, Shown
  <2>6. CASE UserLeaves
    BY <1>1, <2>6 DEF UserLeaves
  <2>7. CASE CooldownEnds
    BY <1>2, <2>7 DEF CooldownEnds
  <2> QED BY <1>5, <2>1, <2>2, <2>3, <2>4, <2>5, <2>6, <2>7
<1>6. CASE \E o \in ops : \/ Operation(o) \/ ServerRefuses(o) \/ AnswerLost(o)
                          \/ AbortedRequestEnds(o) \/ RequestTimesOut(o)
  <2>1. PICK o \in ops : \/ Operation(o) \/ ServerRefuses(o) \/ AnswerLost(o)
                         \/ AbortedRequestEnds(o) \/ RequestTimesOut(o)
    BY <1>6
  <2>2. CASE AnswerArrives(o)
    <3>1. Onward(o) \subseteq {"away", "opening", "open"}
      BY DEF Onward, Shown
    <3> QED BY <1>1, <2>2, <3>1 DEF AnswerArrives
  <2>3. CASE LockDecides(o) \/ LockAnswers(o)
    BY <1>2, <2>3 DEF LockDecides, LockAnswers
  <2>4. CASE ServerAdmits(o) \/ ServerRejectsProof(o) \/ ServerRefuses(o) \/ OperationCloses(o)
    BY <1>2, <2>4 DEF ServerAdmits, ServerRejectsProof, ServerRefuses, Replies, OperationCloses
  <2>5. CASE AnswerLost(o) \/ AbortedRequestEnds(o) \/ RequestTimesOut(o)
    BY <1>2, <2>5 DEF AnswerLost, AbortedRequestEnds, RequestTimesOut
  <2> QED BY <2>1, <2>2, <2>3, <2>4, <2>5 DEF Operation
<1>7. CASE \/ \E r \in rels : ServerReleases(r) \/ ReleaseLost(r)
           \/ \E r \in renews : ServerRenews(r) \/ RenewalLost(r) \/ RenewAnswers(r)
           \/ RenewFires
  BY <1>2, <1>3, <1>7 DEF ServerReleases, ReleaseLost, ServerRenews, RenewalLost, RenewAnswers, RenewFires
<1>8. CASE FetchStarts \/ Page
  <2>1. CASE FetchStarts \/ FetchServed \/ FetchAnswered \/ FetchResumes
    BY <1>2, <2>1 DEF FetchStarts, FetchServed, FetchAnswered, FetchResumes
  <2>2. CASE PageEffect
    BY <1>1, <2>2 DEF PageEffect
  <2> QED BY <1>8, <2>1, <2>2 DEF Page
<1>9. CASE Socket \/ SocketDrops \/ SocketCloses \/ WatchdogBites \/ ServerShutsDown \/ BackOnline \/ PeersArrive
  <2>1. CASE SocketOpens \/ ServerWelcomes \/ ServerRejectsSocket \/ ServerClosesReleased
    BY <1>2, <2>1 DEF SocketOpens, ServerWelcomes, ServerRejectsSocket, ServerClosesReleased
  <2>2. CASE SocketClosed \/ ReconnectFires \/ SocketDrops \/ SocketCloses \/ WatchdogBites
    BY <1>2, <2>2 DEF SocketClosed, ReconnectFires, SocketDrops, SocketCloses, WatchdogBites
  <2>3. CASE ServerShutsDown \/ BackOnline \/ PeersArrive
    BY <1>2, <2>3 DEF ServerShutsDown, BackOnline, PeersArrive
  <2> QED BY <1>9, <2>1, <2>2, <2>3 DEF Socket
<1>10. CASE \/ \E s \in 1..MaxSid : ServerForgets(s)
            \/ \E n \in Node : OtherTabTakes(n) \/ OtherTabLeaves(n)
            \/ PageLoads
  <2>1. CASE \E s \in 1..MaxSid : ServerForgets(s)
    BY <1>3, <2>1 DEF ServerForgets
  <2>2. CASE \E n \in Node : OtherTabTakes(n) \/ OtherTabLeaves(n)
    BY <1>2, <2>2 DEF OtherTabTakes, OtherTabLeaves
  <2>3. CASE PageLoads
    BY <1>1, <2>3 DEF PageLoads
  <2> QED BY <1>10, <2>1, <2>2, <2>3
<1> QED BY <1>4, <1>5, <1>6, <1>7, <1>8, <1>9, <1>10 DEF Next

LEMMA ClientNext == ClientInv /\ Shown /\ [Next]_vars => ClientInv'
<1> SUFFICES ASSUME ClientInv, Shown, [Next]_vars PROVE ClientInv'
  OBVIOUS
<1>1. CASE UNCHANGED vars
  BY <1>1, StutterKeeps
<1>2. CASE Next
  BY <1>2, UserKeeps, OperationKeeps, ServerKeeps, SocketKeeps DEF Next
<1> QED BY <1>1, <1>2

LEMMA ClientSafe == Spec => [](ClientInv /\ Shown)
<1>1. Init => Shown
  BY DEF Init, Shown
<1> QED BY <1>1, ClientInit, ClientNext, ShownNext, PTL DEF Spec

(***************************************************************************)
(* What follows from it.                                                   *)
(***************************************************************************)

\* Type correctness of a tab and of what the server holds for it, for any identities, any
\* number of sessions and renewals, and any mix of disturbances; no two operations of the
\* store have the same generation.
THEOREM ClientTypes == Spec => []TypeOK
<1>1. ClientInv /\ Shown => TypeOK
  <2> SUFFICES ASSUME ClientInv, Shown PROVE TypeOK
    OBVIOUS
  <2>1. Queued(Now) /\ Now.ops = ops
    BY Given
  <2>2. \A o \in ops, n \in ops : o.id = n.id => o = n
    BY <2>1 DEF Queued
  <2> QED BY <2>2, GivenTypes DEF ClientInv, Shown, TypeOK, Sort
<1> QED BY <1>1, ClientSafe, PTL

\* Once the network page has seen the session of the store, the network has no socket, token,
\* session id or peers of another one, whatever replaced the session (a renewal, a new login, a
\* recovery) and whenever the page was left and opened; and after a logout neither network nor
\* socket nor reconnect timer is left.
THEOREM NetworkSpeaksForSession == Spec => []SpeaksForSession
<1>1. ClientInv => SpeaksForSession
  <2> SUFFICES ASSUME ClientInv PROVE SpeaksForSession
    OBVIOUS
  <2>1. Scoped(Now, seen) /\ Quiet(Now) /\ Now.auth = auth /\ Now.ws = ws /\ Now.net = net
    BY Given
  <2>2. ws.timer \in BOOLEAN /\ net.peers \in BOOLEAN /\ net.on \in BOOLEAN
    BY GivenTypes DEF SocketType, NetType
  <2>3. ASSUME seen = auth.tok
        PROVE  /\ ws.tok = auth.tok /\ net.cur = auth.tok /\ net.on = (auth.tok # NoToken)
               /\ ws.as # NoToken => ws.as.sid = auth.tok.sid
               /\ net.peers => net.sid = auth.tok.sid
    <3>1. net.on = (auth.tok # NoToken) /\ net.cur = auth.tok /\ ws.tok = auth.tok
      BY <2>1, <2>3 DEF Scoped
    <3>2. ws.as # NoToken => ws.as.sid = auth.tok.sid
      BY <2>1, <3>1 DEF Scoped
    <3>3. net.peers => net.sid = auth.tok.sid
      BY <2>1, <3>1 DEF Scoped, Placed
    <3> QED BY <3>1, <3>2, <3>3
  <2>4. auth.out => ~net.on /\ ~net.peers /\ ws.tok = NoToken /\ ws.st = "none" /\ ~ws.timer
    BY <2>1, <2>2 DEF Scoped, Quiet
  <2> QED BY <2>3, <2>4 DEF SpeaksForSession
<1> QED BY <1>1, ClientSafe, PTL

\* A tab with no session and no operation under way holds the lock of no node id, so another
\* tab can always take it: every way an operation fails, is superseded or is answered late
\* frees what it was granted.
THEOREM LocksFreedAtRest == Spec => []LockFreedAtRest
<1>1. ClientInv => LockFreedAtRest
  <2> SUFFICES ASSUME ClientInv, auth.tok = NoToken, {o \in ops : Active(auth, o)} = {},
                      NEW n \in Node, locks[n] = "mine"
               PROVE  FALSE
    BY DEF LockFreedAtRest
  <2>1. Guarded(Now) /\ Now.auth = auth /\ Now.ops = ops /\ Now.locks = locks
    BY Given
  <2>2. \A o \in ops : ~Active(auth, o)
    OBVIOUS
  <2>3. auth.held = NoNode
    BY <2>1, <2>2 DEF Guarded
  <2>4. n = auth.held \/ \E o \in ops : o.at = "granted"
    BY <2>1 DEF Guarded
  <2> QED BY <2>2, <2>3, <2>4, NodeNames DEF Active
<1> QED BY <1>1, ClientSafe, PTL

\* After a logout with no request of a page out, no session comes back before the user
\* connects: not from an operation whose answer is late, a renewal under way, a release that
\* ends, nor a close of the socket.
THEOREM LogoutIsFinal == Spec => []StaysLoggedOut
<1>1. ClientInv => StaysLoggedOut
  BY Given DEF Quiet, StaysLoggedOut
<1> QED BY <1>1, ClientSafe, PTL
=============================================================================
