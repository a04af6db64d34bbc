----------------------- MODULE SessionRegistry_proofs -----------------------
(***************************************************************************)
(* Safety of the session registry for every value of the constants.        *)
(*                                                                         *)
(* The type invariant is not inductive by itself: a handler dereferences   *)
(* the session a socket's closure is bound to and the invitation a waiting *)
(* request was admitted under, so IInv adds that these exist.              *)
(***************************************************************************)
EXTENDS SessionRegistry, FiniteSetTheorems, TLAPS

\* A closure's session and a request's invitation are objects that exist, and
\* an invitation with no guesses left is burnt.
References ==
    /\ \A c \in Conn : conn[c].sid # NoSid => obj[conn[c].sid] # NoSession
    /\ \A r \in Req : pend[r] # NoReq /\ pend[r].via # NoQr => inv[pend[r].via] # NoInv
    /\ \A q \in Qr : inv[q] # NoInv /\ inv[q].wrong = MaxAttempts => inv[q].used

IInv == RegistryTypeOK /\ References

----------------------------------------------------------------------------
(* What the helpers return.                                                *)

\* terminateSession keeps the objects of the departing sessions well formed,
\* and mints or destroys none.
LEMMA DetachedObjects ==
    ASSUME RegistryTypeOK, NEW S \in SUBSET Sid, \A s \in S : obj[s] # NoSession
    PROVE  /\ Detached(S) \in [Sid -> Session \cup {NoSession}]
           /\ \A s \in Sid : Detached(S)[s] = NoSession <=> obj[s] = NoSession
<1>1. ASSUME NEW s \in S
      PROVE  /\ [obj[s] EXCEPT !.joined = FALSE, !.sock = NoConn] \in Session
             /\ [obj[s] EXCEPT !.joined = FALSE, !.sock = NoConn] # NoSession
  <2>1. obj[s] \in Session
    BY DEF RegistryTypeOK
  <2> QED
    BY <2>1, SentinelAssumption DEF Session
<1> QED
  BY <1>1 DEF RegistryTypeOK, Detached

\* The other variables of a teardown keep their types.
LEMMA TeardownTypes ==
    ASSUME RegistryTypeOK, NEW S \in SUBSET Sid
    PROVE  /\ Vacated(S) \in [Node \X Pass -> SUBSET Sid]
           /\ HungUp(S) \in [Conn -> Socket]
           /\ \A c \in Conn : HungUp(S)[c].sid = conn[c].sid
           /\ Retracted(S) \in [Conn -> SUBSET Sid]
           /\ Unindexed(S) \in SUBSET (Sid \X (0..MaxGen))
<1>1. Vacated(S) \in [Node \X Pass -> SUBSET Sid]
  BY DEF RegistryTypeOK, Vacated
<1>2. HungUp(S) \in [Conn -> Socket] /\ \A c \in Conn : HungUp(S)[c].sid = conn[c].sid
  BY DEF RegistryTypeOK, HungUp, Socket
<1>3. Retracted(S) \in [Conn -> SUBSET Sid]
  BY DEF RegistryTypeOK, Retracted
<1>4. Unindexed(S) \in SUBSET (Sid \X (0..MaxGen))
  BY DEF RegistryTypeOK, Unindexed
<1> QED
  BY <1>1, <1>2, <1>3, <1>4

\* Orphaning a captured lock changes nothing else of a waiting request.
LEMMA OrphanedRequests ==
    ASSUME NEW p \in [Req -> Request \cup {NoReq}], NEW keys
    PROVE  /\ Orphaned(p, keys) \in [Req -> Request \cup {NoReq}]
           /\ \A r \in Req : /\ Orphaned(p, keys)[r] = NoReq <=> p[r] = NoReq
                             /\ p[r] # NoReq => Orphaned(p, keys)[r].via = p[r].via
<1>1. ASSUME NEW r \in Req, p[r] # NoReq
      PROVE  /\ [p[r] EXCEPT !.cap = "orphan"] \in Request
             /\ [p[r] EXCEPT !.cap = "orphan"].via = p[r].via
  BY <1>1 DEF Request
<1> QED
  BY <1>1, SentinelAssumption DEF Orphaned

\* A charged lock is a lock entry.
LEMMA ChargedLock ==
    ASSUME NEW l \in LockObj \cup {NoLock}
    PROVE  Charged(l) \in LockObj
  BY GuardAssumption DEF Charged, AtMost, LockObj, NoLock

\* The failure window and the freeze keep their types.
LEMMA FreezeTypes ==
    ASSUME GuardTypeOK, NEW node \in Node, RecordFailure(node) \/ ClearFreeze(node)
    PROVE  fails' \in [Node -> 0..FreezeThreshold] /\ frozen' \in [Node -> BOOLEAN]
<1>1. CASE RecordFailure(node)
  <2>1. AtMost(fails[node] + 1, FreezeThreshold) \in 0..FreezeThreshold
    BY GuardAssumption DEF GuardTypeOK, AtMost
  <2> QED
    BY <1>1, <2>1 DEF RecordFailure, GuardTypeOK
<1>2. CASE ClearFreeze(node)
  BY <1>2, GuardAssumption DEF ClearFreeze, GuardTypeOK
<1> QED
  BY <1>1, <1>2

\* A teardown of existing sessions preserves the session part of IInv.
LEMMA TeardownStep ==
    ASSUME IInv, NEW S \in SUBSET Sid, \A s \in S : obj[s] # NoSession, TerminateAll(S)
    PROVE  /\ obj' \in [Sid -> Session \cup {NoSession}]
           /\ live' \in SUBSET {s \in Sid : obj'[s] # NoSession}
           /\ proofs' \in SUBSET (Sid \X (0..MaxGen))
           /\ channels' \in [Node \X Pass -> SUBSET Sid]
           /\ conn' \in [Conn -> Socket]
           /\ authed' \in SUBSET Conn
           /\ told' \in [Conn -> SUBSET Sid]
           /\ \A c \in Conn : conn'[c].sid # NoSid => obj'[conn'[c].sid] # NoSession
<1>1. /\ obj' \in [Sid -> Session \cup {NoSession}]
      /\ \A s \in Sid : obj'[s] = NoSession <=> obj[s] = NoSession
  BY DetachedObjects DEF IInv, TerminateAll
<1>2. live' \in SUBSET {s \in Sid : obj'[s] # NoSession}
  BY <1>1 DEF IInv, RegistryTypeOK, TerminateAll
<1>3. /\ proofs' \in SUBSET (Sid \X (0..MaxGen))
      /\ channels' \in [Node \X Pass -> SUBSET Sid]
      /\ conn' \in [Conn -> Socket]
      /\ told' \in [Conn -> SUBSET Sid]
      /\ \A c \in Conn : conn'[c].sid = conn[c].sid
  BY TeardownTypes DEF IInv, TerminateAll
<1>4. authed' \in SUBSET Conn
  BY DEF IInv, RegistryTypeOK, TerminateAll
<1>5. \A c \in Conn : conn'[c].sid # NoSid => obj'[conn'[c].sid] # NoSession
  <2>1. \A c \in Conn : conn[c].sid # NoSid => conn[c].sid \in Sid
    BY DEF IInv, RegistryTypeOK, Socket
  <2> QED
    BY <1>1, <1>3, <2>1 DEF IInv, References
<1> QED
  BY <1>1, <1>2, <1>3, <1>4, <1>5

\* The lock table with one entry replaced.
LEMMA LockTypes ==
    ASSUME GuardTypeOK, NEW k \in Ip \X Node, NEW l \in LockObj \cup {NoLock},
           lock' = [lock EXCEPT ![k] = l]
    PROVE  lock' \in [Ip \X Node -> LockObj \cup {NoLock}]
  BY DEF GuardTypeOK

LEMMA GuardEntry ==
    ASSUME GuardTypeOK, NEW ip \in Ip, NEW node \in Node
    PROVE  <<ip, node>> \in Ip \X Node /\ lock[<<ip, node>>] \in LockObj \cup {NoLock}
  BY DEF GuardTypeOK

----------------------------------------------------------------------------
(* Each handler preserves IInv.                                            *)

\* Handlers that only change waiting requests and the guard.
LEMMA RequestStep ==
    ASSUME IInv, UNCHANGED <<sessionVars, inv>>,
           pend' \in [Req -> Request \cup {NoReq}],
           \A r \in Req : pend'[r] # NoReq /\ pend'[r].via # NoQr => inv[pend'[r].via] # NoInv,
           lock' \in [Ip \X Node -> LockObj \cup {NoLock}],
           fails' \in [Node -> 0..FreezeThreshold], frozen' \in [Node -> BOOLEAN]
    PROVE  IInv'
  BY DEF IInv, RegistryTypeOK, GuardTypeOK, References, sessionVars

LEMMA RegisterStartStep ==
    ASSUME IInv, NEW r \in Req, NEW node \in Node, NEW pass \in Pass, NEW ip \in Ip,
           NEW via \in Qr \cup {NoQr}, RegisterStart(r, node, pass, ip, via)
    PROVE  IInv'
<1> DEFINE k == <<ip, node>>
<1>1. PICK verdict \in {"fresh", "ok", "bad"} :
        Enqueue(r, [kind |-> "register", node |-> node, pass |-> pass, ip |-> ip,
                    cap |-> Captured(k), verdict |-> verdict, via |-> via])
  BY DEF RegisterStart
<1>2. pend' \in [Req -> Request \cup {NoReq}]
  BY <1>1 DEF Enqueue, Captured, Request, IInv, RegistryTypeOK
<1>3. \A q \in Req : pend'[q] # NoReq /\ pend'[q].via # NoQr => inv[pend'[q].via] # NoInv
  <2>1. via # NoQr => inv[via] # NoInv
    BY DEF RegisterStart, GrantValid
  <2> QED
    BY <1>1, <2>1 DEF Enqueue, IInv, RegistryTypeOK, References
<1>4. lock' \in [Ip \X Node -> LockObj \cup {NoLock}]
  BY DEF RegisterStart, DropLapsed, IInv, RegistryTypeOK, GuardTypeOK
<1>5. /\ UNCHANGED <<sessionVars, inv>>
      /\ fails' \in [Node -> 0..FreezeThreshold]
      /\ frozen' \in [Node -> BOOLEAN]
  BY DEF RegisterStart, IInv, RegistryTypeOK, GuardTypeOK
<1> QED
  BY <1>2, <1>3, <1>4, <1>5, RequestStep

LEMMA ReleaseStartStep ==
    ASSUME IInv, NEW r \in Req, NEW node \in Node, NEW pass \in Pass, NEW ip \in Ip,
           ReleaseStart(r, node, pass, ip)
    PROVE  IInv'
<1> DEFINE k == <<ip, node>>
           waiting == [kind |-> "release", node |-> node, pass |-> pass, ip |-> ip,
                       cap |-> Captured(k), verdict |-> "ok", via |-> NoQr]
<1>1. CASE DropLapsed(k) /\ Enqueue(r, waiting) /\ UNCHANGED <<fails, frozen>>
  <2>1. waiting \in Request
    BY DEF Captured, Request
  <2>2. pend' \in [Req -> Request \cup {NoReq}]
    BY <1>1, <2>1 DEF Enqueue, IInv, RegistryTypeOK
  <2>3. \A q \in Req : pend'[q] # NoReq /\ pend'[q].via # NoQr => inv[pend'[q].via] # NoInv
    BY <1>1 DEF Enqueue, IInv, RegistryTypeOK, References
  <2>4. lock' \in [Ip \X Node -> LockObj \cup {NoLock}]
    BY <1>1 DEF DropLapsed, IInv, RegistryTypeOK, GuardTypeOK
  <2>5. fails' \in [Node -> 0..FreezeThreshold] /\ frozen' \in [Node -> BOOLEAN]
    BY <1>1 DEF IInv, RegistryTypeOK, GuardTypeOK
  <2> QED
    BY <2>2, <2>3, <2>4, <2>5, RequestStep DEF ReleaseStart
<1>2. CASE /\ lock' = [lock EXCEPT ![k] = Charged(IF @.st = "lapsed" THEN NoLock ELSE @)]
           /\ RecordFailure(node)
           /\ UNCHANGED pend
  <2>1. lock' \in [Ip \X Node -> LockObj \cup {NoLock}]
    BY <1>2, ChargedLock, GuardEntry, LockTypes DEF IInv, RegistryTypeOK
  <2>2. fails' \in [Node -> 0..FreezeThreshold] /\ frozen' \in [Node -> BOOLEAN]
    BY <1>2, FreezeTypes DEF IInv, RegistryTypeOK
  <2>3. /\ pend' \in [Req -> Request \cup {NoReq}]
        /\ \A q \in Req : pend'[q] # NoReq /\ pend'[q].via # NoQr => inv[pend'[q].via] # NoInv
    BY <1>2 DEF IInv, RegistryTypeOK, References
  <2> QED
    BY <2>1, <2>2, <2>3, RequestStep DEF ReleaseStart
<1> QED
  BY <1>1, <1>2 DEF ReleaseStart

\* Ending requests and orphaning their locks keeps the others as they were.
LEMMA EndedRequests ==
    ASSUME IInv, NEW p \in [Req -> Request \cup {NoReq}], NEW keys,
           \A q \in Req : p[q] # NoReq => p[q] = pend[q],
           pend' = p \/ pend' = Orphaned(p, keys)
    PROVE  /\ pend' \in [Req -> Request \cup {NoReq}]
           /\ \A q \in Req : pend'[q] # NoReq /\ pend'[q].via # NoQr => inv[pend'[q].via] # NoInv
<1>1. \A q \in Req : p[q] # NoReq /\ p[q].via # NoQr => inv[p[q].via] # NoInv
  BY DEF IInv, References
<1>2. CASE pend' = p
  BY <1>1, <1>2
<1>3. CASE pend' = Orphaned(p, keys)
  <2>1. /\ pend' \in [Req -> Request \cup {NoReq}]
        /\ \A q \in Req : /\ pend'[q] = NoReq <=> p[q] = NoReq
                          /\ p[q] # NoReq => pend'[q].via = p[q].via
    BY <1>3, OrphanedRequests
  <2> QED
    BY <1>1, <2>1
<1> QED
  BY <1>2, <1>3

\* Requests that end without admitting anyone.
LEMMA RequestEndStep ==
    ASSUME IInv, NEW r \in Req, ScryptBusy(r) \/ RegisterRefused(r) \/ RegisterCharged(r)
    PROVE  IInv'
<1> DEFINE done == [pend EXCEPT ![r] = NoReq]
<1>1. /\ done \in [Req -> Request \cup {NoReq}]
      /\ \A q \in Req : done[q] # NoReq => done[q] = pend[q]
  BY DEF IInv, RegistryTypeOK
<1>2. CASE pend' = done /\ UNCHANGED <<sessionVars, inv, guardVars>>
  <2>1. \A q \in Req : pend'[q] # NoReq /\ pend'[q].via # NoQr => inv[pend'[q].via] # NoInv
    BY <1>1, <1>2 DEF IInv, References
  <2> QED
    BY <1>1, <1>2, <2>1, RequestStep DEF IInv, RegistryTypeOK, GuardTypeOK, guardVars
<1>3. CASE RegisterCharged(r)
  <2> DEFINE p == pend[r]
             k == <<p.ip, p.node>>
  <2>1. p \in Request /\ p.ip \in Ip /\ p.node \in Node
    BY <1>3 DEF RegisterCharged, IInv, RegistryTypeOK, Request
  <2>2. lock' \in [Ip \X Node -> LockObj \cup {NoLock}]
    <3>1. Charged(NoLock) \in LockObj /\ Charged(lock[k]) \in LockObj
      BY <2>1, ChargedLock, GuardEntry DEF IInv, RegistryTypeOK
    <3> QED
      BY <1>3, <2>1, <3>1 DEF RegisterCharged, ChargeCaptured, IInv, RegistryTypeOK, GuardTypeOK
  <2>3. fails' \in [Node -> 0..FreezeThreshold] /\ frozen' \in [Node -> BOOLEAN]
    BY <1>3, <2>1, FreezeTypes DEF RegisterCharged, IInv, RegistryTypeOK
  <2>4. pend' = done \/ pend' = Orphaned(done, {k})
    BY <1>3 DEF RegisterCharged, ChargeCaptured
  <2>5. /\ pend' \in [Req -> Request \cup {NoReq}]
        /\ \A q \in Req : pend'[q] # NoReq /\ pend'[q].via # NoQr => inv[pend'[q].via] # NoInv
    BY <1>1, <2>4, EndedRequests
  <2> QED
    BY <1>3, <2>2, <2>3, <2>5, RequestStep DEF RegisterCharged
<1> QED
  BY <1>2, <1>3 DEF ScryptBusy, RegisterRefused

\* Handlers that only change sessions, channels and sockets.
LEMMA SessionStep ==
    ASSUME IInv, UNCHANGED <<pend, inv, guardVars>>,
           obj' \in [Sid -> Session \cup {NoSession}],
           live' \in SUBSET {s \in Sid : obj'[s] # NoSession},
           proofs' \in SUBSET (Sid \X (0..MaxGen)),
           channels' \in [Node \X Pass -> SUBSET Sid],
           conn' \in [Conn -> Socket],
           authed' \in SUBSET Conn,
           told' \in [Conn -> SUBSET Sid],
           \A c \in Conn : conn'[c].sid # NoSid => obj'[conn'[c].sid] # NoSession
    PROVE  IInv'
  BY DEF IInv, RegistryTypeOK, GuardTypeOK, References, guardVars

LEMMA TeardownOnlyStep ==
    ASSUME IInv, NEW S \in SUBSET live, TerminateAll(S), UNCHANGED <<pend, inv, guardVars>>
    PROVE  IInv'
<1>1. S \in SUBSET Sid /\ \A s \in S : obj[s] # NoSession
  BY DEF IInv, RegistryTypeOK
<1> QED
  BY <1>1, TeardownStep, SessionStep

\* One invitation replaced by another that is burnt when exhausted.
LEMMA InvitationUpdate ==
    ASSUME IInv, NEW q \in Qr, NEW record \in Invitation,
           record.wrong = MaxAttempts => record.used,
           inv' = [inv EXCEPT ![q] = record]
    PROVE  /\ inv' \in [Qr -> Invitation \cup {NoInv}]
           /\ \A d \in Qr : inv[d] # NoInv => inv'[d] # NoInv
           /\ \A d \in Qr : inv'[d] # NoInv /\ inv'[d].wrong = MaxAttempts => inv'[d].used
<1>1. record # NoInv
  BY SentinelAssumption
<1> QED
  BY <1>1 DEF IInv, RegistryTypeOK, References

\* Invitations.
LEMMA InvitationStep ==
    ASSUME IInv, NEW q \in Qr,
           \/ \E s \in Sid : Invite(s, q)
           \/ Redeem(q) \/ RedeemRejected(q) \/ InvitationExpires(q)
    PROVE  IInv'
<1>1. UNCHANGED <<sessionVars, pend, lock>>
  BY DEF Invite, Redeem, RedeemRejected, InvitationExpires, guardVars
<1>2. /\ inv' \in [Qr -> Invitation \cup {NoInv}]
      /\ \A d \in Qr : inv[d] # NoInv => inv'[d] # NoInv
      /\ \A d \in Qr : inv'[d] # NoInv /\ inv'[d].wrong = MaxAttempts => inv'[d].used
  <2>1. CASE \E s \in Sid : Invite(s, q)
    <3>1. PICK s \in Sid : Invite(s, q)
      BY <2>1
    <3>2. obj[s] \in Session
      BY <3>1 DEF Invite, TokenValid, IInv, RegistryTypeOK
    <3> QED
      BY <3>1, <3>2, GuardAssumption
      DEF Invite, IInv, RegistryTypeOK, References, Session, Invitation
  <2>2. CASE Redeem(q) \/ RedeemRejected(q) \/ InvitationExpires(q)
    <3>1. inv[q] \in Invitation
      BY <2>2 DEF Redeem, RedeemRejected, InvitationExpires, Redeemable, IInv, RegistryTypeOK
    <3>2. /\ inv[q] # NoInv
          /\ inv[q].wrong = MaxAttempts => inv[q].used
      BY <2>2 DEF Redeem, RedeemRejected, InvitationExpires, Redeemable, IInv, References
    <3>3. CASE Redeem(q)
      <4> DEFINE record == [inv[q] EXCEPT !.grant = TRUE]
      <4>1. record \in Invitation /\ (record.wrong = MaxAttempts => record.used)
        BY <3>1, <3>2 DEF Invitation
      <4>2. inv' = [inv EXCEPT ![q] = record]
        BY <3>3 DEF Redeem
      <4> HIDE DEF record
      <4> QED
        BY <4>1, <4>2, InvitationUpdate
    <3>4. CASE InvitationExpires(q)
      <4> DEFINE record == Retired(inv[q])
      <4>1. record \in Invitation /\ (record.wrong = MaxAttempts => record.used)
        BY <3>1, <3>2, GuardAssumption DEF Invitation, Retired
      <4>2. inv' = [inv EXCEPT ![q] = record]
        BY <3>4 DEF InvitationExpires
      <4> HIDE DEF record
      <4> QED
        BY <4>1, <4>2, InvitationUpdate
    <3>5. CASE RedeemRejected(q)
      <4> DEFINE more == inv[q].wrong + 1
                 spent == more >= MaxAttempts
                 record == [inv[q] EXCEPT !.wrong = more, !.used = spent]
      <4>1. more \in 0..MaxAttempts
        BY <3>1, <3>2, <3>5, GuardAssumption DEF RedeemRejected, Redeemable, Invitation
      <4>2. inv' = [inv EXCEPT ![q] = record]
        BY <3>5 DEF RedeemRejected
      <4>3. spent \in BOOLEAN /\ (more = MaxAttempts => spent)
        BY <4>1, GuardAssumption
      <4> HIDE DEF spent, more
      <4>4. record \in Invitation
        BY <3>1, <4>1, <4>3 DEF Invitation
      <4>5. record.wrong = more /\ record.used = spent
        BY <3>1 DEF Invitation
      <4> HIDE DEF record
      <4> QED
        BY <4>2, <4>3, <4>4, <4>5, InvitationUpdate
    <3> QED
      BY <2>2, <3>3, <3>4, <3>5
  <2> QED
    BY <2>1, <2>2
<1>3. fails' \in [Node -> 0..FreezeThreshold] /\ frozen' \in [Node -> BOOLEAN]
  <2>1. CASE Redeem(q) \/ RedeemRejected(q)
    <3>1. inv[q].node \in Node
      BY <2>1 DEF Redeem, RedeemRejected, Redeemable, IInv, RegistryTypeOK, Invitation
    <3> QED
      BY <2>1, <3>1, FreezeTypes DEF Redeem, RedeemRejected, IInv, RegistryTypeOK
  <2>2. CASE UNCHANGED guardVars
    BY <2>2 DEF guardVars, IInv, RegistryTypeOK, GuardTypeOK
  <2> QED
    BY <2>1, <2>2 DEF Invite, InvitationExpires
<1>4. RegistryTypeOK'
  BY <1>1, <1>2, <1>3 DEF IInv, RegistryTypeOK, GuardTypeOK, sessionVars
<1>5. \A r \in Req : pend'[r] # NoReq /\ pend'[r].via # NoQr => inv'[pend'[r].via] # NoInv
  <2>1. \A r \in Req : pend[r] # NoReq => pend[r].via \in Qr \cup {NoQr}
    BY DEF IInv, RegistryTypeOK, Request
  <2> QED
    BY <1>1, <1>2, <2>1 DEF IInv, References
<1> QED
  BY <1>1, <1>2, <1>4, <1>5 DEF IInv, References, sessionVars

\* A fresh session object.
LEMMA FreshObject ==
    ASSUME NEW node \in Node, NEW pass \in Pass, NEW ip \in Ip, NEW via \in Qr \cup {NoQr}
    PROVE  /\ FreshSession(node, pass, ip, via) \in Session
           /\ FreshSession(node, pass, ip, via) # NoSession
<1>1. FreshSession(node, pass, ip, via) \in Session
  BY RegistryAssumption DEF FreshSession, Session
<1> QED
  BY <1>1, SentinelAssumption

LEMMA RegisterAdmittedStep ==
    ASSUME IInv, NEW r \in Req, RegisterAdmitted(r)
    PROVE  IInv'
<1> DEFINE p == pend[r]
           k == <<p.ip, p.node>>
<1>1. p \in Request /\ p.ip \in Ip /\ p.node \in Node /\ p.pass \in Pass /\ p.via \in Qr \cup {NoQr}
  BY DEF RegisterAdmitted, IInv, RegistryTypeOK, Request
<1>2. PICK s \in Unminted :
        /\ obj' = [obj EXCEPT ![s] = FreshSession(p.node, p.pass, p.ip, p.via)]
        /\ live' = live \cup {s}
        /\ proofs' = proofs \cup {<<s, 0>>}
  BY DEF RegisterAdmitted
<1>3. /\ obj' \in [Sid -> Session \cup {NoSession}]
      /\ \A t \in Sid : obj[t] # NoSession => obj'[t] # NoSession
      /\ live' \in SUBSET {t \in Sid : obj'[t] # NoSession}
      /\ proofs' \in SUBSET (Sid \X (0..MaxGen))
  BY <1>1, <1>2, FreshObject, RegistryAssumption DEF Unminted, IInv, RegistryTypeOK
<1>4. /\ inv' \in [Qr -> Invitation \cup {NoInv}]
      /\ \A q \in Qr : inv[q] # NoInv => inv'[q] # NoInv
      /\ \A q \in Qr : inv'[q] # NoInv /\ inv'[q].wrong = MaxAttempts => inv'[q].used
  <2>1. CASE p.via = NoQr
    <3>1. inv' = inv
      BY <2>1, RegistryAssumption DEF RegisterAdmitted, IInv, RegistryTypeOK
    <3> QED
      BY <3>1 DEF IInv, RegistryTypeOK, References
  <2>2. CASE p.via # NoQr
    <3> DEFINE record == [inv[p.via] EXCEPT !.used = TRUE]
    <3>1. p.via \in Qr /\ inv[p.via] \in Invitation
      BY <1>1, <2>2 DEF RegisterAdmitted, IInv, RegistryTypeOK, References
    <3>2. record \in Invitation /\ (record.wrong = MaxAttempts => record.used)
      BY <3>1 DEF Invitation
    <3>3. inv' = [inv EXCEPT ![p.via] = record]
      BY <3>1 DEF RegisterAdmitted, IInv, RegistryTypeOK
    <3> HIDE DEF record
    <3> QED
      BY <3>1, <3>2, <3>3, InvitationUpdate
  <2> QED
    BY <2>1, <2>2
<1>5. lock' \in [Ip \X Node -> LockObj \cup {NoLock}]
  BY <1>1, GuardEntry, LockTypes DEF RegisterAdmitted, IInv, RegistryTypeOK
<1>6. fails' \in [Node -> 0..FreezeThreshold] /\ frozen' \in [Node -> BOOLEAN]
  BY <1>1, FreezeTypes DEF RegisterAdmitted, IInv, RegistryTypeOK
<1>7. /\ pend' \in [Req -> Request \cup {NoReq}]
      /\ \A q \in Req : pend'[q] # NoReq /\ pend'[q].via # NoQr => inv[pend'[q].via] # NoInv
  <2> DEFINE done == [pend EXCEPT ![r] = NoReq]
  <2>1. /\ done \in [Req -> Request \cup {NoReq}]
        /\ \A q \in Req : done[q] # NoReq => done[q] = pend[q]
    BY DEF IInv, RegistryTypeOK
  <2>2. pend' = Orphaned(done, {k})
    BY DEF RegisterAdmitted
  <2> QED
    BY <2>1, <2>2, EndedRequests
<1>8. UNCHANGED <<channels, conn, authed, told>>
  BY DEF RegisterAdmitted
<1>9. RegistryTypeOK'
  BY <1>3, <1>4, <1>5, <1>6, <1>7, <1>8 DEF IInv, RegistryTypeOK, GuardTypeOK
<1>10. \A c \in Conn : conn'[c].sid # NoSid => obj'[conn'[c].sid] # NoSession
  BY <1>3, <1>8 DEF IInv, RegistryTypeOK, References, Socket
<1>11. \A q \in Req : pend'[q] # NoReq /\ pend'[q].via # NoQr => inv'[pend'[q].via] # NoInv
  BY <1>4, <1>7 DEF Request
<1> QED
  BY <1>4, <1>9, <1>10, <1>11 DEF IInv, References

\* POST /re-register: a teardown and an insert in one handler.
LEMMA ReRegisterStep ==
    ASSUME IInv, NEW s \in Sid, NEW new \in Sid, NEW ip \in Ip, ReRegister(s, new, ip)
    PROVE  IInv'
<1> DEFINE k == <<ip, obj[s].node>>
           fresh == FreshSession(obj[s].node, obj[s].pass, ip, NoQr)
<1>1. obj[s] \in Session /\ obj[s].node \in Node /\ obj[s].pass \in Pass /\ s # new
  BY DEF ReRegister, Unminted, IInv, RegistryTypeOK, Session
<1>2. fresh \in Session /\ fresh # NoSession
  BY <1>1, FreshObject
<1>3. /\ Detached({s}) \in [Sid -> Session \cup {NoSession}]
      /\ \A t \in Sid : Detached({s})[t] = NoSession <=> obj[t] = NoSession
  <2>1. {s} \in SUBSET Sid /\ \A t \in {s} : obj[t] # NoSession
    BY DEF ReRegister
  <2> QED
    BY <2>1, DetachedObjects DEF IInv
<1> HIDE DEF fresh
<1>4. /\ obj' \in [Sid -> Session \cup {NoSession}]
      /\ \A t \in Sid : obj[t] # NoSession => obj'[t] # NoSession
      /\ obj'[new] # NoSession
  <2>1. obj' = [Detached({s}) EXCEPT ![new] = fresh]
    BY DEF ReRegister, fresh
  <2> QED
    BY <1>2, <1>3, <2>1
<1>5. live' \in SUBSET {t \in Sid : obj'[t] # NoSession}
  BY <1>4 DEF ReRegister, IInv, RegistryTypeOK
<1>6. {s} \in SUBSET Sid /\ RegistryTypeOK
  BY DEF IInv
<1>7. /\ proofs' \in SUBSET (Sid \X (0..MaxGen))
      /\ channels' \in [Node \X Pass -> SUBSET Sid]
      /\ conn' \in [Conn -> Socket]
      /\ \A c \in Conn : conn'[c].sid = conn[c].sid
      /\ told' \in [Conn -> SUBSET Sid]
  <2>1. <<new, 0>> \in Sid \X (0..MaxGen)
    BY RegistryAssumption
  <2>2. /\ proofs' = Unindexed({s}) \cup {<<new, 0>>}
        /\ channels' = Vacated({s}) /\ conn' = HungUp({s}) /\ told' = Retracted({s})
    BY DEF ReRegister
  <2> QED
    BY <1>6, <2>1, <2>2, TeardownTypes
<1>8. authed' \in SUBSET Conn
  BY DEF ReRegister, IInv, RegistryTypeOK
<1>9. \A c \in Conn : conn'[c].sid # NoSid => obj'[conn'[c].sid] # NoSession
  <2>1. \A c \in Conn : conn[c].sid # NoSid => conn[c].sid \in Sid
    BY DEF IInv, RegistryTypeOK, Socket
  <2> QED
    BY <1>4, <1>7, <2>1 DEF IInv, References
<1>10. lock' \in [Ip \X Node -> LockObj \cup {NoLock}]
  BY <1>1, GuardEntry, LockTypes DEF ReRegister, IInv, RegistryTypeOK
<1>11. /\ pend' \in [Req -> Request \cup {NoReq}]
       /\ \A q \in Req : pend'[q] # NoReq /\ pend'[q].via # NoQr => inv[pend'[q].via] # NoInv
  <2>1. pend \in [Req -> Request \cup {NoReq}] /\ pend' = Orphaned(pend, {k})
    BY DEF ReRegister, IInv, RegistryTypeOK
  <2> QED
    BY <2>1, EndedRequests
<1>12. UNCHANGED <<inv, fails, frozen>>
  BY DEF ReRegister
<1>13. RegistryTypeOK'
  BY <1>4, <1>5, <1>7, <1>8, <1>10, <1>11, <1>12 DEF IInv, RegistryTypeOK, GuardTypeOK
<1> QED
  BY <1>9, <1>11, <1>12, <1>13 DEF IInv, References

LEMMA ReRegisterRejectedStep ==
    ASSUME IInv, NEW s \in Sid, NEW ip \in Ip, ReRegisterRejected(s, ip)
    PROVE  IInv'
<1> DEFINE k == <<ip, obj[s].node>>
<1>1. obj[s].node \in Node
  BY DEF ReRegisterRejected, IInv, RegistryTypeOK, Session
<1>2. lock' \in [Ip \X Node -> LockObj \cup {NoLock}]
  <2>1. [n |-> 0, st |-> "open"] \in LockObj /\ Charged(lock[k]) \in LockObj
    BY <1>1, ChargedLock, GuardEntry, GuardAssumption DEF LockObj, IInv, RegistryTypeOK
  <2> QED
    BY <1>1, <2>1 DEF ReRegisterRejected, IInv, RegistryTypeOK, GuardTypeOK
<1>3. fails' \in [Node -> 0..FreezeThreshold] /\ frozen' \in [Node -> BOOLEAN]
  <2>1. RecordFailure(obj[s].node) \/ UNCHANGED <<fails, frozen>>
    BY DEF ReRegisterRejected
  <2> QED
    BY <1>1, <2>1, FreezeTypes DEF IInv, RegistryTypeOK, GuardTypeOK
<1>4. /\ UNCHANGED <<sessionVars, inv>>
      /\ pend' \in [Req -> Request \cup {NoReq}]
      /\ \A r \in Req : pend'[r] # NoReq /\ pend'[r].via # NoQr => inv[pend'[r].via] # NoInv
  BY DEF ReRegisterRejected, IInv, RegistryTypeOK, References
<1> QED
  BY <1>2, <1>3, <1>4, RequestStep

\* A teardown together with the end or the orphaning of requests.
LEMMA TeardownAndRequestsStep ==
    ASSUME IInv, NEW S \in SUBSET live, TerminateAll(S), UNCHANGED inv,
           pend' \in [Req -> Request \cup {NoReq}],
           \A q \in Req : pend'[q] # NoReq /\ pend'[q].via # NoQr => inv[pend'[q].via] # NoInv,
           lock' \in [Ip \X Node -> LockObj \cup {NoLock}],
           fails' \in [Node -> 0..FreezeThreshold], frozen' \in [Node -> BOOLEAN]
    PROVE  IInv'
<1>1. S \in SUBSET Sid /\ \A s \in S : obj[s] # NoSession
  BY DEF IInv, RegistryTypeOK
<1>2. RegistryTypeOK'
  BY <1>1, TeardownStep DEF IInv, RegistryTypeOK, GuardTypeOK
<1>3. \A c \in Conn : conn'[c].sid # NoSid => obj'[conn'[c].sid] # NoSession
  BY <1>1, TeardownStep
<1> QED
  BY <1>2, <1>3 DEF IInv, References

LEMMA ReleaseFinishStep ==
    ASSUME IInv, NEW r \in Req, ReleaseFinish(r)
    PROVE  IInv'
<1> DEFINE p == pend[r]
           done == [pend EXCEPT ![r] = NoReq]
<1>1. p.ip \in Ip /\ p.node \in Node
  BY DEF ReleaseFinish, IInv, RegistryTypeOK, Request
<1>2. lock' \in [Ip \X Node -> LockObj \cup {NoLock}]
  BY <1>1, GuardEntry, LockTypes DEF ReleaseFinish, IInv, RegistryTypeOK
<1>3. fails' \in [Node -> 0..FreezeThreshold] /\ frozen' \in [Node -> BOOLEAN]
  BY <1>1, FreezeTypes DEF ReleaseFinish, IInv, RegistryTypeOK
<1>4. /\ pend' \in [Req -> Request \cup {NoReq}]
      /\ \A q \in Req : pend'[q] # NoReq /\ pend'[q].via # NoQr => inv[pend'[q].via] # NoInv
  <2>1. /\ done \in [Req -> Request \cup {NoReq}]
        /\ \A q \in Req : done[q] # NoReq => done[q] = pend[q]
        /\ pend' = Orphaned(done, {<<p.ip, p.node>>})
    BY DEF ReleaseFinish, IInv, RegistryTypeOK
  <2> QED
    BY <2>1, EndedRequests
<1>5. OnIp(p.node, p.pass, p.ip) \in SUBSET live
  BY DEF OnIp
<1>6. TerminateAll(OnIp(p.node, p.pass, p.ip)) /\ UNCHANGED inv
  BY DEF ReleaseFinish
<1> HIDE DEF p
<1> QED
  BY <1>2, <1>3, <1>4, <1>5, <1>6, TeardownAndRequestsStep

LEMMA CleanupStep ==
    ASSUME IInv, CleanupTick
    PROVE  IInv'
<1>1. PICK idle \in SUBSET live, stale \in SUBSET {k \in Ip \X Node : lock[k] # NoLock} :
        Cleanup(idle, stale)
  BY DEF CleanupTick
<1>2. lock' \in [Ip \X Node -> LockObj \cup {NoLock}]
  BY <1>1 DEF Cleanup, PurgedLocks, IInv, RegistryTypeOK, GuardTypeOK
<1>3. fails' \in [Node -> 0..FreezeThreshold] /\ frozen' \in [Node -> BOOLEAN]
  BY <1>1 DEF Cleanup, IInv, RegistryTypeOK, GuardTypeOK
<1>4. /\ pend' \in [Req -> Request \cup {NoReq}]
      /\ \A q \in Req : pend'[q] # NoReq /\ pend'[q].via # NoQr => inv[pend'[q].via] # NoInv
  <2>1. pend \in [Req -> Request \cup {NoReq}] /\ pend' = Orphaned(pend, {k \in stale : ~Locked(k)})
    BY <1>1 DEF Cleanup, IInv, RegistryTypeOK
  <2> QED
    BY <2>1, EndedRequests
<1>5. Purged(idle) \in SUBSET live
  BY DEF Purged
<1>6. TerminateAll(Purged(idle)) /\ UNCHANGED inv
  BY <1>1 DEF Cleanup
<1> QED
  BY <1>2, <1>3, <1>4, <1>5, <1>6, TeardownAndRequestsStep

\* Session-only handlers: renewal and expiry rewrite one object.
LEMMA ObjectUpdate ==
    ASSUME IInv, NEW s \in Sid, NEW record \in Session, obj[s] # NoSession,
           obj' = [obj EXCEPT ![s] = record]
    PROVE  /\ obj' \in [Sid -> Session \cup {NoSession}]
           /\ live \in SUBSET {t \in Sid : obj'[t] # NoSession}
           /\ \A c \in Conn : conn[c].sid # NoSid => obj'[conn[c].sid] # NoSession
<1>1. record # NoSession
  BY SentinelAssumption
<1>2. \A c \in Conn : conn[c].sid # NoSid => conn[c].sid \in Sid
  BY DEF IInv, RegistryTypeOK, Socket
<1> QED
  BY <1>1, <1>2 DEF IInv, RegistryTypeOK, References

LEMMA RenewExpireStep ==
    ASSUME IInv, NEW s \in Sid, Renew(s) \/ Expire(s)
    PROVE  IInv'
<1>1. obj[s] \in Session /\ obj[s] # NoSession
  BY DEF Renew, Expire, TokenValid, IInv, RegistryTypeOK
<1>2. UNCHANGED <<live, channels, conn, authed, told, pend, inv, guardVars>>
  BY DEF Renew, Expire
<1>3. proofs' \in SUBSET (Sid \X (0..MaxGen))
  <2>1. CASE Renew(s)
    <3>1. obj[s].gen + 1 \in 0..MaxGen
      BY <1>1, <2>1, RegistryAssumption DEF Renew, Session
    <3> QED
      BY <2>1, <3>1 DEF Renew, Unindexed, IInv, RegistryTypeOK
  <2>2. CASE Expire(s)
    BY <2>2 DEF Expire, IInv, RegistryTypeOK
  <2> QED
    BY <2>1, <2>2
<1>4. PICK record \in Session : obj' = [obj EXCEPT ![s] = record]
  <2>1. CASE Renew(s)
    <3>1. [obj[s] EXCEPT !.gen = @ + 1] \in Session
      BY <1>1, <2>1, RegistryAssumption DEF Renew, Session
    <3> QED
      BY <2>1, <3>1 DEF Renew
  <2>2. CASE Expire(s)
    <3>1. [obj[s] EXCEPT !.expired = TRUE] \in Session
      BY <1>1 DEF Session
    <3> QED
      BY <2>2, <3>1 DEF Expire
  <2> QED
    BY <2>1, <2>2
<1>5. /\ obj' \in [Sid -> Session \cup {NoSession}]
      /\ live' \in SUBSET {t \in Sid : obj'[t] # NoSession}
      /\ \A c \in Conn : conn'[c].sid # NoSid => obj'[conn'[c].sid] # NoSession
  BY <1>1, <1>2, <1>4, ObjectUpdate
<1> QED
  BY <1>2, <1>3, <1>5, SessionStep DEF IInv, RegistryTypeOK

\* Sockets: connect, server-side close, the 'close' event.
LEMMA ConnectionStep ==
    ASSUME IInv, NEW c \in Conn,
           (\E ip \in Ip : Connect(c, ip)) \/ ServerCloses(c) \/ SocketClosed(c)
    PROVE  IInv'
<1>1. CASE (\E ip \in Ip : Connect(c, ip)) \/ ServerCloses(c)
  <2>1. /\ conn' \in [Conn -> Socket]
        /\ \A d \in Conn : conn'[d].sid # NoSid => conn'[d].sid = conn[d].sid
    <3>1. CASE \E ip \in Ip : Connect(c, ip)
      <4>1. PICK ip \in Ip : Connect(c, ip)
        BY <3>1
      <4> QED
        BY <4>1 DEF Connect, Socket, IInv, RegistryTypeOK
    <3>2. CASE ServerCloses(c)
      BY <3>2 DEF ServerCloses, Socket, IInv, RegistryTypeOK
    <3> QED
      BY <1>1, <3>1, <3>2
  <2>2. UNCHANGED <<obj, live, proofs, channels, authed, pend, inv, guardVars>>
    BY <1>1 DEF Connect, ServerCloses
  <2>3. told' \in [Conn -> SUBSET Sid]
    BY <1>1 DEF Connect, ServerCloses, IInv, RegistryTypeOK
  <2>4. \A d \in Conn : conn'[d].sid # NoSid => obj'[conn'[d].sid] # NoSession
    BY <2>1, <2>2 DEF IInv, References
  <2> QED
    BY <2>1, <2>2, <2>3, <2>4, SessionStep DEF IInv, RegistryTypeOK
<1>2. CASE SocketClosed(c)
  <2>1. Owners(c) \in SUBSET Sid /\ \A s \in Owners(c) : obj[s] # NoSession
    BY RegistryAssumption DEF Owners, IInv, References
  <2>2. /\ obj' \in [Sid -> Session \cup {NoSession}]
        /\ \A s \in Sid : obj'[s] = NoSession <=> obj[s] = NoSession
    BY <1>2, <2>1, DetachedObjects DEF SocketClosed, IInv
  <2>3. /\ conn' \in [Conn -> Socket]
        /\ \A d \in Conn : conn'[d].sid # NoSid => conn'[d].sid = conn[d].sid /\ conn[d].sid \in Sid
    <3> DEFINE closed == [conn[c] EXCEPT !.st = "free", !.sid = NoSid]
    <3>1. conn \in [Conn -> Socket] /\ conn' = [conn EXCEPT ![c] = closed]
      BY <1>2 DEF SocketClosed, IInv, RegistryTypeOK
    <3>2. closed \in Socket /\ closed.sid = NoSid
      BY <3>1 DEF Socket
    <3> HIDE DEF closed
    <3>3. \A d \in Conn : conn[d].sid \in Sid \cup {NoSid}
      BY <3>1 DEF Socket
    <3> QED
      BY <3>1, <3>2, <3>3
  <2>4. channels' \in [Node \X Pass -> SUBSET Sid] /\ told' \in [Conn -> SUBSET Sid]
    BY <1>2, <2>1, TeardownTypes DEF SocketClosed, IInv
  <2>5. /\ live' \in SUBSET {s \in Sid : obj'[s] # NoSession}
        /\ proofs' \in SUBSET (Sid \X (0..MaxGen))
        /\ authed' \in SUBSET Conn
        /\ UNCHANGED <<pend, inv, guardVars>>
    BY <1>2, <2>2 DEF SocketClosed, IInv, RegistryTypeOK
  <2>6. \A d \in Conn : conn'[d].sid # NoSid => obj'[conn'[d].sid] # NoSession
    BY <2>2, <2>3 DEF IInv, References
  <2> QED
    BY <2>2, <2>3, <2>4, <2>5, <2>6, SessionStep
<1> QED
  BY <1>1, <1>2

LEMMA AuthStep ==
    ASSUME IInv, NEW c \in Conn, NEW s \in Sid, Auth(c, s)
    PROVE  IInv'
<1>1. obj[s] \in Session /\ obj[s] # NoSession /\ conn[c].ip \in Ip
  BY DEF Auth, TokenValid, IInv, RegistryTypeOK, Socket
<1> DEFINE record == [obj[s] EXCEPT !.sock = c, !.ip = conn[c].ip]
<1>2. record \in Session
  BY <1>1 DEF Session
<1>3. obj' = [obj EXCEPT ![s] = record]
  BY <1>1 DEF Auth, Session
<1> HIDE DEF record
<1>4. /\ obj' \in [Sid -> Session \cup {NoSession}]
      /\ live' \in SUBSET {t \in Sid : obj'[t] # NoSession}
      /\ \A d \in Conn : conn[d].sid # NoSid => obj'[conn[d].sid] # NoSession
  BY <1>1, <1>2, <1>3, ObjectUpdate DEF Auth
<1>5. /\ conn' \in [Conn -> Socket]
      /\ \A d \in Conn : conn'[d].sid = conn[d].sid \/ conn'[d].sid = s
  <2> DEFINE bound(d) == [conn[d] EXCEPT !.sid = s]
             closing(d) == [conn[d] EXCEPT !.st = "closing"]
  <2>1. conn \in [Conn -> Socket]
    BY DEF IInv, RegistryTypeOK
  <2>2. ASSUME NEW d \in Conn
        PROVE  /\ bound(d) \in Socket /\ bound(d).sid = s
               /\ closing(d) \in Socket /\ closing(d).sid = conn[d].sid
    BY <2>1 DEF Socket
  <2>3. conn' = [d \in Conn |-> IF d = c THEN bound(c)
                               ELSE IF d = obj[s].sock /\ conn[d].st = "open" THEN closing(d) ELSE conn[d]]
    BY DEF Auth
  <2> HIDE DEF bound, closing
  <2> QED
    BY <2>1, <2>2, <2>3
<1>6. authed' \in SUBSET Conn /\ told' \in [Conn -> SUBSET Sid]
  BY DEF Auth, Remarked, IInv, RegistryTypeOK
<1>7. obj'[s] # NoSession
  BY <1>2, <1>3, SentinelAssumption DEF IInv, RegistryTypeOK
<1>8. UNCHANGED <<live, proofs, channels, pend, inv, guardVars>>
  BY DEF Auth
<1>9. \A d \in Conn : conn'[d].sid # NoSid => obj'[conn'[d].sid] # NoSession
  BY <1>4, <1>5, <1>7
<1> QED
  BY <1>4, <1>5, <1>6, <1>8, <1>9, SessionStep DEF IInv, RegistryTypeOK

LEMMA FrameStep ==
    ASSUME IInv, NEW c \in Conn, NEW slow \in SUBSET Slowable,
           \/ Join(c, slow) \/ Leave(c, slow)
           \/ \E t \in Sid : Block(c, t, slow)
    PROVE  IInv'
<1> DEFINE s == conn[c].sid
<1>1. s \in Sid /\ obj[s] \in Session /\ obj[s] # NoSession
  BY DEF Join, Leave, Block, Frame, IInv, RegistryTypeOK, References, Socket
<1>2. UNCHANGED <<live, proofs, conn, authed, pend, inv, guardVars>>
  BY DEF Join, Leave, Block
<1>3. PICK record \in Session : obj' = [obj EXCEPT ![s] = record]
  <2>1. CASE Join(c, slow)
    BY <1>1, <2>1 DEF Join, Session
  <2>2. CASE Leave(c, slow)
    BY <1>1, <2>2 DEF Leave, Session
  <2>3. CASE \E t \in Sid : Block(c, t, slow)
    BY <1>1, <2>3 DEF Block, Session
  <2> QED
    BY <2>1, <2>2, <2>3
<1>4. /\ obj' \in [Sid -> Session \cup {NoSession}]
      /\ live' \in SUBSET {t \in Sid : obj'[t] # NoSession}
      /\ \A d \in Conn : conn'[d].sid # NoSid => obj'[conn'[d].sid] # NoSession
  BY <1>1, <1>2, <1>3, ObjectUpdate
<1>5. channels' \in [Node \X Pass -> SUBSET Sid]
  <2>1. Cluster(s) \in Node \X Pass
    BY <1>1 DEF Cluster, Session
  <2>2. CASE Join(c, slow)
    BY <1>1, <2>1, <2>2 DEF Join, IInv, RegistryTypeOK
  <2>3. CASE Leave(c, slow)
    BY <1>1, <2>1, <2>3 DEF Leave, IInv, RegistryTypeOK
  <2>4. CASE \E t \in Sid : Block(c, t, slow)
    BY <2>4 DEF Block, IInv, RegistryTypeOK
  <2> QED
    BY <2>2, <2>3, <2>4
<1>6. told' \in [Conn -> SUBSET Sid]
  <2>1. CASE Join(c, slow)
    <3>1. Introduced(s) \in SUBSET Sid
      BY DEF Introduced, IInv, RegistryTypeOK
    <3> QED
      BY <1>1, <2>1, <3>1 DEF Join, IInv, RegistryTypeOK
  <2>2. CASE Leave(c, slow)
    BY <2>2 DEF Leave, IInv, RegistryTypeOK
  <2>3. CASE \E t \in Sid : Block(c, t, slow)
    BY <2>3 DEF Block, IInv, RegistryTypeOK
  <2> QED
    BY <2>1, <2>2, <2>3
<1> QED
  BY <1>2, <1>4, <1>5, <1>6, SessionStep DEF IInv, RegistryTypeOK

LEMMA SignalOfflineStep ==
    ASSUME IInv, NEW c \in Conn, NEW t \in Sid, SignalOffline(c, t)
    PROVE  IInv'
<1>1. UNCHANGED <<obj, live, proofs, channels, conn, authed, pend, inv, guardVars>>
  BY DEF SignalOffline
<1>2. told' \in [Conn -> SUBSET Sid]
  BY DEF SignalOffline, IInv, RegistryTypeOK
<1> QED
  BY <1>1, <1>2, SessionStep DEF IInv, RegistryTypeOK, References

\* A timer that elapses: an expired lock, a sliding window, a thawed freeze.
LEMMA TimePassesStep ==
    ASSUME IInv, TimePasses
    PROVE  IInv'
<1>1. /\ lock' \in [Ip \X Node -> LockObj \cup {NoLock}]
      /\ fails' \in [Node -> 0..FreezeThreshold]
      /\ frozen' \in [Node -> BOOLEAN]
  <2>1. CASE \E k \in Ip \X Node : LockLapses(k)
    <3>1. PICK k \in Ip \X Node : LockLapses(k)
      BY <2>1
    <3>2. lock[k] \in LockObj
      BY <3>1 DEF LockLapses, Locked, NoLock, IInv, RegistryTypeOK, GuardTypeOK
    <3>3. [lock[k] EXCEPT !.st = "lapsed"] \in LockObj
      BY <3>2 DEF LockObj
    <3> QED
      BY <3>1, <3>3 DEF LockLapses, IInv, RegistryTypeOK, GuardTypeOK
  <2>2. CASE \E n \in Node : WindowSlides(n) \/ FreezeThaws(n)
    BY <2>2 DEF WindowSlides, FreezeThaws, IInv, RegistryTypeOK, GuardTypeOK
  <2> QED
    BY <2>1, <2>2 DEF TimePasses
<1>2. /\ UNCHANGED <<sessionVars, inv>>
      /\ pend' \in [Req -> Request \cup {NoReq}]
      /\ \A r \in Req : pend'[r] # NoReq /\ pend'[r].via # NoQr => inv[pend'[r].via] # NoInv
  BY DEF TimePasses, IInv, RegistryTypeOK, References
<1> QED
  BY <1>1, <1>2, RequestStep

LEMMA InitIInv == Init => IInv
<1> SUFFICES ASSUME Init PROVE IInv
  OBVIOUS
<1>1. GuardTypeOK
  BY GuardAssumption DEF Init, GuardInit, GuardTypeOK
<1> QED
  BY <1>1 DEF Init, IInv, RegistryTypeOK, References, Socket

\* Every step preserves the strengthened type invariant.
LEMMA NextIInv == IInv /\ [Next]_vars => IInv'
<1> SUFFICES ASSUME IInv, [Next]_vars PROVE IInv'
  OBVIOUS
<1>1. CASE RegisterNext
  BY <1>1, RegisterStartStep, ReleaseStartStep, RequestEndStep, RegisterAdmittedStep,
     ReleaseFinishStep DEF RegisterNext
<1>2. CASE SessionNext
  <2>1. ASSUME NEW s \in Sid, Release(s) PROVE IInv'
    <3>1. {s} \in SUBSET live
      BY <2>1 DEF Release, TokenValid
    <3> QED
      BY <2>1, <3>1, TeardownOnlyStep DEF Release
  <2>2. ASSUME NEW s \in Sid, NEW ip \in Ip, ReleaseByIp(s, ip) PROVE IInv'
    <3>1. OnIp(obj[s].node, obj[s].pass, ip) \in SUBSET live
      BY DEF OnIp
    <3> QED
      BY <2>2, <3>1, TeardownOnlyStep DEF ReleaseByIp
  <2> QED
    BY <1>2, <2>1, <2>2, ReRegisterStep, ReRegisterRejectedStep, RenewExpireStep, InvitationStep
    DEF SessionNext
<1>3. CASE QrNext
  BY <1>3, InvitationStep DEF QrNext
<1>4. CASE SocketNext
  BY <1>4, ConnectionStep, AuthStep, FrameStep, SignalOfflineStep DEF SocketNext
<1>5. CASE CleanupTick
  BY <1>5, CleanupStep
<1>6. CASE TimePasses
  BY <1>6, TimePassesStep
<1>7. CASE UNCHANGED vars
  BY <1>7 DEF vars, sessionVars, guardVars, IInv, RegistryTypeOK, GuardTypeOK, References
<1> QED
  BY <1>1, <1>2, <1>3, <1>4, <1>5, <1>6, <1>7 DEF Next

\* Type correctness: no handler writes a malformed session, request or
\* invitation, and a socket's closure never holds a session that was not minted.
THEOREM TypeCorrect == Spec => []RegistryTypeOK
<1>1. Spec => []IInv
  BY InitIInv, NextIInv, PTL DEF Spec
<1>2. IInv => RegistryTypeOK
  BY DEF IInv
<1> QED
  BY <1>1, <1>2, PTL

----------------------------------------------------------------------------
(* Admission.  A session's identity is fixed when it is minted, and only   *)
(* two handlers mint: the commit point of a register and a re-register.    *)

Identity(s) == <<obj[s].node, obj[s].pass, obj[s].via>>

NoneMinted ==
    /\ live' \subseteq live
    /\ \A s \in Sid : /\ obj'[s] = NoSession <=> obj[s] = NoSession
                      /\ obj[s] # NoSession => Identity(s)' = Identity(s)

LEMMA DetachedIdentity ==
    ASSUME IInv, NEW S \in SUBSET Sid, \A s \in S : obj[s] # NoSession, obj' = Detached(S)
    PROVE  \A s \in Sid : /\ obj'[s] = NoSession <=> obj[s] = NoSession
                          /\ obj[s] # NoSession => Identity(s)' = Identity(s)
<1>1. \A s \in Sid : obj'[s] = NoSession <=> obj[s] = NoSession
  BY DetachedObjects DEF IInv
<1>2. ASSUME NEW s \in Sid, obj[s] # NoSession PROVE Identity(s)' = Identity(s)
  <2>1. obj[s] \in Session
    BY <1>2 DEF IInv, RegistryTypeOK
  <2> QED
    BY <2>1 DEF Identity, Detached, Session
<1> QED
  BY <1>1, <1>2

\* A register that is refused, charged or still waiting leaves sessions and invitations alone.
LEMMA RegisterCases ==
    ASSUME RegisterNext
    PROVE  \/ UNCHANGED <<sessionVars, inv>>
           \/ \E r \in Req : RegisterAdmitted(r) \/ ReleaseFinish(r)
<1>1. ASSUME NEW r, NEW n, NEW p, NEW i, NEW q, RegisterStart(r, n, p, i, q)
      PROVE  UNCHANGED <<sessionVars, inv>>
  BY <1>1 DEF RegisterStart
<1>2. ASSUME NEW r, NEW n, NEW p, NEW i, ReleaseStart(r, n, p, i)
      PROVE  UNCHANGED <<sessionVars, inv>>
  BY <1>2 DEF ReleaseStart
<1>3. ASSUME NEW r, ScryptBusy(r) \/ RegisterCharged(r) \/ RegisterRefused(r)
      PROVE  UNCHANGED <<sessionVars, inv>>
  BY <1>3 DEF ScryptBusy, RegisterCharged, RegisterRefused
<1> QED
  BY <1>1, <1>2, <1>3 DEF RegisterNext

LEMMA RecordIdentity ==
    ASSUME IInv, NEW s \in Sid, obj[s] # NoSession, NEW record \in Session,
           obj' = [obj EXCEPT ![s] = record],
           record.node = obj[s].node, record.pass = obj[s].pass, record.via = obj[s].via
    PROVE  \A t \in Sid : /\ obj'[t] = NoSession <=> obj[t] = NoSession
                          /\ obj[t] # NoSession => Identity(t)' = Identity(t)
  BY SentinelAssumption DEF IInv, RegistryTypeOK, Identity

\* Every other handler leaves the identities alone.
LEMMA OnlyTwoMint ==
    ASSUME IInv, [Next]_vars
    PROVE  \/ \E r \in Req : RegisterAdmitted(r)
           \/ \E s, new \in Sid, ip \in Ip : ReRegister(s, new, ip)
           \/ NoneMinted
<1>1. ASSUME UNCHANGED sessionVars PROVE NoneMinted
  BY <1>1 DEF sessionVars, NoneMinted, Identity
<1>2. ASSUME NEW S \in SUBSET live, TerminateAll(S) PROVE NoneMinted
  <2>1. S \in SUBSET Sid /\ \A s \in S : obj[s] # NoSession
    BY DEF IInv, RegistryTypeOK
  <2> QED
    BY <1>2, <2>1, DetachedIdentity DEF TerminateAll, NoneMinted
<1>3. ASSUME NEW s \in Sid, Renew(s) \/ Expire(s) PROVE NoneMinted
  <2>1. obj[s] \in Session /\ obj[s] # NoSession
    BY <1>3 DEF Renew, Expire, TokenValid, IInv, RegistryTypeOK
  <2>2. PICK record \in Session :
          /\ obj' = [obj EXCEPT ![s] = record]
          /\ record.node = obj[s].node /\ record.pass = obj[s].pass /\ record.via = obj[s].via
    <3>1. CASE Renew(s)
      <4>1. obj[s].gen + 1 \in 0..MaxGen
        BY <2>1, <3>1, RegistryAssumption DEF Renew, Session
      <4> DEFINE record == [obj[s] EXCEPT !.gen = obj[s].gen + 1]
      <4>2. /\ record \in Session
            /\ record.node = obj[s].node /\ record.pass = obj[s].pass /\ record.via = obj[s].via
        BY <2>1, <4>1 DEF Session
      <4>3. obj' = [obj EXCEPT ![s] = record]
        BY <3>1 DEF Renew
      <4> QED
        BY <4>2, <4>3
    <3>2. CASE Expire(s)
      BY <2>1, <3>2 DEF Expire, Session
    <3> QED
      BY <1>3, <3>1, <3>2
  <2>3. live' = live
    BY <1>3 DEF Renew, Expire
  <2> QED
    BY <2>1, <2>2, <2>3, RecordIdentity DEF NoneMinted
<1>4. ASSUME NEW c \in Conn, NEW s \in Sid, Auth(c, s) PROVE NoneMinted
  <2> DEFINE record == [obj[s] EXCEPT !.sock = c, !.ip = conn[c].ip]
  <2>1. obj[s] \in Session /\ obj[s] # NoSession /\ conn[c].ip \in Ip
    BY <1>4 DEF Auth, TokenValid, IInv, RegistryTypeOK, Socket
  <2>2. /\ record \in Session
        /\ record.node = obj[s].node /\ record.pass = obj[s].pass /\ record.via = obj[s].via
        /\ obj' = [obj EXCEPT ![s] = record]
    BY <1>4, <2>1 DEF Auth, Session
  <2>3. live' = live
    BY <1>4 DEF Auth
  <2> HIDE DEF record
  <2> QED
    BY <2>1, <2>2, <2>3, RecordIdentity DEF NoneMinted
<1>5. ASSUME NEW c \in Conn, SocketClosed(c) PROVE NoneMinted
  <2>1. Owners(c) \in SUBSET Sid /\ \A s \in Owners(c) : obj[s] # NoSession
    BY RegistryAssumption DEF Owners, IInv, References
  <2> QED
    BY <1>5, <2>1, DetachedIdentity DEF SocketClosed, NoneMinted
<1>6. ASSUME NEW c \in Conn, \/ (\E ip \in Ip : Connect(c, ip)) \/ ServerCloses(c)
                             \/ \E t \in Sid : SignalOffline(c, t)
      PROVE  NoneMinted
  BY <1>6 DEF Connect, ServerCloses, SignalOffline, NoneMinted, Identity
<1>7. ASSUME NEW c \in Conn, NEW slow \in SUBSET Slowable,
             Join(c, slow) \/ Leave(c, slow) \/ \E t \in Sid : Block(c, t, slow)
      PROVE  NoneMinted
  <2> DEFINE s == conn[c].sid
  <2>1. s \in Sid /\ obj[s] \in Session /\ obj[s] # NoSession
    BY <1>7 DEF Join, Leave, Block, Frame, IInv, RegistryTypeOK, References, Socket
  <2>2. PICK record \in Session :
          /\ obj' = [obj EXCEPT ![s] = record]
          /\ record.node = obj[s].node /\ record.pass = obj[s].pass /\ record.via = obj[s].via
    <3>1. CASE Join(c, slow) \/ Leave(c, slow)
      <4>1. PICK b \in BOOLEAN : obj' = [obj EXCEPT ![s].joined = b]
        BY <3>1 DEF Join, Leave
      <4> DEFINE record == [obj[s] EXCEPT !.joined = b]
      <4>2. /\ record \in Session
            /\ record.node = obj[s].node /\ record.pass = obj[s].pass /\ record.via = obj[s].via
        BY <2>1 DEF Session
      <4>3. obj' = [obj EXCEPT ![s] = record]
        BY <4>1
      <4> QED
        BY <4>2, <4>3
    <3>2. CASE \E t \in Sid : Block(c, t, slow)
      <4>1. PICK t \in Sid : obj' = [obj EXCEPT ![s].blocked = @ \cup {t}]
        BY <3>2 DEF Block
      <4> DEFINE record == [obj[s] EXCEPT !.blocked = @ \cup {t}]
      <4>2. /\ record \in Session
            /\ record.node = obj[s].node /\ record.pass = obj[s].pass /\ record.via = obj[s].via
        BY <2>1 DEF Session
      <4>3. obj' = [obj EXCEPT ![s] = record]
        BY <4>1
      <4> QED
        BY <4>2, <4>3
    <3> QED
      BY <1>7, <3>1, <3>2
  <2>3. live' = live
    BY <1>7 DEF Join, Leave, Block
  <2> QED
    BY <2>1, <2>2, <2>3, RecordIdentity DEF NoneMinted
<1>8. CASE RegisterNext
  <2>1. ASSUME NEW r \in Req, ReleaseFinish(r) PROVE NoneMinted
    BY <1>2, <2>1 DEF ReleaseFinish, OnIp
  <2> QED
    BY <1>1, <1>8, <2>1, RegisterCases
<1>9. CASE SessionNext
  <2>1. ASSUME NEW s \in Sid, NEW ip \in Ip, Release(s) \/ ReleaseByIp(s, ip) PROVE NoneMinted
    <3>1. {s} \in SUBSET live \/ ~Release(s)
      BY DEF Release, TokenValid
    <3>2. OnIp(obj[s].node, obj[s].pass, ip) \in SUBSET live
      BY DEF OnIp
    <3> QED
      BY <1>2, <2>1, <3>1, <3>2 DEF Release, ReleaseByIp
  <2>2. ASSUME NEW s \in Sid, Release(s) PROVE NoneMinted
    <3>1. {s} \in SUBSET live
      BY <2>2 DEF Release, TokenValid
    <3> QED
      BY <1>2, <2>2, <3>1 DEF Release
  <2> QED
    BY <1>1, <1>3, <1>9, <2>1, <2>2 DEF SessionNext, ReRegisterRejected, Invite
<1>10. CASE QrNext
  BY <1>1, <1>10 DEF QrNext, Redeem, RedeemRejected, InvitationExpires
<1>11. CASE SocketNext
  BY <1>4, <1>5, <1>6, <1>7, <1>11 DEF SocketNext
<1>12. CASE CleanupTick
  <2>1. PICK idle \in SUBSET live, stale \in SUBSET {k \in Ip \X Node : lock[k] # NoLock} :
            Cleanup(idle, stale)
    BY <1>12 DEF CleanupTick
  <2>2. Purged(idle) \in SUBSET live
    BY DEF Purged
  <2> QED
    BY <1>2, <2>1, <2>2 DEF Cleanup
<1>13. CASE TimePasses
  BY <1>1, <1>13 DEF TimePasses
<1>14. CASE UNCHANGED vars
  BY <1>1, <1>14 DEF vars
<1> QED
  BY <1>8, <1>9, <1>10, <1>11, <1>12, <1>13, <1>14 DEF Next

\* Whatever a register saw before its await, at the commit point it shares its node id
\* only with its own passcode.
LEMMA CommitAgrees ==
    ASSUME IInv, NEW r \in Req, RegisterAdmitted(r)
    PROVE  \A s \in live : obj[s].node = pend[r].node => obj[s].pass = pend[r].pass
<1>1. pend[r].verdict \in {"fresh", "ok", "bad"}
  BY DEF RegisterAdmitted, IInv, RegistryTypeOK, Request
<1>2. ~MustCharge(pend[r]) /\ HasRoom(pend[r].ip)
  BY DEF RegisterAdmitted, StillRoom
<1>3. ~Conflict(pend[r])
  BY <1>1, <1>2 DEF MustCharge
<1> QED
  BY <1>3 DEF Conflict, Occupants

\* The identity check and the insert of a register are separated by an await;
\* the check is repeated at the commit point, so it is never stale there.
THEOREM OneIdentity == Spec => []OneIdentityPerNode
<1>1. Init => IInv /\ OneIdentityPerNode
  BY InitIInv DEF Init, OneIdentityPerNode
<1>2. IInv /\ OneIdentityPerNode /\ [Next]_vars => IInv' /\ OneIdentityPerNode'
  <2> SUFFICES ASSUME IInv, OneIdentityPerNode, [Next]_vars
               PROVE  OneIdentityPerNode'
    BY NextIInv
  <2>1. CASE \E r \in Req : RegisterAdmitted(r)
    <3>1. PICK r \in Req : RegisterAdmitted(r)
      BY <2>1
    <3> DEFINE p == pend[r]
    <3>2. PICK t \in Unminted :
            /\ obj' = [obj EXCEPT ![t] = FreshSession(p.node, p.pass, p.ip, p.via)]
            /\ live' = live \cup {t}
      BY <3>1 DEF RegisterAdmitted
    <3>4. \A s \in live : obj[s].node = p.node => obj[s].pass = p.pass
      BY <3>1, CommitAgrees
    <3>5. t \notin live /\ t \in Sid /\ live \subseteq Sid
      BY DEF Unminted, IInv, RegistryTypeOK
    <3>6. \A s \in live : obj'[s] = obj[s]
      BY <3>2, <3>5 DEF IInv, RegistryTypeOK
    <3>7. obj'[t].node = p.node /\ obj'[t].pass = p.pass
      BY <3>2, <3>5 DEF FreshSession, IInv, RegistryTypeOK
    <3> QED
      BY <3>2, <3>4, <3>6, <3>7 DEF OneIdentityPerNode
  <2>2. CASE \E s, new \in Sid, ip \in Ip : ReRegister(s, new, ip)
    <3>1. PICK s \in Sid, new \in Sid, ip \in Ip : ReRegister(s, new, ip)
      BY <2>2
    <3>2. s \in live /\ new \notin live /\ live \subseteq Sid
      BY <3>1 DEF ReRegister, ProofValid, TokenValid, Unminted, IInv, RegistryTypeOK
    <3>3. \A u \in live \ {s} : obj'[u] = obj[u]
      BY <3>1, <3>2 DEF ReRegister, Detached
    <3>4. obj'[new].node = obj[s].node /\ obj'[new].pass = obj[s].pass
      BY <3>1 DEF ReRegister, Detached, FreshSession
    <3>5. live' = (live \ {s}) \cup {new}
      BY <3>1 DEF ReRegister
    <3> QED
      BY <3>2, <3>3, <3>4, <3>5 DEF OneIdentityPerNode
  <2>3. CASE NoneMinted
    <3>1. \A s \in live' : /\ s \in live
                           /\ obj'[s].node = obj[s].node /\ obj'[s].pass = obj[s].pass
      BY <2>3 DEF NoneMinted, Identity, IInv, RegistryTypeOK
    <3> QED
      BY <3>1 DEF OneIdentityPerNode
  <2> QED
    BY <2>1, <2>2, <2>3, OnlyTwoMint
<1> QED
  BY <1>1, <1>2, PTL DEF Spec

\* However many registers passed the first capacity check, the second one
\* keeps the map within MAX_NODES; a re-register is net zero.
THEOREM Capacity == Spec => []WithinCapacity
<1>1. Init => IInv /\ WithinCapacity
  <2>1. Cardinality({}) = 0 /\ 0 <= MaxNodes
    BY FS_EmptySet, RegistryAssumption
  <2> QED
    BY <2>1, InitIInv DEF Init, WithinCapacity
<1>2. IInv /\ WithinCapacity /\ [Next]_vars => IInv' /\ WithinCapacity'
  <2> SUFFICES ASSUME IInv, WithinCapacity, [Next]_vars
               PROVE  WithinCapacity'
    BY NextIInv
  <2>1. live \in SUBSET Sid /\ IsFiniteSet(Sid) /\ MaxNodes \in Nat
    BY RegistryAssumption DEF IInv, RegistryTypeOK
  <2>2. IsFiniteSet(live) /\ Cardinality(live) \in Nat
    BY <2>1, FS_Subset, FS_CardinalityType
  <2>3. CASE \E r \in Req : RegisterAdmitted(r)
    <3>1. Cardinality(live) < MaxNodes
      BY <2>3 DEF RegisterAdmitted, StillRoom, HasRoom
    <3>2. PICK t \in Sid : live' = live \cup {t}
      BY <2>3 DEF RegisterAdmitted, Unminted
    <3>3. Cardinality(live') = IF t \in live THEN Cardinality(live) ELSE Cardinality(live) + 1
      BY <2>2, <3>2, FS_AddElement
    <3> QED
      BY <2>1, <2>2, <3>1, <3>3 DEF WithinCapacity
  <2>4. CASE \E s, new \in Sid, ip \in Ip : ReRegister(s, new, ip)
    <3> PICK s \in Sid, new \in Sid, ip \in Ip : ReRegister(s, new, ip)
      BY <2>4
    <3>1. s \in live /\ live' = (live \ {s}) \cup {new}
      BY DEF ReRegister, ProofValid, TokenValid
    <3>2. /\ IsFiniteSet(live \ {s})
          /\ Cardinality(live \ {s}) = Cardinality(live) - 1
      BY <2>2, <3>1, FS_RemoveElement
    <3>3. \/ Cardinality(live') = Cardinality(live \ {s})
          \/ Cardinality(live') = Cardinality(live \ {s}) + 1
      BY <3>1, <3>2, FS_AddElement
    <3> QED
      BY <2>1, <2>2, <3>2, <3>3 DEF WithinCapacity
  <2>5. CASE NoneMinted
    <3>1. live' \in SUBSET live
      BY <2>5 DEF NoneMinted
    <3>2. IsFiniteSet(live') /\ Cardinality(live') <= Cardinality(live)
      BY <2>2, <3>1, FS_Subset
    <3>3. Cardinality(live') \in Nat
      BY <3>2, FS_CardinalityType
    <3> QED
      BY <2>1, <2>2, <3>2, <3>3 DEF WithinCapacity
  <2> QED
    BY <2>3, <2>4, <2>5, OnlyTwoMint
<1> QED
  BY <1>1, <1>2, PTL DEF Spec

----------------------------------------------------------------------------
(* Invitations.  The grant of a session minted under an invitation is      *)
(* spent, and a spent grant stays spent.                                   *)

Spent(q) == inv[q] # NoInv /\ inv[q].used

GrantsSpent == \A s \in Sid : obj[s] # NoSession /\ obj[s].via # NoQr => Spent(obj[s].via)

LEMMA SpentStaysSpent ==
    ASSUME IInv, [Next]_vars, NEW q \in Qr, Spent(q)
    PROVE  Spent(q)'
<1>1. ASSUME UNCHANGED inv PROVE Spent(q)'
  BY <1>1 DEF Spent
<1>2. inv[q] \in Invitation
  BY DEF Spent, IInv, RegistryTypeOK
<1>3. ASSUME NEW r \in Req, RegisterAdmitted(r) PROVE Spent(q)'
  <2>1. inv'[q] = inv[q] \/ inv'[q] = [inv[q] EXCEPT !.used = TRUE]
    BY <1>3 DEF RegisterAdmitted
  <2>2. [inv[q] EXCEPT !.used = TRUE] \in Invitation /\ [inv[q] EXCEPT !.used = TRUE].used
    BY <1>2 DEF Invitation
  <2> QED
    BY <2>1, <2>2, SentinelAssumption DEF Spent
<1>4. ASSUME NEW d \in Qr, NEW s \in Sid, Invite(s, d) PROVE Spent(q)'
  BY <1>4 DEF Invite, Spent, IInv, RegistryTypeOK
<1>5. ASSUME NEW d \in Qr, Redeem(d) \/ RedeemRejected(d) PROVE Spent(q)'
  <2>1. q # d
    BY <1>5 DEF Redeem, RedeemRejected, Redeemable, Spent
  <2> QED
    BY <1>5, <2>1 DEF Redeem, RedeemRejected, Spent, IInv, RegistryTypeOK
<1>6. ASSUME NEW d \in Qr, InvitationExpires(d) PROVE Spent(q)'
  <2> DEFINE gone == Retired(inv[q])
  <2>1. gone \in Invitation /\ gone.used
    BY <1>2, GuardAssumption DEF Invitation, Retired
  <2>2. inv'[q] = inv[q] \/ inv'[q] = gone
    BY <1>6 DEF InvitationExpires, IInv, RegistryTypeOK
  <2> QED
    BY <2>1, <2>2, SentinelAssumption DEF Spent
<1>7. CASE RegisterNext
  BY <1>1, <1>3, <1>7, RegisterCases DEF ReleaseFinish
<1>8. CASE SessionNext
  <2>1. ASSUME NEW s, NEW t, NEW i,
               \/ ReRegister(s, t, i) \/ ReRegisterRejected(s, i) \/ ReleaseByIp(s, i)
        PROVE  inv' = inv
    BY <2>1 DEF ReRegister, ReRegisterRejected, ReleaseByIp
  <2>2. ASSUME NEW s, Renew(s) \/ Release(s) \/ Expire(s)
        PROVE  inv' = inv
    BY <2>2 DEF Renew, Release, Expire
  <2> QED
    BY <1>1, <1>4, <1>8, <2>1, <2>2 DEF SessionNext
<1>9. CASE QrNext
  BY <1>5, <1>6, <1>9 DEF QrNext
<1>10. CASE SocketNext
  BY <1>1, <1>10 DEF SocketNext, Connect, Auth, ServerCloses, SocketClosed, Join, Leave, Block,
     SignalOffline
<1>11. CASE CleanupTick \/ TimePasses \/ UNCHANGED vars
  BY <1>1, <1>11 DEF CleanupTick, Cleanup, TimePasses, vars
<1> QED
  BY <1>7, <1>8, <1>9, <1>10, <1>11 DEF Next

\* The grant a register commits with is not spent, so nobody came in with it; now it is.
LEMMA CommitSpends ==
    ASSUME IInv, GrantsSpent, NEW r \in Req, RegisterAdmitted(r), pend[r].via # NoQr
    PROVE  /\ \A s \in Sid : obj[s] # NoSession => obj[s].via # pend[r].via
           /\ inv'[pend[r].via] # NoInv /\ inv'[pend[r].via].used
<1> DEFINE p == pend[r]
<1>1. p.via \in Qr /\ inv[p.via] \in Invitation /\ ~inv[p.via].used
  <2>1. p # NoReq /\ p \in Request
    BY DEF RegisterAdmitted, IInv, RegistryTypeOK
  <2>2. p.via \in Qr
    BY <2>1 DEF Request
  <2>3. inv[p.via] \in Invitation
    BY <2>1, <2>2 DEF IInv, RegistryTypeOK, References
  <2>4. ~GrantSpent(p)
    BY DEF RegisterAdmitted
  <2> QED
    BY <2>2, <2>3, <2>4 DEF GrantSpent
<1>2. \A s \in Sid : obj[s] # NoSession => obj[s].via # p.via
  BY <1>1 DEF GrantsSpent, Spent
<1>3. inv'[p.via] = [inv[p.via] EXCEPT !.used = TRUE]
  <2>1. inv' = [q \in Qr |-> IF q = p.via THEN [inv[q] EXCEPT !.used = TRUE] ELSE inv[q]]
    BY DEF RegisterAdmitted
  <2> QED
    BY <1>1, <2>1
<1>4. inv'[p.via] \in Invitation /\ inv'[p.via].used
  BY <1>1, <1>3 DEF Invitation
<1> QED
  BY <1>2, <1>4, SentinelAssumption

\* That a grant is spent by the session it admitted is what makes it admit no other.
LEMMA AdmissionInductive == Spec => [](IInv /\ GrantsSpent /\ GrantAdmitsOnce)
<1> DEFINE Once == IInv /\ GrantsSpent /\ GrantAdmitsOnce
<1>1. Init => Once
  BY InitIInv DEF Init, GrantsSpent, GrantAdmitsOnce
<1>2. Once /\ [Next]_vars => Once'
  <2> SUFFICES ASSUME IInv, GrantsSpent, GrantAdmitsOnce, [Next]_vars
               PROVE  GrantsSpent' /\ GrantAdmitsOnce'
    BY NextIInv
  <2>1. \A s \in Sid : obj[s] # NoSession => obj[s].via \in Qr \cup {NoQr}
    BY DEF IInv, RegistryTypeOK, Session
  <2>2. CASE \E r \in Req : RegisterAdmitted(r)
    <3>1. PICK r \in Req : RegisterAdmitted(r)
      BY <2>2
    <3> DEFINE p == pend[r]
    <3>2. PICK t \in Unminted : obj' = [obj EXCEPT ![t] = FreshSession(p.node, p.pass, p.ip, p.via)]
      BY <3>1 DEF RegisterAdmitted
    <3>3. t \in Sid /\ obj[t] = NoSession
      BY DEF Unminted
    <3>4. \A s \in Sid \ {t} : obj'[s] = obj[s]
      BY <3>2, <3>3 DEF IInv, RegistryTypeOK
    <3>5. obj'[t].via = p.via
      BY <3>2, <3>3 DEF FreshSession, IInv, RegistryTypeOK
    <3>6. ASSUME p.via # NoQr
          PROVE  /\ \A s \in Sid : obj[s] # NoSession => obj[s].via # p.via
                 /\ inv'[p.via] # NoInv /\ inv'[p.via].used
      BY <3>1, <3>6, CommitSpends
    <3>7. GrantsSpent'
      <4>1. ASSUME NEW q \in Qr, Spent(q) PROVE inv'[q] # NoInv /\ inv'[q].used
        BY <4>1, SpentStaysSpent DEF Spent
      <4>2. \A s \in Sid \ {t} : obj'[s] # NoSession /\ obj'[s].via # NoQr
                                   => inv'[obj'[s].via] # NoInv /\ inv'[obj'[s].via].used
        BY <2>1, <3>4, <4>1 DEF GrantsSpent
      <4> QED
        BY <3>5, <3>6, <4>2 DEF GrantsSpent, Spent
    <3>8. GrantAdmitsOnce'
      BY <3>3, <3>4, <3>5, <3>6 DEF GrantAdmitsOnce
    <3> QED
      BY <3>7, <3>8
  <2>3. CASE \E s, new \in Sid, ip \in Ip : ReRegister(s, new, ip)
    <3>1. PICK s \in Sid, new \in Sid, ip \in Ip : ReRegister(s, new, ip)
      BY <2>3
    <3>2. obj[s] \in Session /\ s # new /\ obj[s] # NoSession
      BY <3>1 DEF ReRegister, Unminted, IInv, RegistryTypeOK
    <3>3. \A u \in Sid \ {new} : /\ obj'[u] = NoSession <=> obj[u] = NoSession
                                 /\ obj[u] # NoSession => obj'[u].via = obj[u].via
      <4>1. \A u \in Sid \ {new, s} : obj'[u] = obj[u]
        BY <3>1 DEF ReRegister, Detached
      <4>2. obj'[s] = [obj[s] EXCEPT !.joined = FALSE, !.sock = NoConn]
        BY <3>1, <3>2 DEF ReRegister, Detached
      <4>3. obj'[s] \in Session /\ obj'[s].via = obj[s].via
        BY <3>2, <4>2 DEF Session
      <4> QED
        BY <3>2, <4>1, <4>3, SentinelAssumption
    <3>4. obj'[new].via = NoQr
      BY <3>1 DEF ReRegister, Detached, FreshSession
    <3>5. GrantsSpent'
      <4>1. ASSUME NEW q \in Qr, Spent(q) PROVE inv'[q] # NoInv /\ inv'[q].used
        BY <4>1, SpentStaysSpent DEF Spent
      <4> QED
        BY <2>1, <3>3, <3>4, <4>1 DEF GrantsSpent, Spent
    <3>6. GrantAdmitsOnce'
      BY <3>3, <3>4 DEF GrantAdmitsOnce
    <3> QED
      BY <3>5, <3>6
  <2>4. CASE NoneMinted
    <3>1. \A s \in Sid : /\ obj'[s] = NoSession <=> obj[s] = NoSession
                         /\ obj[s] # NoSession => obj'[s].via = obj[s].via
      BY <2>4 DEF NoneMinted, Identity
    <3>2. GrantsSpent'
      <4>1. ASSUME NEW q \in Qr, Spent(q) PROVE inv'[q] # NoInv /\ inv'[q].used
        BY <4>1, SpentStaysSpent DEF Spent
      <4> QED
        BY <2>1, <3>1, <4>1 DEF GrantsSpent, Spent
    <3>3. GrantAdmitsOnce'
      BY <3>1 DEF GrantAdmitsOnce
    <3> QED
      BY <3>2, <3>3
  <2> QED
    BY <2>2, <2>3, <2>4, OnlyTwoMint
<1> QED
  BY <1>1, <1>2, PTL DEF Spec

\* One invitation admits one session, although several registers may be
\* hashing with the same grant.
THEOREM OneAdmission == Spec => []GrantAdmitsOnce
  BY AdmissionInductive, PTL

----------------------------------------------------------------------------
(* The registry is an implementation of Admission: its two minting         *)
(* handlers are an Admit and a Replace, every other step a Depart of the   *)
(* sessions that are gone, of none of them when the map is as it was.      *)

LEMMA NewIdentity ==
    ASSUME NEW s \in Unminted, Unminted' = Unminted \ {s},
           \A t \in Sid \ Unminted : Identity(t)' = Identity(t)
    PROVE  Promise!Mint(s, [node |-> obj'[s].node, pass |-> obj'[s].pass, via |-> obj'[s].via])
<1>1. s \in Sid /\ Sid \ Unminted' = (Sid \ Unminted) \cup {s} /\ DOMAIN Identities = Sid \ Unminted
  BY DEF Unminted, Identities
<1>2. \A t \in Sid \ Unminted :
         Identities[t] = [node |-> obj'[t].node, pass |-> obj'[t].pass, via |-> obj'[t].via]
  BY DEF Identity, Identities
<1>3. Identities' = [t \in (Sid \ Unminted) \cup {s} |->
                        [node |-> obj'[t].node, pass |-> obj'[t].pass, via |-> obj'[t].via]]
  BY <1>1 DEF Identities
<1> QED
  BY <1>1, <1>2, <1>3 DEF Promise!Mint, Promise!Minted

LEMMA NoneMintedDeparts ==
    ASSUME IInv, NoneMinted
    PROVE  Promise!Depart(live \ live')
<1>1. live' \subseteq live /\ live' = live \ (live \ live')
  BY DEF NoneMinted
<1>2. Unminted' = Unminted
  BY DEF NoneMinted, Unminted
<1>3. \A s \in Sid \ Unminted :
         obj'[s].node = obj[s].node /\ obj'[s].pass = obj[s].pass /\ obj'[s].via = obj[s].via
  BY DEF NoneMinted, Unminted, Identity
<1>4. Identities' = Identities
  BY <1>2, <1>3 DEF Identities
<1> QED
  BY <1>1, <1>4 DEF Promise!Depart

LEMMA AdmittedAdmits ==
    ASSUME IInv, GrantsSpent, NEW r \in Req, RegisterAdmitted(r)
    PROVE  \E s \in Sid, node \in Node, pass \in Pass, via \in Qr \cup {NoQr} :
              Promise!Admit(s, node, pass, via)
<1> DEFINE p == pend[r]
<1>1. p.node \in Node /\ p.pass \in Pass /\ p.via \in Qr \cup {NoQr} /\ p.ip \in Ip
  BY DEF RegisterAdmitted, IInv, RegistryTypeOK, Request
<1>2. PICK s \in Unminted :
        /\ obj' = [obj EXCEPT ![s] = FreshSession(p.node, p.pass, p.ip, p.via)]
        /\ live' = live \cup {s}
  BY DEF RegisterAdmitted
<1>3. s \in Sid /\ obj[s] = NoSession /\ obj'[s] = FreshSession(p.node, p.pass, p.ip, p.via)
      /\ \A t \in Sid \ {s} : obj'[t] = obj[t]
  BY <1>2 DEF Unminted, IInv, RegistryTypeOK
<1>4. obj'[s] # NoSession
  BY <1>1, <1>3, FreshObject
<1>5. obj'[s].node = p.node /\ obj'[s].pass = p.pass /\ obj'[s].via = p.via
  BY <1>3 DEF FreshSession
<1>6. Unminted' = Unminted \ {s} /\ \A t \in Sid \ Unminted : Identity(t)' = Identity(t)
  BY <1>3, <1>4 DEF Unminted, Identity
<1>7. Promise!Mint(s, [node |-> p.node, pass |-> p.pass, via |-> p.via])
  BY <1>5, <1>6, NewIdentity
<1>8. Promise!Cardinality(live) < MaxNodes
  <2>1. Cardinality(live) < MaxNodes
    BY DEF RegisterAdmitted, StillRoom, HasRoom
  <2>2. Promise!Cardinality(live) = Cardinality(live)
    BY DEF Cardinality, Promise!Cardinality, IsFiniteSet, Promise!IsFiniteSet
  <2> QED
    BY <2>1, <2>2
<1>9. \A t \in live : Identities[t].node = p.node => Identities[t].pass = p.pass
  <2>1. \A t \in live : Identities[t].node = obj[t].node /\ Identities[t].pass = obj[t].pass
    BY DEF Identities, Unminted, IInv, RegistryTypeOK
  <2> QED
    BY <2>1, CommitAgrees
<1>10. p.via # NoQr => \A t \in DOMAIN Identities : Identities[t].via # p.via
  BY CommitSpends DEF Identities, Unminted
<1>11. Promise!Admit(s, p.node, p.pass, p.via)
  BY <1>2, <1>7, <1>8, <1>9, <1>10 DEF Promise!Admit, Promise!Minted
<1> QED
  BY <1>1, <1>3, <1>11

LEMMA ReRegisterReplaces ==
    ASSUME IInv, NEW s \in Sid, NEW new \in Sid, NEW ip \in Ip, ReRegister(s, new, ip)
    PROVE  Promise!Replace(s, new)
<1>1. s \in live /\ s # new /\ new \in Unminted /\ obj[s] # NoSession /\ obj[new] = NoSession
  BY DEF ReRegister, ProofValid, TokenValid, Unminted
<1>2. {s} \in SUBSET Sid /\ \A t \in {s} : obj[t] # NoSession
  BY <1>1
<1> DEFINE fresh == FreshSession(obj[s].node, obj[s].pass, ip, NoQr)
           d == Detached({s})
<1>3. obj' = [d EXCEPT ![new] = fresh] /\ live' = (live \ {s}) \cup {new}
  BY DEF ReRegister
<1>4. d \in [Sid -> Session \cup {NoSession}]
  BY <1>2, DetachedObjects DEF IInv
<1>5. obj'[new] = fresh /\ \A t \in Sid \ {new} : obj'[t] = d[t]
  BY <1>3, <1>4
<1>6. fresh # NoSession /\ fresh.node = obj[s].node /\ fresh.pass = obj[s].pass /\ fresh.via = NoQr
  <2>1. obj[s].node \in Node /\ obj[s].pass \in Pass
    BY <1>1 DEF IInv, RegistryTypeOK, Session
  <2>2. fresh # NoSession
    BY <2>1, FreshObject
  <2> QED
    BY <2>2 DEF FreshSession
<1>7. \A t \in Sid : d[t] = NoSession <=> obj[t] = NoSession
  BY <1>2, DetachedObjects DEF IInv
<1>8. ASSUME NEW t \in Sid \ Unminted
      PROVE  d[t].node = obj[t].node /\ d[t].pass = obj[t].pass /\ d[t].via = obj[t].via
  <2>1. obj[t] \in Session
    BY DEF Unminted, IInv, RegistryTypeOK
  <2> QED
    BY <2>1 DEF Detached, Session
<1> HIDE DEF fresh, d
<1>9. Unminted' = Unminted \ {new}
  BY <1>1, <1>5, <1>6, <1>7 DEF Unminted
<1>10. \A t \in Sid \ Unminted : Identity(t)' = Identity(t)
  BY <1>1, <1>5, <1>8 DEF Identity
<1>11. Promise!Mint(new, [node |-> obj[s].node, pass |-> obj[s].pass, via |-> NoQr])
  BY <1>1, <1>5, <1>6, <1>9, <1>10, NewIdentity
<1>12. Identities[s].node = obj[s].node /\ Identities[s].pass = obj[s].pass
  BY <1>1 DEF Identities, Unminted
<1> QED
  BY <1>1, <1>3, <1>11, <1>12 DEF Promise!Replace

\* The registry implements Admission: whatever overlaps, waits, is guessed, renewed or
\* swept, sessions come in one at a time under the rules of the network, are replaced or
\* gone for good, and keep the identity they came in with.
THEOREM RegistryImplementsAdmission == Spec => ImplementsAdmission
<1>1. Init => Promise!Init
  <2>1. ASSUME Init PROVE live = {} /\ Unminted = Sid
    BY <2>1 DEF Init, Unminted
  <2> QED
    BY <2>1 DEF Promise!Init, Identities
<1>2. IInv /\ GrantsSpent /\ [Next]_vars => [Promise!Next]_(Promise!admission)
  <2> SUFFICES ASSUME IInv, GrantsSpent, [Next]_vars
               PROVE  Promise!Next
    OBVIOUS
  <2>1. CASE \E r \in Req : RegisterAdmitted(r)
    BY <2>1, AdmittedAdmits DEF Promise!Next
  <2>2. CASE \E s, new \in Sid, ip \in Ip : ReRegister(s, new, ip)
    BY <2>2, ReRegisterReplaces DEF Promise!Next
  <2>3. CASE NoneMinted
    <3>1. Promise!Depart(live \ live') /\ live \ live' \in SUBSET Sid
      BY <2>3, NoneMintedDeparts DEF IInv, RegistryTypeOK
    <3> QED
      BY <3>1 DEF Promise!Next
  <2> QED
    BY <2>1, <2>2, <2>3, OnlyTwoMint
<1> QED
  BY <1>1, <1>2, AdmissionInductive, PTL DEF Spec, ImplementsAdmission, Promise!Spec

(***************************************************************************)
(* The indexes of the session registry agree with the sessions, for every  *)
(* value of the constants: the re-register proofs, the authenticated       *)
(* sockets, the cluster channels and what connected clients were told.     *)
(*                                                                         *)
(* None of these is inductive alone.  A socket's closure keeps a session   *)
(* after its teardown or its supersession, so Wiring says which sockets a  *)
(* frame can still arrive on and which session such a socket speaks for.   *)
(* Channels and peer lists come after the two indexes, at "Membership":    *)
(* channels are exact when a socket on which close() was called delivers   *)
(* no more frames; with LateFrames a torn-down session can join.           *)
(* Presence is proved socket by socket: a socket whose frames are dropped  *)
(* for back-pressure (Slowable) may miss a retraction, the others never do.*)
(***************************************************************************)

(* What a step may do to the sessions and their sockets.                   *)

Minting == \/ \E r \in Req : RegisterAdmitted(r)
           \/ \E s, new \in Sid, ip \in Ip : ReRegister(s, new, ip)

RecordOnly == \/ \E s \in Sid : Renew(s) \/ Expire(s)
              \/ \E c \in Conn, slow \in SUBSET Slowable :
                    Join(c, slow) \/ Leave(c, slow) \/ \E t \in Sid : Block(c, t, slow)

SocketMove == \E c \in Conn : \/ \E ip \in Ip : Connect(c, ip)
                              \/ \E s \in Sid : Auth(c, s)
                              \/ ServerCloses(c)
                              \/ SocketClosed(c)
                              \/ \E t \in Sid : SignalOffline(c, t)

\* Every teardown is terminateSession on a set of live sessions.
LEMMA SessionMoves ==
    ASSUME IInv, [Next]_vars
    PROVE  \/ UNCHANGED sessionVars
           \/ \E S \in SUBSET live : TerminateAll(S)
           \/ Minting
           \/ RecordOnly
           \/ SocketMove
<1>1. CASE RegisterNext
  <2>1. ASSUME NEW r \in Req, ReleaseFinish(r)
        PROVE  \E S \in SUBSET live : TerminateAll(S)
    BY <2>1 DEF ReleaseFinish, OnIp
  <2> QED
    BY <1>1, <2>1, RegisterCases DEF Minting
<1>2. CASE SessionNext
  <2>1. ASSUME NEW s \in Sid, Release(s)
        PROVE  \E S \in SUBSET live : TerminateAll(S)
    <3>1. {s} \in SUBSET live
      BY <2>1 DEF Release, TokenValid
    <3> QED
      BY <2>1, <3>1 DEF Release
  <2>2. ASSUME NEW s \in Sid, NEW ip \in Ip, ReleaseByIp(s, ip)
        PROVE  \E S \in SUBSET live : TerminateAll(S)
    BY <2>2 DEF ReleaseByIp, OnIp
  <2> QED
    BY <1>2, <2>1, <2>2 DEF SessionNext, Minting, RecordOnly, ReRegisterRejected, Invite
<1>3. CASE QrNext
  BY <1>3 DEF QrNext, Redeem, RedeemRejected, InvitationExpires
<1>4. CASE SocketNext
  BY <1>4 DEF SocketNext, SocketMove, RecordOnly
<1>5. CASE CleanupTick
  <2>1. PICK idle \in SUBSET live, stale \in SUBSET {k \in Ip \X Node : lock[k] # NoLock} :
            Cleanup(idle, stale)
    BY <1>5 DEF CleanupTick
  <2> QED
    BY <2>1 DEF Cleanup, Purged
<1>6. CASE TimePasses \/ UNCHANGED vars
  BY <1>6 DEF TimePasses, vars
<1> QED
  BY <1>1, <1>2, <1>3, <1>4, <1>5, <1>6 DEF Next

\* The sessions that are not torn down keep their objects, the others lose
\* their socket and their membership and nothing else.
LEMMA DetachedFields ==
    ASSUME IInv, NEW S \in SUBSET Sid, \A s \in S : obj[s] # NoSession
    PROVE  /\ \A s \in Sid : Detached(S)[s] = NoSession <=> obj[s] = NoSession
           /\ \A s \in Sid \ S : Detached(S)[s] = obj[s]
           /\ \A s \in S : /\ Detached(S)[s].sock = NoConn
                           /\ ~Detached(S)[s].joined
                           /\ Detached(S)[s].node = obj[s].node
                           /\ Detached(S)[s].pass = obj[s].pass
                           /\ Detached(S)[s].gen = obj[s].gen
                           /\ Detached(S)[s].blocked = obj[s].blocked
<1>1. \A s \in Sid : Detached(S)[s] = NoSession <=> obj[s] = NoSession
  BY DetachedObjects DEF IInv
<1>2. \A s \in Sid \ S : Detached(S)[s] = obj[s]
  BY DEF Detached
<1>3. ASSUME NEW s \in S
      PROVE  /\ Detached(S)[s].sock = NoConn
             /\ ~Detached(S)[s].joined
             /\ Detached(S)[s].node = obj[s].node
             /\ Detached(S)[s].pass = obj[s].pass
             /\ Detached(S)[s].gen = obj[s].gen
             /\ Detached(S)[s].blocked = obj[s].blocked
  <2>1. obj[s] \in Session
    BY DEF IInv, RegistryTypeOK
  <2>2. Detached(S)[s] = [obj[s] EXCEPT !.joined = FALSE, !.sock = NoConn]
    BY DEF Detached
  <2> QED
    BY <2>1, <2>2 DEF Session
<1> QED
  BY <1>1, <1>2, <1>3

\* The objects after a session was minted.
LEMMA MintedFields ==
    ASSUME IInv, NEW r \in Req, RegisterAdmitted(r)
    PROVE  \E new \in Sid :
              /\ new \notin live /\ obj[new] = NoSession /\ obj'[new] # NoSession
              /\ live' = live \cup {new} /\ proofs' = proofs \cup {<<new, 0>>}
              /\ \A s \in Sid \ {new} : obj'[s] = obj[s]
              /\ obj'[new].gen = 0 /\ obj'[new].sock = NoConn
              /\ ~obj'[new].joined /\ obj'[new].blocked = {}
              /\ UNCHANGED <<channels, conn, authed, told>>
<1> DEFINE p == pend[r]
<1>1. PICK new \in Unminted :
        /\ obj' = [obj EXCEPT ![new] = FreshSession(p.node, p.pass, p.ip, p.via)]
        /\ live' = live \cup {new}
        /\ proofs' = proofs \cup {<<new, 0>>}
  BY DEF RegisterAdmitted
<1>2. new \in Sid /\ obj[new] = NoSession /\ new \notin live
  BY DEF Unminted, IInv, RegistryTypeOK
<1>3. obj'[new] = FreshSession(p.node, p.pass, p.ip, p.via)
  BY <1>1, <1>2 DEF IInv, RegistryTypeOK
<1>4. obj'[new] # NoSession
  <2>1. p.node \in Node /\ p.pass \in Pass /\ p.ip \in Ip /\ p.via \in Qr \cup {NoQr}
    BY DEF RegisterAdmitted, IInv, RegistryTypeOK, Request
  <2> QED
    BY <1>3, <2>1, FreshObject
<1>5. \A s \in Sid \ {new} : obj'[s] = obj[s]
  BY <1>1, <1>2 DEF IInv, RegistryTypeOK
<1>6. UNCHANGED <<channels, conn, authed, told>>
  BY DEF RegisterAdmitted
<1>7. /\ obj'[new].gen = 0 /\ obj'[new].sock = NoConn
      /\ ~obj'[new].joined /\ obj'[new].blocked = {}
  BY <1>3 DEF FreshSession
<1> QED
  BY <1>1, <1>2, <1>4, <1>5, <1>6, <1>7

\* A re-register is the teardown of one session and the minting of another.
LEMMA ReRegisteredFields ==
    ASSUME IInv, NEW s \in Sid, NEW new \in Sid, NEW ip \in Ip, ReRegister(s, new, ip)
    PROVE  /\ s \in live /\ s # new /\ new \notin live
           /\ obj[new] = NoSession /\ obj'[new] # NoSession
           /\ obj'[s] # NoSession /\ obj'[s].sock = NoConn /\ ~obj'[s].joined
           /\ obj'[s].node = obj[s].node /\ obj'[s].pass = obj[s].pass
           /\ \A t \in Sid \ {s, new} : obj'[t] = obj[t]
           /\ obj'[new].gen = 0 /\ obj'[new].sock = NoConn
           /\ ~obj'[new].joined /\ obj'[new].blocked = {}
           /\ live' = (live \ {s}) \cup {new}
           /\ proofs' = Unindexed({s}) \cup {<<new, 0>>}
           /\ channels' = Vacated({s}) /\ conn' = HungUp({s})
           /\ authed' = authed \ Socks({s}) /\ told' = Retracted({s})
<1> DEFINE fresh == FreshSession(obj[s].node, obj[s].pass, ip, NoQr)
<1>1. s \in live /\ s # new /\ new \notin live /\ obj[s] # NoSession /\ obj[new] = NoSession
  BY DEF ReRegister, ProofValid, TokenValid, Unminted, IInv, RegistryTypeOK
<1>2. {s} \in SUBSET Sid /\ \A t \in {s} : obj[t] # NoSession
  BY <1>1
<1>3. obj' = [Detached({s}) EXCEPT ![new] = fresh]
  BY DEF ReRegister
<1>4. Detached({s}) \in [Sid -> Session \cup {NoSession}]
  BY <1>2, DetachedObjects DEF IInv
<1>5. fresh # NoSession
  <2>1. obj[s].node \in Node /\ obj[s].pass \in Pass
    BY <1>1 DEF IInv, RegistryTypeOK, Session
  <2> QED
    BY <2>1, FreshObject
<1>6. /\ fresh.gen = 0 /\ fresh.sock = NoConn /\ ~fresh.joined /\ fresh.blocked = {}
  BY DEF FreshSession
<1> HIDE DEF fresh
<1>7. obj'[new] = fresh /\ \A t \in Sid \ {new} : obj'[t] = Detached({s})[t]
  BY <1>3, <1>4
<1>8. /\ live' = (live \ {s}) \cup {new}
      /\ proofs' = Unindexed({s}) \cup {<<new, 0>>}
      /\ channels' = Vacated({s}) /\ conn' = HungUp({s})
      /\ authed' = authed \ Socks({s}) /\ told' = Retracted({s})
  BY DEF ReRegister
<1>9. /\ obj'[s] # NoSession /\ obj'[s].sock = NoConn /\ ~obj'[s].joined
      /\ obj'[s].node = obj[s].node /\ obj'[s].pass = obj[s].pass
      /\ \A t \in Sid \ {s, new} : obj'[t] = obj[t]
  BY <1>1, <1>2, <1>7, DetachedFields
<1> QED
  BY <1>1, <1>5, <1>6, <1>7, <1>8, <1>9

\* One record is rewritten in place: the socket, the identity and what the
\* registry indexes are left alone, and the proof index follows a renewal.
RecordKept(s) ==
    /\ obj'[s] = NoSession <=> obj[s] = NoSession
    /\ obj[s] # NoSession => /\ obj'[s].sock = obj[s].sock
                             /\ obj'[s].node = obj[s].node
                             /\ obj'[s].pass = obj[s].pass

LEMMA RewrittenRecord ==
    ASSUME IInv, NEW s \in Sid, obj[s] # NoSession, NEW record \in Session,
           obj' = [obj EXCEPT ![s] = record], record.sock = obj[s].sock,
           record.node = obj[s].node, record.pass = obj[s].pass
    PROVE  \A t \in Sid : RecordKept(t) /\ (t # s => obj'[t] = obj[t])
  BY SentinelAssumption DEF IInv, RegistryTypeOK, RecordKept

LEMMA RenewedFields ==
    ASSUME IInv, NEW s \in Sid, Renew(s)
    PROVE  /\ s \in live /\ \A t \in Sid : RecordKept(t) /\ (t # s => obj'[t] = obj[t])
           /\ obj'[s].gen = obj[s].gen + 1
           /\ obj'[s].joined = obj[s].joined /\ obj'[s].blocked = obj[s].blocked
           /\ proofs' = Unindexed({s}) \cup {<<s, obj'[s].gen>>}
           /\ UNCHANGED <<live, channels, conn, authed, told>>
<1> DEFINE record == [obj[s] EXCEPT !.gen = @ + 1]
<1>1. s \in live /\ obj[s] \in Session /\ obj[s] # NoSession
  BY DEF Renew, TokenValid, IInv, RegistryTypeOK
<1>2. /\ record \in Session /\ record.gen = obj[s].gen + 1
      /\ record.sock = obj[s].sock /\ record.node = obj[s].node /\ record.pass = obj[s].pass
      /\ record.joined = obj[s].joined /\ record.blocked = obj[s].blocked
  <2>1. obj[s].gen + 1 \in 0..MaxGen
    BY <1>1, RegistryAssumption DEF Renew, Session
  <2> QED
    BY <1>1, <2>1 DEF Session
<1>3. obj' = [obj EXCEPT ![s] = record]
  BY DEF Renew
<1> HIDE DEF record
<1>4. obj'[s] = record
  BY <1>3 DEF IInv, RegistryTypeOK
<1> QED
  BY <1>1, <1>2, <1>3, <1>4, RewrittenRecord DEF Renew

LEMMA ExpiredFields ==
    ASSUME IInv, NEW s \in Sid, Expire(s)
    PROVE  /\ \A t \in Sid : RecordKept(t) /\ (t # s => obj'[t] = obj[t])
           /\ obj'[s].gen = obj[s].gen
           /\ obj'[s].joined = obj[s].joined /\ obj'[s].blocked = obj[s].blocked
           /\ UNCHANGED <<live, proofs, channels, conn, authed, told>>
<1> DEFINE record == [obj[s] EXCEPT !.expired = TRUE]
<1>1. obj[s] \in Session /\ obj[s] # NoSession
  BY DEF Expire, IInv, RegistryTypeOK
<1>2. /\ record \in Session /\ record.gen = obj[s].gen
      /\ record.sock = obj[s].sock /\ record.node = obj[s].node /\ record.pass = obj[s].pass
      /\ record.joined = obj[s].joined /\ record.blocked = obj[s].blocked
  BY <1>1 DEF Session
<1>3. obj' = [obj EXCEPT ![s] = record]
  BY DEF Expire
<1> HIDE DEF record
<1>4. obj'[s] = record
  BY <1>3 DEF IInv, RegistryTypeOK
<1> QED
  BY <1>1, <1>2, <1>3, <1>4, RewrittenRecord DEF Expire

\* A frame is handled on the session the closure is bound to, which exists.
LEMMA Speaker ==
    ASSUME IInv, NEW c \in Conn, Frame(c)
    PROVE  /\ conn[c].sid \in Sid /\ conn[c].sid # NoSid
           /\ obj[conn[c].sid] \in Session /\ obj[conn[c].sid] # NoSession
  BY DEF Frame, IInv, RegistryTypeOK, References, Socket

LEMMA JoinedField ==
    ASSUME IInv, NEW s \in Sid, obj[s] # NoSession, NEW b \in BOOLEAN,
           obj' = [obj EXCEPT ![s].joined = b]
    PROVE  /\ \A t \in Sid : RecordKept(t) /\ (t # s => obj'[t] = obj[t])
           /\ obj'[s].gen = obj[s].gen /\ obj'[s].blocked = obj[s].blocked
           /\ obj'[s].joined = b
<1> DEFINE record == [obj[s] EXCEPT !.joined = b]
<1>1. obj[s] \in Session
  BY DEF IInv, RegistryTypeOK
<1>2. /\ record \in Session /\ record.gen = obj[s].gen
      /\ record.sock = obj[s].sock /\ record.node = obj[s].node /\ record.pass = obj[s].pass
      /\ record.joined = b /\ record.blocked = obj[s].blocked
  BY <1>1 DEF Session
<1>3. obj' = [obj EXCEPT ![s] = record]
  OBVIOUS
<1> HIDE DEF record
<1>4. obj'[s] = record
  BY <1>3 DEF IInv, RegistryTypeOK
<1> QED
  BY <1>2, <1>3, <1>4, RewrittenRecord

LEMMA JoinFields ==
    ASSUME IInv, NEW c \in Conn, NEW slow, Join(c, slow)
    PROVE  /\ conn[c].sid \in Sid /\ obj[conn[c].sid] # NoSession
           /\ \A t \in Sid : RecordKept(t) /\ (t # conn[c].sid => obj'[t] = obj[t])
           /\ obj'[conn[c].sid].gen = obj[conn[c].sid].gen
           /\ obj'[conn[c].sid].blocked = obj[conn[c].sid].blocked
           /\ obj'[conn[c].sid].joined
  BY Speaker, JoinedField DEF Join

LEMMA LeaveFields ==
    ASSUME IInv, NEW c \in Conn, NEW slow, Leave(c, slow)
    PROVE  /\ conn[c].sid \in Sid /\ obj[conn[c].sid] # NoSession
           /\ \A t \in Sid : RecordKept(t) /\ (t # conn[c].sid => obj'[t] = obj[t])
           /\ obj'[conn[c].sid].gen = obj[conn[c].sid].gen
           /\ obj'[conn[c].sid].blocked = obj[conn[c].sid].blocked
           /\ ~obj'[conn[c].sid].joined
  BY Speaker, JoinedField DEF Leave

LEMMA BlockFields ==
    ASSUME IInv, NEW c \in Conn, NEW slow, NEW p \in Sid, Block(c, p, slow)
    PROVE  /\ conn[c].sid \in Sid /\ obj[conn[c].sid] # NoSession
           /\ \A t \in Sid : RecordKept(t) /\ (t # conn[c].sid => obj'[t] = obj[t])
           /\ obj'[conn[c].sid].gen = obj[conn[c].sid].gen
           /\ obj'[conn[c].sid].joined = obj[conn[c].sid].joined
           /\ obj'[conn[c].sid].blocked = obj[conn[c].sid].blocked \cup {p}
<1> DEFINE s == conn[c].sid
           record == [obj[s] EXCEPT !.blocked = @ \cup {p}]
<1>1. s \in Sid /\ obj[s] \in Session /\ obj[s] # NoSession
  BY Speaker DEF Block
<1>2. obj' = [obj EXCEPT ![s] = record]
  BY DEF Block
<1> HIDE DEF s
<1>3. /\ record \in Session /\ record.gen = obj[s].gen
      /\ record.sock = obj[s].sock /\ record.node = obj[s].node /\ record.pass = obj[s].pass
      /\ record.joined = obj[s].joined /\ record.blocked = obj[s].blocked \cup {p}
  BY <1>1 DEF Session
<1> HIDE DEF record
<1>4. obj'[s] = record
  BY <1>1, <1>2 DEF IInv, RegistryTypeOK
<1>5. \A t \in Sid : RecordKept(t) /\ (t # s => obj'[t] = obj[t])
  BY <1>1, <1>2, <1>3, RewrittenRecord
<1> QED
  BY <1>1, <1>3, <1>4, <1>5 DEF s

\* AUTH moves the session to the new socket and nothing else that is indexed.
LEMMA AuthFields ==
    ASSUME IInv, NEW c \in Conn, NEW s \in Sid, Auth(c, s)
    PROVE  /\ s \in live /\ obj[s] # NoSession /\ conn[c].sid = NoSid
           /\ obj'[s] # NoSession /\ obj'[s].sock = c
           /\ obj'[s].node = obj[s].node /\ obj'[s].pass = obj[s].pass
           /\ obj'[s].gen = obj[s].gen /\ obj'[s].joined = obj[s].joined
           /\ obj'[s].blocked = obj[s].blocked
           /\ \A t \in Sid \ {s} : obj'[t] = obj[t]
           /\ conn'[c].sid = s /\ conn'[c].st = conn[c].st
           /\ \A d \in Conn \ {c} :
                 /\ conn'[d].sid = conn[d].sid
                 /\ conn'[d].st = IF d = obj[s].sock /\ conn[d].st = "open" THEN "closing"
                                  ELSE conn[d].st
<1> DEFINE record == [obj[s] EXCEPT !.sock = c, !.ip = conn[c].ip]
<1>1. s \in live /\ obj[s] \in Session /\ obj[s] # NoSession /\ conn[c].ip \in Ip
  BY DEF Auth, TokenValid, IInv, RegistryTypeOK, Socket
<1>2. /\ record \in Session /\ record.sock = c
      /\ record.node = obj[s].node /\ record.pass = obj[s].pass
      /\ record.gen = obj[s].gen /\ record.joined = obj[s].joined
      /\ record.blocked = obj[s].blocked
  BY <1>1 DEF Session
<1>3. obj' = [obj EXCEPT ![s] = record]
  BY <1>1 DEF Auth, Session
<1> HIDE DEF record
<1>4. obj'[s] = record /\ record # NoSession /\ \A t \in Sid \ {s} : obj'[t] = obj[t]
  BY <1>2, <1>3, SentinelAssumption DEF IInv, RegistryTypeOK
<1>5. /\ conn'[c].sid = s /\ conn'[c].st = conn[c].st
      /\ \A d \in Conn \ {c} :
            /\ conn'[d].sid = conn[d].sid
            /\ conn'[d].st = IF d = obj[s].sock /\ conn[d].st = "open" THEN "closing"
                             ELSE conn[d].st
  BY DEF Auth, Socket, IInv, RegistryTypeOK
<1>6. conn[c].sid = NoSid
  BY DEF Auth
<1> QED
  BY <1>1, <1>2, <1>4, <1>5, <1>6

----------------------------------------------------------------------------
(* The re-register proofs.                                                 *)

\* The proof index resolves exactly the live sessions, each under its newest
\* proof: no handler leaves a retired proof behind or drops a current one.
THEOREM ProofIndex == Spec => []ProofIndexExact
<1>1. Init => IInv /\ ProofIndexExact
  BY InitIInv DEF Init, ProofIndexExact
<1>2. IInv /\ ProofIndexExact /\ [Next]_vars => IInv' /\ ProofIndexExact'
  <2> SUFFICES ASSUME IInv, ProofIndexExact, [Next]_vars
               PROVE  ProofIndexExact'
    BY NextIInv
  <2>1. live \subseteq Sid /\ \A s \in live : obj[s] # NoSession
    BY DEF IInv, RegistryTypeOK
  <2>2. ASSUME UNCHANGED <<live, proofs>>, \A s \in live : obj'[s].gen = obj[s].gen
        PROVE  ProofIndexExact'
    BY <2>2 DEF ProofIndexExact
  <2>3. CASE UNCHANGED sessionVars
    BY <2>2, <2>3 DEF sessionVars
  <2>4. ASSUME NEW S \in SUBSET live, TerminateAll(S) PROVE ProofIndexExact'
    <3>1. live' = live \ S /\ proofs' = proofs \ {<<s, obj[s].gen>> : s \in S}
      BY <2>4 DEF TerminateAll, Unindexed
    <3>2. \A s \in live \ S : obj'[s] = obj[s]
      BY <2>1, <2>4, DetachedFields DEF TerminateAll
    <3> QED
      BY <3>1, <3>2 DEF ProofIndexExact
  <2>5. CASE Minting
    <3>1. CASE \E r \in Req : RegisterAdmitted(r)
      BY <2>1, <3>1, MintedFields DEF ProofIndexExact
    <3>2. ASSUME NEW s \in Sid, NEW new \in Sid, NEW ip \in Ip, ReRegister(s, new, ip)
          PROVE  ProofIndexExact'
      <4>1. /\ live' = (live \ {s}) \cup {new} /\ new \notin live /\ s \in live
            /\ proofs' = (proofs \ {<<s, obj[s].gen>>}) \cup {<<new, 0>>}
            /\ obj'[new].gen = 0 /\ \A t \in live \ {s} : obj'[t] = obj[t]
        <5>1. /\ live' = (live \ {s}) \cup {new} /\ new \notin live /\ s \in live
              /\ proofs' = Unindexed({s}) \cup {<<new, 0>>} /\ obj'[new].gen = 0
              /\ \A t \in Sid \ {s, new} : obj'[t] = obj[t]
          BY <3>2, ReRegisteredFields
        <5>2. Unindexed({s}) = proofs \ {<<s, obj[s].gen>>}
          BY DEF Unindexed
        <5> QED
          BY <2>1, <5>1, <5>2
      <4> QED
        BY <4>1 DEF ProofIndexExact
    <3> QED
      BY <2>5, <3>1, <3>2 DEF Minting
  <2>6. CASE RecordOnly
    <3>1. ASSUME NEW s \in Sid, Renew(s) PROVE ProofIndexExact'
      <4>1. /\ live' = live /\ s \in live /\ \A t \in live \ {s} : obj'[t] = obj[t]
            /\ proofs' = (proofs \ {<<s, obj[s].gen>>}) \cup {<<s, obj'[s].gen>>}
        BY <2>1, <3>1, RenewedFields DEF Unindexed
      <4> QED
        BY <4>1 DEF ProofIndexExact
    <3>2. ASSUME NEW s \in Sid, Expire(s) PROVE ProofIndexExact'
      BY <2>1, <2>2, <3>2, ExpiredFields
    <3>3. ASSUME NEW c \in Conn, NEW slow,
                 Join(c, slow) \/ Leave(c, slow) \/ \E t \in Sid : Block(c, t, slow)
          PROVE  ProofIndexExact'
      <4>1. UNCHANGED <<live, proofs>>
        BY <3>3 DEF Join, Leave, Block
      <4>2. \A s \in live : obj'[s].gen = obj[s].gen
        BY <2>1, <3>3, JoinFields, LeaveFields, BlockFields
      <4> QED
        BY <2>2, <4>1, <4>2
    <3> QED
      BY <2>6, <3>1, <3>2, <3>3 DEF RecordOnly
  <2>7. CASE SocketMove
    <3>1. ASSUME NEW c \in Conn, NEW s \in Sid, Auth(c, s) PROVE ProofIndexExact'
      <4>1. UNCHANGED <<live, proofs>>
        BY <3>1 DEF Auth
      <4> QED
        BY <2>1, <2>2, <3>1, <4>1, AuthFields
    <3>2. ASSUME NEW c \in Conn, SocketClosed(c) PROVE ProofIndexExact'
      <4>1. Owners(c) \in SUBSET Sid /\ \A s \in Owners(c) : obj[s] # NoSession
        BY RegistryAssumption DEF Owners, IInv, References
      <4>2. obj' = Detached(Owners(c)) /\ UNCHANGED <<live, proofs>>
        BY <3>2 DEF SocketClosed
      <4> QED
        BY <2>1, <2>2, <4>1, <4>2, DetachedFields
    <3>3. ASSUME NEW c \in Conn, \/ (\E ip \in Ip : Connect(c, ip)) \/ ServerCloses(c)
                                 \/ \E t \in Sid : SignalOffline(c, t)
          PROVE  ProofIndexExact'
      BY <2>2, <3>3 DEF Connect, ServerCloses, SignalOffline
    <3> QED
      BY <2>7, <3>1, <3>2, <3>3 DEF SocketMove
  <2> QED
    BY <2>3, <2>4, <2>5, <2>6, <2>7, SessionMoves
<1> QED
  BY <1>1, <1>2, PTL DEF Spec

----------------------------------------------------------------------------
(* A reconnect and the late 'close' of the socket it superseded.           *)

Spares == \A s \in live \cap live' :
             obj[s].sock # NoConn /\ obj'[s].sock = NoConn => conn'[obj[s].sock].st = "free"

\* A surviving session loses its socket only when that very socket is closed,
\* in whatever order the new AUTH and the old 'close' event arrive.
THEOREM ReconnectSpared == Spec => LateCloseSparesReconnect
<1>1. IInv /\ [Next]_vars => [Spares]_vars
  <2> SUFFICES ASSUME IInv, [Next]_vars PROVE Spares
    OBVIOUS
  <2>1. live \subseteq Sid /\ \A s \in live : obj[s] # NoSession
    BY DEF IInv, RegistryTypeOK
  <2>2. ASSUME \A s \in live \cap live' : obj'[s].sock = obj[s].sock PROVE Spares
    BY <2>2 DEF Spares
  <2>3. CASE UNCHANGED sessionVars
    BY <2>2, <2>3 DEF sessionVars
  <2>4. ASSUME NEW S \in SUBSET live, TerminateAll(S) PROVE Spares
    <3>1. live' = live \ S /\ \A s \in live \ S : obj'[s] = obj[s]
      BY <2>1, <2>4, DetachedFields DEF TerminateAll
    <3> QED
      BY <2>2, <3>1
  <2>5. CASE Minting
    BY <2>1, <2>2, <2>5, MintedFields, ReRegisteredFields DEF Minting
  <2>6. CASE RecordOnly
    BY <2>1, <2>2, <2>6, RenewedFields, ExpiredFields, JoinFields, LeaveFields, BlockFields
    DEF RecordOnly, RecordKept
  <2>7. CASE SocketMove
    <3>1. ASSUME NEW c \in Conn, NEW s \in Sid, Auth(c, s) PROVE Spares
      BY <2>1, <3>1, AuthFields, RegistryAssumption DEF Spares
    <3>2. ASSUME NEW c \in Conn, SocketClosed(c) PROVE Spares
      <4>1. Owners(c) \in SUBSET Sid /\ \A s \in Owners(c) : obj[s] # NoSession
        BY RegistryAssumption DEF Owners, IInv, References
      <4>2. \A s \in Sid \ Owners(c) : obj'[s] = obj[s]
        BY <3>2, <4>1, DetachedFields DEF SocketClosed
      <4>3. conn'[c].st = "free"
        BY <3>2 DEF SocketClosed, IInv, RegistryTypeOK, Socket
      <4> QED
        BY <2>1, <4>2, <4>3 DEF Spares, Owners
    <3>3. ASSUME NEW c \in Conn, \/ (\E ip \in Ip : Connect(c, ip)) \/ ServerCloses(c)
                                 \/ \E t \in Sid : SignalOffline(c, t)
          PROVE  Spares
      BY <2>2, <3>3 DEF Connect, ServerCloses, SignalOffline
    <3> QED
      BY <2>7, <3>1, <3>2, <3>3 DEF SocketMove
  <2> QED
    BY <2>3, <2>4, <2>5, <2>6, <2>7, SessionMoves
<1>2. Spec => []IInv
  BY InitIInv, NextIInv, PTL DEF Spec
<1>3. LateCloseSparesReconnect <=> [][Spares]_vars
  BY DEF LateCloseSparesReconnect, Spares
<1> QED
  BY <1>1, <1>2, <1>3, PTL DEF Spec

----------------------------------------------------------------------------
(* Sockets and sessions.                                                   *)

\* A session that has a socket is live and is the one its closure is bound
\* to; a free socket is bound to none; and a socket that is still open speaks
\* for a live session that has it, because every handler that takes a session
\* or a socket away closes the socket in the same step.
Wiring ==
    /\ authed = Socks(live)
    /\ \A s \in Sid : obj[s] # NoSession /\ obj[s].sock # NoConn
                        => s \in live /\ conn[obj[s].sock].sid = s
    /\ \A c \in Conn : conn[c].st = "free" => conn[c].sid = NoSid
    /\ \A c \in Conn : conn[c].st = "open" /\ conn[c].sid # NoSid
                        => conn[c].sid \in live /\ obj[conn[c].sid].sock = c

\* terminateSession closes the open sockets of the departing sessions, and
\* those of no other.
LEMMA HungUpFields ==
    ASSUME IInv, NEW S \in SUBSET Sid
    PROVE  \A c \in Conn :
              /\ HungUp(S)[c].sid = conn[c].sid
              /\ HungUp(S)[c].st = "free" <=> conn[c].st = "free"
              /\ HungUp(S)[c].st = "open" <=> conn[c].st = "open" /\ c \notin Socks(S)
<1> TAKE c \in Conn
<1>1. conn[c] \in Socket
  BY DEF IInv, RegistryTypeOK
<1>2. CASE c \in OpenSocks(S)
  <2>1. HungUp(S)[c] = [conn[c] EXCEPT !.st = "closing"]
    BY <1>2 DEF HungUp
  <2> QED
    BY <1>1, <1>2, <2>1 DEF OpenSocks, Socks, Socket
<1>3. CASE c \notin OpenSocks(S)
  BY <1>3 DEF HungUp, OpenSocks, Socks
<1> QED
  BY <1>2, <1>3

\* No two sessions have the same socket.
LEMMA Unshared ==
    ASSUME IInv, Wiring
    PROVE  \A s, t \in Sid : /\ obj[s] # NoSession /\ obj[s].sock # NoConn
                             /\ obj[t] # NoSession /\ obj[t].sock = obj[s].sock
                             => s = t
  BY DEF Wiring

\* Sessions depart (S), sessions are minted (M), the sockets of the departing
\* ones are closed: the wiring of the others stays.
LEMMA PopulationWiring ==
    ASSUME IInv, Wiring, NEW S \in SUBSET live, NEW M \in SUBSET Sid,
           \A s \in M : obj[s] = NoSession /\ obj'[s].sock = NoConn,
           \A s \in S : obj'[s].sock = NoConn,
           \A s \in Sid \ (S \cup M) : obj'[s] = obj[s],
           live' = (live \ S) \cup M, authed' = authed \ Socks(S),
           \A c \in Conn : /\ conn'[c].sid = conn[c].sid
                           /\ conn'[c].st = "free" <=> conn[c].st = "free"
                           /\ conn'[c].st = "open" <=> conn[c].st = "open" /\ c \notin Socks(S)
    PROVE  Wiring'
<1>1. live \subseteq Sid /\ \A s \in live : obj[s] # NoSession
  BY DEF IInv, RegistryTypeOK
<1>2. M \cap live = {}
  BY <1>1
<1>4. authed' = {c \in Conn : \E s \in live' : obj'[s].sock = c}
  <2>1. \A c \in Conn : c \in authed <=> \E s \in live : obj[s].sock = c
    BY DEF Wiring, Socks
  <2>2. \A c \in Conn : c \in Socks(S) <=> \E s \in S : obj[s].sock = c
    BY DEF Socks
  <2>3. \A c \in Conn : \A s \in live \ S, t \in S : ~(obj[s].sock = c /\ obj[t].sock = c)
    BY <1>1, Unshared, RegistryAssumption
  <2>4. authed' \subseteq Conn
    BY DEF IInv, RegistryTypeOK
  <2>5. \A c \in Conn : c \in authed' <=> c \in authed /\ c \notin Socks(S)
    OBVIOUS
  <2>6. \A c \in Conn : (\E s \in live' : obj'[s].sock = c) <=> \E s \in live \ S : obj[s].sock = c
    BY <1>1, <1>2, RegistryAssumption
  <2> QED
    BY <2>1, <2>2, <2>3, <2>4, <2>5, <2>6
<1>5. \A s \in Sid : obj'[s] # NoSession /\ obj'[s].sock # NoConn
                       => s \in live' /\ conn'[obj'[s].sock].sid = s
  <2> SUFFICES ASSUME NEW s \in Sid, obj'[s] # NoSession, obj'[s].sock # NoConn
               PROVE  s \in live' /\ conn'[obj'[s].sock].sid = s
    OBVIOUS
  <2>1. s \notin S \cup M /\ obj'[s] = obj[s] /\ obj[s] \in Session
    BY DEF IInv, RegistryTypeOK
  <2>2. obj[s].sock \in Conn /\ s \in live /\ conn[obj[s].sock].sid = s
    BY <2>1 DEF Wiring, Session
  <2> QED
    BY <2>1, <2>2
<1>6. \A c \in Conn : conn'[c].st = "free" => conn'[c].sid = NoSid
  BY DEF Wiring
<1>7. \A c \in Conn : conn'[c].st = "open" /\ conn'[c].sid # NoSid
                        => conn'[c].sid \in live' /\ obj'[conn'[c].sid].sock = c
  <2> SUFFICES ASSUME NEW c \in Conn, conn'[c].st = "open", conn'[c].sid # NoSid
               PROVE  conn'[c].sid \in live' /\ obj'[conn'[c].sid].sock = c
    OBVIOUS
  <2>1. conn[c].st = "open" /\ c \notin Socks(S) /\ conn'[c].sid = conn[c].sid
    OBVIOUS
  <2>2. conn[c].sid \in live /\ obj[conn[c].sid].sock = c
    BY <2>1 DEF Wiring
  <2>3. conn[c].sid \notin S
    BY <2>1, <2>2 DEF Socks
  <2> QED
    BY <1>1, <1>2, <2>1, <2>2, <2>3
<1> QED
  BY <1>4, <1>5, <1>6, <1>7 DEF Wiring, Socks

LEMMA TeardownWiring ==
    ASSUME IInv, Wiring, NEW S \in SUBSET live, TerminateAll(S)
    PROVE  Wiring'
<1>1. S \in SUBSET Sid /\ \A s \in S : obj[s] # NoSession
  BY DEF IInv, RegistryTypeOK
<1>2. /\ \A s \in S : obj'[s].sock = NoConn
      /\ \A s \in Sid \ S : obj'[s] = obj[s]
  BY <1>1, DetachedFields DEF TerminateAll
<1>3. \A c \in Conn : /\ conn'[c].sid = conn[c].sid
                      /\ conn'[c].st = "free" <=> conn[c].st = "free"
                      /\ conn'[c].st = "open" <=> conn[c].st = "open" /\ c \notin Socks(S)
  BY <1>1, HungUpFields DEF TerminateAll
<1>4. /\ live' = (live \ S) \cup {} /\ authed' = authed \ Socks(S)
      /\ {} \in SUBSET Sid /\ \A s \in Sid \ (S \cup {}) : obj'[s] = obj[s]
  BY <1>2 DEF TerminateAll
<1> QED
  BY <1>2, <1>3, <1>4, PopulationWiring

LEMMA MintingWiring ==
    ASSUME IInv, Wiring, Minting
    PROVE  Wiring'
<1>1. CASE \E r \in Req : RegisterAdmitted(r)
  <2>1. PICK new \in Sid :
          /\ obj[new] = NoSession /\ obj'[new].sock = NoConn
          /\ \A s \in Sid \ {new} : obj'[s] = obj[s]
          /\ live' = live \cup {new} /\ UNCHANGED <<conn, authed>>
    BY <1>1, MintedFields
  <2>2. Socks({}) = {}
    BY DEF Socks
  <2> DEFINE S == {}
             M == {new}
  <2>3. /\ S \in SUBSET live /\ M \in SUBSET Sid
        /\ \A s \in M : obj[s] = NoSession /\ obj'[s].sock = NoConn
        /\ \A s \in S : obj'[s].sock = NoConn
        /\ \A s \in Sid \ (S \cup M) : obj'[s] = obj[s]
        /\ live' = (live \ S) \cup M /\ authed' = authed \ Socks(S)
        /\ \A c \in Conn : c \notin Socks(S) /\ conn'[c] = conn[c]
    BY <2>1, <2>2
  <2> HIDE DEF S, M
  <2> QED
    BY <2>3, PopulationWiring
<1>2. ASSUME NEW s \in Sid, NEW new \in Sid, NEW ip \in Ip, ReRegister(s, new, ip)
      PROVE  Wiring'
  <2>1. /\ s \in live /\ obj[new] = NoSession /\ obj'[new].sock = NoConn
        /\ obj'[s].sock = NoConn /\ live' = (live \ {s}) \cup {new}
        /\ \A t \in Sid \ {s, new} : obj'[t] = obj[t]
        /\ conn' = HungUp({s}) /\ authed' = authed \ Socks({s})
    BY <1>2, ReRegisteredFields
  <2>2. \A c \in Conn : /\ conn'[c].sid = conn[c].sid
                        /\ conn'[c].st = "free" <=> conn[c].st = "free"
                        /\ conn'[c].st = "open" <=> conn[c].st = "open" /\ c \notin Socks({s})
    BY <2>1, HungUpFields
  <2> DEFINE S == {s}
             M == {new}
  <2>3. S \in SUBSET live /\ M \in SUBSET Sid
    BY <2>1
  <2>4. /\ \A t \in M : obj[t] = NoSession /\ obj'[t].sock = NoConn
        /\ \A t \in S : obj'[t].sock = NoConn
        /\ \A t \in Sid \ (S \cup M) : obj'[t] = obj[t]
    BY <2>1
  <2>5. live' = (live \ S) \cup M /\ authed' = authed \ Socks(S)
    BY <2>1
  <2>6. \A c \in Conn : /\ conn'[c].sid = conn[c].sid
                        /\ conn'[c].st = "free" <=> conn[c].st = "free"
                        /\ conn'[c].st = "open" <=> conn[c].st = "open" /\ c \notin Socks(S)
    BY <2>2
  <2> HIDE DEF S, M
  <2> QED
    BY <2>3, <2>4, <2>5, <2>6, PopulationWiring
<1> QED
  BY <1>1, <1>2 DEF Minting

\* A handler that touches no session's socket and no socket's closure.
LEMMA KeptWiring ==
    ASSUME IInv, Wiring, UNCHANGED <<live, authed>>,
           \A s \in Sid : /\ obj'[s] = NoSession <=> obj[s] = NoSession
                          /\ obj[s] # NoSession => obj'[s].sock = obj[s].sock,
           \A c \in Conn : /\ conn'[c].sid = conn[c].sid
                           /\ conn'[c].st = "free" => conn[c].st = "free" \/ conn[c].sid = NoSid
                           /\ conn'[c].st = "open" => conn[c].st = "open" \/ conn[c].sid = NoSid
    PROVE  Wiring'
<1>1. live \subseteq Sid /\ \A s \in live : obj[s] # NoSession
  BY DEF IInv, RegistryTypeOK
<1>2. \A s \in Sid : obj[s] # NoSession => obj[s].sock \in Conn \cup {NoConn}
  BY DEF IInv, RegistryTypeOK, Session
<1> QED
  BY <1>1, <1>2 DEF Wiring, Socks

LEMMA AuthWiring ==
    ASSUME IInv, Wiring, NEW c \in Conn, NEW s \in Sid, Auth(c, s)
    PROVE  Wiring'
<1> DEFINE old == obj[s].sock
<1>1. live \subseteq Sid /\ \A t \in live : obj[t] # NoSession
  BY DEF IInv, RegistryTypeOK
<1>2. /\ s \in live /\ conn[c].sid = NoSid /\ obj'[s] # NoSession /\ obj'[s].sock = c
      /\ \A t \in Sid \ {s} : obj'[t] = obj[t]
      /\ conn'[c].sid = s /\ conn'[c].st = conn[c].st
      /\ \A d \in Conn \ {c} : /\ conn'[d].sid = conn[d].sid
                               /\ conn'[d].st = IF d = old /\ conn[d].st = "open" THEN "closing"
                                                ELSE conn[d].st
  BY AuthFields
<1>3. live' = live /\ authed' = (authed \ {old}) \cup {c} /\ conn[c].st # "free"
  BY DEF Auth, Remarked, CanDeliver
<1>4. \A t \in Sid : obj[t] # NoSession => obj[t].sock \in Conn \cup {NoConn} /\ obj[t].sock # c
  <2>1. \A t \in Sid : obj[t] # NoSession => obj[t].sock \in Conn \cup {NoConn}
    BY DEF IInv, RegistryTypeOK, Session
  <2> QED
    BY <1>2, <2>1, RegistryAssumption DEF Wiring
<1> HIDE DEF old
<1>5. old = obj[s].sock
  BY DEF old
<1>6. authed' = {d \in Conn : \E t \in live' : obj'[t].sock = d}
  <2>1. \A d \in Conn : d \in authed <=> \E t \in live : obj[t].sock = d
    BY DEF Wiring, Socks
  <2>2. authed' \subseteq Conn
    BY <1>3 DEF IInv, RegistryTypeOK
  <2>3. \A d \in Conn \ {c} : d \in authed' <=> \E t \in live \ {s} : obj[t].sock = d
    BY <1>1, <1>2, <1>3, <1>5, <2>1, Unshared, RegistryAssumption
  <2>4. \A t \in live \ {s} : obj'[t] = obj[t]
    BY <1>1, <1>2
  <2>5. \A d \in Conn \ {c} : (\E t \in live' : obj'[t].sock = d) <=> \E t \in live \ {s} : obj[t].sock = d
    BY <1>2, <1>3, <2>4
  <2> QED
    BY <1>2, <1>3, <2>2, <2>3, <2>5
<1>7. \A t \in Sid : obj'[t] # NoSession /\ obj'[t].sock # NoConn
                       => t \in live' /\ conn'[obj'[t].sock].sid = t
  BY <1>2, <1>3, <1>4 DEF Wiring
<1>8. \A d \in Conn : conn'[d].st = "free" => conn'[d].sid = NoSid
  BY <1>2, <1>3 DEF Wiring
<1>9. \A d \in Conn : conn'[d].st = "open" /\ conn'[d].sid # NoSid
                        => conn'[d].sid \in live' /\ obj'[conn'[d].sid].sock = d
  <2> SUFFICES ASSUME NEW d \in Conn \ {c}, conn'[d].st = "open", conn'[d].sid # NoSid
               PROVE  conn'[d].sid \in live' /\ obj'[conn'[d].sid].sock = d
    BY <1>2, <1>3
  <2>1. conn[d].st = "open" /\ conn[d].sid = conn'[d].sid /\ d # old
    BY <1>2
  <2>2. conn[d].sid \in live /\ obj[conn[d].sid].sock = d
    BY <2>1 DEF Wiring
  <2> QED
    BY <1>1, <1>2, <1>3, <1>5, <2>1, <2>2
<1> QED
  BY <1>6, <1>7, <1>8, <1>9 DEF Wiring, Socks

LEMMA ClosedWiring ==
    ASSUME IInv, Wiring, NEW c \in Conn, SocketClosed(c)
    PROVE  Wiring'
<1>1. live \subseteq Sid /\ \A t \in live : obj[t] # NoSession
  BY DEF IInv, RegistryTypeOK
<1>2. Owners(c) \in SUBSET Sid /\ \A s \in Owners(c) : obj[s] # NoSession
  BY RegistryAssumption DEF Owners, IInv, References
<1>3. /\ \A s \in Sid : obj'[s] = NoSession <=> obj[s] = NoSession
      /\ \A s \in Sid \ Owners(c) : obj'[s] = obj[s]
      /\ \A s \in Owners(c) : obj'[s].sock = NoConn
  BY <1>2, DetachedFields DEF SocketClosed
<1>4. \A s \in Sid : obj[s] # NoSession /\ obj[s].sock = c => s \in Owners(c)
  BY RegistryAssumption DEF Wiring, Owners
<1>5. \A s \in Owners(c) : obj[s].sock = c
  BY DEF Owners
<1>6. /\ conn'[c].st = "free" /\ conn'[c].sid = NoSid
      /\ \A d \in Conn \ {c} : conn'[d] = conn[d]
      /\ live' = live /\ authed' = authed \ {c}
  BY DEF SocketClosed, IInv, RegistryTypeOK, Socket
<1>7. authed' = {d \in Conn : \E t \in live' : obj'[t].sock = d}
  <2>1. \A d \in Conn : d \in authed <=> \E t \in live : obj[t].sock = d
    BY DEF Wiring, Socks
  <2>2. authed' \subseteq Conn
    BY <1>6 DEF IInv, RegistryTypeOK
  <2>3. \A t \in live : obj'[t].sock = IF t \in Owners(c) THEN NoConn ELSE obj[t].sock
    BY <1>1, <1>3
  <2>4. \A d \in Conn \ {c} : (\E t \in live : obj'[t].sock = d) <=> \E t \in live : obj[t].sock = d
    BY <1>5, <2>3, RegistryAssumption
  <2>5. ~ \E t \in live : obj'[t].sock = c
    BY <1>1, <1>4, <2>3, RegistryAssumption
  <2> QED
    BY <1>6, <2>1, <2>2, <2>4, <2>5
<1>8. \A t \in Sid : obj'[t] # NoSession /\ obj'[t].sock # NoConn
                       => t \in live' /\ conn'[obj'[t].sock].sid = t
  <2> SUFFICES ASSUME NEW t \in Sid, obj'[t] # NoSession, obj'[t].sock # NoConn
               PROVE  t \in live' /\ conn'[obj'[t].sock].sid = t
    OBVIOUS
  <2>1. t \notin Owners(c) /\ obj'[t] = obj[t] /\ obj[t] \in Session
    BY <1>3 DEF IInv, RegistryTypeOK
  <2>2. obj[t].sock \in Conn \ {c}
    BY <1>4, <2>1 DEF Session
  <2> QED
    BY <1>6, <2>1, <2>2 DEF Wiring
<1>9. \A d \in Conn : conn'[d].st = "free" => conn'[d].sid = NoSid
  BY <1>6 DEF Wiring
<1>10. \A d \in Conn : conn'[d].st = "open" /\ conn'[d].sid # NoSid
                         => conn'[d].sid \in live' /\ obj'[conn'[d].sid].sock = d
  BY <1>1, <1>3, <1>5, <1>6 DEF Wiring
<1> QED
  BY <1>7, <1>8, <1>9, <1>10 DEF Wiring, Socks

LEMMA InitWiring == Init => Wiring
  BY DEF Init, Wiring, Socks

LEMMA NextWiring == IInv /\ Wiring /\ [Next]_vars => Wiring'
<1> SUFFICES ASSUME IInv, Wiring, [Next]_vars PROVE Wiring'
  OBVIOUS
<1>1. CASE UNCHANGED sessionVars
  BY <1>1 DEF sessionVars, Wiring, Socks
<1>2. CASE RecordOnly
  <2>1. UNCHANGED <<live, authed, conn>>
    BY <1>2 DEF RecordOnly, Renew, Expire, Join, Leave, Block
  <2>2. \A s \in Sid : RecordKept(s)
    BY <1>2, RenewedFields, ExpiredFields, JoinFields, LeaveFields, BlockFields DEF RecordOnly
  <2> QED
    BY <2>1, <2>2, KeptWiring DEF RecordKept
<1>3. CASE SocketMove
  <2>1. ASSUME NEW c \in Conn, \/ (\E ip \in Ip : Connect(c, ip)) \/ ServerCloses(c)
                               \/ \E t \in Sid : SignalOffline(c, t)
        PROVE  Wiring'
    <3>1. UNCHANGED <<obj, live, authed>>
      BY <2>1 DEF Connect, ServerCloses, SignalOffline
    <3>2. \A d \in Conn : /\ conn'[d].sid = conn[d].sid
                          /\ conn'[d].st = "free" => conn[d].st = "free" \/ conn[d].sid = NoSid
                          /\ conn'[d].st = "open" => conn[d].st = "open" \/ conn[d].sid = NoSid
      <4>1. CASE \E ip \in Ip : Connect(c, ip)
        <5>1. conn[c].sid = NoSid
          BY <4>1 DEF Connect, Wiring
        <5> QED
          BY <4>1, <5>1 DEF Connect, IInv, RegistryTypeOK
      <4>2. CASE ServerCloses(c)
        BY <4>2 DEF ServerCloses, IInv, RegistryTypeOK, Socket
      <4>3. CASE \E t \in Sid : SignalOffline(c, t)
        BY <4>3 DEF SignalOffline
      <4> QED
        BY <2>1, <4>1, <4>2, <4>3
    <3> QED
      BY <3>1, <3>2, KeptWiring
  <2> QED
    BY <1>3, <2>1, AuthWiring, ClosedWiring DEF SocketMove
<1> QED
  BY <1>1, <1>2, <1>3, SessionMoves, TeardownWiring, MintingWiring

\* The index of authenticated sockets cannot drift from the sessions: it is
\* exactly the set of sockets live sessions point at, each pointed at once.
THEOREM SocketIndex == Spec => []SocketIndexExact
<1>1. IInv /\ Wiring => SocketIndexExact
  <2> SUFFICES ASSUME IInv, Wiring PROVE SocketIndexExact
    OBVIOUS
  <2>1. live \subseteq Sid /\ \A s \in live : obj[s] # NoSession
    BY DEF IInv, RegistryTypeOK
  <2> QED
    BY <2>1, Unshared DEF Wiring, SocketIndexExact
<1>2. Spec => [](IInv /\ Wiring)
  BY InitIInv, NextIInv, InitWiring, NextWiring, PTL DEF Spec
<1> QED
  BY <1>1, <1>2, PTL

----------------------------------------------------------------------------
(* Membership.                                                             *)

\* A channel holds the live members of its cluster; and a session is a member
\* only while it is live and has a socket.
Membership ==
    /\ \A k \in Node \X Pass : channels[k] = {s \in live : obj[s].joined /\ Cluster(s) = k}
    /\ \A s \in Sid : obj[s] # NoSession /\ obj[s].joined => s \in live /\ obj[s].sock # NoConn

\* Members depart (S), sessions are minted (M) and not members yet.
LEMMA PopulationMembership ==
    ASSUME IInv, Membership, NEW S \in SUBSET Sid, NEW M \in SUBSET Sid,
           \A s \in M : obj[s] = NoSession /\ ~obj'[s].joined,
           \A s \in S : obj[s] # NoSession /\ ~obj'[s].joined,
           \A s \in Sid \ (S \cup M) : obj'[s] = obj[s],
           live \ S \subseteq live', live' \subseteq live \cup M,
           channels' = Vacated(S)
    PROVE  Membership'
<1>1. live \subseteq Sid /\ \A s \in live : obj[s] # NoSession
  BY DEF IInv, RegistryTypeOK
<1>2. ASSUME NEW k \in Node \X Pass
      PROVE  channels'[k] = {s \in live' : obj'[s].joined /\ Cluster(s)' = k}
  <2>1. channels'[k] = channels[k] \ {s \in S : obj[s].joined /\ Cluster(s) = k}
    BY DEF Vacated
  <2>2. channels[k] = {s \in live : obj[s].joined /\ Cluster(s) = k}
    BY DEF Membership
  <2>3. \A s \in Sid \ (S \cup M) : Cluster(s)' = Cluster(s)
    BY DEF Cluster
  <2> QED
    BY <1>1, <2>1, <2>2, <2>3
<1>3. \A s \in Sid : obj'[s] # NoSession /\ obj'[s].joined => s \in live' /\ obj'[s].sock # NoConn
  BY DEF Membership
<1> QED
  BY <1>2, <1>3 DEF Membership

\* A handler that leaves members and channels alone.
LEMMA KeptMembership ==
    ASSUME IInv, Membership, UNCHANGED <<live, channels>>,
           \A s \in Sid : /\ obj'[s] = NoSession <=> obj[s] = NoSession
                          /\ obj[s] # NoSession =>
                                /\ obj'[s].joined = obj[s].joined
                                /\ obj[s].sock # NoConn => obj'[s].sock # NoConn
                                /\ obj'[s].node = obj[s].node /\ obj'[s].pass = obj[s].pass
    PROVE  Membership'
<1>1. live \subseteq Sid /\ \A s \in live : obj[s] # NoSession
  BY DEF IInv, RegistryTypeOK
<1>2. \A s \in live : Cluster(s)' = Cluster(s)
  BY <1>1 DEF Cluster
<1> QED
  BY <1>1, <1>2 DEF Membership

LEMMA TeardownMembership ==
    ASSUME IInv, Membership, NEW S \in SUBSET live, TerminateAll(S)
    PROVE  Membership'
<1>1. S \in SUBSET Sid /\ \A s \in S : obj[s] # NoSession
  BY DEF IInv, RegistryTypeOK
<1>2. /\ \A s \in S : obj[s] # NoSession /\ ~obj'[s].joined
      /\ \A s \in Sid \ (S \cup {}) : obj'[s] = obj[s]
      /\ {} \in SUBSET Sid
  BY <1>1, DetachedFields DEF TerminateAll
<1>3. live \ S \subseteq live' /\ live' \subseteq live \cup {} /\ channels' = Vacated(S)
  BY DEF TerminateAll
<1> QED
  BY <1>1, <1>2, <1>3, PopulationMembership

LEMMA MintingMembership ==
    ASSUME IInv, Membership, Minting
    PROVE  Membership'
<1>1. CASE \E r \in Req : RegisterAdmitted(r)
  <2>1. PICK new \in Sid :
          /\ obj[new] = NoSession /\ ~obj'[new].joined
          /\ \A s \in Sid \ {new} : obj'[s] = obj[s]
          /\ live' = live \cup {new} /\ channels' = channels
    BY <1>1, MintedFields
  <2> DEFINE S == {}
             M == {new}
  <2>2. Vacated(S) = channels
    BY DEF Vacated, IInv, RegistryTypeOK
  <2>3. /\ S \in SUBSET Sid /\ M \in SUBSET Sid
        /\ live \ S \subseteq live' /\ live' \subseteq live \cup M
        /\ channels' = Vacated(S)
    BY <2>1, <2>2
  <2>4. /\ \A s \in M : obj[s] = NoSession /\ ~obj'[s].joined
        /\ \A s \in S : obj[s] # NoSession /\ ~obj'[s].joined
        /\ \A s \in Sid \ (S \cup M) : obj'[s] = obj[s]
    BY <2>1
  <2> HIDE DEF S, M
  <2> QED
    BY <2>3, <2>4, PopulationMembership
<1>2. ASSUME NEW s \in Sid, NEW new \in Sid, NEW ip \in Ip, ReRegister(s, new, ip)
      PROVE  Membership'
  <2>1. /\ obj[s] # NoSession /\ obj[new] = NoSession /\ ~obj'[new].joined
        /\ ~obj'[s].joined /\ live' = (live \ {s}) \cup {new}
        /\ \A t \in Sid \ {s, new} : obj'[t] = obj[t]
        /\ channels' = Vacated({s})
    BY <1>2, ReRegisteredFields DEF ReRegister
  <2> DEFINE S == {s}
             M == {new}
  <2>2. /\ S \in SUBSET Sid /\ M \in SUBSET Sid
        /\ live \ S \subseteq live' /\ live' \subseteq live \cup M
        /\ channels' = Vacated(S)
    BY <2>1
  <2>3. /\ \A t \in M : obj[t] = NoSession /\ ~obj'[t].joined
        /\ \A t \in S : obj[t] # NoSession /\ ~obj'[t].joined
        /\ \A t \in Sid \ (S \cup M) : obj'[t] = obj[t]
    BY <2>1
  <2> HIDE DEF S, M
  <2> QED
    BY <2>2, <2>3, PopulationMembership
<1> QED
  BY <1>1, <1>2 DEF Minting

\* Without late frames, a member speaks on the socket it has.
LEMMA SpeakerHasSocket ==
    ASSUME IInv, Wiring, ~LateFrames, NEW c \in Conn, Frame(c)
    PROVE  conn[c].sid \in live /\ obj[conn[c].sid].sock = c
  BY DEF Wiring, Frame, CanDeliver

LEMMA FrameMembership ==
    ASSUME IInv, Wiring, Membership, ~LateFrames, NEW c \in Conn, NEW slow \in SUBSET Slowable,
           Join(c, slow) \/ Leave(c, slow) \/ \E t \in Sid : Block(c, t, slow)
    PROVE  Membership'
<1> DEFINE s == conn[c].sid
<1>1. live \subseteq Sid /\ \A t \in live : obj[t] # NoSession
  BY DEF IInv, RegistryTypeOK
<1>2. s \in live /\ obj[s].sock = c
  BY SpeakerHasSocket DEF Join, Leave, Block
<1>3. UNCHANGED live
  BY DEF Join, Leave, Block
<1>4. \A t \in Sid : RecordKept(t) /\ (t # s => obj'[t] = obj[t])
  BY JoinFields, LeaveFields, BlockFields
<1>5. \A t \in live : Cluster(t)' = Cluster(t)
  BY <1>1, <1>4 DEF RecordKept, Cluster
<1>6. Cluster(s) \in Node \X Pass
  BY <1>1, <1>2 DEF Cluster, Session, IInv, RegistryTypeOK
<1> HIDE DEF s
<1>7. s = conn[c].sid
  BY DEF s
<1>8. CASE Join(c, slow)
  <2>1. obj'[s].joined
    BY <1>7, <1>8, JoinFields
  <2>2. \A k \in Node \X Pass :
          channels'[k] = IF k = Cluster(s) THEN channels[k] \cup {s} ELSE channels[k]
    BY <1>6, <1>7, <1>8 DEF Join, IInv, RegistryTypeOK
  <2>3. ASSUME NEW k \in Node \X Pass
        PROVE  channels'[k] = {t \in live' : obj'[t].joined /\ Cluster(t)' = k}
    <3>1. channels[k] = {t \in live : obj[t].joined /\ Cluster(t) = k}
      BY DEF Membership
    <3>2. \A t \in live \ {s} : obj'[t] = obj[t] /\ Cluster(t)' = Cluster(t)
      BY <1>1, <1>4, <1>5
    <3>3. \A t \in live \ {s} : t \in channels'[k] <=> obj'[t].joined /\ Cluster(t)' = k
      BY <2>2, <3>1, <3>2
    <3>4. \A t \in {s} : t \in channels'[k] <=> obj'[t].joined /\ Cluster(t)' = k
      <4>1. \A t \in {s} : t \in live /\ obj'[t].joined /\ Cluster(t)' = Cluster(t)
        BY <1>2, <1>5, <2>1
      <4> QED
        BY <2>2, <3>1, <4>1
    <3>5. channels'[k] \subseteq live
      BY <1>2, <2>2, <3>1
    <3> QED
      BY <1>3, <3>3, <3>4, <3>5
  <2>4. \A t \in Sid : obj'[t] # NoSession /\ obj'[t].joined => t \in live' /\ obj'[t].sock # NoConn
    BY <1>1, <1>2, <1>3, <1>4, RegistryAssumption DEF Membership, RecordKept
  <2> QED
    BY <2>3, <2>4 DEF Membership
<1>9. CASE Leave(c, slow)
  <2>1. ~obj'[s].joined
    BY <1>7, <1>9, LeaveFields
  <2>2. \A k \in Node \X Pass :
          channels'[k] = IF k = Cluster(s) THEN channels[k] \ {s} ELSE channels[k]
    BY <1>6, <1>7, <1>9 DEF Leave, IInv, RegistryTypeOK
  <2>3. ASSUME NEW k \in Node \X Pass
        PROVE  channels'[k] = {t \in live' : obj'[t].joined /\ Cluster(t)' = k}
    <3>1. channels[k] = {t \in live : obj[t].joined /\ Cluster(t) = k}
      BY DEF Membership
    <3>2. \A t \in live \ {s} : obj'[t] = obj[t] /\ Cluster(t)' = Cluster(t)
      BY <1>1, <1>4, <1>5
    <3>3. s \notin channels'[k]
      BY <2>2, <3>1
    <3>4. channels'[k] = {t \in live \ {s} : obj[t].joined /\ Cluster(t) = k}
      BY <2>2, <3>1, <3>3
    <3> QED
      BY <1>3, <2>1, <3>2, <3>4
  <2>4. \A t \in Sid : obj'[t] # NoSession /\ obj'[t].joined => t \in live' /\ obj'[t].sock # NoConn
    BY <1>1, <1>2, <1>3, <1>4, <2>1 DEF Membership
  <2> QED
    BY <2>3, <2>4 DEF Membership
<1>10. CASE \E t \in Sid : Block(c, t, slow)
  <2>1. obj'[s].joined = obj[s].joined
    BY <1>7, <1>10, BlockFields
  <2>2. channels' = channels
    BY <1>10 DEF Block
  <2> QED
    BY <1>3, <1>4, <2>1, <2>2, KeptMembership DEF RecordKept
<1> QED
  BY <1>8, <1>9, <1>10

LEMMA ClosedMembership ==
    ASSUME IInv, Wiring, Membership, NEW c \in Conn, SocketClosed(c)
    PROVE  Membership'
<1>1. Owners(c) \in SUBSET Sid /\ \A s \in Owners(c) : obj[s] # NoSession
  BY RegistryAssumption DEF Owners, IInv, References
<1>2. /\ \A s \in Owners(c) : obj[s] # NoSession /\ ~obj'[s].joined
      /\ \A s \in Sid \ (Owners(c) \cup {}) : obj'[s] = obj[s]
      /\ {} \in SUBSET Sid
  BY <1>1, DetachedFields DEF SocketClosed
<1>3. /\ live \ Owners(c) \subseteq live' /\ live' \subseteq live \cup {}
      /\ channels' = Vacated(Owners(c))
  BY DEF SocketClosed
<1> QED
  BY <1>1, <1>2, <1>3, PopulationMembership

LEMMA NextMembership ==
    ASSUME IInv, Wiring, Membership, ~LateFrames, [Next]_vars
    PROVE  Membership'
<1>1. CASE UNCHANGED sessionVars
  BY <1>1 DEF sessionVars, Membership, Cluster
<1>2. CASE RecordOnly
  <2>1. ASSUME NEW s \in Sid, Renew(s) \/ Expire(s) PROVE Membership'
    <3>1. UNCHANGED <<live, channels>>
      BY <2>1 DEF Renew, Expire
    <3>2. \A t \in Sid : RecordKept(t) /\ (obj[t] # NoSession => obj'[t].joined = obj[t].joined)
      BY <2>1, RenewedFields, ExpiredFields
    <3> QED
      BY <3>1, <3>2, KeptMembership DEF RecordKept
  <2> QED
    BY <1>2, <2>1, FrameMembership DEF RecordOnly
<1>3. CASE SocketMove
  <2>1. ASSUME NEW c \in Conn, NEW s \in Sid, Auth(c, s) PROVE Membership'
    <3>1. UNCHANGED <<live, channels>>
      BY <2>1 DEF Auth
    <3>2. /\ obj[s] # NoSession /\ obj'[s] # NoSession /\ obj'[s].sock # NoConn
          /\ obj'[s].joined = obj[s].joined
          /\ obj'[s].node = obj[s].node /\ obj'[s].pass = obj[s].pass
          /\ \A t \in Sid \ {s} : obj'[t] = obj[t]
      BY <2>1, AuthFields, RegistryAssumption
    <3> QED
      BY <3>1, <3>2, KeptMembership
  <2>2. ASSUME NEW c \in Conn, \/ (\E ip \in Ip : Connect(c, ip)) \/ ServerCloses(c)
                               \/ \E t \in Sid : SignalOffline(c, t)
        PROVE  Membership'
    <3>1. UNCHANGED <<obj, live, channels>>
      BY <2>2 DEF Connect, ServerCloses, SignalOffline
    <3> QED
      BY <3>1, KeptMembership
  <2> QED
    BY <1>3, <2>1, <2>2, ClosedMembership DEF SocketMove
<1> QED
  BY <1>1, <1>2, <1>3, SessionMoves, TeardownMembership, MintingMembership

LEMMA InitMembership == Init => Membership
  BY DEF Init, Membership

LEMMA MembershipInvariant == ~LateFrames /\ Spec => [](IInv /\ Wiring /\ Membership)
<1> SUFFICES ASSUME ~LateFrames PROVE Spec => [](IInv /\ Wiring /\ Membership)
  OBVIOUS
<1>1. IInv /\ Wiring /\ Membership /\ [Next]_vars => (IInv /\ Wiring /\ Membership)'
  BY NextIInv, NextWiring, NextMembership
<1> QED
  BY <1>1, InitIInv, InitWiring, InitMembership, PTL DEF Spec

\* Channel membership and channelId agree, for any number of clusters: when a
\* socket delivers nothing after close(), a cluster holds exactly its live
\* members and each of them has a socket.
THEOREM ChannelsExact == ~LateFrames /\ Spec => []ChannelExact
<1>1. IInv /\ Membership => ChannelExact
  <2> SUFFICES ASSUME IInv, Membership PROVE ChannelExact
    OBVIOUS
  <2>1. live \subseteq Sid /\ \A s \in live : obj[s] # NoSession
    BY DEF IInv, RegistryTypeOK
  <2> QED
    BY <2>1 DEF Membership, ChannelExact
<1> QED
  BY <1>1, MembershipInvariant, PTL

----------------------------------------------------------------------------
(* Presence: what a client was told.                                       *)

\* Only an open, authenticated socket has an unretracted announcement.
Announced == \A c \in Conn : told[c] # {} => conn[c].st = "open" /\ conn[c].sid # NoSid

\* The session behind a socket that was told of somebody.
LEMMA Listener ==
    ASSUME IInv, Wiring, Announced, NEW c \in Conn, told[c] # {}
    PROVE  /\ conn[c].st = "open" /\ conn[c].sid \in live /\ conn[c].sid \in Sid
           /\ obj[conn[c].sid].sock = c /\ obj[conn[c].sid] # NoSession
  BY DEF Wiring, Announced, IInv, RegistryTypeOK

\* A teardown retracts, and tells the departing sockets nothing more.
LEMMA RetractedFields ==
    ASSUME IInv, NEW S \in SUBSET Sid
    PROVE  \A c \in Conn : /\ Retracted(S)[c] \subseteq told[c]
                           /\ c \in OpenSocks(S) => Retracted(S)[c] = {}
  BY DEF Retracted

\* A socket whose announcements only shrink, and that stays open if it has any.
LEMMA ShrinkingAnnounced ==
    ASSUME IInv, Announced,
           \A c \in Conn : told'[c] # {} =>
              /\ told[c] # {} /\ conn'[c].st = conn[c].st /\ conn'[c].sid = conn[c].sid
    PROVE  Announced'
  BY DEF Announced

\* Every handler but a join only shrinks what a socket was told, and none
\* hands a socket with announcements to another session.
LEMMA OnlyJoinTells ==
    ASSUME IInv, Wiring, Announced, [Next]_vars
    PROVE  \/ \E c \in Conn, slow \in SUBSET Slowable : Join(c, slow)
           \/ \A c \in Conn : /\ told'[c] \subseteq told[c]
                              /\ told'[c] # {} => /\ conn'[c].st = conn[c].st
                                                  /\ conn'[c].sid = conn[c].sid
<1> DEFINE Shrinks == \A c \in Conn : /\ told'[c] \subseteq told[c]
                                      /\ told'[c] # {} => /\ conn'[c].st = conn[c].st
                                                          /\ conn'[c].sid = conn[c].sid
<1>1. CASE UNCHANGED <<conn, told>>
  BY <1>1
<1>2. ASSUME NEW S \in SUBSET Sid, conn' = HungUp(S), told' = Retracted(S)
      PROVE  Shrinks
  <2>1. \A c \in Conn : c \notin OpenSocks(S) => conn'[c] = conn[c]
    BY <1>2 DEF HungUp
  <2> QED
    BY <1>2, <2>1, RetractedFields
<1>3. ASSUME NEW S \in SUBSET live, TerminateAll(S) PROVE Shrinks
  <2>1. S \in SUBSET Sid
    BY DEF IInv, RegistryTypeOK
  <2> QED
    BY <1>2, <1>3, <2>1 DEF TerminateAll
<1>4. CASE Minting
  <2>1. CASE \E r \in Req : RegisterAdmitted(r)
    BY <1>1, <2>1 DEF RegisterAdmitted
  <2>2. ASSUME NEW s \in Sid, NEW new \in Sid, NEW ip \in Ip, ReRegister(s, new, ip)
        PROVE  Shrinks
    <3>1. {s} \in SUBSET Sid /\ conn' = HungUp({s}) /\ told' = Retracted({s})
      BY <2>2 DEF ReRegister
    <3> QED
      BY <1>2, <3>1
  <2> QED
    BY <1>4, <2>1, <2>2 DEF Minting
<1>5. CASE RecordOnly
  <2>1. ASSUME NEW c \in Conn, NEW slow, Leave(c, slow) \/ \E t \in Sid : Block(c, t, slow)
        PROVE  Shrinks
    BY <2>1 DEF Leave, Block
  <2>2. ASSUME NEW s \in Sid, Renew(s) \/ Expire(s) PROVE Shrinks
    BY <1>1, <2>2 DEF Renew, Expire
  <2> QED
    BY <1>5, <2>1, <2>2 DEF RecordOnly
<1>6. CASE SocketMove
  <2>1. ASSUME NEW c \in Conn, NEW ip \in Ip, Connect(c, ip) PROVE Shrinks
    <3>1. told[c] = {}
      BY <2>1 DEF Connect, Announced
    <3> QED
      BY <2>1, <3>1 DEF Connect, IInv, RegistryTypeOK
  <2>2. ASSUME NEW c \in Conn, NEW s \in Sid, Auth(c, s) PROVE Shrinks
    <3>1. told[c] = {}
      BY <2>2 DEF Auth, Announced
    <3>2. \A d \in Conn : told'[d] = IF d = obj[s].sock THEN {} ELSE told[d]
      BY <2>2 DEF Auth
    <3> QED
      BY <2>2, <3>1, <3>2, AuthFields
  <2>3. ASSUME NEW c \in Conn, ServerCloses(c) \/ \E t \in Sid : SignalOffline(c, t)
        PROVE  Shrinks
    BY <2>3 DEF ServerCloses, SignalOffline, IInv, RegistryTypeOK
  <2>4. ASSUME NEW c \in Conn, SocketClosed(c) PROVE Shrinks
    <3>1. Owners(c) \in SUBSET Sid
      BY DEF Owners
    <3>2. /\ \A d \in Conn \ {c} : told'[d] = Retracted(Owners(c))[d] /\ conn'[d] = conn[d]
          /\ told'[c] = {}
      BY <2>4, <3>1, TeardownTypes DEF SocketClosed, IInv, RegistryTypeOK
    <3> QED
      BY <3>1, <3>2, RetractedFields
  <2> QED
    BY <1>6, <2>1, <2>2, <2>3, <2>4 DEF SocketMove
<1>7. \/ UNCHANGED sessionVars
      \/ \E S \in SUBSET live : TerminateAll(S)
      \/ Minting \/ RecordOnly \/ SocketMove
  BY SessionMoves
<1>8. (\E c \in Conn, slow \in SUBSET Slowable : Join(c, slow)) \/ Shrinks
  BY <1>1, <1>3, <1>4, <1>5, <1>6, <1>7 DEF sessionVars
<1> QED
  BY <1>8

\* A join announces the newcomer to the open sockets of the members it is
\* introduced to, and those members to the newcomer.
LEMMA JoinTells ==
    ASSUME IInv, Wiring, NEW c \in Conn, NEW slow, Join(c, slow), NEW d \in Conn
    PROVE  /\ UNCHANGED conn
           /\ \A x \in told'[d] :
                 \/ x \in told[d]
                 \/ /\ x = conn[c].sid /\ conn[d].st = "open"
                    /\ conn[d].sid \in Introduced(conn[c].sid) /\ conn[d].sid # NoSid
                 \/ /\ d = c /\ conn[c].st = "open" /\ conn[c].sid # NoSid
                    /\ x \in Introduced(conn[c].sid)
<1> DEFINE s == conn[c].sid
<1>1. UNCHANGED conn
  BY DEF Join
<1>2. told'[d] = told[d] \cup (IF d \in Hears(slow, Introduced(s)) THEN {s} ELSE {})
                         \cup (IF d = c /\ conn[c].st = "open" /\ c \notin slow
                               THEN Introduced(s) ELSE {})
  BY DEF Join
<1>3. ASSUME d \in Hears(slow, Introduced(s))
      PROVE  conn[d].st = "open" /\ conn[d].sid \in Introduced(s) /\ conn[d].sid # NoSid
  <2>1. PICK p \in Introduced(s) : conn[d].st = "open" /\ obj[p].sock = d
    BY <1>3 DEF Hears, OpenSocks
  <2>2. p \in Sid /\ obj[p] # NoSession
    BY DEF Introduced, IInv, RegistryTypeOK
  <2>3. conn[d].sid = p
    BY <2>1, <2>2, RegistryAssumption DEF Wiring
  <2> QED
    BY <2>1, <2>2, <2>3, RegistryAssumption
<1>4. conn[c].sid # NoSid
  BY DEF Join, Frame
<1> QED
  BY <1>1, <1>2, <1>3, <1>4

LEMMA NextAnnounced == IInv /\ Wiring /\ Announced /\ [Next]_vars => Announced'
<1> SUFFICES ASSUME IInv, Wiring, Announced, [Next]_vars PROVE Announced'
  OBVIOUS
<1>1. ASSUME NEW c \in Conn, NEW slow, Join(c, slow) PROVE Announced'
  <2> SUFFICES ASSUME NEW d \in Conn, told'[d] # {}
               PROVE  conn'[d].st = "open" /\ conn'[d].sid # NoSid
    BY DEF Announced
  <2>1. PICK x \in told'[d] : TRUE
    OBVIOUS
  <2> QED
    BY <1>1, <2>1, JoinTells DEF Announced
<1> QED
  BY <1>1, OnlyJoinTells, ShrinkingAnnounced

\* A socket is not told of a session that has blocked the one behind it.
Unwelcome ==
    \A c \in Conn \ Slowable, s \in live : s \in told[c] => conn[c].sid \notin obj[s].blocked

\* A session blocks somebody only by the Block frame.
LEMMA BlockListKept ==
    ASSUME IInv, [Next]_vars
    PROVE  \/ \E c \in Conn, slow \in SUBSET Slowable, t \in Sid : Block(c, t, slow)
           \/ \A s \in live' : obj'[s].blocked = {} \/ (s \in live /\ obj'[s].blocked = obj[s].blocked)
<1> DEFINE Kept == \A s \in live' :
             obj'[s].blocked = {} \/ (s \in live /\ obj'[s].blocked = obj[s].blocked)
           Blocks == \E c \in Conn, slow \in SUBSET Slowable, t \in Sid : Block(c, t, slow)
<1> SUFFICES Kept \/ Blocks
  OBVIOUS
<1>1. live \subseteq Sid /\ \A s \in live : obj[s] # NoSession
  BY DEF IInv, RegistryTypeOK
<1>2. CASE UNCHANGED <<obj, live>>
  BY <1>2
<1>3. ASSUME NEW S \in SUBSET live, TerminateAll(S) PROVE Kept
  <2>1. S \in SUBSET Sid /\ \A s \in S : obj[s] # NoSession
    BY <1>1
  <2>2. \A s \in Sid \ S : obj'[s] = obj[s]
    BY <1>3, <2>1, DetachedFields DEF TerminateAll
  <2>3. live' = live \ S
    BY <1>3 DEF TerminateAll
  <2> QED
    BY <1>1, <2>2, <2>3
<1>4. CASE Minting
  <2>1. CASE \E r \in Req : RegisterAdmitted(r)
    BY <1>1, <2>1, MintedFields
  <2>2. ASSUME NEW s \in Sid, NEW new \in Sid, NEW ip \in Ip, ReRegister(s, new, ip)
        PROVE  Kept
    <3>1. /\ s \in live /\ live' = (live \ {s}) \cup {new} /\ obj'[new].blocked = {}
          /\ \A t \in Sid \ {s, new} : obj'[t] = obj[t]
      BY <2>2, ReRegisteredFields
    <3> QED
      BY <1>1, <3>1
  <2> QED
    BY <1>4, <2>1, <2>2 DEF Minting
<1>5. ASSUME NEW s \in Sid, Renew(s) \/ Expire(s) PROVE Kept
  <2>1. /\ UNCHANGED live /\ obj'[s].blocked = obj[s].blocked
        /\ \A t \in Sid : t # s => obj'[t] = obj[t]
    BY <1>5, RenewedFields, ExpiredFields DEF Expire
  <2> QED
    BY <1>1, <2>1
<1>6. ASSUME NEW c \in Conn, NEW slow, Join(c, slow) \/ Leave(c, slow) PROVE Kept
  <2>1. /\ UNCHANGED live
        /\ \A t \in Sid : obj'[t].blocked = obj[t].blocked
    BY <1>6, JoinFields, LeaveFields DEF Join, Leave
  <2> QED
    BY <1>1, <2>1
<1>7. ASSUME NEW c \in Conn, NEW s \in Sid, Auth(c, s) PROVE Kept
  <2>1. UNCHANGED live
    BY <1>7 DEF Auth
  <2> QED
    BY <1>1, <1>7, <2>1, AuthFields
<1>8. ASSUME NEW c \in Conn, SocketClosed(c) PROVE Kept
  <2>1. Owners(c) \in SUBSET Sid /\ \A s \in Owners(c) : obj[s] # NoSession
    BY RegistryAssumption DEF Owners, IInv, References
  <2>2. \A s \in Sid : obj[s] # NoSession => obj'[s].blocked = obj[s].blocked
    BY <1>8, <2>1, DetachedFields DEF SocketClosed
  <2>3. UNCHANGED live
    BY <1>8 DEF SocketClosed
  <2> QED
    BY <1>1, <2>2, <2>3
<1>9. ASSUME NEW c \in Conn, \/ (\E ip \in Ip : Connect(c, ip)) \/ ServerCloses(c)
                             \/ \E t \in Sid : SignalOffline(c, t)
      PROVE  Kept
  BY <1>2, <1>9 DEF Connect, ServerCloses, SignalOffline
<1>10. \/ UNCHANGED sessionVars
       \/ \E S \in SUBSET live : TerminateAll(S)
       \/ Minting \/ RecordOnly \/ SocketMove
  BY SessionMoves
<1>11. CASE RecordOnly
  BY <1>5, <1>6, <1>11 DEF RecordOnly
<1>12. CASE SocketMove
  BY <1>7, <1>8, <1>9, <1>12 DEF SocketMove
<1>13. CASE UNCHANGED sessionVars
  BY <1>2, <1>13 DEF sessionVars
<1> HIDE DEF Kept, Blocks
<1> QED
  BY <1>3, <1>4, <1>10, <1>11, <1>12, <1>13

LEMMA NextUnwelcome ==
    IInv /\ Wiring /\ Announced /\ Unwelcome /\ [Next]_vars => Unwelcome'
<1> SUFFICES ASSUME IInv, Wiring, Announced, Unwelcome, [Next]_vars PROVE Unwelcome'
  OBVIOUS
<1>1. live \subseteq Sid /\ \A s \in live : obj[s] # NoSession
  BY DEF IInv, RegistryTypeOK
<1>2. ASSUME NEW c \in Conn, NEW slow, Join(c, slow) PROVE Unwelcome'
  <2>1. UNCHANGED <<live, conn>> /\ \A t \in Sid : obj'[t].blocked = obj[t].blocked
    BY <1>2, JoinFields DEF Join
  <2> SUFFICES ASSUME NEW d \in Conn \ Slowable, NEW x \in live, x \in told'[d]
               PROVE  conn[d].sid \notin obj[x].blocked
    BY <1>1, <2>1 DEF Unwelcome
  <2>2. CASE x \in told[d]
    BY <2>2 DEF Unwelcome
  <2>3. CASE x = conn[c].sid /\ conn[d].sid \in Introduced(conn[c].sid)
    BY <2>3 DEF Introduced
  <2>4. CASE d = c /\ x \in Introduced(conn[c].sid)
    BY <2>4 DEF Introduced
  <2>5. \/ x \in told[d]
        \/ x = conn[c].sid /\ conn[d].sid \in Introduced(conn[c].sid)
        \/ d = c /\ x \in Introduced(conn[c].sid)
    <3>1. d \in Conn
      OBVIOUS
    <3>2. \A y \in told'[d] :
             \/ y \in told[d]
             \/ /\ y = conn[c].sid /\ conn[d].st = "open"
                /\ conn[d].sid \in Introduced(conn[c].sid) /\ conn[d].sid # NoSid
             \/ /\ d = c /\ conn[c].st = "open" /\ conn[c].sid # NoSid
                /\ y \in Introduced(conn[c].sid)
      BY <1>2, <3>1, JoinTells
    <3> QED
      BY <3>2
  <2> QED
    BY <2>2, <2>3, <2>4, <2>5
<1>3. ASSUME NEW c \in Conn, NEW slow \in SUBSET Slowable, NEW t \in Sid, Block(c, t, slow)
      PROVE  Unwelcome'
  <2> DEFINE s == conn[c].sid
  <2>1. /\ UNCHANGED <<live, conn>> /\ obj'[s].blocked = obj[s].blocked \cup {t}
        /\ \A u \in Sid : u # s => obj'[u] = obj[u]
    <3>1. UNCHANGED <<live, conn>>
      BY <1>3 DEF Block
    <3> QED
      BY <1>3, <3>1, BlockFields
  <2>2. \A d \in Conn : told'[d] = IF d \in Hears(slow, {t} \cap live) THEN told[d] \ {s} ELSE told[d]
    BY <1>3 DEF Block
  <2> SUFFICES ASSUME NEW d \in Conn \ Slowable, NEW x \in live, x \in told'[d]
               PROVE  conn[d].sid \notin obj'[x].blocked
    BY <2>1 DEF Unwelcome
  <2>3. x \in told[d] /\ conn[d].sid \notin obj[x].blocked
    BY <2>2 DEF Unwelcome
  <2>4. CASE x # s
    BY <1>1, <2>1, <2>3, <2>4
  <2>5. CASE x = s
    <3>1. conn[d].sid # t
      <4> SUFFICES ASSUME conn[d].sid = t PROVE FALSE
        OBVIOUS
      <4>1. conn[d].st = "open" /\ t \in live /\ obj[t].sock = d
        BY <2>3, Listener
      <4>2. d \in Hears(slow, {t} \cap live)
        BY <4>1 DEF Hears, OpenSocks
      <4> QED
        BY <2>2, <2>5, <4>2
    <3> QED
      BY <2>1, <2>3, <2>5, <3>1
  <2> QED
    BY <2>4, <2>5
<1>4. ASSUME \A c \in Conn : /\ told'[c] \subseteq told[c]
                             /\ told'[c] # {} => conn'[c].sid = conn[c].sid,
             \A s \in live' : obj'[s].blocked = {} \/ (s \in live /\ obj'[s].blocked = obj[s].blocked)
      PROVE  Unwelcome'
  BY <1>4 DEF Unwelcome
<1>5. \/ \E c \in Conn, slow \in SUBSET Slowable : Join(c, slow)
      \/ \A c \in Conn : /\ told'[c] \subseteq told[c]
                         /\ told'[c] # {} => conn'[c].sid = conn[c].sid
  BY OnlyJoinTells
<1> QED
  BY <1>2, <1>3, <1>4, <1>5, BlockListKept

\* A device that was blocked is not told of the one that blocked it, in
\* whatever order the two join, block, leave, reconnect and come back, as long
\* as no frame is dropped for back-pressure.
THEOREM BlockedStaysUntold == Slowable = {} /\ Spec => []BlockedNotTold
<1> SUFFICES ASSUME Slowable = {} PROVE Spec => []BlockedNotTold
  OBVIOUS
<1>1. Init => IInv /\ Wiring /\ Announced /\ Unwelcome
  BY InitIInv, InitWiring DEF Init, Announced, Unwelcome
<1>2. /\ IInv /\ Wiring /\ Announced /\ Unwelcome /\ [Next]_vars
      => IInv' /\ Wiring' /\ Announced' /\ Unwelcome'
  BY NextIInv, NextWiring, NextAnnounced, NextUnwelcome
<1>3. IInv /\ Wiring /\ Unwelcome => BlockedNotTold
  <2> SUFFICES ASSUME IInv, Wiring, Unwelcome, NEW s \in live, NEW t \in live,
                      t \in obj[s].blocked, obj[t].sock # NoConn
               PROVE  s \notin told[obj[t].sock]
    BY DEF BlockedNotTold
  <2>1. obj[t].sock \in Conn /\ conn[obj[t].sock].sid = t
    BY DEF Wiring, Session, IInv, RegistryTypeOK
  <2> QED
    BY <2>1 DEF Unwelcome
<1> QED
  BY <1>1, <1>2, <1>3, PTL DEF Spec

----------------------------------------------------------------------------
(* Ghost peers.                                                            *)

\* A member that was told of somebody has joined, and was told only of
\* members of its own cluster.
Heard ==
    \A c \in Conn \ Slowable : told[c] # {} =>
       obj[conn[c].sid].joined /\ told[c] \subseteq channels[Cluster(conn[c].sid)]

\* Nobody leaves a channel, and nobody's membership changes.
LEMMA KeptHeard ==
    ASSUME IInv, Wiring, Announced, Heard, UNCHANGED channels,
           \A s \in live : /\ obj'[s].joined = obj[s].joined
                           /\ obj'[s].node = obj[s].node /\ obj'[s].pass = obj[s].pass,
           \A c \in Conn : /\ told'[c] \subseteq told[c]
                           /\ told'[c] # {} => conn'[c].sid = conn[c].sid
    PROVE  Heard'
<1> SUFFICES ASSUME NEW c \in Conn \ Slowable, told'[c] # {}
             PROVE  obj'[conn'[c].sid].joined /\ told'[c] \subseteq channels'[Cluster(conn[c].sid)']
  BY DEF Heard, Cluster
<1>1. told[c] # {} /\ told'[c] \subseteq told[c] /\ conn'[c].sid = conn[c].sid
  OBVIOUS
<1>2. conn[c].sid \in live
  BY <1>1, Listener
<1>3. Cluster(conn[c].sid)' = Cluster(conn[c].sid)
  BY <1>1, <1>2 DEF Cluster
<1> QED
  BY <1>1, <1>2, <1>3 DEF Heard

\* The sessions of S depart: the members of their channels are told.
LEMMA DepartureHeard ==
    ASSUME IInv, Wiring, Membership, Announced, Heard, NEW S \in SUBSET Sid,
           \A s \in live \ S : obj'[s] = obj[s],
           channels' = Vacated(S),
           \A c \in Conn : told'[c] # {} => /\ told'[c] = Retracted(S)[c]
                                            /\ conn'[c].sid = conn[c].sid
    PROVE  Heard'
<1> SUFFICES ASSUME NEW c \in Conn \ Slowable, told'[c] # {}
             PROVE  obj'[conn'[c].sid].joined /\ told'[c] \subseteq channels'[Cluster(conn[c].sid)']
  BY DEF Heard, Cluster
<1> DEFINE m == conn[c].sid
<1>1. told'[c] = Retracted(S)[c] /\ conn'[c].sid = m
  OBVIOUS
<1>2. /\ c \notin OpenSocks(S)
      /\ told'[c] = told[c] \ {s \in S : obj[s].joined /\ c \in OpenSocks(live \cap channels[Cluster(s)])}
  BY <1>1 DEF Retracted
<1>3. told[c] # {}
  BY <1>2
<1>4. conn[c].st = "open" /\ m \in live /\ m \in Sid /\ obj[m].sock = c
  BY <1>3, Listener
<1>5. m \notin S
  BY <1>2, <1>4 DEF OpenSocks
<1>6. obj'[m] = obj[m] /\ obj[m].joined /\ told[c] \subseteq channels[Cluster(m)]
  BY <1>3, <1>4, <1>5 DEF Heard
<1> HIDE DEF m
<1>7. Cluster(m) \in Node \X Pass
  BY <1>4 DEF Cluster, Session, IInv, RegistryTypeOK
<1>8. m \in channels[Cluster(m)]
  BY <1>4, <1>6, <1>7 DEF Membership
<1>9. c \in OpenSocks(live \cap channels[Cluster(m)])
  BY <1>4, <1>8 DEF OpenSocks
<1>10. channels'[Cluster(m)] = channels[Cluster(m)] \ {s \in S : obj[s].joined /\ Cluster(s) = Cluster(m)}
  BY <1>7 DEF Vacated
<1>11. told'[c] \subseteq channels'[Cluster(m)]
  BY <1>2, <1>6, <1>9, <1>10
<1>12. <<obj'[m].node, obj'[m].pass>> = Cluster(m)
  BY <1>6 DEF Cluster
<1> QED
  BY <1>1, <1>6, <1>11, <1>12 DEF Cluster, m

LEMMA JoinHeard ==
    ASSUME IInv, Wiring, Membership, Announced, Heard, NEW c \in Conn, NEW slow, Join(c, slow)
    PROVE  Heard'
<1> DEFINE s == conn[c].sid
<1>1. /\ s \in Sid /\ obj[s] \in Session /\ ~obj[s].joined
      /\ \A t \in Sid : RecordKept(t) /\ (t # s => obj'[t] = obj[t])
      /\ obj'[s].joined /\ UNCHANGED conn
  BY JoinFields, Speaker DEF Join
<1>2. Cluster(s) \in Node \X Pass
  BY <1>1 DEF Cluster, Session
<1>3. \A k \in Node \X Pass :
        channels'[k] = IF k = Cluster(s) THEN channels[k] \cup {s} ELSE channels[k]
  BY <1>2 DEF Join, IInv, RegistryTypeOK
<1>4. Introduced(s) \subseteq channels[Cluster(s)] /\ Introduced(s) \subseteq live
  BY DEF Introduced
<1> SUFFICES ASSUME NEW d \in Conn \ Slowable, told'[d] # {}
             PROVE  obj'[conn'[d].sid].joined /\ told'[d] \subseteq channels'[Cluster(conn[d].sid)']
  BY DEF Heard, Cluster
<1> DEFINE m == conn[d].sid
<1>5. \A x \in told'[d] :
         \/ x \in told[d]
         \/ x = s /\ m \in Introduced(s)
         \/ d = c /\ x \in Introduced(s)
  <2>1. d \in Conn
    OBVIOUS
  <2>2. \A x \in told'[d] :
           \/ x \in told[d]
           \/ /\ x = conn[c].sid /\ conn[d].st = "open"
              /\ conn[d].sid \in Introduced(conn[c].sid) /\ conn[d].sid # NoSid
           \/ /\ d = c /\ conn[c].st = "open" /\ conn[c].sid # NoSid
              /\ x \in Introduced(conn[c].sid)
    BY <2>1, JoinTells
  <2> QED
    BY <2>2
<1>6. conn'[d].sid = m
  BY <1>1
<1>7. told[d] # {} => m \in live /\ obj[m].joined /\ told[d] \subseteq channels[Cluster(m)]
  BY Listener DEF Heard
<1> HIDE DEF s
<1>8. s = conn[c].sid
  BY DEF s
<1>9. \A p \in Introduced(s) : obj[p].joined /\ Cluster(p) = Cluster(s)
  BY <1>2, <1>4 DEF Membership
<1>10. d = c => m = s /\ told[d] = {}
  BY <1>1, <1>7, <1>8
<1> HIDE DEF m
<1>11. /\ m \in Sid /\ obj[m] # NoSession
       /\ obj'[m].joined
       /\ told'[d] \subseteq channels[Cluster(m)] \cup (IF Cluster(m) = Cluster(s) THEN {s} ELSE {})
  <2>1. CASE d = c
    <3>1. \A x \in told'[d] : x \in Introduced(s) \/ x = s
      BY <1>5, <1>10, <2>1
    <3> QED
      BY <1>1, <1>4, <1>8, <1>10, <2>1, <3>1, Speaker DEF Join
  <2>2. CASE d # c
    <3>1. m \in live /\ obj[m].joined
      BY <1>4, <1>5, <1>7, <1>9, <2>2
    <3>2. m \in Sid /\ obj[m] # NoSession /\ obj'[m].joined
      BY <1>1, <3>1 DEF IInv, RegistryTypeOK
    <3>3. told'[d] \subseteq channels[Cluster(m)] \cup (IF Cluster(m) = Cluster(s) THEN {s} ELSE {})
      BY <1>5, <1>7, <1>9, <2>2
    <3> QED
      BY <3>2, <3>3
  <2> QED
    BY <2>1, <2>2
<1>12. <<obj'[m].node, obj'[m].pass>> = Cluster(m) /\ Cluster(m) \in Node \X Pass
  BY <1>1, <1>11 DEF Cluster, RecordKept, Session, IInv, RegistryTypeOK
<1>13. told'[d] \subseteq channels'[Cluster(m)]
  BY <1>3, <1>11, <1>12
<1> QED
  BY <1>6, <1>11, <1>12, <1>13 DEF Cluster, m

LEMMA LeaveHeard ==
    ASSUME IInv, Wiring, Membership, Announced, Heard, ~LateFrames,
           NEW c \in Conn, NEW slow \in SUBSET Slowable, Leave(c, slow)
    PROVE  Heard'
<1> DEFINE s == conn[c].sid
           others == (live \cap channels[Cluster(s)]) \ {s}
<1>1. /\ s \in Sid /\ obj[s] \in Session /\ UNCHANGED conn
      /\ \A t \in Sid : t # s => obj'[t] = obj[t]
  BY LeaveFields, Speaker DEF Leave
<1>2. s \in live /\ obj[s].sock = c
  BY SpeakerHasSocket DEF Leave
<1>3. Cluster(s) \in Node \X Pass
  BY <1>1 DEF Cluster, Session
<1>4. \A k \in Node \X Pass :
        channels'[k] = IF k = Cluster(s) THEN channels[k] \ {s} ELSE channels[k]
  BY <1>3 DEF Leave, IInv, RegistryTypeOK
<1>5. \A d \in Conn : told'[d] = IF d \in Hears(slow, others) THEN told[d] \ {s}
                                 ELSE IF d = c THEN {} ELSE told[d]
  BY DEF Leave
<1> SUFFICES ASSUME NEW d \in Conn \ Slowable, told'[d] # {}
             PROVE  obj'[conn'[d].sid].joined /\ told'[d] \subseteq channels'[Cluster(conn[d].sid)']
  BY DEF Heard, Cluster
<1> DEFINE m == conn[d].sid
<1>6. told[d] # {}
  BY <1>5
<1>7. /\ conn[d].st = "open" /\ m \in live /\ m \in Sid /\ obj[m].sock = d
      /\ obj[m].joined /\ told[d] \subseteq channels[Cluster(m)]
  BY <1>6, Listener DEF Heard
<1> HIDE DEF s, others
<1>8. others = (live \cap channels[Cluster(s)]) \ {s}
  BY DEF others
<1>9. d # c
  <2> SUFFICES ASSUME d = c PROVE FALSE
    OBVIOUS
  <2>1. d \in Hears(slow, others)
    BY <1>5
  <2>2. PICK p \in others : obj[p].sock = c
    BY <2>1 DEF Hears, OpenSocks
  <2>3. p \in live /\ p # s /\ p \in Sid /\ obj[p] # NoSession
    BY <1>8, <2>2 DEF IInv, RegistryTypeOK
  <2> QED
    BY <1>1, <1>2, <2>2, <2>3, Unshared, RegistryAssumption DEF IInv, RegistryTypeOK
<1> HIDE DEF m
<1>10. m = conn[d].sid
  BY DEF m
<1>11. m # s /\ obj'[m] = obj[m]
  BY <1>1, <1>2, <1>7, <1>9
<1>12. Cluster(m) \in Node \X Pass
  BY <1>7 DEF Cluster, Session, IInv, RegistryTypeOK
<1>13. told'[d] \subseteq channels'[Cluster(m)]
  <2>1. CASE Cluster(m) # Cluster(s)
    BY <1>4, <1>5, <1>7, <1>9, <1>12, <2>1
  <2>2. CASE Cluster(m) = Cluster(s)
    <3>1. m \in others
      BY <1>7, <1>8, <1>11, <1>12, <2>2 DEF Membership
    <3>2. d \in Hears(slow, others)
      BY <1>7, <3>1 DEF Hears, OpenSocks
    <3> QED
      BY <1>3, <1>4, <1>5, <1>7, <2>2, <3>2
  <2> QED
    BY <2>1, <2>2
<1>14. <<obj'[m].node, obj'[m].pass>> = Cluster(m)
  BY <1>11 DEF Cluster
<1> QED
  BY <1>1, <1>7, <1>10, <1>11, <1>13, <1>14 DEF Cluster

LEMMA NextHeard ==
    ASSUME IInv, Wiring, Membership, Announced, Heard, ~LateFrames, [Next]_vars
    PROVE  Heard'
<1>1. live \subseteq Sid /\ \A s \in live : obj[s] # NoSession
  BY DEF IInv, RegistryTypeOK
<1>2. CASE UNCHANGED sessionVars
  BY <1>2, KeptHeard DEF sessionVars
<1>3. ASSUME NEW S \in SUBSET live, TerminateAll(S) PROVE Heard'
  <2>1. S \in SUBSET Sid /\ \A s \in live \ S : obj'[s] = obj[s]
    BY <1>1, <1>3, DetachedFields DEF TerminateAll
  <2>2. \A c \in Conn : conn'[c].sid = conn[c].sid
    BY <1>1, <1>3, HungUpFields DEF TerminateAll
  <2> QED
    BY <1>3, <2>1, <2>2, DepartureHeard DEF TerminateAll
<1>4. CASE \E r \in Req : RegisterAdmitted(r)
  <2>1. UNCHANGED <<channels, conn, told>> /\ \A s \in live : obj'[s] = obj[s]
    BY <1>1, <1>4, MintedFields
  <2> QED
    BY <2>1, KeptHeard
<1>5. ASSUME NEW s \in Sid, NEW new \in Sid, NEW ip \in Ip, ReRegister(s, new, ip)
      PROVE  Heard'
  <2>1. /\ {s} \in SUBSET Sid /\ \A t \in live \ {s} : obj'[t] = obj[t]
        /\ channels' = Vacated({s}) /\ told' = Retracted({s})
    BY <1>1, <1>5, ReRegisteredFields
  <2>2. \A c \in Conn : conn'[c].sid = conn[c].sid
    BY <1>5, <2>1, HungUpFields DEF ReRegister
  <2> QED
    BY <2>1, <2>2, DepartureHeard
<1>6. ASSUME NEW s \in Sid, Renew(s) \/ Expire(s) PROVE Heard'
  <2>1. /\ UNCHANGED <<channels, conn, told>>
        /\ \A t \in Sid : RecordKept(t) /\ obj'[t].joined = obj[t].joined
    BY <1>6, RenewedFields, ExpiredFields
  <2> QED
    BY <1>1, <2>1, KeptHeard DEF RecordKept
<1>7. ASSUME NEW c \in Conn, NEW slow, NEW t \in Sid, Block(c, t, slow) PROVE Heard'
  <2>1. \A u \in Sid : RecordKept(u) /\ obj'[u].joined = obj[u].joined
    BY <1>7, BlockFields
  <2>2. UNCHANGED <<channels, conn>> /\ \A d \in Conn : told'[d] \subseteq told[d]
    BY <1>7 DEF Block
  <2> QED
    BY <1>1, <2>1, <2>2, KeptHeard DEF RecordKept
<1>8. ASSUME NEW c \in Conn, NEW s \in Sid, Auth(c, s) PROVE Heard'
  <2>1. \A t \in live : /\ obj'[t].joined = obj[t].joined
                        /\ obj'[t].node = obj[t].node /\ obj'[t].pass = obj[t].pass
    BY <1>1, <1>8, AuthFields
  <2>2. told[c] = {}
    BY <1>8 DEF Auth, Announced
  <2>3. \A d \in Conn : told'[d] = IF d = obj[s].sock THEN {} ELSE told[d]
    BY <1>8 DEF Auth
  <2>4. \A d \in Conn : told'[d] # {} => conn'[d].sid = conn[d].sid
    BY <1>8, <2>2, <2>3, AuthFields
  <2>5. UNCHANGED channels
    BY <1>8 DEF Auth
  <2> QED
    BY <2>1, <2>3, <2>4, <2>5, KeptHeard
<1>9. ASSUME NEW c \in Conn, SocketClosed(c) PROVE Heard'
  <2>1. Owners(c) \in SUBSET Sid /\ \A s \in Owners(c) : obj[s] # NoSession
    BY RegistryAssumption DEF Owners, IInv, References
  <2>2. \A s \in live \ Owners(c) : obj'[s] = obj[s]
    BY <1>1, <1>9, <2>1, DetachedFields DEF SocketClosed
  <2>3. /\ \A d \in Conn \ {c} : told'[d] = Retracted(Owners(c))[d] /\ conn'[d] = conn[d]
        /\ told'[c] = {}
    BY <1>9, <2>1, TeardownTypes DEF SocketClosed, IInv, RegistryTypeOK
  <2>4. channels' = Vacated(Owners(c))
    BY <1>9 DEF SocketClosed
  <2> QED
    BY <2>1, <2>2, <2>3, <2>4, DepartureHeard
<1>10. ASSUME NEW c \in Conn, \/ (\E ip \in Ip : Connect(c, ip)) \/ ServerCloses(c)
                              \/ \E t \in Sid : SignalOffline(c, t)
       PROVE  Heard'
  <2>1. UNCHANGED <<obj, channels>>
    BY <1>10 DEF Connect, ServerCloses, SignalOffline
  <2>2. \A d \in Conn : /\ told'[d] \subseteq told[d]
                        /\ told'[d] # {} => conn'[d].sid = conn[d].sid
    <3>1. CASE \E ip \in Ip : Connect(c, ip)
      <4>1. told[c] = {}
        BY <3>1 DEF Connect, Announced
      <4> QED
        BY <3>1, <4>1 DEF Connect, IInv, RegistryTypeOK
    <3>2. CASE ServerCloses(c)
      BY <3>2 DEF ServerCloses, IInv, RegistryTypeOK
    <3>3. CASE \E t \in Sid : SignalOffline(c, t)
      BY <3>3 DEF SignalOffline, IInv, RegistryTypeOK
    <3> QED
      BY <1>10, <3>1, <3>2, <3>3
  <2> QED
    BY <2>1, <2>2, KeptHeard
<1>11. CASE Minting
  BY <1>4, <1>5, <1>11 DEF Minting
<1>12. CASE RecordOnly
  BY <1>6, <1>7, <1>12, JoinHeard, LeaveHeard DEF RecordOnly
<1>13. CASE SocketMove
  BY <1>8, <1>9, <1>10, <1>13 DEF SocketMove
<1> QED
  BY <1>2, <1>3, <1>11, <1>12, <1>13, SessionMoves

NoGhostOn(C) ==
    \A c \in C : told[c] # {} => told[c] \subseteq channels[Cluster(conn[c].sid)] \cap live

\* A socket whose frames are not dropped never lists a peer that has left its
\* cluster, whichever way the peer goes (leave, close, supersession, release,
\* expiry, sweep or re-register) and however slow the other sockets are.
THEOREM PromptSocketsSeeNoGhosts == ~LateFrames /\ Spec => []NoGhostOn(Conn \ Slowable)
<1> SUFFICES ASSUME ~LateFrames PROVE Spec => []NoGhostOn(Conn \ Slowable)
  OBVIOUS
<1> DEFINE Inv == IInv /\ Wiring /\ Membership /\ Announced /\ Heard
<1>1. Init => Inv
  BY InitIInv, InitWiring, InitMembership DEF Init, Announced, Heard
<1>2. Inv /\ [Next]_vars => Inv'
  BY NextIInv, NextWiring, NextMembership, NextAnnounced, NextHeard
<1>3. Inv => NoGhostOn(Conn \ Slowable)
  <2> SUFFICES ASSUME Inv, NEW c \in Conn \ Slowable, told[c] # {}
               PROVE  told[c] \subseteq channels[Cluster(conn[c].sid)] \cap live
    BY DEF NoGhostOn
  <2>1. conn[c].sid \in live /\ told[c] \subseteq channels[Cluster(conn[c].sid)]
    BY Listener DEF Heard
  <2>2. Cluster(conn[c].sid) \in Node \X Pass
    BY <2>1 DEF Cluster, Session, IInv, RegistryTypeOK
  <2> QED
    BY <2>1, <2>2 DEF Membership
<1> QED
  BY <1>1, <1>2, <1>3, PTL DEF Spec

\* Hence no connected client lists a ghost, under what the code relies on: no
\* frame after close(), and no announcement dropped for back-pressure.
THEOREM GhostsRetracted == ~LateFrames /\ Slowable = {} /\ Spec => []NoGhostPeers
<1> SUFFICES ASSUME ~LateFrames, Slowable = {} PROVE Spec => []NoGhostPeers
  OBVIOUS
<1>1. NoGhostOn(Conn \ Slowable) => NoGhostPeers
  BY DEF NoGhostOn, NoGhostPeers
<1> QED
  BY <1>1, PromptSocketsSeeNoGhosts, PTL
=============================================================================
