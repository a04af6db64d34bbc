-------------------------------- MODULE Turn --------------------------------
(***************************************************************************)
(* The TURN service of the signaling server: issuing credentials of an     *)
(* external provider to sessions, accounting for them, cutting off and     *)
(* banning abusers, and the kill switch of the monthly volume.  Volumes    *)
(* are counted in units of one credential's pessimistic estimate.  Every   *)
(* await (provider calls, flushes) separates two actions.  Bans and the    *)
(* hour over which issues and bytes are counted outlast a behaviour.       *)
(***************************************************************************)
EXTENDS Persist, Functions

CONSTANTS
    Cid,         \* sessions (customIdentifier)
    NoCid,
    Principal,   \* identities: what outlives a session
    PrincipalOf, \* the identity of a session
    Ip,
    IpOf,        \* the address of a session
    MaxRid,      \* bound: reservations
    Limit,       \* the monthly volume at which the kill switch trips
    MaxIssue,    \* TURN_MAX_ISSUE_PER_HOUR_PER_IP
    IpBytes,     \* TURN_MAX_BYTES_PER_HOUR_PER_IP
    Cap,         \* TURN_MAX_BYTES_PER_SESSION
    Strikes      \* TURN_IP_BAN_STRIKES

Rid == 1 .. MaxRid
Revoker == {"abuse", "retry", "sweep"}

ASSUME OwnerAssumption ==
    NoCid \notin Cid /\ PrincipalOf \in [Cid -> Principal] /\ IpOf \in [Cid -> Ip]
ASSUME LimitAssumption == {MaxRid, Limit, MaxIssue, IpBytes, Cap, Strikes} \subseteq Nat \ {0}
ASSUME CallerAssumption == Caller = {"abuse", "sweep", "lock", "stop"}
ASSUME FiniteAssumption == IsFiniteSet(Cid)

VARIABLES
    cred, \* sessions, credentials cached, issues under way, credentials that clients hold
          \* (history: lost, those of them that a crash made the server forget)
    work, \* per revoker: what it is doing, to which session, and what is left to do
    poll, \* the usage polls: the last generation, the polls under way, the rows of the abuse poll
    cf,   \* the provider: what it honours, what was relayed, whom it cut off for whom
    srv   \* the process, the month, the kill-switch policy, whether a lock was announced

vars == <<persistVars, cred, work, poll, cf, srv>>

(***************************************************************************)
(* The books (TurnState).                                                  *)
(***************************************************************************)

NoEntry == [rid |-> 0, age |-> "fresh", bytes |-> 0, actual |-> 0, settled |-> FALSE, pending |-> FALSE]
Entry(r) == [NoEntry EXCEPT !.rid = r, !.bytes = 1]

EmptyBooks(month) ==
    [active |-> [c \in Cid |-> NoEntry], issues |-> {}, ledger |-> {},
     deny |-> {}, pess |-> 0, cf |-> 0, kill |-> FALSE, month |-> month]

\* A denial names what is denied and the address of the event.
Denial == ({"ip"} \X Ip \X Ip) \cup ({"principal"} \X Principal \X Ip) \cup ({"cid"} \X Cid \X Ip)

Entries ==
    [rid : Rid \cup {0}, age : {"fresh", "near", "old"}, bytes : Nat, actual : Nat,
     settled : BOOLEAN, pending : BOOLEAN]

Books ==
    [active : [Cid -> Entries],
     issues : SUBSET Rid, ledger : SUBSET (Rid \X Nat), deny : SUBSET Denial,
     pess : Nat, cf : Nat, kill : BOOLEAN, month : Nat]

\* What cannot be read is neither of the two snapshots.
ASSUME TornAssumption == Torn \notin Books /\ Torn \notin BOOLEAN

Active(b) == {c \in Cid : b.active[c].rid # 0}
Volume(b) == [c \in Cid |-> b.active[c].bytes]
Total(b) == SumFunctionOnSet(Volume(b), Active(b))
Larger(x, y) == IF x >= y THEN x ELSE y

\* bytesObserved
Observed(b) == Larger(b.cf, b.pess)

\* rollMonthIfNeeded
Rolled(b) ==
    IF b.month = srv.month THEN b
    ELSE [b EXCEPT !.pess = 0, !.cf = 0, !.kill = FALSE, !.month = srv.month]

\* settleCredentialUsage: the confirmed bytes enter the hourly ledger of the address.
Settled(b, S) ==
    LET due == {c \in S \cap Active(b) : ~b.active[c].settled}
    IN  [b EXCEPT
            !.ledger = @ \cup {<<b.active[c].rid, b.active[c].actual>> :
                                   c \in {d \in due : b.active[d].actual > 0}},
            !.active = [c \in Cid |-> IF c \in due THEN [@[c] EXCEPT !.settled = TRUE] ELSE @[c]]]

Dropped(b, S) == [b EXCEPT !.active = [c \in Cid |-> IF c \in S THEN NoEntry ELSE @[c]]]

\* pruneActiveCredentials
Expired_Near(b) == {c \in Active(b) : b.active[c].age # "fresh"}
Expired(b) == {c \in Active(b) : b.active[c].age = "old"}
Pruned(b) == Dropped(Settled(b, Expired(b)), Expired(b))
Uncached(m, S) == [m EXCEPT !.cache = [c \in Cid |-> IF c \in S THEN 0 ELSE @[c]]]

\* sumHourlyBytesForIp
HourlyBytes(b, i) ==
    SumFunctionOnSet(Volume(b), {c \in Active(b) : IpOf[c] = i})
    + SumFunctionOnSet([e \in b.ledger |-> e[2]], {e \in b.ledger : IpOf[cf.owner[e[1]]] = i})

\* recentIssuesForIp
HourlyIssues(b, i) == Cardinality({r \in b.issues : IpOf[cf.owner[r]] = i})

\* isDenied
Denied(b, c) ==
    \E d \in b.deny : <<d[1], d[2]>> \in
        {<<"ip", IpOf[c]>>, <<"principal", PrincipalOf[c]>>, <<"cid", c>>}

WithDeny_Session(b, c) == [b EXCEPT !.deny = @ \cup {<<"cid", c, IpOf[c]>>}]

\* applyDeny: the address itself is denied after enough strikes.
WithDeny(b, c) ==
    LET i == IpOf[c]
        deny == {d \in b.deny : <<d[1], d[2]>> # <<"principal", PrincipalOf[c]>>}
                    \cup {<<"principal", PrincipalOf[c], i>>, <<"cid", c, i>>}
        strikes == Cardinality({d \in deny : d[1] = "principal" /\ d[3] = i})
    IN  [b EXCEPT !.deny = deny \cup (IF strikes >= Strikes THEN {<<"ip", i, i>>} ELSE {})]

(***************************************************************************)
(* Initial state.                                                          *)
(***************************************************************************)

NoIssue == [rid |-> 0, made |-> FALSE]
NoCred(last, dead, held, lost) ==
    [last |-> last, seen |-> {}, dead |-> dead, cache |-> [c \in Cid |-> 0],
     issue |-> [c \in Cid |-> NoIssue], held |-> held, lost |-> lost]
Idle == [at |-> "idle", c |-> NoCid, todo |-> {}, old |-> {}]
NoPoll == [gen |-> 0, polls |-> {}, rows |-> [c \in Cid |-> 0]]

Init ==
    /\ books = EmptyBooks(0) /\ locks = FALSE
    /\ file = [f \in File |-> Clean] /\ sec = [w \in Caller |-> Off]
    /\ disk = [turn |-> EmptyBooks(0), locks |-> FALSE]
    /\ cred = NoCred(0, {}, {}, {}) /\ work = [a \in Revoker |-> Idle] /\ poll = NoPoll
    /\ cf = [live |-> {}, owner |-> [r \in Rid |-> NoCid], usage |-> [c \in Cid |-> 0],
             total |-> 0, struck |-> {}]
    /\ srv \in [at : {"up"}, month : {0}, policy : BOOLEAN, told : {FALSE}]
    /\ spent = [k \in Disturbance |-> IF k = "sweep" /\ srv.policy THEN 1 ELSE 0]
    /\ \E b \in Bounds : b["sweep"] >= spent["sweep"]

(***************************************************************************)
(* The kill switch.                                                        *)
(***************************************************************************)

\* The server's state that one synchronous stretch of code may change.
Now == [b |-> books, fs |-> file, sec |-> sec, work |-> work]
Becomes(x) == books' = x.b /\ file' = Started(x.fs, x.b, locks) /\ sec' = x.sec /\ work' = x.work

Changed(x, b) == [x EXCEPT !.b = b, !.fs = IF b = x.b THEN @ ELSE MarkDirty(@)]

\* flushSecurityState on behalf of a revoker, which awaits it.
Flushing(x, who, at) ==
    LET s == Security(x.fs, x.sec, who)
    IN  [x EXCEPT !.fs = s.file, !.sec = s.sec, !.work[who].at = at]

Evaluated_Past(x) == IF Observed(x.b) = Limit THEN x ELSE Changed(x, [x.b EXCEPT !.kill = @ \/ Observed(x.b) > Limit])

\* Entries that a revoke, or its retry, has to delete.
DueForRevoke(b, S) ==
    [b EXCEPT !.active = [c \in Cid |-> IF c \in S THEN [@[c] EXCEPT !.pending = TRUE] ELSE @[c]]]

\* evaluateGlobalKillSwitch, and revokeAllActive up to its first await.
\* Bound: one sweep at a time.
Evaluated(x) ==
    IF x.b.kill \/ Observed(x.b) < Limit THEN x
    ELSE IF ~srv.policy THEN Changed(x, [x.b EXCEPT !.kill = TRUE])
    ELSE LET all == Active(x.b)
             b == DueForRevoke(Settled([x.b EXCEPT !.kill = TRUE], all), all)
         IN  Flushing([Changed(x, b) EXCEPT !.work["sweep"].todo = all], "sweep", "flush")

SweepFree == work["sweep"].at = "idle"

(***************************************************************************)
(* Issuing (issueCredentials).                                             *)
(***************************************************************************)

Reusable(b, c) ==
    cred.cache[c] # 0 /\ b.active[c].rid = cred.cache[c] /\ b.active[c].age = "fresh"

\* A fresh credential is issued to a session that is neither refused nor served by the
\* issue under way or the cached credential.
Fresh(b, c) ==
    /\ ~b.kill /\ ~Denied(b, c)
    /\ cred.issue[c].rid = 0 /\ ~Reusable(b, c)
    /\ HourlyIssues(b, IpOf[c]) < MaxIssue /\ HourlyBytes(b, IpOf[c]) < IpBytes

Asks(c) ==
    /\ srv.at = "up" /\ file["turn"].load = "ok" /\ c \notin cred.dead
    /\ Spend("issue")

\* Refused, joined or answered from the cache: only expired entries are settled and dropped.
IssueOld(c) ==
    LET b == Pruned(Rolled(books))
    IN  /\ Asks(c) /\ ~Fresh(b, c)
        /\ Becomes(Changed(Now, b))
        /\ cred' = [Uncached(cred, Expired(books) \cup IF Reusable(b, c) THEN {} ELSE {c})
                        EXCEPT !.seen = @ \cup {c}]
        /\ UNCHANGED <<locks, disk, poll, cf, srv>>

\* issueFreshCredentials up to the provider call: the reservation precedes the await.
IssueFresh(c) ==
    LET b == Pruned(Rolled(books))
        r == cred.last + 1
    IN  /\ Asks(c) /\ Fresh(b, c) /\ r \in Rid /\ SweepFree
        /\ Becomes(Evaluated(Changed(Now,
               [b EXCEPT !.active[c] = Entry(r), !.issues = @ \cup {r}, !.pess = @ + 1])))
        /\ cred' = [Uncached(cred, Expired(books) \cup {c}) EXCEPT
                        !.last = r, !.seen = @ \cup {c}, !.issue[c] = [rid |-> r, made |-> FALSE]]
        /\ cf' = [cf EXCEPT !.owner[r] = c]
        /\ UNCHANGED <<locks, disk, poll, srv>>

\* The provider creates the credential.
ProviderMakes(c) ==
    /\ cred.issue[c].rid # 0 /\ ~cred.issue[c].made
    /\ cred' = [cred EXCEPT !.issue[c].made = TRUE]
    /\ cf' = [cf EXCEPT !.live = @ \cup {cred.issue[c].rid}]
    /\ UNCHANGED <<persistVars, work, poll, srv>>

\* The answer arrives: the credential is cached and handed to the client.
IssueDone(c) ==
    /\ cred.issue[c].made
    /\ cred' = [cred EXCEPT !.cache[c] = cred.issue[c].rid, !.issue[c] = NoIssue,
                            !.held = @ \cup {cred.issue[c].rid}]
    /\ UNCHANGED <<persistVars, work, poll, cf, srv>>

IssueFails_Unclamped(c) ==
    LET r == cred.issue[c].rid
        own == books.active[c].rid = r
        b == [books EXCEPT !.active[c] = IF own THEN NoEntry ELSE @, !.issues = @ \ {r}, !.pess = @ - 1]
    IN  /\ r # 0 /\ Spend("fail")
        /\ Becomes([Now EXCEPT !.b = b, !.fs = MarkDirty(@)])
        /\ cred' = [(IF own THEN Uncached(cred, {c}) ELSE cred) EXCEPT !.issue[c] = NoIssue]
        /\ UNCHANGED <<locks, disk, poll, cf, srv>>

\* The call fails or exceeds its deadline, whatever the provider did (rollbackReservation).
IssueFails(c) ==
    LET r == cred.issue[c].rid
        own == books.active[c].rid = r
        b == [books EXCEPT !.active[c] = IF own THEN NoEntry ELSE @,
                           !.issues = @ \ {r}, !.pess = Larger(0, @ - 1)]
    IN  /\ r # 0 /\ Spend("fail")
        /\ Becomes([Now EXCEPT !.b = b, !.fs = MarkDirty(@)])
        /\ cred' = [(IF own THEN Uncached(cred, {c}) ELSE cred) EXCEPT !.issue[c] = NoIssue]
        /\ UNCHANGED <<locks, disk, poll, cf, srv>>

(***************************************************************************)
(* Revoking at the provider (revokeCustomIdentifier), sequentially per     *)
(* revoker; the entry is deleted by session.                               *)
(***************************************************************************)

\* The provider stops honouring what it issued for the session.  Whom it cut off, and
\* for which revoker, is remembered for sessions that are banned.
ProviderRevokes(a) ==
    LET c == work[a].c
    IN  /\ work[a].at = "revoke"
        /\ work' = [work EXCEPT ![a].at = "heard"]
        /\ cf' = [cf EXCEPT !.live = {r \in @ : cf.owner[r] # c},
                            !.struck = @ \cup IF Denied(books, c) THEN {<<PrincipalOf[c], a>>} ELSE {}]
        /\ UNCHANGED <<persistVars, cred, poll, srv>>

RevokeDone(a) ==
    LET c == work[a].c
    IN  /\ work[a].at = "heard"
        /\ Becomes([Changed(Now, Dropped(books, {c})) EXCEPT !.work[a].at = "rows", !.work[a].c = NoCid])
        /\ cred' = Uncached(cred, {c})
        /\ UNCHANGED <<locks, disk, spent, poll, cf, srv>>

\* The entry stays pending for the retry loop; the abuse handling flushes once more.
RevokeFails(a) ==
    /\ work[a].at \in {"revoke", "heard"} /\ Spend("fail")
    /\ LET x == [Now EXCEPT !.fs = MarkDirty(@), !.work[a].at = "rows", !.work[a].c = NoCid]
       IN  Becomes(IF a = "abuse" THEN Flushing(x, "abuse", "note") ELSE x)
    /\ UNCHANGED <<locks, disk, cred, poll, cf, srv>>

\* The flush a revoker awaits has ended.
Answered(a) == sec[a].at = "end"

Flushed_Careless(a) ==
    /\ work[a].at \in {"flush", "note"} /\ Answered(a)
    /\ sec' = [sec EXCEPT ![a] = Off]
    /\ work' = [work EXCEPT ![a].at = IF @ = "flush" /\ a = "abuse" THEN "revoke" ELSE "rows"]
    /\ UNCHANGED <<books, locks, file, disk, spent, cred, poll, cf, srv>>

\* Only when both files are on disk is the provider called.
Flushed(a) ==
    LET on == work[a].at = "flush" /\ sec[a].ok
    IN  /\ work[a].at \in {"flush", "note"} /\ Answered(a)
        /\ sec' = [sec EXCEPT ![a] = Off]
        /\ work' = [work EXCEPT ![a] =
               IF a = "abuse" THEN [@ EXCEPT !.at = IF on THEN "revoke" ELSE "rows"]
               ELSE IF on THEN [@ EXCEPT !.at = "rows"] ELSE Idle]
        /\ UNCHANGED <<books, locks, file, disk, spent, cred, poll, cf, srv>>

\* The sweep goes on with the next session, or flushes what it did.
SweepNext ==
    LET w == work["sweep"]
    IN  /\ w.at = "rows"
        /\ \/ w.todo = {} /\ Becomes(Flushing([Now EXCEPT !.fs = MarkDirty(@)], "sweep", "note"))
           \/ \E c \in w.todo :
                /\ work' = [work EXCEPT !["sweep"] =
                       IF c \in Active(books) THEN [w EXCEPT !.at = "revoke", !.c = c, !.todo = @ \ {c}]
                       ELSE [w EXCEPT !.todo = @ \ {c}]]
                /\ UNCHANGED <<books, file, sec>>
        /\ UNCHANGED <<locks, disk, spent, cred, poll, cf, srv>>

\* retryPendingRevokes: the entries that are pending, and those of them expired, at this
\* moment.  (A pending entry is settled already.)
RetryStarts ==
    LET pending == {c \in Active(books) : books.active[c].pending}
    IN  /\ srv.at = "up" /\ work["retry"].at = "idle" /\ pending # {}
        /\ work' = [work EXCEPT !["retry"] =
               [Idle EXCEPT !.at = "rows", !.todo = pending, !.old = pending \cap Expired(books)]]
        /\ UNCHANGED <<persistVars, cred, poll, cf, srv>>

RetryNext ==
    LET w == work["retry"]
    IN  /\ w.at = "rows"
        /\ \/ /\ w.todo = {}
              /\ Becomes([Now EXCEPT !.work["retry"] = Idle]) /\ UNCHANGED cred
           \/ \E c \in w.todo \cap w.old :
                /\ Becomes([Changed(Now, Dropped(books, {c})) EXCEPT !.work["retry"].todo = @ \ {c}])
                /\ cred' = Uncached(cred, {c})
           \/ \E c \in w.todo \ w.old :
                /\ Becomes([Now EXCEPT !.work["retry"] =
                       [w EXCEPT !.at = "revoke", !.c = c, !.todo = @ \ {c}]])
                /\ UNCHANGED cred
        /\ UNCHANGED <<locks, disk, spent, poll, cf, srv>>

(***************************************************************************)
(* The usage polls.                                                        *)
(***************************************************************************)

\* pollPerIdentifierUsage: asks what each session relayed within the hour.
AbuseAsks ==
    /\ srv.at = "up" /\ work["abuse"].at = "idle" /\ Active(books) # {} /\ Spend("poll")
    /\ work' = [work EXCEPT !["abuse"].at = "ask"]
    /\ UNCHANGED <<books, locks, file, sec, disk, cred, poll, cf, srv>>

AbuseAskFails ==
    /\ work["abuse"].at = "ask" /\ Spend("fail")
    /\ work' = [work EXCEPT !["abuse"] = Idle]
    /\ file' = MarkDirty(file)
    /\ UNCHANGED <<books, locks, sec, disk, cred, poll, cf, srv>>

\* The rows of some sessions: confirmed bytes, and the estimates raised to them.
Raise(b, S, rows) == [c \in Cid |-> IF c \in S THEN Larger(0, rows[c] - b.active[c].bytes) ELSE 0]

Raised(b, S, rows) ==
    [c \in Cid |->
        IF c \in S THEN [b.active[c] EXCEPT !.actual = rows[c], !.bytes = @ + Raise(b, S, rows)[c]]
        ELSE b.active[c]]

WithRows(b, S, rows) ==
    [b EXCEPT !.active = Raised(b, S, rows), !.pess = @ + SumFunctionOnSet(Raise(b, S, rows), Cid)]

\* handleAbusiveCredential up to its first await: settle, deny, mark.
Abused(b, c) ==
    [WithDeny(Settled(b, {c}), c) EXCEPT !.active[c].pending = TRUE]

\* The rows of the answer, in any order, up to the first abusive session, whose
\* handling awaits; after the last row the kill switch is evaluated.
AbuseRows ==
    LET w == work["abuse"]
        rows == IF w.at = "ask" THEN cf.usage ELSE poll.rows
        todo == IF w.at = "ask" THEN {c \in Cid : rows[c] > 0} ELSE w.todo
        abusive == {c \in todo \cap Active(books) : rows[c] >= Cap}
        raised(b) == IF b.pess = books.pess THEN file ELSE MarkDirty(file)
        goes(b, at) == [Now EXCEPT !.b = b, !.fs = raised(b), !.work["abuse"] = at]
        read(S) == WithRows(books, S \cap Active(books), rows)
    IN  /\ w.at \in {"ask", "rows"} /\ SweepFree
        /\ \/ /\ abusive = {}
              /\ Becomes(Evaluated(goes(read(todo), Idle)))
              /\ poll' = [poll EXCEPT !.rows = NoPoll.rows]
           \/ \E S \in SUBSET (todo \ abusive), c \in abusive :
              /\ Becomes(Flushing(goes(Abused(read(S \cup {c}), c),
                     [Idle EXCEPT !.c = c, !.todo = todo \ (S \cup {c})]), "abuse", "flush"))
              /\ poll' = [poll EXCEPT !.rows = rows]
        /\ UNCHANGED <<locks, disk, spent, cred, cf, srv>>

\* runGlobalPoll, one at a time, and syncTurnUsageNow, at any time.
GlobalAsks(timer) ==
    /\ timer => srv.at = "up" /\ \A p \in poll.polls : ~p.timer
    /\ Spend("poll")
    /\ poll' = [poll EXCEPT !.gen = @ + 1,
                 !.polls = @ \cup {[gen |-> poll.gen + 1, timer |-> timer, read |-> -1, all |-> TRUE]}]
    /\ Becomes(Changed(Now, Rolled(books)))
    /\ UNCHANGED <<locks, disk, cred, cf, srv>>

Without(p) == [poll EXCEPT !.polls = @ \ {p}]

\* The provider answers with the month's total, or with what fits the page limit.
ProviderCounts(p) ==
    /\ p.read = -1
    /\ \E n \in 0 .. cf.total, all \in BOOLEAN :
          /\ all => n = cf.total
          /\ poll' = [Without(p) EXCEPT !.polls = @ \cup {[p EXCEPT !.read = n, !.all = all]}]
    /\ UNCHANGED <<persistVars, cred, work, cf, srv>>

GlobalFails(p) ==
    /\ Spend("fail") /\ poll' = Without(p)
    /\ file' = IF p.gen = poll.gen THEN MarkDirty(file) ELSE file
    /\ UNCHANGED <<books, locks, sec, disk, cred, work, cf, srv>>

\* A poll that a later one has overtaken is discarded.
GlobalStale(p) ==
    /\ p.read >= 0 /\ p.gen # poll.gen
    /\ poll' = Without(p)
    /\ UNCHANGED <<persistVars, cred, work, cf, srv>>

\* A lower bound only ever raises the count.
GlobalLowerBound(p) ==
    LET b == Pruned(books)
    IN  /\ p.read >= 0 /\ ~p.all /\ p.gen = poll.gen /\ SweepFree
        /\ Becomes(Evaluated([Now EXCEPT !.b = [b EXCEPT !.cf = Larger(@, p.read)], !.fs = MarkDirty(@)]))
        /\ cred' = Uncached(cred, Expired(books))
        /\ poll' = Without(p)
        /\ UNCHANGED <<locks, disk, spent, cf, srv>>

GlobalTotal_Late(p) ==
    /\ p.read >= 0 /\ p.all /\ SweepFree
    /\ Becomes(Evaluated([Now EXCEPT !.b.cf = p.read, !.b.pess = Total(books), !.fs = MarkDirty(@)]))
    /\ poll' = Without(p)
    /\ UNCHANGED <<locks, disk, spent, cred, cf, srv>>
GlobalTotal_Zeroed(p) ==
    /\ p.read >= 0 /\ p.all /\ p.gen = poll.gen /\ SweepFree
    /\ Becomes(Evaluated([Now EXCEPT !.b.cf = p.read, !.b.pess = 0, !.fs = MarkDirty(@)]))
    /\ poll' = Without(p)
    /\ UNCHANGED <<locks, disk, spent, cred, cf, srv>>

\* The month's total replaces the count, lowers the estimate to what is still active,
\* may clear the kill switch, and ends the failed state of an unreadable snapshot.
GlobalTotal(p) ==
    LET b == [Pruned(books) EXCEPT !.cf = p.read, !.pess = Total(Pruned(books))]
        fs == [MarkDirty(file) EXCEPT !["turn"].load = "ok"]
    IN  /\ p.read >= 0 /\ p.all /\ p.gen = poll.gen /\ SweepFree
        /\ Becomes(Evaluated([Now EXCEPT
               !.b = [b EXCEPT !.kill = @ /\ Observed(b) >= Limit], !.fs = fs]))
        /\ cred' = Uncached(cred, Expired(books))
        /\ poll' = Without(p)
        /\ UNCHANGED <<locks, disk, spent, cf, srv>>

(***************************************************************************)
(* Locks, time, crashes and the shutdown.                                  *)
(***************************************************************************)

\* A failed attempt engages a lock, which is flushed before the client is told.
LockEngages ==
    /\ srv.at = "up" /\ file["locks"].load = "ok" /\ ~locks /\ sec["lock"].at = "off" /\ Spend("lock")
    /\ locks' = TRUE
    /\ LET s == Security(file, sec, "lock") IN file' = Started(s.file, books, TRUE) /\ sec' = s.sec
    /\ UNCHANGED <<books, disk, cred, work, poll, cf, srv>>

LockAnswered_Careless ==
    /\ Answered("lock")
    /\ sec' = [sec EXCEPT !["lock"] = Off]
    /\ srv' = [srv EXCEPT !.told = TRUE]
    /\ UNCHANGED <<books, locks, file, disk, spent, cred, work, poll, cf>>

\* persistSecurityOr503
LockAnswered ==
    /\ Answered("lock")
    /\ sec' = [sec EXCEPT !["lock"] = Off]
    /\ srv' = [srv EXCEPT !.told = @ \/ sec["lock"].ok]
    /\ UNCHANGED <<books, locks, file, disk, spent, cred, work, poll, cf>>

\* A client relays through a credential it holds and the provider honours.
Relays(r) ==
    /\ r \in cf.live /\ r \in cred.held /\ Spend("relay")
    /\ cf' = [cf EXCEPT !.usage[cf.owner[r]] = @ + 1, !.total = @ + 1]
    /\ UNCHANGED <<books, locks, file, sec, disk, cred, work, poll, srv>>

\* A credential comes close to its expiry, then expires, here and at the provider.
Ages(c) ==
    LET e == books.active[c]
        next == IF e.age = "fresh" THEN "near" ELSE "old"
    IN  /\ e.rid # 0 /\ e.age # "old" /\ cred.issue[c].rid # e.rid /\ Spend("age")
        /\ books' = [books EXCEPT !.active[c].age = next]
        /\ cf' = IF next = "old" THEN [cf EXCEPT !.live = @ \ {e.rid}] ELSE cf
        /\ UNCHANGED <<locks, file, sec, disk, cred, work, poll, srv>>

MonthTurns ==
    /\ Spend("month")
    /\ srv' = [srv EXCEPT !.month = @ + 1]
    /\ cf' = [cf EXCEPT !.total = 0]
    /\ UNCHANGED <<books, locks, file, sec, disk, cred, work, poll>>

\* The credentials that a restart from the snapshot t forgets.  An issue is only marked
\* dirty and answered at once, so a crash that finds changes under way forgets those whose
\* issue t does not record; an unreadable file takes them all.  A crash with nothing to
\* write may forget none.
Unflushed == file["turn"].dirty \/ file["turn"].chain # <<>>
Forgotten(t) == IF t = Torn THEN cred.held ELSE IF Unflushed THEN cred.held \ t.issues ELSE {}

\* The process dies and starts again; both files are loaded before it listens.  A file
\* may turn out unreadable: auth-locks.json is then moved out of the way.  The clients keep
\* what they hold, and the provider honours it.
Restarts(d) ==
    /\ disk' = [d EXCEPT !["locks"] = IF @ = Torn THEN FALSE ELSE @]
    /\ books' = IF d["turn"] = Torn THEN EmptyBooks(srv.month) ELSE Rolled(d["turn"])
    /\ locks' = IF d["locks"] = Torn THEN FALSE ELSE d["locks"]
    /\ file' = [Loaded(d) EXCEPT !["turn"].dirty = d["turn"] # Torn /\ d["turn"].month # srv.month]
    /\ sec' = [w \in Caller |-> Off]
    /\ cred' = NoCred(cred.last, cred.dead \cup cred.seen, cred.held, cred.lost \cup Forgotten(d["turn"]))
    /\ work' = [a \in Revoker |-> Idle] /\ poll' = NoPoll
    /\ srv' = [srv EXCEPT !.at = "up"]
    /\ UNCHANGED cf

Crash ==
    /\ Spend("crash")
    /\ \E t \in Left("turn"), l \in Left("locks") : Restarts([turn |-> t, locks |-> l])

CrashTorn ==
    /\ Spend("torn")
    /\ \E t \in Left("turn"), l \in Left("locks") :
          Restarts([turn |-> Torn, locks |-> l]) \/ Restarts([turn |-> t, locks |-> Torn])

\* gracefulShutdown: the gate closes and the timers stop.
Stops ==
    /\ srv.at = "up" /\ Spend("stop")
    /\ srv' = [srv EXCEPT !.at = "draining"]
    /\ UNCHANGED <<books, locks, file, sec, disk, cred, work, poll, cf>>

Issuing == \E c \in Cid : cred.issue[c].rid # 0

\* The drain ends with the last request or its deadline; then both files are flushed.
StopFlushes ==
    /\ srv.at \in {"draining", "late"} /\ sec["stop"].at = "off"
    /\ LET s == Security(file, sec, "stop") IN file' = Started(s.file, books, locks) /\ sec' = s.sec
    /\ srv' = [srv EXCEPT !.at = IF @ = "draining" THEN "flushing" ELSE "last"]
    /\ UNCHANGED <<books, locks, disk, spent, cred, work, poll, cf>>

Exits_Careless ==
    /\ srv.at \in {"flushing", "last"} /\ Answered("stop")
    /\ sec' = [sec EXCEPT !["stop"] = Off]
    /\ srv' = [srv EXCEPT !.at = "clean"]
    /\ UNCHANGED <<books, locks, file, disk, spent, cred, work, poll, cf>>

\* A request that outlived the flush makes the server flush once more; the exit code
\* is 0 only when every flush succeeded and no request is left.
Exits ==
    LET ok == sec["stop"].ok /\ \A f \in File : file[f].load = "ok"
    IN  /\ srv.at \in {"flushing", "last"} /\ Answered("stop")
        /\ sec' = [sec EXCEPT !["stop"] = Off]
        /\ srv' = [srv EXCEPT !.at =
               IF ok /\ ~Issuing THEN "clean" ELSE IF ok /\ @ = "flushing" THEN "late" ELSE "failed"]
        /\ UNCHANGED <<books, locks, file, disk, spent, cred, work, poll, cf>>

(***************************************************************************)
(* Next.                                                                   *)
(***************************************************************************)

Running == srv.at \in {"up", "draining", "flushing", "late", "last"}

Issue == \E c \in Cid : IssueOld(c) \/ IssueFresh(c) \/ ProviderMakes(c) \/ IssueDone(c) \/ IssueFails(c)
Revoke ==
    \/ \E a \in Revoker : ProviderRevokes(a) \/ RevokeDone(a) \/ RevokeFails(a)
    \/ \E a \in {"abuse", "sweep"} : Flushed(a)
    \/ SweepNext \/ RetryStarts \/ RetryNext
Poll ==
    \/ AbuseAsks \/ AbuseAskFails \/ AbuseRows \/ \E timer \in BOOLEAN : GlobalAsks(timer)
    \/ \E p \in poll.polls :
          ProviderCounts(p) \/ GlobalFails(p) \/ GlobalStale(p) \/ GlobalLowerBound(p) \/ GlobalTotal(p)
Write == \E f \in File : WriteDone(f) \/ WriteFails(f)
Persisting == ((FlushTick /\ srv.at = "up") \/ Write) /\ UNCHANGED <<cred, work, poll, cf, srv>>
World ==
    \/ LockEngages \/ LockAnswered \/ MonthTurns \/ Crash \/ CrashTorn
    \/ Stops \/ StopFlushes \/ Exits
    \/ \E r \in Rid : Relays(r)
    \/ \E c \in Cid : Ages(c)

Next == Running /\ (Issue \/ Revoke \/ Poll \/ Persisting \/ World)

Spec == Init /\ [][Next]_vars

\* The disk answers: a write under way ends.
FairSpec ==
    /\ Spec
    /\ \A f \in File : WF_vars(Running /\ WriteDone(f) /\ UNCHANGED <<cred, work, poll, cf, srv>>)

(***************************************************************************)
(* Properties.                                                             *)
(***************************************************************************)

TypeOK ==
    /\ books \in Books /\ locks \in BOOLEAN
    /\ disk["turn"] \in Books \cup {Torn} /\ disk["locks"] \in BOOLEAN
    /\ \A f \in File :
          /\ file[f].load \in {"ok", "failed"} /\ file[f].dirty \in BOOLEAN
          /\ file[f].chain \in Seq(Caller \cup {Tick})
    /\ \A w \in Caller : sec[w].at \in {"off", "turn", "locks", "end"}
    /\ \A a \in Revoker :
          /\ work[a].at \in {"idle", "ask", "rows", "flush", "revoke", "heard", "note"}
          /\ work[a].todo \subseteq Cid
    /\ cred.held \cup cred.lost \subseteq Rid /\ cf.live \subseteq Rid

Whole == spent["torn"] = 0
DeniedOn(d, p) == \E i \in Ip : <<"principal", p, i>> \in d.deny

\* Once the provider has cut off a session for abuse, the ban of its identity is on
\* disk, whatever fails or crashes next, as long as the files stay readable (turn.ts
\* handleAbusiveCredential, persist.ts flushSecurityState).
DenialIsDurable == Whole => \A p \in Principal : <<p, "abuse">> \in cf.struck => DeniedOn(disk["turn"], p)

\* The boundary holds for every revoke of a banned session, the retry loop's included
\* (turn.ts handleAbusiveCredential: "settle + deny + revokePending MUST hit disk before the
\* external provider revoke").
NoRevokeBeforeDenial == Whole => \A s \in cf.struck : DeniedOn(disk["turn"], s[1])

\* Whom the provider cut off for abuse gets no fresh credential any more: not by a new
\* session, not after a crash (turn.ts issueCredentials, deny list).
BannedGetsNothing ==
    [][\A c \in Cid : IssueFresh(c) => <<PrincipalOf[c], "abuse">> \notin cf.struck \/ ~Whole]_vars

\* A lock that a client has been told of survives a crash (http.ts persistSecurityOr503,
\* persist.ts flushPersistedLocks).
ToldLockIsDurable == Whole /\ srv.told => disk["locks"]

Restarted == spent'["crash"] # spent["crash"] \/ spent'["torn"] # spent["torn"]

\* Confirmed usage is not forgotten.  An overtaken poll never lowers the month's volume
\* (turn.ts globalPollGeneration), and the bytes of an entry do not vanish with it: unless the
\* session's own next credential takes its place, or the entry is a reservation that is rolled
\* back, they are in the hourly ledger of the address when the entry is gone
\* (settleCredentialUsage).  The sweep settles entries that nothing was confirmed of; what a
\* poll then confirms of one that waits for its revoke does not reach the ledger.
UsageIsKept ==
    [][~Restarted =>
         /\ spent["month"] = 0 => books'.cf >= books.cf
         /\ \A c \in Cid :
              LET e == books.active[c]
              IN  /\ e.actual > 0 /\ cred.issue[c].rid # e.rid /\ ~srv.policy
                  /\ books'.active[c].rid = 0
                  => \E n \in 1 .. e.actual : <<e.rid, n>> \in books'.ledger]_vars

\* A credential that a client holds and the provider honours is on the books, unless
\* the session was banned or asked for a newer one, or a crash came before its issue was
\* written or made the file unreadable: it counts against the caps and a revoke can find
\* it, after a restart too (turn.ts issueFreshCredentials, pruneActiveCredentials,
\* persist.ts loadTurnState).
Newest(r) == \A n \in Rid : n > r => cf.owner[n] # cf.owner[r]
Honoured == {r \in (cred.held \ cred.lost) \cap cf.live : Newest(r) /\ ~Denied(books, cf.owner[r])}
LiveIsOnTheBooks == ~srv.policy => \A r \in Honoured : books.active[cf.owner[r]].rid = r

\* Reservations stay counted: within a month, and until the provider has cut somebody off,
\* the estimate covers every entry of the books (turn.ts rollbackReservation,
\* pollGlobalUsage).  A revoke that deletes a reservation under way makes its rollback
\* refund it a second time after a reconciliation.
ReservedIsCounted ==
    ~srv.policy /\ spent["month"] = 0 /\ cf.struck = {} => Total(books) <= books.pess

\* The kill switch is on whenever the observed volume has reached the limit, except
\* while the poll that raised it still works through its rows, or after a crash has
\* loaded books written in that moment (turn.ts evaluateGlobalKillSwitch).
KillSwitchTrips ==
    Observed(books) >= Limit => books.kill \/ work["abuse"].at # "idle" \/ spent["crash"] + spent["torn"] > 0

\* A server that exits with code 0 leaves every credential on disk that a client
\* holds and the provider honours, except those an earlier crash had already forgotten
\* (index.ts gracefulShutdown).
CleanExitKeepsBooks ==
    srv.at = "clean" /\ ~srv.policy => \A r \in Honoured : disk["turn"].active[cf.owner[r]].rid = r

\* Every caller of a security flush gets its answer: the chain of writes survives a
\* failed write (persist.ts flushTurnState, flushSecurityState).
FlushersAnswered ==
    \A w \in Caller : sec[w].at \in {"turn", "locks"} ~> sec[w].at \in {"off", "end"} \/ ~Running
=============================================================================
