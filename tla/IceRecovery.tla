---------------------------- MODULE IceRecovery ----------------------------
(***************************************************************************)
(* Recovery of a connection: the watchdog of a session that never became   *)
(* encrypted, the delayed ICE restarts with their lock, attempt counter,   *)
(* retry timer and precondition budget, and what the browser reports of    *)
(* the transport.  A timer is a field that names the generation (and the   *)
(* connection) it was armed for.                                           *)
(***************************************************************************)
EXTENDS Negotiation

CONSTANT MaxRestarts  \* MAX_ICE_RESTART_ATTEMPTS

ASSUME MaxRestartsAssumption == MaxRestarts \in Nat \ {0}

(***************************************************************************)
(* ICE restarts.                                                           *)
(***************************************************************************)

\* scheduleIceRestartRetry: one timer, the latest.
Retrying(w, s, gen) == [w EXCEPT !.side[s].retry = gen]

AttemptRestart_Unlocked(w, s) ==
    LET r == w.side[s]
        t == [NoTask EXCEPT !.k = "restart", !.at = "backoff", !.gen = r.gen, !.tries = r.tries]
    IN  IF r.tries < MaxRestarts THEN Start([w EXCEPT !.side[s].lock = r.gen], s, t)
        ELSE IF r.retry = 0 THEN Retrying(w, s, r.gen)
        ELSE w
AttemptRestart_Uncounted(w, s) ==
    LET r == w.side[s]
        t == [NoTask EXCEPT !.k = "restart", !.at = "backoff", !.gen = r.gen, !.tries = r.tries]
    IN  IF r.lock # 0 THEN w ELSE Start([w EXCEPT !.side[s].lock = r.gen], s, t)
\* attemptIceRestart up to its backoff: one restart at a time; after the last attempt
\* only an observation timer.
AttemptRestart(w, s) ==
    LET r == w.side[s]
        t == [NoTask EXCEPT !.k = "restart", !.at = "backoff", !.gen = r.gen, !.tries = r.tries]
    IN  IF r.lock # 0 THEN w
        ELSE IF r.tries < MaxRestarts THEN Start([w EXCEPT !.side[s].lock = r.gen], s, t)
        ELSE IF r.retry = 0 THEN Retrying(w, s, r.gen)
        ELSE w

\* The finally block: a superseded restart releases nothing but its own lock.
Release(w, s, t) == [End(w, s, t) EXCEPT !.side[s].lock = IF @ = t.gen THEN 0 ELSE @]

Dead(r) == r.pc.id = 0 \/ r.pc.ice = "fail"

\* The preconditions hold: an offer, if signaling is up.
Restarting(w, s, t) ==
    IF up[s]
    THEN Offering([w EXCEPT !.side[s] = [@ EXCEPT !.tries = t.tries + 1, !.pre = 0]], s, t)
    ELSE Release(Retrying(w, s, t.gen), s, t)

Backoff(s, t) == t.k = "restart" /\ t.at = "backoff" /\ Due /\ UNCHANGED up

\* The generation has moved on during the backoff.
RestartStale(s, t) ==
    /\ Backoff(s, t) /\ ~SameGen(Now, s, t)
    /\ Becomes(Release(Now, s, t))

\* The connection is closed or failed: a new one.
RestartRedials(s, t) ==
    /\ Backoff(s, t) /\ SameGen(Now, s, t) /\ Dead(side[s])
    /\ LET w == Cleanup(End([Now EXCEPT !.side[s].status = "reconnecting"], s, t), s)
       IN  Becomes(Dial([w EXCEPT !.side[s].tries = t.tries + 1], s, "restart"))

\* The elapsed-time budget of the waits below is spent.
RestartExhausted(s, t) ==
    /\ Backoff(s, t) /\ SameGen(Now, s, t) /\ ~Dead(side[s]) /\ side[s].pre > 0
    /\ Becomes(Release([Now EXCEPT !.side[s] = [@ EXCEPT !.status = "offline", !.pre = 0]], s, t))

\* BOUND: the budget covers two waits.
RestartWakes(s, t) ==
    /\ Backoff(s, t) /\ SameGen(Now, s, t) /\ ~Dead(side[s]) /\ side[s].pre < 2
    /\ LET w == [Now EXCEPT !.side[s] = [@ EXCEPT !.status = "reconnecting", !.pre = side[s].pre + 1]]
           u == [t EXCEPT !.pc = side[s].pc.id]
       IN  Becomes(IF side[s].pc.sig = "stable" THEN Restarting(Goes(w, s, t, u), s, u)
                   ELSE Goes(w, s, t, [u EXCEPT !.at = "stable"]))

\* whenSignalingStable resolves.
RestartStable(s, t) ==
    /\ t.k = "restart" /\ t.at = "stable" /\ t.pc = side[s].pc.id /\ side[s].pc.sig = "stable"
    /\ Becomes(IF Holds(Now, s, t) THEN Restarting(Now, s, t) ELSE Release(Now, s, t))
    /\ UNCHANGED <<up, spent>>

\* It times out: a retry, whoever owns the peer by now.
RestartTimesOut(s, t) ==
    /\ t.k = "restart" /\ t.at = "stable" /\ Due
    /\ Becomes(Release(Retrying(Now, s, t.gen), s, t))
    /\ UNCHANGED up

\* Published or overtaken, the restart is observed; on a closed connection the browser's
\* calls throw and nothing follows.
RestartPublishes(s, t) ==
    LET w == Offered(Now, s, t)
    IN  /\ t.k = "restart" /\ Resolves(s, t)
        /\ Becomes(Release(IF t.pc = side[s].pc.id THEN Retrying(w, s, t.gen) ELSE w, s, t))
        /\ UNCHANGED <<up, spent>>

\* The retry timer.
RetryFires(s) ==
    LET r == side[s]
        w == [Now EXCEPT !.side[s].retry = 0]
    IN  /\ r.retry # 0 /\ Due /\ UNCHANGED up
        /\ Becomes(IF r.retry # r.gen THEN w
                   ELSE IF r.pc.ice = "conn" THEN [w EXCEPT !.side[s].pre = 0]
                   ELSE IF r.tries >= MaxRestarts
                        THEN [w EXCEPT !.side[s] = [@ EXCEPT !.pre = 0, !.status = "offline"]]
                   ELSE AttemptRestart(w, s))

\* The connection stayed disconnected.
DisconnectedFires(s) ==
    LET r == side[s]
        w == [Now EXCEPT !.side[s].disc = NoDisc]
    IN  /\ r.disc # NoDisc /\ Due /\ UNCHANGED up
        /\ Becomes(IF r.disc = [pc |-> r.pc.id, gen |-> r.gen] /\ r.pc.ice \in {"disc", "fail"}
                   THEN AttemptRestart([w EXCEPT !.side[s].status = "reconnecting"], s)
                   ELSE w)

(***************************************************************************)
(* The watchdog of the first encrypted session.                            *)
(***************************************************************************)

\* isInitialIceRecoveryCurrent
WatchCurrent(r) ==
    /\ r.watch.pc = r.pc.id /\ r.watch.gen = r.gen /\ r.pc.id # 0
    /\ ~r.aes /\ r.pc.ice \in {"new", "conn"}

WatchDue(s, kind) == side[s].watch.kind = kind /\ Due /\ UNCHANGED up
Unwatched(s) == [Now EXCEPT !.side[s].watch = NoWatch]

\* Both sides watch; only the polite side acts.
Acts(s) == WatchCurrent(side[s]) /\ s = Polite

WatchStale(s) ==
    /\ side[s].watch.kind # "none" /\ Due /\ UNCHANGED up
    /\ ~WatchCurrent(side[s])
    /\ Becomes(Unwatched(s))

WatchYields(s) ==
    /\ WatchDue(s, "first") /\ WatchCurrent(side[s]) /\ s # Polite
    /\ Becomes([Now EXCEPT !.side[s].watch.kind = "again"])

\* The second window passed; or a rebuild has been tried; or no offer can be made.
WatchGivesUp(s) ==
    /\ \/ WatchDue(s, "again") /\ WatchCurrent(side[s])
       \/ /\ WatchDue(s, "first") /\ Acts(s)
          /\ IF side[s].pc.ice = "conn" THEN side[s].rebuilt
             ELSE side[s].pc.sig # "stable" \/ ~up[s]
    /\ Becomes([Unwatched(s) EXCEPT !.side[s].status = "offline"])

\* ICE is connected and the keys are not there: the whole session once more.
WatchRebuilds(s) ==
    /\ WatchDue(s, "first") /\ Acts(s) /\ side[s].pc.ice = "conn" /\ ~side[s].rebuilt
    /\ LET w == Cleanup([Now EXCEPT !.side[s] = [@ EXCEPT !.rebuilt = TRUE, !.status = "connecting"]], s)
       IN  Becomes(Dial(w, s, "rebuild"))

WatchRestarts(s) ==
    /\ WatchDue(s, "first") /\ Acts(s) /\ side[s].pc.ice = "new" /\ side[s].pc.sig = "stable" /\ up[s]
    /\ Becomes(Offering(Unwatched(s), s, Attempt(Now, s, "watch")))

\* Its offer is out: the second window.
WatchPublishes(s, t) ==
    LET w == Offered(Now, s, t)
        again == [kind |-> "again", pc |-> t.pc, gen |-> t.gen]
    IN  /\ t.k = "watch" /\ Resolves(s, t)
        /\ Becomes(End(IF Installs(Now, s, t) THEN [w EXCEPT !.side[s].watch = again] ELSE w, s, t))
        /\ UNCHANGED <<up, spent>>

(***************************************************************************)
(* The transport, as the browser reports it (handleIceStateChange).        *)
(***************************************************************************)

IceIs(s, ice) == [side[s] EXCEPT !.pc.ice = ice]

IceConnected_Unwatched(r) ==
    IF ~Live(r) THEN r
    ELSE [r EXCEPT !.watch = NoWatch, !.disc = NoDisc, !.tries = 0,
                   !.status = IF r.aes THEN "online" ELSE "connecting"]
IceConnected_Online(r) ==
    LET w == IF r.aes THEN [r EXCEPT !.watch = NoWatch] ELSE Watched(r)
    IN  IF ~Live(r) THEN r ELSE [w EXCEPT !.disc = NoDisc, !.tries = 0, !.status = "online"]
\* connected: the watchdog stays until the keys are there.
IceConnected(r) ==
    LET w == IF r.aes THEN [r EXCEPT !.watch = NoWatch] ELSE Watched(r)
    IN  IF ~Live(r) THEN r
        ELSE [w EXCEPT !.disc = NoDisc, !.tries = 0, !.status = IF r.aes THEN "online" ELSE "connecting"]

IceConnects(s) ==
    /\ \/ CanConnect(side[s], side[Other(s)])
       \/ side[s].pc.ice = "disc" /\ Linked(side[s], side[Other(s)])
    /\ side' = [side EXCEPT ![s] = IceConnected(IceIs(s, "conn"))]
    /\ UNCHANGED <<tasks, queue, net, up, spent>>

\* disconnected: recovery is deferred.
Disconnected(s) ==
    LET r == IceIs(s, "disc")
    IN  IF ~Live(r) THEN r
        ELSE [r EXCEPT !.watch = NoWatch,
                       !.disc = IF @ = NoDisc THEN [pc |-> r.pc.id, gen |-> r.gen] ELSE @]

IceDrops(s) ==
    /\ side[s].pc.ice = "conn" /\ Spend("drop")
    /\ side' = [side EXCEPT ![s] = Disconnected(s)]
    /\ UNCHANGED <<tasks, queue, net, up>>

\* The other end of the transport has gone.
IceLost(s) ==
    /\ side[s].pc.ice = "conn" /\ ~Linked(side[s], side[Other(s)])
    /\ side' = [side EXCEPT ![s] = Disconnected(s)]
    /\ UNCHANGED <<tasks, queue, net, up, spent>>

\* failed: a restart at once.
IceFails(s) ==
    LET w == [Now EXCEPT !.side[s] = IceIs(s, "fail")]
    IN  /\ side[s].pc.ice = "disc"
        /\ Becomes(IF Live(side[s])
                   THEN AttemptRestart([w EXCEPT !.side[s] = [@ EXCEPT !.watch = NoWatch, !.disc = NoDisc]], s)
                   ELSE w)
        /\ UNCHANGED <<up, spent>>

\* It stays in "checking" under these descriptions; or is connected and its channel or key
\* exchange hangs.
Wedges(s) ==
    LET o == side[Other(s)]
    IN  /\ Spend("wedge")
        /\ side' = [side EXCEPT ![s].pc =
                IF @.ice = "new" THEN [@ EXCEPT !.stuck = side[s].pc.rem] ELSE [@ EXCEPT !.mate = -1]]
        /\ CanConnect(side[s], o) \/ (CanEncrypt(side[s], o) /\ side[s].pc.mate = 0)
        /\ UNCHANGED <<tasks, queue, net, up>>

\* The channel opens and the other's public key arrives over it: publishEncryptedReady.
KeysInstalled(s) ==
    /\ CanEncrypt(side[s], side[Other(s)])
    /\ side' = [side EXCEPT ![s] = [@ EXCEPT !.aes = TRUE, !.rebuilt = FALSE, !.watch = NoWatch,
                    !.status = "online", !.pc.chan = "open", !.pc.mate = side[Other(s)].pc.id]]
    /\ UNCHANGED <<tasks, queue, net, up, spent>>

\* dc.onclose, after the other side closed its end.
ChannelCloses(s) ==
    LET w == [Now EXCEPT !.side[s].pc.chan = "closed"]
    IN  /\ CanClose(side[s], side[Other(s)])
        /\ Becomes(IF Live(side[s]) THEN AttemptRestart(w, s) ELSE w)
        /\ UNCHANGED <<up, spent>>
=============================================================================
