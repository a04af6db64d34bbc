------------------------------- MODULE Peers -------------------------------
(***************************************************************************)
(* Two devices and the signaling server between them: negotiation and ICE  *)
(* recovery composed with what reaches a device from outside, namely the   *)
(* roster messages of the server, the loss and return of its signaling     *)
(* socket, the fallback of the side that waits for an offer, foreground    *)
(* recovery, the reconnect button, a message or file for the other device, *)
(* and the migration to new ICE servers.                                   *)
(***************************************************************************)
EXTENDS IceRecovery

Healthy(r) == r.pc.chan = "open" /\ r.aes

(***************************************************************************)
(* Frames from the signaling server (the onMessage handler).               *)
(***************************************************************************)

\* PEER_LEFT: a live channel keeps its connection.
Left(w, s) ==
    LET v == [w EXCEPT !.side[s].rebuilt = FALSE]
    IN  IF w.side[s].pc.chan \in {"open", "wait"} THEN [v EXCEPT !.side[s].status = "reconnecting"]
        ELSE Cleanup([v EXCEPT !.side[s].status = "offline"], s)

\* PEER_JOINED of a peer in the roster; the newcomer is the one told to initiate.
Joined(w, s, initiate) ==
    LET r == w.side[s]
        v == [w EXCEPT !.side[s].status = "connecting"]
    IN  IF Healthy(r) THEN [w EXCEPT !.side[s].status = "online"]
        ELSE IF r.status \notin {"reconnecting", "offline"} THEN w
        ELSE IF initiate THEN Dial(v, s, "join") ELSE v

\* PEER_OFFLINE
Gone(w, s) == IF Healthy(w.side[s]) THEN w ELSE [w EXCEPT !.side[s].status = "offline"]

\* A description joins the peer's queue with its receipt.
Receive(s) ==
    /\ net[s] # <<>>
    /\ LET m == Head(net[s])
           w == [Now EXCEPT !.net[s] = Tail(@)]
       IN  Becomes(CASE m.t = "left" -> Left(w, s)
                     [] m.t = "joined" -> Joined(w, s, FALSE)
                     [] m.t = "rejoin" -> Joined(w, s, TRUE)
                     [] m.t = "gone" -> Gone(w, s)
                     [] OTHER -> [w EXCEPT !.queue[s] = Append(@, Receipt(s, m))])
    /\ UNCHANGED <<up, spent>>

\* The socket drops: the server tells the other device.
SignalingDrops(s) ==
    /\ up[s] /\ Spend("blip")
    /\ up' = [up EXCEPT ![s] = FALSE]
    /\ net' = [net EXCEPT ![s] = <<>>,
                          ![Other(s)] = IF up[Other(s)] THEN Append(@, Msg("left", NoDesc, NoDesc)) ELSE @]
    /\ UNCHANGED <<side, tasks, queue>>

\* renegotiateOrphanPeers
Adopted(w, s) ==
    LET r == w.side[s]
    IN  IF r.remote \/ (~Dead(r) /\ r.pc.chan \in {"open", "wait"}) THEN w
        ELSE Dial(Cleanup(w, s), s, "orphan")

\* WELCOME and the join of the same session.
SignalingReturns(s) ==
    LET o == Other(s)
        w == Adopted(Now, s)
    IN  /\ ~up[s]
        /\ up' = [up EXCEPT ![s] = TRUE]
        /\ Becomes(IF ~up[o] THEN w
                   ELSE Deliver(Deliver(w, s, Msg("rejoin", NoDesc, NoDesc)),
                                o, Msg("joined", NoDesc, NoDesc)))
        /\ UNCHANGED spent

\* The device that was to be called has waited long enough.
FallbackFires(s) ==
    LET w == [Now EXCEPT !.side[s].fall = FALSE]
    IN  /\ side[s].fall /\ Due /\ UNCHANGED up
        /\ Becomes(IF side[s].remote /\ side[s].pc.id = 0
                   THEN Dial([w EXCEPT !.side[s].remote = FALSE], s, "fallback")
                   ELSE w)

(***************************************************************************)
(* The page and the user.                                                  *)
(***************************************************************************)

\* recoverConnections
Recover(s) ==
    LET r == side[s]
    IN  /\ Spend("focus")
        /\ Becomes(IF \/ r.status \in {"offline", "reconnecting"} \/ Dead(r)
                      \/ r.pc.chan \in {"none", "closed"}
                   THEN Dial(Cleanup(Now, s), s, "focus")
                   ELSE IF r.pc.ice = "disc" THEN AttemptRestart(Now, s)
                   ELSE Now)
        /\ UNCHANGED up

\* reconnectPeer
Reconnect(s) ==
    /\ Spend("user")
    /\ LET w == Cleanup([Now EXCEPT !.side[s] = [@ EXCEPT !.rebuilt = FALSE, !.status = "connecting"]], s)
       IN  Becomes(Dial(w, s, "user"))
    /\ UNCHANGED up

\* ensureConnected: the other side may still bring its channel (waitForPrimaryChannel).
Awaited(r) == (r.remote \/ r.pc.id # 0) /\ r.pc.chan = "none"
\* connectingPeers: a cleanup, its own after a wait included, forgets the call.
Connecting(s) == \E t \in tasks[s] : (t.k = "send" \/ t.by = "send") /\ t.era = side[s].era
\* No channel, or a closed one: everything from the start.
Ensured(w, s, by) ==
    IF w.side[s].pc.chan \in {"wait", "open"} THEN w ELSE Dial(Cleanup(w, s), s, by)

\* A message or a file for the peer.
Sends(s) ==
    /\ Spend("send") /\ UNCHANGED up
    /\ LET t == [NoTask EXCEPT !.k = "send", !.at = "channel", !.era = side[s].era]
       IN  Becomes(IF Connecting(s) THEN Now
                   ELSE IF Awaited(side[s]) THEN Start(Now, s, t)
                   ELSE Ensured(Now, s, "send"))

\* The channel is there; or a cleanup, which wakes every waiter.
SendWakes(s, t) ==
    /\ t.k = "send" /\ (side[s].pc.chan # "none" \/ t.era # side[s].era)
    /\ Becomes(Ensured(End(Now, s, t), s, "woken"))
    /\ UNCHANGED <<up, spent>>

SendTimesOut(s, t) ==
    /\ t.k = "send" /\ Due
    /\ Becomes(Ensured(End(Now, s, t), s, "woken"))
    /\ UNCHANGED up

Migrating(w, s, t) == IF Holds(w, s, t) /\ up[s] THEN Offering(w, s, t) ELSE End(w, s, t)

\* migrateIcePath
Migrate(s) ==
    LET r == side[s]
        t == [Attempt(Now, s, "migrate") EXCEPT !.at = "stable"]
    IN  /\ r.pc.ice = "conn" /\ Spend("migrate")
        /\ Becomes(IF r.pc.sig = "stable" THEN Migrating(Now, s, t) ELSE Start(Now, s, t))
        /\ UNCHANGED up

MigrateStable(s, t) ==
    /\ t.k = "migrate" /\ t.at = "stable" /\ t.pc = side[s].pc.id /\ side[s].pc.sig = "stable"
    /\ Becomes(Migrating(Now, s, t))
    /\ UNCHANGED <<up, spent>>

MigrateTimesOut(s, t) ==
    /\ t.k = "migrate" /\ t.at = "stable" /\ Due
    /\ Becomes(End(Now, s, t))
    /\ UNCHANGED up

MigratePublishes(s, t) ==
    /\ t.k = "migrate" /\ Resolves(s, t)
    /\ Becomes(End(Offered(Now, s, t), s, t))
    /\ UNCHANGED <<up, spent>>

(***************************************************************************)
(* The specification.                                                      *)
(***************************************************************************)

\* One device is in the channel, waiting for the offer of the newcomer.
Init ==
    /\ \E new \in Side :
        LET t == [NoTask EXCEPT !.k = "dial", !.at = "turn", !.gen = 1, !.by = "join"]
        IN  /\ side = [s \in Side |-> IF s = new THEN [NewSide EXCEPT !.gen = 1, !.going = 1]
                                      ELSE [NewSide EXCEPT !.remote = TRUE, !.fall = TRUE]]
            /\ tasks = [s \in Side |-> IF s = new THEN {t} ELSE {}]
    /\ queue = [s \in Side |-> <<>>]
    /\ net = [s \in Side |-> <<>>]
    /\ up = [s \in Side |-> TRUE]
    /\ spent = [k \in Disturbance |-> 0]

\* A step of work under way.
Works(s) ==
    \/ Receive(s) \/ SdpStarts(s)
    \/ \E t \in tasks[s] :
        \/ DialReady(s, t) \/ DialBuilds(s, t) \/ DialOffers(s, t) \/ DialPublishes(s, t)
        \/ SdpBuilds(s, t) \/ SdpAccepts(s, t) \/ SdpRollsBack(s, t) \/ SdpAnswers(s, t) \/ SdpApplies(s, t)
        \/ RestartStable(s, t) \/ RestartPublishes(s, t) \/ WatchPublishes(s, t)
        \/ SendWakes(s, t) \/ MigrateStable(s, t) \/ MigratePublishes(s, t)

\* A timer.
Fires(s) ==
    \/ RetryFires(s) \/ DisconnectedFires(s) \/ FallbackFires(s)
    \/ WatchStale(s) \/ WatchYields(s) \/ WatchGivesUp(s) \/ WatchRebuilds(s) \/ WatchRestarts(s)
    \/ \E t \in tasks[s] :
        \/ DialRefused(s, t) \/ SendTimesOut(s, t) \/ MigrateTimesOut(s, t)
        \/ RestartStale(s, t) \/ RestartRedials(s, t) \/ RestartExhausted(s, t) \/ RestartWakes(s, t)
        \/ RestartTimesOut(s, t)

Transport(s) == IceConnects(s) \/ IceLost(s) \/ IceFails(s) \/ KeysInstalled(s) \/ ChannelCloses(s)

Outside(s) ==
    \/ Wedges(s) \/ IceDrops(s) \/ SignalingDrops(s) \/ SignalingReturns(s)
    \/ Recover(s) \/ Reconnect(s) \/ Sends(s) \/ Migrate(s)

Next == \E s \in Side : Works(s) \/ Fires(s) \/ Transport(s) \/ Outside(s)

\* Work under way goes on; timers run out; the socket is reopened; the transport does what it
\* can: one whose other end is gone is found out, a disconnected one comes back or fails, one
\* that is not wedged comes up.
Fairness ==
    \A s \in Side :
        /\ WF_vars(Works(s)) /\ WF_vars(~Busy /\ Fires(s)) /\ WF_vars(SignalingReturns(s))
        /\ WF_vars(Transport(s))

Spec == Init /\ [][Next]_vars /\ Fairness

(***************************************************************************)
(* Properties.                                                             *)
(***************************************************************************)

\* Shape of the state; an attempt counter within its bound; no task of a generation to come.
TypeOK ==
    /\ \A s \in Side :
        /\ side[s].gen \in Nat /\ side[s].pc.id \in 0..side[s].gen
        /\ side[s].status \in {"connecting", "reconnecting", "online", "offline"}
        /\ side[s].pc.sig \in {"stable", "local", "remote"}
        /\ side[s].tries \in 0..MaxRestarts
        /\ \A t \in tasks[s] : t.gen <= side[s].gen
    /\ up \in [Side -> BOOLEAN]
    /\ spent \in [Disturbance -> Nat]

\* A connection is never replaced in the map while it is still open: whoever waited for TURN
\* credentials looks again before it installs one (peer-runtime, handleRemoteSDP).
NoLeak == \A s \in Side : side[s].left = {}

\* The restart lock is that of the running restart of the current generation, so that two
\* restarts never renegotiate one connection, and a lock that is held has a restart that will
\* release it: no early return leaks it (attemptIceRestart).
LockOwned == \A s \in Side :
    /\ \A t \in tasks[s] : t.k = "restart" /\ t.gen = side[s].gen => side[s].lock = t.gen
    /\ side[s].lock # 0 => \E t \in tasks[s] : t.k = "restart" /\ t.gen = side[s].lock

\* A side is "making an offer" only while the offer it is making is under way: a flag left
\* behind would make every offer of the other side a collision (beginLocalOffer and the
\* finally blocks).
MakingEnds == \A s \in Side :
    side[s].making => \E t \in tasks[s] : t.at = "offering" /\ t.tok = side[s].seq

\* A connection in the map belongs to the current generation: "Two entry points ... therefore
\* either share one attempt or supersede it" (initiateWebRTC). A generation that is taken while
\* a connection stays leaves that connection with callbacks and timers nobody heeds.
NeverOrphaned == \A s \in Side : side[s].pc.id # 0 => Live(side[s])

\* At rest, two devices that both show the other as online share an encrypted channel of their
\* present connections (handleIceStateChange, publishEncryptedReady).
AtRest == ~Busy /\ \A s \in Side : tasks[s] = {} /\ side[s].pc.ice # "disc"
BothOnline ==
    AtRest /\ (\A s \in Side : side[s].status = "online")
        => \A s \in Side : Healthy(side[s]) /\ side[s].pc.mate = side[Other(s)].pc.id

\* Whatever one disturbance hits it, the loss of a socket apart, no device is for ever on its way
\* to a connection: the watchdog, the retries or the user's button end in a verdict.
Settled(r) == r.status \in {"online", "offline"} \/ Healthy(r)
Calm == /\ spent["blip"] = 0
        /\ \A j, k \in Disturbance : spent[j] * spent[k] > 0 => j = k /\ spent[k] = 1
Settles == []<>(Calm => \A s \in Side : Settled(side[s]))
=============================================================================
