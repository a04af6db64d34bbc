---------------------------- MODULE Negotiation ----------------------------
(***************************************************************************)
(* Negotiation of one WebRTC connection between two devices: who dials,    *)
(* perfect negotiation of crossing offers, the receipts that tie a queued  *)
(* SDP frame to the connection it arrived at, and the generations by which *)
(* work parked on an await learns that its connection is gone.  A side's   *)
(* RTCPeerConnection is named by the generation that built it.  A session  *)
(* description is named by its connection and a count; an offer or answer  *)
(* installs atomically when the browser's operation resolves.              *)
(***************************************************************************)
EXTENDS Integers, Sequences, FiniteSets

CONSTANTS
    Side,    \* the two devices
    Polite,  \* the device with the smaller session id
    Bounds   \* bound: the mixes of disturbances that may happen, one bound per kind

ASSUME SideAssumption == Cardinality(Side) = 2 /\ Polite \in Side

Other(s) == CHOOSE o \in Side : o # s

\* What the environment does a bounded number of times: a timer that fires while work
\* is still on its way, a connection that never comes up, a candidate pair that is lost, a
\* signaling socket that drops, the page coming to the foreground, the reconnect button, a
\* message or file to be sent, a change of ICE servers.
Disturbance == {"slow", "wedge", "drop", "blip", "focus", "user", "send", "migrate"}

ASSUME DisturbanceAssumption == Bounds \subseteq [Disturbance -> Nat]

VARIABLES
    side,   \* per device: what it keeps about the other (the maps of the network store)
    tasks,  \* per device: asynchronous calls parked on an await
    queue,  \* per device: SDP frames behind the one being handled (peerTaskQueues)
    net,    \* per device: frames the signaling server has yet to deliver to it
    up,     \* per device: signaling is authenticated and joined
    spent

vars == <<side, tasks, queue, net, up, spent>>

\* A definition of its own, so that TLC evaluates the set once.
Allowed == Bounds

Spend(k) ==
    /\ spent' = [spent EXCEPT ![k] = @ + 1]
    /\ \E b \in Allowed : \A j \in Disturbance : spent'[j] <= b[j]

(***************************************************************************)
(* A device's state, and the world one synchronous stretch of code changes.*)
(***************************************************************************)

NoDesc == [pc |-> 0, n |-> 0]
NoPc == [id |-> 0, sig |-> "stable", n |-> 0, rem |-> NoDesc, ice |-> "new",
         stuck |-> NoDesc, chan |-> "none", mate |-> 0]
NoWatch == [kind |-> "none", pc |-> 0, gen |-> 0]
NoDisc == [pc |-> 0, gen |-> 0]

\* The peer generation; incarnation of signaling receipts; negotiation state and its
\* era; offer tokens; the initiation under way; the roster row; encryption; ICE recovery;
\* the connection in the map, and connections replaced there without being closed.
NewSide ==
    [gen |-> 0, inc |-> 0, era |-> 0, making |-> FALSE, setting |-> FALSE, seq |-> 0, pub |-> 0,
     going |-> 0, remote |-> FALSE, status |-> "connecting", aes |-> FALSE, rebuilt |-> FALSE,
     tries |-> 0, lock |-> 0, pre |-> 0, retry |-> 0, watch |-> NoWatch, disc |-> NoDisc,
     fall |-> FALSE, pc |-> NoPc, left |-> {}]

Msg(t, d, re) == [t |-> t, d |-> d, re |-> re]
NoMsg == Msg("none", NoDesc, NoDesc)
NoTask == [k |-> "none", at |-> "none", gen |-> 0, pc |-> 0, inc |-> 0, era |-> 0, tok |-> 0,
           tries |-> 0, by |-> "none", m |-> NoMsg]

Now == [side |-> side, tasks |-> tasks, queue |-> queue, net |-> net]
Becomes(w) == side' = w.side /\ tasks' = w.tasks /\ queue' = w.queue /\ net' = w.net

Start(w, s, t) == [w EXCEPT !.tasks[s] = @ \cup {t}]
\* The task settles; an initiation leaves initiatingPeers if the entry is still its own.
End(w, s, t) ==
    [w EXCEPT !.tasks[s] = @ \ {t},
              !.side[s].going = IF t.k = "dial" /\ @ = t.gen THEN 0 ELSE @]
Goes(w, s, t, u) == Start([w EXCEPT !.tasks[s] = @ \ {t}], s, u)

\* captureGenerationAttempt, capturePeerConnectionAttempt: what a task compares after an await.
Attempt(w, s, k) == [NoTask EXCEPT !.k = k, !.gen = w.side[s].gen, !.pc = w.side[s].pc.id]
\* bumpPeerGeneration
Bumped(w, s) == [w EXCEPT !.side[s].gen = @ + 1]
\* isPeerGenerationAttemptCurrent, isPeerConnectionAttemptCurrent (one epoch; the
\* roster row stays).
SameGen(w, s, t) == t.gen = w.side[s].gen
Holds(w, s, t) == SameGen(w, s, t) /\ t.pc # 0 /\ t.pc = w.side[s].pc.id
\* The callbacks of the connection in the map are bound to the generation that built it.
Live(r) == r.pc.id # 0 /\ r.pc.id = r.gen

Described(p) == [pc |-> p.id, n |-> p.n]

\* send: dropped while the socket is down; the server answers for an absent target.
Deliver(w, s, m) == [w EXCEPT !.net[s] = Append(@, m)]
Send(w, s, m) ==
    IF ~up[s] THEN w
    ELSE IF ~up[Other(s)] THEN Deliver(w, s, Msg("gone", NoDesc, NoDesc))
    ELSE Deliver(w, Other(s), m)

(***************************************************************************)
(* Connections: cleanup, creation, dialling.                               *)
(***************************************************************************)

\* cleanupPeerConnection: what a device keeps about the other starts over, but for its tokens,
\* the initiation under way, the roster row and the page's timer; frames queued for the old
\* incarnation will find it gone.
Cleaned(r) ==
    [NewSide EXCEPT
        !.gen = r.gen + 1, !.inc = r.inc + 1, !.era = r.era + 1, !.seq = r.seq, !.going = r.going,
        !.status = r.status, !.rebuilt = r.rebuilt, !.fall = r.fall, !.left = r.left]
Cleanup(w, s) == [w EXCEPT !.side[s] = Cleaned(@), !.queue[s] = <<>>]

\* abandonPeerConnection
Abandoned(w, s, t) ==
    IF w.side[s].pc.id # t.pc THEN w
    ELSE [w EXCEPT !.side[s] = [@ EXCEPT !.pc = NoPc, !.inc = w.side[s].inc + 1, !.pub = 0], !.queue[s] = <<>>]

\* scheduleInitialIceRecovery: the first timer stays.
Watched(r) ==
    IF r.watch.kind # "none" THEN r
    ELSE [r EXCEPT !.watch = [kind |-> "first", pc |-> r.pc.id, gen |-> r.gen]]

\* A new connection enters the map, its callbacks and watchdog installed.
Created(w, s, t, chan) ==
    LET r == w.side[s]
    IN  [w EXCEPT !.side[s] = Watched([r EXCEPT
            !.pc = [NoPc EXCEPT !.id = t.gen, !.chan = chan],
            !.left = IF r.pc.id = 0 THEN r.left ELSE r.left \cup {r.pc.id}])]

\* An initiation of the current generation is joined.
InFlight(r) == r.going # 0 /\ r.going = r.gen

\* whenSignalingReady: parked until the socket is open, authenticated and joined.
Barrier(s) == IF up[s] THEN "turn" ELSE "ready"

\* initiateWebRTC: the generation is taken at once; a connection in the map ends the task.
Dial(w, s, by) ==
    LET v == Bumped(w, s)
        g == v.side[s].gen
        t == [Attempt(v, s, "dial") EXCEPT !.at = Barrier(s), !.by = by, !.era = w.side[s].era]
    IN  IF InFlight(w.side[s]) THEN w
        ELSE IF w.side[s].pc.id # 0 THEN v
        ELSE Start([v EXCEPT !.side[s].going = g], s, t)

\* beginLocalOffer: the token that must still be current when the offer is published.
\* The browser runs the operations of a connection in order: an answer being applied is ahead.
Ahead(s, t) == {u \in tasks[s] : u.at = "applying" /\ u.pc = t.pc}
Offering(w, s, t) ==
    LET q == w.side[s].seq + 1
        m == IF Ahead(s, t) = {} THEN NoMsg ELSE (CHOOSE u \in Ahead(s, t) : TRUE).m
    IN  Goes([w EXCEPT !.side[s] = [@ EXCEPT !.making = TRUE, !.seq = q]], s, t,
             [t EXCEPT !.at = "offering", !.tok = q, !.m = m])
Resolves(s, t) == t.at = "offering" /\ \A u \in Ahead(s, t) : u.m # t.m

\* notifySignalingReady
DialReady(s, t) ==
    /\ t.k = "dial" /\ t.at = "ready" /\ up[s]
    /\ Becomes(IF SameGen(Now, s, t) THEN Goes(Now, s, t, [t EXCEPT !.at = "turn"]) ELSE End(Now, s, t))
    /\ UNCHANGED <<up, spent>>

\* The transport: each side's remote description is one of the other's connection; or is
\* its last one.  The SCTP association of a connection is with one connection of the other side.
Linked(a, b) == a.pc.rem.pc = b.pc.id /\ b.pc.rem.pc = a.pc.id /\ a.pc.id # 0 /\ b.pc.id # 0
Matched(a, b) == Linked(a, b) /\ a.pc.rem = Described(b.pc) /\ b.pc.rem = Described(a.pc)
CanConnect(a, b) == a.pc.ice = "new" /\ Matched(a, b) /\ a.pc.stuck # a.pc.rem
CanEncrypt(a, b) ==
    /\ Live(a) /\ ~a.aes /\ a.pc.ice = "conn" /\ a.pc.mate \in {0, b.pc.id} /\ Linked(a, b)
    /\ b.pc.ice = "conn" /\ b.pc.mate \in {0, a.pc.id} /\ (Live(b) \/ b.aes)
CanClose(a, b) == a.pc.chan = "open" /\ a.pc.mate # b.pc.id

\* Timers run out when nothing else is on its way, or early.
Working == {"turn", "keys", "offering", "rollback", "answering", "applying"}
Busy == \E s \in Side :
    \/ net[s] # <<>> \/ queue[s] # <<>> \/ \E t \in tasks[s] : t.at \in Working
    \/ LET o == side[Other(s)]
       IN  CanConnect(side[s], o) \/ CanEncrypt(side[s], o) \/ CanClose(side[s], o)
Due == IF Busy THEN Spend("slow") ELSE UNCHANGED spent

\* The initiation rejects. The button and the rebuild of an unencrypted session answer
\* with "offline", the rebuild only while its connection could still have come up.
Rejected(w, s, t) ==
    LET r == w.side[s]
        told == \/ t.by = "user"
                \/ t.by = "rebuild" /\ ~r.aes /\ (r.pc.id = 0 \/ r.pc.ice \in {"new", "conn"})
        off == [r EXCEPT !.status = "offline", !.watch = IF t.by = "rebuild" THEN NoWatch ELSE @]
    IN  End(IF SameGen(w, s, t) /\ told THEN [w EXCEPT !.side[s] = off] ELSE w, s, t)

\* whenSignalingReady times out.
DialRefused(s, t) ==
    /\ t.k = "dial" /\ t.at = "ready" /\ ~up[s] /\ Due
    /\ Becomes(Rejected(Now, s, t))
    /\ UNCHANGED up

DialBuilds_Unchecked(s, t) ==
    /\ t.k = "dial" /\ t.at = "turn"
    /\ Becomes(Goes(Created(Now, s, t, "wait"), s, t, [t EXCEPT !.at = "keys", !.pc = t.gen]))
    /\ UNCHANGED <<up, spent>>

\* After the wait for TURN credentials.
DialBuilds(s, t) ==
    /\ t.k = "dial" /\ t.at = "turn"
    /\ Becomes(IF SameGen(Now, s, t) /\ side[s].pc.id = 0
               THEN Goes(Created(Now, s, t, "wait"), s, t, [t EXCEPT !.at = "keys", !.pc = t.gen])
               ELSE End(Now, s, t))
    /\ UNCHANGED <<up, spent>>

\* The key pair is there.
DialOffers(s, t) ==
    /\ t.k = "dial" /\ t.at = "keys"
    /\ Becomes(IF Holds(Now, s, t) THEN Offering(Now, s, t) ELSE End(Abandoned(Now, s, t), s, t))
    /\ UNCHANGED <<up, spent>>

(***************************************************************************)
(* Publishing an offer (createOffer, setLocalDescription, sendLocalOffer). *)
(***************************************************************************)

\* isLocalOfferCurrent
OwnToken(w, s, t) == t.tok = w.side[s].seq

\* The description installs unless the connection has gone, the offer was invalidated,
\* or a remote offer is being answered.
Installs(w, s, t) == Holds(w, s, t) /\ OwnToken(w, s, t) /\ w.side[s].pc.sig # "remote"

\* What the offering task does, up to and including its finally block.
Offered_Stuck(w, s, t) ==
    IF ~Installs(w, s, t) THEN w
    ELSE LET p == [w.side[s].pc EXCEPT !.sig = "local", !.n = @ + 1]
         IN  Send([w EXCEPT !.side[s] = [@ EXCEPT !.pc = p, !.pub = w.side[s].pub + 1, !.making = FALSE]],
                  s, Msg("offer", Described(p), NoDesc))
Offered(w, s, t) ==
    LET p == [w.side[s].pc EXCEPT !.sig = "local", !.n = @ + 1]
        out == IF ~Installs(w, s, t) THEN w
               ELSE Send([w EXCEPT !.side[s] = [@ EXCEPT !.pc = p, !.pub = w.side[s].pub + 1]],
                         s, Msg("offer", Described(p), NoDesc))
    IN  [out EXCEPT !.side[s].making = @ /\ ~OwnToken(w, s, t)]

\* createOffer throws for a connection that is gone or is answering a remote offer.
DialPublishes(s, t) ==
    LET w == Offered(Now, s, t)
    IN  /\ t.k = "dial" /\ Resolves(s, t)
        /\ Becomes(IF Holds(Now, s, t) /\ side[s].pc.sig # "remote" THEN End(w, s, t) ELSE Rejected(w, s, t))
        /\ UNCHANGED <<up, spent>>

(***************************************************************************)
(* Remote descriptions (handleRemoteSDP).                                  *)
(***************************************************************************)

\* captureSignalReceipt
Receipt(s, m) == [m |-> m, inc |-> side[s].inc, gen |-> side[s].gen, pc |-> side[s].pc.id, pub |-> side[s].pub]

\* isSignalReceiptCurrent: an answer needs its connection, and the offer published last
\* when it arrived must still be the last.
Current(s, r) ==
    /\ r.inc = side[s].inc
    /\ r.m.t = "answer" => r.pc # 0 /\ r.pub # 0 /\ r.pub = side[s].pub
    /\ r.pc # 0 => r.gen = side[s].gen /\ r.pc = side[s].pc.id

\* enqueuePeerTask runs one task at a time; a cleanup detaches the chain.
Handling(s) == \E t \in tasks[s] : t.k = "sdp" /\ t.inc = side[s].inc

\* An offer for a channel that failed before it was encrypted starts a new generation.
Outworn(r) ==
    /\ r.pc.id # 0 /\ ~r.aes
    /\ \/ r.status \in {"offline", "reconnecting"}
       \/ r.pc.sig = "stable" /\ r.pc.ice = "conn"

Collides(r) == r.making \/ r.setting \/ r.pc.sig # "stable"

Answering(w, s, t) ==
    Goes([w EXCEPT !.side[s].pc.sig = "remote"], s, t, [t EXCEPT !.at = "answering"])

\* The tie-break: the impolite side ignores a colliding offer; the polite side
\* invalidates its own, rolls it back if it is installed, and accepts.
Accepting(w, s, t) ==
    LET r == w.side[s]
        yielded == [w EXCEPT !.side[s] = [@ EXCEPT !.seq = r.seq + 1, !.making = FALSE]]
    IN  IF ~Collides(r) THEN Answering(w, s, t)
        ELSE IF s # Polite THEN End(w, s, t)
        ELSE IF r.pc.sig = "local" THEN Goes(yielded, s, t, [t EXCEPT !.at = "rollback"])
        ELSE Answering(yielded, s, t)

\* Both descriptions are there.  A transport that is down, or had another connection at its
\* end, is checked again, under the watchdog.
Agreed(r, d) ==
    LET again == r.pc.ice \in {"disc", "fail"} \/ r.pc.rem.pc # d.pc
        p == [r.pc EXCEPT !.sig = "stable", !.rem = d, !.ice = IF again THEN "new" ELSE @]
    IN  IF again /\ Live(r) THEN Watched([r EXCEPT !.pc = p]) ELSE [r EXCEPT !.pc = p]

SdpTask(w, s, r) ==
    [Attempt(w, s, "sdp") EXCEPT !.inc = r.inc, !.era = w.side[s].era, !.tok = r.pub, !.m = r.m]

\* An offer: on the connection in the map, or on a new one once TURN is there.
HandleOffer(w, s, r) ==
    LET heard == [w EXCEPT !.side[s].remote = FALSE]
        clean == IF Outworn(w.side[s]) THEN Cleanup(heard, s) ELSE heard
        fresh == Bumped(clean, s)
    IN  IF clean.side[s].pc.id # 0
        THEN LET t == SdpTask(clean, s, r) IN Accepting(Start(clean, s, t), s, t)
        ELSE Start(fresh, s, [SdpTask(fresh, s, r) EXCEPT !.at = "turn"])

\* An answer is expected while a local offer is out or being made, or another answer is
\* being applied.
AnswerExpected(r) == r.making \/ r.setting \/ r.pc.sig = "local"

HandleAnswer(w, s, r) ==
    IF w.side[s].pc.id = 0 \/ ~AnswerExpected(w.side[s]) THEN w
    ELSE Start([w EXCEPT !.side[s].setting = TRUE], s, [SdpTask(w, s, r) EXCEPT !.at = "applying"])

\* The next frame's turn, up to its first await.
SdpStarts(s) ==
    /\ queue[s] # <<>> /\ ~Handling(s)
    /\ LET r == Head(queue[s])
           w == [Now EXCEPT !.queue[s] = Tail(@)]
       IN  Becomes(IF ~Current(s, r) THEN w
                   ELSE IF r.m.t = "offer" THEN HandleOffer(w, s, r) ELSE HandleAnswer(w, s, r))
    /\ UNCHANGED <<up, spent>>

SdpBuilds(s, t) ==
    /\ t.k = "sdp" /\ t.at = "turn"
    /\ Becomes(IF SameGen(Now, s, t) /\ side[s].pc.id = 0
               THEN Goes(Created(Now, s, t, "none"), s, t, [t EXCEPT !.at = "keys", !.pc = t.gen])
               ELSE End(Now, s, t))
    /\ UNCHANGED <<up, spent>>

SdpAccepts(s, t) ==
    /\ t.k = "sdp" /\ t.at = "keys"
    /\ Becomes(IF Holds(Now, s, t) THEN Accepting(Now, s, t) ELSE End(Abandoned(Now, s, t), s, t))
    /\ UNCHANGED <<up, spent>>

SdpRollsBack(s, t) ==
    /\ t.k = "sdp" /\ t.at = "rollback"
    /\ Becomes(IF Holds(Now, s, t) THEN Answering(Now, s, t) ELSE End(Now, s, t))
    /\ UNCHANGED <<up, spent>>

\* createAnswer resolves.
SdpAnswers(s, t) ==
    LET r == Agreed([side[s] EXCEPT !.pc.n = @ + 1], t.m.d)
    IN  /\ t.k = "sdp" /\ t.at = "answering"
        /\ Becomes(IF ~Holds(Now, s, t) THEN End(Now, s, t)
                   ELSE Send(End([Now EXCEPT !.side[s] = r], s, t),
                             s, Msg("answer", Described(r.pc), t.m.d)))
        /\ UNCHANGED <<up, spent>>

\* applyAnswer resolves; the flag belongs to the negotiation state of its era.
SdpApplies(s, t) ==
    LET w == IF t.era = side[s].era THEN [Now EXCEPT !.side[s].setting = FALSE] ELSE Now
    IN  /\ t.k = "sdp" /\ t.at = "applying"
        /\ Becomes(End(IF t.pc = side[s].pc.id /\ side[s].pc.sig = "local"
                       THEN [w EXCEPT !.side[s] = Agreed(@, t.m.d)]
                       ELSE w, s, t))
        /\ UNCHANGED <<up, spent>>
=============================================================================
