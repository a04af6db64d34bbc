---------------------------- MODULE TransferWire ----------------------------
(***************************************************************************)
(* What the two ends of one file transfer share: the peer connection.      *)
(* A transfer runs over one primary DataChannel and a set of transfer      *)
(* lanes, every one of them ordered and reliable while it is open.  The    *)
(* sender's metas and chunk frames travel on the lanes and the receiver    *)
(* answers a meta on the lane it came on; all other control messages       *)
(* travel on the primary.  The bytes of a chunk, its IV and its encryption *)
(* are abstracted to the chunk's index.                                    *)
(***************************************************************************)
EXTENDS Integers, FiniteSets, Sequences

CONSTANTS
    N,         \* chunks of the file (totalChunks)
    Lane,      \* the transfer lanes of a connection
    MaxAtt,    \* bound: engine attempts (shortIds) the sender may start
    MaxMint,   \* bound: receive sessions (attempt tokens) that may be created
    Versions,  \* the protocol versions the peers may have negotiated
    Streamed,  \* the receive backend is a file stream, committed when it is closed
    PreCap,    \* chunks the receiver may hold before its backend commits
    MaxRounds, \* MAX_REPAIR_ROUNDS
    Bounds     \* bound: the mixes of disturbances that may happen, one bound per kind

Chunk == 0 .. N - 1
Att == 1 .. MaxAtt

\* The disturbances: loss of the connection, loss of one lane, a page reload of
\* the receiver, a pause, a cancel, an expired timer, a failed disk write.
Disturbance == {"drop", "lane", "reload", "pause", "cancel", "timeout", "fault"}

ASSUME SizeAssumption == N \in Nat \ {0} /\ Lane # {} /\ IsFiniteSet(Lane)
ASSUME AttAssumption == MaxAtt \in Nat \ {0} /\ MaxMint \in Nat \ {0}
ASSUME ModeAssumption == Versions \subseteq {1, 2} /\ Versions # {} /\ Streamed \in BOOLEAN
ASSUME CapAssumption == PreCap \in Nat /\ MaxRounds \in Nat \ {0}
ASSUME BoundAssumption == Bounds \subseteq [Disturbance -> Nat]

VARIABLES
    net,   \* the connection and the messages in flight
    spent  \* how many disturbances of each kind have happened

wireVars == <<net, spent>>

\* A connection is open, dead (its channels have closed but the peer entry has
\* not been torn down), or fresh (torn down, the next one not open yet).
Phase == {"open", "dead", "fresh"}

Meta(a) == [t |-> "meta", a |-> a, i |-> 0]
Frame(a, i) == [t |-> "chunk", a |-> a, i |-> i]

\* The receiver's control messages on the primary.
Control ==
    [t : {"pause", "go", "done", "cancel", "reject"}, c : {{}}] \cup [t : {"repair", "resume"}, c : SUBSET Chunk]
Ctl(t) == [t |-> t, c |-> {}]

Sent == [t : {"meta", "chunk"}, a : Att, i : Chunk]
Reply == [t : {"ready"}, a : Att] \cup [t : {"reject", "cancel"}, a : 0 .. MaxAtt]

Net ==
    [up : Phase, version : Versions, lanes : SUBSET Lane, out : [Lane -> Seq(Sent)],
     back : [Lane -> Seq(Reply)], control : Seq(Control), cancel : Nat]

NetType == net \in Net /\ spent \in [Disturbance -> Nat]

\* negotiated < 2: no ready, no ACK.
Legacy == net.version = 1

\* A connection with nothing in flight.
Quiet(phase, version) ==
    [up |-> phase, version |-> version, lanes |-> IF phase = "open" THEN Lane ELSE {},
     out |-> [l \in Lane |-> <<>>], back |-> [l \in Lane |-> <<>>],
     control |-> <<>>, cancel |-> 0]

WireInit ==
    /\ \E v \in Versions : net = Quiet("open", v)
    /\ spent = [k \in Disturbance |-> 0]

\* A definition of its own, so that TLC evaluates the set once.
Allowed == Bounds

Spend(k) ==
    /\ spent' = [spent EXCEPT ![k] = @ + 1]
    /\ \E b \in Allowed : \A j \in Disturbance : spent'[j] <= b[j]

\* The receiver's sends; a channel that is not open is skipped.
Say(w, ms) == IF w.up = "open" THEN [w EXCEPT !.control = @ \o ms] ELSE w

\* The answers ts to x on the lane it came on.
Put(back, x, ts) == [back EXCEPT ![x.l] = @ \o [k \in DOMAIN ts |-> [t |-> ts[k], a |-> x.a]]]

\* Each channel delivers its oldest message.
Arrives(l, t) == net.out[l] # <<>> /\ Head(net.out[l]).t = t
Replied(l, t) == net.back[l] # <<>> /\ Head(net.back[l]).t = t
Heard(t) == net.control # <<>> /\ Head(net.control).t = t

TakeOut(l) == [net EXCEPT !.out[l] = Tail(@)]
TakeBack(l) == [net EXCEPT !.back[l] = Tail(@)]
TakeControl == [net EXCEPT !.control = Tail(@)]
=============================================================================
