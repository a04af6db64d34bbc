----------------------------- MODULE SendEngine -----------------------------
(***************************************************************************)
(* The sending end of one file transfer: the send task and its engine      *)
(* attempts (lib/transfer/send-engine.ts), the pause/cancel signal         *)
(* (flow-control.ts), and the store's share of it: the retained source     *)
(* file, the delivery state and the transfer card                          *)
(* (store/network/transfer-controller.ts, data-channel-router.ts,          *)
(* network-actions.ts).                                                    *)
(*                                                                         *)
(* An engine attempt is a coroutine; `pc' names the await it is parked at. *)
(* Every event handler and every resumption of a coroutine is one step.    *)
(***************************************************************************)
EXTENDS TransferWire

VARIABLES
    snd,  \* the transfer's entry in each of the sender's maps
    eng   \* the engine attempts

sendVars == <<snd, eng>>

(***************************************************************************)
(* State.                                                                  *)
(***************************************************************************)

\* Where an engine attempt is parked: the row save before the meta, the ready
\* barrier, the lane loops, the drain of the lanes' buffers, the wait for the
\* receiver's ACK, the row update after giving up on the ACK or after seeing it.
\* "refused" is the barrier just after it was released with a refusal.
Pc == {"off", "saving", "ready", "refused", "lanes", "drain", "ack", "giveup", "saved"}

\* Who awaits an attempt, and so handles its outcome: sendFileToPeer, the user's
\* Retry, a resume or repair request of the peer.
Caller == {"first", "user", "peer"}

Delivery == {"none", "queued", "delivered", "saved"}
Card == {"none", "moving", "paused", "failed", "completed"}
Ask == [by : {"user", "peer"}, have : SUBSET Chunk]

Eng ==
    [pc : Pc, by : SUBSET Caller, use : SUBSET Lane, open : SUBSET Lane, over : SUBSET Lane,
     parked : SUBSET Lane, skip : SUBSET Chunk, sent : SUBSET Chunk, next : 0 .. N,
     held : [Lane -> Seq(Chunk)], repair : BOOLEAN, aborted : BOOLEAN, acked : BOOLEAN,
     round : 0 .. MaxRounds - 1]

Snd ==
    [task : 0 .. MaxAtt, active : 0 .. MaxAtt, last : 0 .. MaxAtt, gates : SUBSET Att,
     soft : BOOLEAN, ready : SUBSET Att, paused : BOOLEAN, cancelled : BOOLEAN, closing : BOOLEAN,
     source : BOOLEAN, stash : SUBSET Chunk, asks : SUBSET Ask, delivery : Delivery, card : Card]

\* An attempt works on its own lanes only.
Fits(e) ==
    /\ e.open \cup e.over \cup e.parked \subseteq e.use
    /\ \A l \in Lane \ e.use : e.held[l] = <<>>

SendType == snd \in Snd /\ eng \in [Att -> Eng] /\ \A a \in Att : Fits(eng[a])

Engine(pc, by, lanes, have) ==
    [pc |-> pc, by |-> by, use |-> lanes, open |-> lanes, over |-> {}, parked |-> {},
     skip |-> have, sent |-> {}, next |-> 0, held |-> [l \in Lane |-> <<>>],
     repair |-> FALSE, aborted |-> FALSE, acked |-> FALSE, round |-> 0]

Off == Engine("off", {}, {}, {})

SendInit ==
    /\ snd = [task |-> 0, active |-> 0, last |-> 0, gates |-> {}, soft |-> FALSE, ready |-> {},
              paused |-> FALSE, cancelled |-> FALSE, closing |-> FALSE, source |-> FALSE,
              stash |-> {}, asks |-> {}, delivery |-> "none", card |-> "none"]
    /\ eng = [a \in Att |-> Off]

(***************************************************************************)
(* Helpers.                                                                *)
(***************************************************************************)

LiveTask == snd.task # 0 /\ eng[snd.task].pc # "off"

\* The attempt an id-scoped block refers to.
Current(s) == IF s.active # 0 THEN s.active ELSE s.task

\* isAbortRequested: what every await of attempt a re-checks.
Abort(a) == snd.cancelled \/ snd.soft \/ Current(snd) \in snd.gates \/ a \in snd.gates

Covered(e) == e.skip \cup e.sent

\* acquireChunk's candidates.
Queue(e) == {i \in e.next .. N - 1 : i \notin Covered(e)}

LeastOf(S) == CHOOSE i \in S : \A j \in S : i <= j

\* requeueRanges
Requeued(e, miss) ==
    [e EXCEPT !.skip = @ \ miss, !.sent = @ \ miss, !.next = LeastOf(miss \cup {@}), !.repair = TRUE]

\* settle(false) on every attempt parked at the ready barrier.
Refuse(engines) ==
    [a \in Att |-> IF engines[a].pc = "ready" THEN [engines[a] EXCEPT !.pc = "refused"] ELSE engines[a]]

\* The signal's notifier: it wakes the lanes parked on the task's own signal.
Wake(engines) ==
    IF snd.task = 0 THEN engines ELSE [engines EXCEPT ![snd.task].parked = {}]

\* forgetTransfer: drop the task, its owner record, the signal and the ready
\* flags.  The attempt gates stay.
Forget(s) ==
    [s EXCEPT !.task = 0, !.soft = FALSE, !.stash = {}, !.ready = {}, !.paused = FALSE, !.cancelled = FALSE]

\* An attempt's promise settled: releaseSendAttempt.
Settled(s, a) ==
    LET active == IF s.active = a THEN 0 ELSE s.active
    IN  [s EXCEPT !.gates = @ \ {a}, !.active = active, !.soft = @ /\ active # 0]

Shown(s, card) == IF s.card = "none" THEN s ELSE [s EXCEPT !.card = card]

\* The attempt resolves with `state': the tails of sendFileToPeer and runSendEngine.
Resolved(s, a, state) ==
    LET by == eng[a].by
        final == state = "saved" \/ Legacy
        s1 == [Settled(s, a) EXCEPT !.delivery = state, !.source = @ /\ ~final]
        s2 == IF "first" \in by
              THEN Shown([s1 EXCEPT !.paused = FALSE, !.cancelled = FALSE], "completed")
              ELSE s1
    IN  IF final /\ by \cap {"user", "peer"} # {} THEN Forget(s2) ELSE s2

\* The attempt throws: their catch blocks.
Thrown(s, a, cancel) ==
    LET by == eng[a].by
        s1 == Settled(s, a)
        s2 == IF "first" \in by
              THEN [s1 EXCEPT !.source = FALSE, !.delivery = "none", !.paused = FALSE, !.cancelled = FALSE]
              ELSE s1
        s3 == IF cancel /\ by \cap {"user", "peer"} # {} THEN Forget([s2 EXCEPT !.source = FALSE]) ELSE s2
    IN  IF ~cancel /\ by \cap {"first", "user"} # {} THEN Shown(s3, "failed") ELSE s3

Throw(s, a, cancel) ==
    /\ snd' = Thrown(s, a, cancel)
    /\ eng' = [eng EXCEPT ![a] = Off]

Return(a, state) ==
    /\ snd' = Resolved([snd EXCEPT !.ready = {}], a, state)
    /\ eng' = [Refuse(eng) EXCEPT ![a] = Off]
    /\ UNCHANGED wireVars

\* `continue': the next repair round, or the error once the rounds are used up.
NextRound(a, e) ==
    IF e.round + 1 = MaxRounds
    THEN Throw(snd, a, FALSE)
    ELSE /\ eng' = [eng EXCEPT ![a] = [e EXCEPT !.pc = "lanes", !.round = @ + 1, !.repair = FALSE, !.over = {}]]
         /\ UNCHANGED snd

(***************************************************************************)
(* Starting an attempt.                                                    *)
(***************************************************************************)

\* sendFileToPeer
StartSend ==
    /\ snd.last = 0 /\ net.up = "open"
    /\ snd' = [snd EXCEPT !.task = 1, !.active = 1, !.last = 1, !.source = TRUE, !.card = "moving"]
    /\ eng' = [eng EXCEPT ![1] = Engine("saving", {"first"}, net.lanes, {})]
    /\ UNCHANGED wireVars

\* Mutation: a resume starts a new attempt although the task is live (BUG-014).
Resend_Fresh(s, by, have) ==
    LET a == s.last + 1
    IN  /\ a <= MaxAtt
        /\ snd' = [s EXCEPT !.task = a, !.active = a, !.stash = {}, !.last = a]
        /\ eng' = [eng EXCEPT ![a] = Engine("saving", {by}, net.lanes, have)]

\* sendFileParallel for a transfer that has a record.  A live task is woken and
\* given the peer's bitmap (which an attempt that is still saving its row does not
\* take); a settled one is re-entered under the same attempt, with the stashed
\* repair if there is one; without a task a new attempt starts.
Resend(s, by, have) ==
    IF LiveTask
    THEN /\ snd' = [s EXCEPT !.paused = FALSE]
         /\ eng' = [Wake(eng) EXCEPT
                       ![s.task].skip = IF eng[s.task].pc = "saving" THEN @ ELSE @ \cup have,
                       ![s.task].by = @ \cup {by}]
    ELSE LET a == IF s.task # 0 THEN s.task ELSE s.last + 1
             skip == IF s.stash # {} THEN Chunk \ s.stash ELSE have
         IN  /\ a <= MaxAtt
             /\ snd' = [s EXCEPT !.task = a, !.active = a, !.stash = {},
                                 !.last = IF a > @ THEN a ELSE @]
             /\ eng' = [eng EXCEPT ![a] = Engine("saving", {by}, net.lanes, skip)]

\* handleResumeRequest, reenterSendTaskForRepair and the sender's resumeTransfer,
\* once the file, the row and the lanes are there.  The file was captured before
\* the lanes were awaited and nothing is checked again.
AnswerAsk(q) ==
    /\ q \in snd.asks /\ net.up = "open"
    /\ LET s == [snd EXCEPT !.asks = @ \ {q}]
       IN  Resend(IF q.by = "user" THEN Shown([s EXCEPT !.paused = FALSE], "moving") ELSE s, q.by, q.have)
    /\ UNCHANGED wireVars

\* ensureTransferLanes rejects: no connection.
AskFails(q) ==
    /\ q \in snd.asks /\ net.up # "open"
    /\ snd' = [snd EXCEPT !.asks = @ \ {q}]
    /\ UNCHANGED <<eng, wireVars>>

(***************************************************************************)
(* The engine.                                                             *)
(***************************************************************************)

\* The row is saved: send the metas, one on each lane, drop the ready flags of
\* other attempts, and go to the barrier or straight on.  A lane that has closed
\* throws in the middle of the metas.
SaveDone(a) ==
    LET e == eng[a]
        metas(L) == [net EXCEPT !.out = [l \in Lane |-> IF l \in L THEN Append(@[l], Meta(a)) ELSE @[l]]]
    IN  /\ e.pc = "saving"
        /\ \/ /\ Abort(a)
              /\ Throw(snd, a, TRUE)
              /\ UNCHANGED net
           \/ /\ ~Abort(a) /\ e.open # e.use
              /\ \E L \in SUBSET e.open : net' = metas(L)
              /\ Throw(snd, a, FALSE)
           \/ /\ ~Abort(a) /\ e.open = e.use
              /\ net' = metas(e.use)
              /\ snd' = [snd EXCEPT !.ready = @ \cap {a}]
              /\ eng' = [Refuse(eng) EXCEPT ![a].pc = IF Legacy \/ a \in snd.ready THEN "lanes" ELSE "ready"]
    /\ UNCHANGED spent

\* The barrier was released with a refusal, or its 30 s ran out.
Refused(a) ==
    /\ eng[a].pc = "refused"
    /\ Throw(snd, a, Abort(a))
    /\ UNCHANGED wireVars

\* Mutation: the timer of the barrier is not armed.
ReadyTimeout_Unarmed(a) == eng[a].pc = "off" /\ Spend("timeout") /\ UNCHANGED <<sendVars, net>>

ReadyTimeout(a) ==
    /\ eng[a].pc = "ready" /\ Spend("timeout")
    /\ Throw(snd, a, Abort(a))
    /\ UNCHANGED net

\* prepareNext on lane l: the lane parks while the transfer is paused, takes the
\* next index, or finds none.  A lane that holds an encrypted chunk starts on the
\* next one before it sends, if it is still open.
CanTake(e, l) ==
    /\ e.pc = "lanes" /\ l \in e.use \ (e.over \cup e.parked)
    /\ e.held[l] = <<>> \/ (Len(e.held[l]) = 1 /\ l \in e.open)

Take(a, l) ==
    LET e == eng[a]
    IN  /\ CanTake(e, l)
        /\ eng' = [eng EXCEPT ![a] =
              CASE e.aborted \/ Abort(a) -> [e EXCEPT !.aborted = TRUE, !.over = @ \cup {l}]
                [] ~e.aborted /\ ~Abort(a) /\ snd.paused -> [e EXCEPT !.parked = @ \cup {l}]
                [] ~e.aborted /\ ~Abort(a) /\ ~snd.paused /\ Queue(e) = {} ->
                      [e EXCEPT !.next = N, !.over = @ \cup {l}]
                [] OTHER ->
                      LET i == LeastOf(Queue(e))
                      IN  [e EXCEPT !.next = i + 1, !.held[l] = Append(@, i)]]
        /\ UNCHANGED <<snd, wireVars>>

\* A cancelled transfer drops what the lane holds.
Dropped(e, l) == [e EXCEPT !.aborted = TRUE, !.over = @ \cup {l}, !.held[l] = <<>>]

Prefetching(e, l) == Len(e.held[l]) = 2 \/ l \in e.over \cup e.parked

\* dc.send of the chunk at the head of lane l.
SendChunk(a, l) ==
    LET e == eng[a]
        i == Head(e.held[l])
    IN  /\ e.pc = "lanes" /\ e.held[l] # <<>> /\ l \in e.open /\ Prefetching(e, l)
        /\ IF e.aborted \/ Abort(a)
           THEN eng' = [eng EXCEPT ![a] = Dropped(e, l)] /\ UNCHANGED net
           ELSE /\ eng' = [eng EXCEPT ![a].held[l] = Tail(@), ![a].sent = @ \cup {i}]
                /\ net' = [net EXCEPT !.out[l] = Append(@, Frame(a, i))]
        /\ UNCHANGED <<snd, spent>>

\* The lane has closed, or its buffer stops draining for 30 s: it puts its chunks
\* back and its loop ends.  A lane whose next chunk is parked by a pause waits for it
\* first (the timer of an open lane that is parked is left out).
LaneDies(a, l) ==
    LET e == eng[a]
        waits == l \in e.parked
    IN  /\ e.pc = "lanes" /\ e.held[l] # <<>>
        /\ IF l \in e.open THEN Prefetching(e, l) /\ ~waits /\ Spend("timeout") ELSE UNCHANGED spent
        /\ eng' = [eng EXCEPT ![a] =
              IF e.aborted \/ Abort(a) THEN Dropped(e, l)
              ELSE [e EXCEPT !.next = LeastOf({@} \cup {e.held[l][k] : k \in DOMAIN e.held[l]}),
                             !.over = IF waits THEN @ ELSE @ \cup {l}, !.held[l] = <<>>]]
        /\ UNCHANGED <<snd, net>>

\* Every lane loop has ended.
RoundEnds(a) ==
    LET e == eng[a]
    IN  /\ e.pc = "lanes" /\ e.over = e.use /\ \A l \in e.use : e.held[l] = <<>>
        /\ CASE e.aborted -> Throw([snd EXCEPT !.ready = {}], a, TRUE)
             [] ~e.aborted /\ e.repair /\ e.open # {} -> NextRound(a, e)
             [] ~e.aborted /\ ~(e.repair /\ e.open # {}) /\ Covered(e) # Chunk -> Throw(snd, a, FALSE)
             [] OTHER -> /\ eng' = [eng EXCEPT ![a].pc = "drain"]
                         /\ snd' = IF "first" \in e.by THEN [snd EXCEPT !.delivery = "queued"] ELSE snd
        /\ UNCHANGED wireVars

\* drainLanes returned: delivered, and on to the receiver's ACK.
Drained(a) ==
    LET e == eng[a]
        marked(d) == IF "first" \in e.by THEN [snd EXCEPT !.delivery = d] ELSE snd
    IN  /\ e.pc = "drain"
        /\ CASE Abort(a) -> Throw([snd EXCEPT !.ready = {}], a, TRUE)
             [] ~Abort(a) /\ e.repair -> NextRound(a, e)
             [] OTHER -> /\ eng' = [eng EXCEPT ![a].pc = CASE Legacy -> "giveup" [] e.acked /\ ~Legacy -> "saved"
                                                           [] OTHER -> "ack"]
                         /\ snd' = marked(IF e.acked /\ ~Legacy THEN "saved" ELSE "delivered")
        /\ UNCHANGED wireVars

DrainFails(a) ==
    /\ eng[a].pc = "drain" /\ eng[a].open # {} /\ Spend("timeout")
    /\ Throw(snd, a, Abort(a))
    /\ UNCHANGED net

\* waitForReceiverAck: 60 s without an ACK, or the cancel poll.
AckTimeout(a) ==
    /\ eng[a].pc = "ack" /\ Spend("timeout")
    /\ eng' = [eng EXCEPT ![a].pc = "giveup"]
    /\ UNCHANGED <<snd, net>>

CancelSeen(a) ==
    /\ eng[a].pc = "ack" /\ snd.cancelled
    /\ Throw([snd EXCEPT !.ready = {}], a, TRUE)
    /\ UNCHANGED wireVars

GiveUpDone(a) == eng[a].pc = "giveup" /\ Return(a, "delivered")
SavedDone(a) == eng[a].pc = "saved" /\ Return(a, "saved")

(***************************************************************************)
(* Messages of the receiver.  A transfer without an owner record, which    *)
(* lives as long as the task, ignores them.                                *)
(***************************************************************************)

\* markReceiverReady
OnReady(l) ==
    LET a == Head(net.back[l]).a
    IN  /\ Replied(l, "ready")
        /\ net' = TakeBack(l)
        /\ IF snd.task = a
           THEN /\ snd' = [snd EXCEPT !.ready = @ \cup {a}]
                /\ eng' = IF eng[a].pc = "ready" THEN [eng EXCEPT ![a].pc = "lanes"] ELSE eng
           ELSE UNCHANGED sendVars
        /\ UNCHANGED spent

\* markReceiverRejected, on the primary or on a lane
Rejected ==
    IF snd.task # 0
    THEN /\ snd' = Shown([snd EXCEPT !.ready = {}, !.source = FALSE], "failed")
         /\ eng' = Refuse(eng)
    ELSE UNCHANGED sendVars

OnReject ==
    \/ Heard("reject") /\ net' = TakeControl /\ Rejected /\ UNCHANGED spent
    \/ \E l \in Lane : Replied(l, "reject") /\ net' = TakeBack(l) /\ Rejected /\ UNCHANGED spent

\* applyPeerCancel, on the primary or on a lane
PeerCancels ==
    IF snd.task # 0
    THEN /\ snd' = [snd EXCEPT !.cancelled = TRUE, !.paused = FALSE, !.ready = {}, !.card = "none",
                               !.delivery = "none", !.closing = TRUE]
         /\ eng' = Refuse(Wake(eng))
    ELSE UNCHANGED sendVars

OnCancel ==
    \/ Heard("cancel") /\ net' = TakeControl /\ PeerCancels /\ UNCHANGED spent
    \/ \E l \in Lane : Replied(l, "cancel") /\ net' = TakeBack(l) /\ PeerCancels /\ UNCHANGED spent

\* applyRepairRequest.  A settled task stashes the ranges and is re-entered; an
\* attempt that is still saving its row has no queue yet to put them in.
OnRepair ==
    LET miss == Head(net.control).c
        a == snd.task
        e == eng[a]
        again == Requeued(e, miss)
    IN  /\ Heard("repair")
        /\ net' = TakeControl
        /\ \/ /\ a = 0 \/ (a # 0 /\ LiveTask /\ e.pc = "saving")
              /\ UNCHANGED sendVars
           \/ /\ a # 0 /\ ~LiveTask
              /\ snd' = [snd EXCEPT !.stash = miss,
                                    !.asks = @ \cup {q \in {[by |-> "peer", have |-> {}]} : snd.source}]
              /\ UNCHANGED eng
           \/ /\ a # 0 /\ LiveTask /\ e.pc = "ack"
              /\ NextRound(a, again)
           \/ /\ a # 0 /\ LiveTask /\ e.pc \notin {"saving", "ack"}
              /\ eng' = [eng EXCEPT ![a] = again]
              /\ UNCHANGED snd
        /\ UNCHANGED spent

\* markTransferAcked, and the store's half of `transfer-done'
OnDone ==
    LET a == snd.task
    IN  /\ Heard("done")
        /\ net' = TakeControl
        /\ IF a # 0
           THEN /\ snd' = Forget([snd EXCEPT !.delivery = "saved", !.source = FALSE])
                /\ eng' = [Refuse(eng) EXCEPT ![a].acked = TRUE, ![a].pc = IF @ = "ack" THEN "saved" ELSE @]
           ELSE UNCHANGED sendVars
        /\ UNCHANGED spent

\* applyPeerPause and applyPeerResume
OnPause ==
    /\ Heard("pause") /\ net' = TakeControl
    /\ snd' = IF snd.task # 0 THEN Shown([snd EXCEPT !.paused = TRUE], "paused") ELSE snd
    /\ UNCHANGED <<eng, spent>>

OnGo ==
    /\ Heard("go") /\ net' = TakeControl
    /\ IF snd.task # 0
       THEN snd' = Shown([snd EXCEPT !.paused = FALSE], "moving") /\ eng' = Wake(eng)
       ELSE UNCHANGED sendVars
    /\ UNCHANGED spent

\* handleResumeRequest up to its awaits: it needs the source file and the row.
OnResume ==
    /\ Heard("resume") /\ net' = TakeControl
    /\ snd' = IF snd.source
              THEN [snd EXCEPT !.asks = @ \cup {[by |-> "peer", have |-> Head(net.control).c]}]
              ELSE snd
    /\ UNCHANGED <<eng, spent>>

(***************************************************************************)
(* The user, and the end of a cancelled transfer.                          *)
(***************************************************************************)

UserPause ==
    /\ snd.card = "moving" /\ Spend("pause")
    /\ snd' = [snd EXCEPT !.paused = TRUE, !.card = "paused"]
    /\ UNCHANGED <<eng, net>>

\* resumeTransfer after checkResumePreconditions
UserResume ==
    /\ snd.card \in {"paused", "failed"} /\ net.up = "open" /\ snd.source
    /\ snd' = [snd EXCEPT !.asks = @ \cup {[by |-> "user", have |-> {}]}]
    /\ UNCHANGED <<eng, wireVars>>

\* cancelTransferAction, which tells the peer twice.
UserCancel ==
    /\ snd.card \in {"moving", "paused"} /\ Spend("cancel")
    /\ snd' = [snd EXCEPT !.cancelled = TRUE, !.paused = FALSE, !.card = "none", !.delivery = "none",
                          !.closing = TRUE]
    /\ eng' = Wake(eng)
    /\ net' = IF net.up = "open" THEN [net EXCEPT !.cancel = @ + 2] ELSE net

\* Mutation: the closing does not wait for the engine.
CloseDone_Hasty ==
    /\ snd.closing
    /\ snd' = Forget([snd EXCEPT !.gates = @ \ {Current(snd)}, !.active = 0, !.source = FALSE, !.closing = FALSE])
    /\ eng' = Refuse(eng)
    /\ UNCHANGED wireVars

\* awaitSendEngineSettlement: the engine has settled ...
CloseDone ==
    /\ snd.closing /\ ~LiveTask
    /\ snd' = Forget([snd EXCEPT !.gates = @ \ {Current(snd)}, !.active = 0, !.source = FALSE, !.closing = FALSE])
    /\ eng' = Refuse(eng)
    /\ UNCHANGED wireVars

\* ... or it has not after 30 s and is cut off the wire ...
Neutralise ==
    /\ snd.closing /\ LiveTask /\ ~snd.soft /\ Spend("timeout")
    /\ snd' = [snd EXCEPT !.cancelled = TRUE, !.paused = FALSE, !.soft = TRUE, !.gates = @ \cup {Current(snd)}]
    /\ eng' = Wake(eng)
    /\ UNCHANGED net

\* ... or not after 60 s either, and the closing goes on without it.
Detach ==
    /\ snd.closing /\ LiveTask /\ snd.soft /\ Spend("timeout")
    /\ snd' = Forget([snd EXCEPT !.source = FALSE, !.closing = FALSE])
    /\ eng' = Refuse(eng)
    /\ UNCHANGED net
=============================================================================
