------------------------------ MODULE Transfer ------------------------------
(***************************************************************************)
(* One file transfer between two peers: the sending end (SendEngine), the  *)
(* receiving end (ReceiveEngine) and the connection between them, which    *)
(* may be lost, torn down and opened again, lose a lane, or see the        *)
(* receiver's page reload.                                                 *)
(***************************************************************************)
EXTENDS SendEngine, ReceiveEngine

vars == <<sendVars, recvVars, wireVars>>

Init == SendInit /\ RecvInit /\ WireInit

(***************************************************************************)
(* The connection.                                                         *)
(***************************************************************************)

Without(lanes) == [a \in Att |-> [eng[a] EXCEPT !.open = @ \ lanes]]

\* The connection fails: every channel closes and what it carried is lost.
Drop ==
    /\ net.up = "open" /\ Spend("drop")
    /\ net' = Quiet("dead", net.version)
    /\ eng' = Without(Lane)
    /\ rcv' = [rcv EXCEPT !.due = FALSE]
    /\ UNCHANGED <<snd, disk>>

\* One lane closes while another stays open.
LaneCloses(l) ==
    /\ l \in net.lanes /\ net.lanes # {l} /\ Spend("lane")
    /\ net' = [net EXCEPT !.lanes = @ \ {l}, !.out[l] = <<>>, !.back[l] = <<>>]
    /\ eng' = Without({l})
    /\ UNCHANGED <<snd, recvVars>>

\* The receiver's page reloads; its durable state stays.  A stream that was not
\* closed has written nothing.
Reload ==
    /\ Spend("reload")
    /\ rcv' = Blank(rcv.minted)
    /\ disk' = [disk EXCEPT !.swap = {}]
    /\ net' = IF net.up = "fresh" THEN net ELSE Quiet("dead", net.version)
    /\ eng' = Without(Lane)
    /\ UNCHANGED snd

\* cleanupPeerConnection
Cleanup ==
    /\ net.up = "dead"
    /\ net' = Quiet("fresh", net.version)
    /\ rcv' = Detached(rcv)
    /\ UNCHANGED <<sendVars, disk, spent>>

\* The primary opens and the key exchange completes: queued ACKs are flushed, then
\* the resume requests are sent.
Reopen ==
    LET f == Flushed([rcv EXCEPT !.due = TRUE], Quiet("open", net.version))
    IN  /\ net.up = "fresh"
        /\ net' = f.w /\ rcv' = f.r
        /\ UNCHANGED <<sendVars, disk, spent>>

(***************************************************************************)
(* Next.                                                                   *)
(***************************************************************************)

EngineStep(a) ==
    \/ SaveDone(a) \/ RoundEnds(a) \/ Drained(a) \/ CancelSeen(a) \/ GiveUpDone(a) \/ SavedDone(a)
    \/ \E l \in Lane : Take(a, l) \/ SendChunk(a, l)

Expires(a) == ReadyTimeout(a) \/ DrainFails(a) \/ AckTimeout(a)

SenderHears ==
    \/ \E l \in Lane : OnReady(l)
    \/ OnReject \/ OnCancel \/ OnRepair \/ OnDone \/ OnPause \/ OnGo \/ OnResume

Asked == \E q \in snd.asks : AnswerAsk(q) \/ AskFails(q)

Closing == Neutralise \/ Detach

SenderActs ==
    \/ StartSend \/ Asked \/ SenderHears \/ UserPause \/ UserResume \/ CloseDone \/ Closing \/ UserCancel
    \/ \E a \in Att : EngineStep(a) \/ Expires(a) \/ \E l \in Lane : LaneDies(a, l)

ReceiverHears(l) == OnMeta(l) \/ OnFrame(l)

ReceiverGoesOn ==
    \/ \E h \in rcv.hs : RestoreDone(h)
    \/ \E t \in Session : PrepDone(t)
    \/ \E w \in rcv.fly, saveRow \in BOOLEAN : PersistDone(w, saveRow)
    \/ FinJoin \/ FinRow
    \/ \E x \in rcv.aborts : AbortDrained(x) \/ AbortWiped(x)
    \/ SendResume

ReceiverActs ==
    \/ \E l \in Lane : ReceiverHears(l)
    \/ ReceiverGoesOn \/ OnPeerCancel
    \/ UserPauseR \/ UserResumeR \/ UserCancelR
    \/ \E w \in rcv.fly : PersistFails(w)

Connection == Drop \/ Reload \/ Cleanup \/ Reopen \/ \E l \in Lane : LaneCloses(l)

\* A refused barrier resumes its engine in a microtask, before any other event.
Urgent == \E a \in Att : Refused(a) /\ UNCHANGED recvVars

Next ==
    \/ Urgent
    \/ /\ \A a \in Att : eng[a].pc # "refused"
       /\ \/ SenderActs /\ UNCHANGED recvVars
          \/ ReceiverActs /\ UNCHANGED sendVars
          \/ Connection

Spec == Init /\ [][Next]_vars

(***************************************************************************)
(* Fairness.  The event loops run: a message in a channel is delivered, a  *)
(* parked coroutine is resumed, a timer expires in the end, a torn-down    *)
(* peer is connected again, and a user who paused a transfer resumes it.   *)
(* Nothing obliges a connection to fail or a user to pause or cancel.      *)
(***************************************************************************)

Fairness ==
    /\ WF_vars(Urgent)
    /\ WF_vars(StartSend /\ UNCHANGED recvVars)
    /\ WF_vars(Asked /\ UNCHANGED recvVars)
    /\ WF_vars(CloseDone /\ UNCHANGED recvVars)
    /\ \A a \in Att : WF_vars(EngineStep(a) /\ UNCHANGED recvVars)
    /\ WF_vars(SenderHears /\ UNCHANGED recvVars)
    /\ \A l \in Lane : WF_vars(ReceiverHears(l) /\ UNCHANGED sendVars)
    /\ WF_vars(ReceiverGoesOn /\ UNCHANGED sendVars)
    /\ WF_vars(OnPeerCancel /\ UNCHANGED sendVars)
    /\ WF_vars(UserResume /\ UNCHANGED recvVars)
    /\ WF_vars(UserResumeR /\ UNCHANGED sendVars)
    /\ \A a \in Att : WF_vars(Expires(a) /\ UNCHANGED recvVars)
    /\ \A a \in Att, l \in Lane : WF_vars(l \notin eng[a].open /\ LaneDies(a, l) /\ UNCHANGED recvVars)
    /\ WF_vars(Cleanup) /\ WF_vars(Reopen)

FairSpec == Spec /\ Fairness

(***************************************************************************)
(* Properties.                                                             *)
(***************************************************************************)

TypeOK == NetType /\ SendType /\ RecvType

\* The sender reports a transfer as saved, and drops its source file on that ground,
\* only when the receiver has handed the file over, whatever was lost, repeated or
\* answered late (BUG-016, transfer-controller.ts sendDurableAck, send-engine.ts
\* markTransferAcked).
SavedIsStored == snd.delivery = "saved" => disk.out # "none"

Running == {a \in Att : eng[a].pc # "off"}

\* Until the file is handed over a transfer has one engine at most, however often it
\* is resumed, repaired or retried at once: no chunk is sent by two engines under two
\* shortIds (BUG-014, network-actions.ts resumeTransfer, send-engine.ts
\* sendFileParallel).
OneSender == disk.out = "none" => Cardinality(Running) <= 1

\* No payload reaches a v2 receiver before its backend is committed, so nothing is
\* ever parked in the buffer meant for v1 senders (BUG-011, send-engine.ts
\* waitForReceiverReady, receive-engine.ts receiveChunk).
NoEarlyPayload == net.version = 2 => rcv.buf = {}

\* A chunk the live session counts as received is on disk: after a crash, a resume or
\* a failed write the bitmap never claims bytes that are not there (BUG-017,
\* receive-engine.ts persistChunk, handleMetaMessage).
ReceivedIsDurable == rcv.ses # 0 /\ disk.out = "none" => rcv.got \subseteq Durable(disk)

\* Nothing is delivered with a hole in it (BUG-017, receive-engine.ts finalizeReceive).
NoHoles == disk.out # "broken" /\ rcv.fin # "broken"

\* What a running engine leaves out because the receiver reported it is on the
\* receiver's disk, unless the file was handed over or the receiver has wiped what it
\* had and marked the transfer as failed (send-engine.ts peerReceivedBitmap,
\* receive-engine.ts buildResumeRequest, runTerminalCleanup).
SkippedIsDurable ==
    disk.out = "none" /\ disk.row.st # "failed" => \A a \in Running : eng[a].skip \subseteq Durable(disk)

\* A complete session is on its way to the user: it is being finalized, or a handler
\* or a write that will do so is still under way (data-channel-router.ts
\* deliverCompletedFile after receiveChunk).
CompleteIsDelivered ==
    rcv.got = Chunk /\ disk.out = "none" => rcv.fin # "no" \/ rcv.hs # {} \/ rcv.aborts # {}

\* While the receiver has neither stored the file nor cancelled, nobody cancelled and
\* nothing was rejected, the sender keeps the source it would need for a retry
\* (BUG-016, transfer-controller.ts sendFileToPeer, runSendEngine).
SourceKept ==
    [][snd.source /\ ~snd'.source /\ disk.out = "none" => snd.cancelled \/ snd.closing]_vars

\* A cancel is final: once the card of a transfer is gone, no engine of it works on
\* without having been told to stop, unless the receiver had already acknowledged the
\* file (flow-control.ts cancelTransfer, send-engine.ts isAbortRequested,
\* awaitSendEngineSettlement).
CancelledStaysCancelled ==
    snd.card = "none" /\ snd.last # 0 => \A a \in Running : Abort(a) \/ eng[a].acked

\* Under protocol v1 nothing is ACKed or repaired; still no transfer is lost silently:
\* unless a lane was lost or a timer expired, it is stored whole, or its card on the
\* sender is closed or marked failed (receive-engine.ts receiveChunk,
\* data-channel-router.ts).
NotLostSilently ==
    snd.last # 0 ~> \/ disk.out = "whole"
                    \/ snd.card \in {"none", "failed"}
                    \/ spent["lane"] + spent["timeout"] > 0

\* Every engine comes to an end, whatever timers expire, and a transfer that was
\* paused by either end is saved without any of them (send-engine.ts: each wait is
\* bounded, repair rounds are capped by MAX_REPAIR_ROUNDS, and what a paused receiver
\* drops is repaired by the same engine).
Settles == []<>(IF spent["pause"] = 0 THEN Running = {} ELSE snd.delivery = "saved")

(***************************************************************************)
(* The transfer implements its promise.                                    *)
(***************************************************************************)

Promise == INSTANCE TransferPromise WITH
    stage <- IF disk.out # "none" THEN "stored" ELSE IF snd.last # 0 THEN "offered" ELSE "idle",
    saved <- snd.delivery = "saved"

\* Engines, sessions, losses and retries amount to the promise: the file is stored at
\* most once, and reported as saved only when it is stored (BUG-016).
Implements == Promise!Spec
=============================================================================
