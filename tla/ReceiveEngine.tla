---------------------------- MODULE ReceiveEngine ----------------------------
(***************************************************************************)
(* The receiving end of one file transfer: the receive session, the choice *)
(* of a backend, the writing of chunks, completion and the terminal        *)
(* cleanup (lib/transfer/receive-engine.ts), and the store's share of it:  *)
(* the shortId routing, the delivery and the durable ACK                   *)
(* (store/network/transfer-controller.ts, data-channel-router.ts,          *)
(* network-actions.ts).                                                    *)
(*                                                                         *)
(* Every message handler is a coroutine; a handler that is parked at an    *)
(* await is a member of `hs', `fly' or `aborts', and each of its           *)
(* resumptions is a step.                                                  *)
(***************************************************************************)
EXTENDS TransferWire, FiniteSetsExt

VARIABLES
    rcv,   \* the receiver's memory
    disk   \* what survives a reload: the row, the chunk store, the output file

recvVars == <<rcv, disk>>

(***************************************************************************)
(* State.                                                                  *)
(***************************************************************************)

Session == 0 .. MaxMint    \* 0: none, or the empty attempt token
Absent == -1               \* no preparation in flight

\* A meta handler: restoring the session from the row, or awaiting the preparation
\* that captured the token `tok'.  `st': the connection it came on was torn down.
Handler == [l : Lane, a : Att, ph : {"read", "prep"}, ses : Session, tok : Session, st : BOOLEAN]

\* A chunk being written, the lanes whose handlers await it and are still current,
\* and whether its session is still the one in the map.
Write == [i : Chunk, ls : SUBSET Lane, live : BOOLEAN]

\* An abort: draining the writes, or wiping after the row was marked failed.  Whoever
\* awaits it goes on by clearing the signal, by forgetting the transfer, or not at all.
Cleaning == [tok : Session, ph : {"drain", "wipe"}, next : {"nothing", "clear", "forget"}]

Rcv ==
    [ses : Session, tok : Session, minted : Session, short : 0 .. MaxAtt, map : 0 .. MaxAtt,
     got : SUBSET Chunk, buf : SUBSET (Att \X Chunk), res : {"none", "ok", "full", "bad"},
     fly : SUBSET Write, hs : SUBSET Handler, prep : Session \cup {Absent}, handle : BOOLEAN,
     paused : BOOLEAN, cancelled : BOOLEAN, aborts : SUBSET Cleaning, delivered : BOOLEAN,
     fin : {"no", "join", "whole", "broken"}, ackq : BOOLEAN, due : BOOLEAN]

Row == [st : {"none", "active", "failed", "completed"}, bm : SUBSET Chunk, tok : Session]

Disk == [row : Row, idb : SUBSET Chunk, swap : SUBSET Chunk, out : {"none", "whole", "broken"}]

RecvType == rcv \in Rcv /\ IsFiniteSet(rcv.hs) /\ disk \in Disk

Blank(minted) ==
    [ses |-> 0, tok |-> 0, minted |-> minted, short |-> 0, got |-> {}, buf |-> {}, res |-> "none",
     fly |-> {}, hs |-> {}, prep |-> Absent, handle |-> FALSE, map |-> 0,
     paused |-> FALSE, cancelled |-> FALSE, aborts |-> {}, delivered |-> FALSE, fin |-> "no",
     ackq |-> FALSE, due |-> FALSE]

RecvInit ==
    /\ rcv = Blank(0)
    /\ disk = [row |-> [st |-> "none", bm |-> {}, tok |-> 0], idb |-> {}, swap |-> {}, out |-> "none"]

(***************************************************************************)
(* Helpers.                                                                *)
(***************************************************************************)

\* receiveSessions.delete
DropSession(r) ==
    [r EXCEPT !.ses = 0, !.tok = 0, !.short = 0, !.got = {}, !.buf = {}, !.res = "none",
              !.fly = {[w EXCEPT !.live = FALSE] : w \in @}]

Unmapped(r, a) == IF r.map = a THEN [r EXCEPT !.map = 0] ELSE r

\* abortInboundTransfer up to its first await.
Aborting(r, next) ==
    [r EXCEPT !.cancelled = TRUE, !.paused = FALSE,
              !.aborts = @ \cup {[tok |-> r.tok, ph |-> "drain", next |-> next]}]

\* deliverCompletedFile's failure branch.
DeliveryFailed(r) == Aborting([r EXCEPT !.delivered = FALSE, !.fin = "no", !.map = 0], "clear")

\* deliverCompletedFile up to finalizeReceive's first await.
Deliver(r) ==
    CASE r.delivered -> r
      [] ~r.delivered /\ r.ses = 0 -> DeliveryFailed(r)
      [] OTHER -> [r EXCEPT !.delivered = TRUE, !.fin = "join"]

Durable(d) == IF Streamed THEN d.swap ELSE d.idb

\* Mutation: of two overlapping writes to a stream the first to end is lost.
Written_Unqueued(r, d, i) ==
    CASE Streamed /\ Cardinality(r.fly) > 1 -> d
      [] Streamed /\ Cardinality(r.fly) <= 1 /\ r.handle -> [d EXCEPT !.swap = @ \cup {i}]
      [] Streamed /\ Cardinality(r.fly) <= 1 /\ ~r.handle -> d
      [] OTHER -> [d EXCEPT !.idb = @ \cup {i}]

\* The durable write of chunk i.  A stream without a handle swallows it.
Written(r, d, i) ==
    CASE Streamed /\ r.handle -> [d EXCEPT !.swap = @ \cup {i}]
      [] Streamed /\ ~r.handle -> d
      [] OTHER -> [d EXCEPT !.idb = @ \cup {i}]

\* updateTransfer: a row that is not there stays absent.
RowBitmap(d, bm) == IF d.row.st = "none" THEN d ELSE [d EXCEPT !.row.bm = bm]
RowStatus(d, st) == IF d.row.st = "none" THEN d ELSE [d EXCEPT !.row.st = st]

\* prepareReceiveBackend without a cached result: handler h joins the preparation in
\* flight or starts one for the session's present token.
Joined(r, h) ==
    LET t == IF r.prep = Absent THEN r.tok ELSE r.prep
    IN  [r EXCEPT !.prep = t, !.hs = @ \cup {[h EXCEPT !.ph = "prep", !.tok = t]}]

\* dc.send of the answers ts to all of H; a lane that is not open is skipped.
Answers(w, H, ts) ==
    [w EXCEPT !.back = FoldSet(LAMBDA x, b : Put(b, x, ts), w.back, {x \in H : x.l \in w.lanes})]

\* The rest of handleIncomingMeta for the handlers H, which see the result `res': a
\* current one answers ready, or rejects and aborts; a stale one aborts.  A session
\* that was complete when its backend was committed is delivered.
Told(r, w, H, res) ==
    LET stale == {h \in H : h.st}
        current == H \ stale
        dead == IF res = "bad" THEN H ELSE stale
        answer == IF res = "bad" THEN <<"reject", "cancel">> ELSE <<"ready">>
        r1 == IF dead = {} THEN r ELSE Aborting(r, "nothing")
        r2 == IF \E h \in dead : h.a = r.map THEN [r1 EXCEPT !.map = 0] ELSE r1
    IN  [w |-> Answers(w, current, answer),
         r |-> IF res = "full" /\ current # {} THEN Deliver(r2) ELSE r2]

\* Mutation: ready is answered before the backend is committed.
Prepare_Eager(r, w, h) ==
    IF r.res # "none" THEN Told(r, w, {h}, r.res)
    ELSE [r |-> Joined(r, h), w |-> Answers(w, {h}, <<"ready">>)]

\* The handler goes on to the preparation.
Prepare(r, w, h) == IF r.res # "none" THEN Told(r, w, {h}, r.res) ELSE [r |-> Joined(r, h), w |-> w]

(***************************************************************************)
(* Meta: session, restore, preparation, answer.                            *)
(***************************************************************************)

\* handleIncomingMeta up to its first real await.  A session in the map takes the
\* new shortId; otherwise a session is created at once and its row is read.
OnMeta(l) ==
    LET a == Head(net.out[l]).a
        h == [l |-> l, a |-> a, ph |-> "read", ses |-> rcv.ses, tok |-> rcv.tok, st |-> FALSE]
        routed == [rcv EXCEPT !.map = a, !.short = a]
        on == Prepare(routed, TakeOut(l), h)
        m == rcv.minted + 1
    IN  /\ Arrives(l, "meta")
        /\ \/ /\ rcv.ses # 0
              /\ rcv' = on.r /\ net' = on.w
           \/ /\ rcv.ses = 0 /\ m <= MaxMint
              /\ rcv' = [routed EXCEPT !.ses = m, !.tok = m, !.minted = m,
                                       !.hs = @ \cup {[h EXCEPT !.ses = m, !.tok = m]}]
              /\ net' = TakeOut(l)
        /\ UNCHANGED <<disk, spent>>

\* The rest of handleMetaMessage: merge what the row and the chunk store hold, take
\* over the row's attempt token, save the row as active.  Then the handler goes on
\* to the preparation, or aborts when its connection is gone.
RestoreDone(h) ==
    LET mine == rcv.ses = h.ses
        prior == IF disk.row.st = "none" THEN {} ELSE disk.row.bm \cup disk.idb
        tok == IF disk.row.st = "none" THEN h.tok ELSE disk.row.tok
        r0 == [rcv EXCEPT !.hs = @ \ {h}]
        r1 == IF mine THEN [r0 EXCEPT !.got = @ \cup prior, !.tok = tok] ELSE r0
        on == Prepare(r1, net, h)
    IN  /\ h \in rcv.hs /\ h.ph = "read"
        /\ disk' = [disk EXCEPT !.row = [st |-> "active", tok |-> tok, bm |-> IF mine THEN r1.got ELSE prior]]
        /\ \/ h.st /\ rcv' = Unmapped(Aborting(r1, "nothing"), h.a) /\ UNCHANGED net
           \/ ~h.st /\ rcv' = on.r /\ net' = on.w
        /\ UNCHANGED spent

\* The preparation that captured token t settles.  Its new stream replaces the old
\* one.  It commits the backend and writes the buffered frames, which fail if they
\* were sealed for another shortId than the session's; or it finds the session it was
\* started for gone and removes the stream.
PrepDone(t) ==
    LET H == {h \in rcv.hs : h.ph = "prep" /\ h.tok = t}
        alive == rcv.ses # 0 /\ rcv.tok = t
        foreign == ~Legacy /\ \E x \in rcv.buf : x[1] # rcv.short
        indexes == IF alive /\ ~foreign THEN {x[2] : x \in rcv.buf} ELSE {}
        got == rcv.got \cup indexes
        res == CASE ~alive \/ foreign -> "bad" [] alive /\ ~foreign /\ got = Chunk -> "full" [] OTHER -> "ok"
        r0 == [rcv EXCEPT !.hs = @ \ H, !.prep = IF @ = t THEN Absent ELSE @, !.handle = Streamed /\ alive]
        r1 == IF alive THEN [r0 EXCEPT !.buf = {}, !.got = got, !.res = res] ELSE r0
        d == IF Streamed THEN [disk EXCEPT !.swap = indexes] ELSE [disk EXCEPT !.idb = @ \cup indexes]
        on == Told(r1, net, H, res)
    IN  /\ H # {} \/ rcv.prep = t
        /\ rcv' = on.r /\ net' = on.w
        /\ disk' = IF res = "full" /\ indexes # {} THEN RowBitmap(d, got) ELSE d
        /\ UNCHANGED spent

(***************************************************************************)
(* Chunks.                                                                 *)
(***************************************************************************)

\* Mutation: the sender is not told.
ChunkFails_Silent(r, w, L) ==
    IF L = {} THEN [r |-> r, w |-> w]
    ELSE [r |-> [Aborting(r, "nothing") EXCEPT !.map = 0], w |-> w]

\* The catch of the frame handlers on the lanes L.
ChunkFails(r, w, L) ==
    IF L = {} THEN [r |-> r, w |-> w]
    ELSE [r |-> [Aborting(r, "nothing") EXCEPT !.map = 0],
          w |-> Answers(w, {[l |-> l, a |-> r.map] : l \in L}, <<"cancel", "reject">>)]

\* receiveChunk up to its first await.
OnFrame(l) ==
    LET a == Head(net.out[l]).a
        i == Head(net.out[l]).i
        known == rcv.map = a /\ rcv.ses # 0 /\ ~rcv.cancelled /\ ~rcv.paused /\ i \notin rcv.got
        same == {w \in rcv.fly : w.live /\ w.i = i}
        buffered == \E x \in rcv.buf : x[2] = i
        overflow == ChunkFails(rcv, TakeOut(l), {l})
    IN  /\ Arrives(l, "chunk")
        /\ \/ /\ \/ ~known
                 \/ known /\ same = {} /\ rcv.res = "none" /\ buffered
                 \/ known /\ same = {} /\ rcv.res = "none" /\ ~buffered /\ ~Legacy /\ Cardinality(rcv.buf) >= PreCap
              /\ UNCHANGED rcv /\ net' = TakeOut(l)
           \/ /\ known /\ same # {}
              /\ rcv' = [rcv EXCEPT !.fly = (@ \ same) \cup {[w EXCEPT !.ls = @ \cup {l}] : w \in same}]
              /\ net' = TakeOut(l)
           \/ /\ known /\ same = {} /\ rcv.res = "none" /\ ~buffered /\ Cardinality(rcv.buf) < PreCap
              /\ rcv' = [rcv EXCEPT !.buf = @ \cup {<<a, i>>}]
              /\ net' = TakeOut(l)
           \/ /\ known /\ same = {} /\ rcv.res = "none" /\ ~buffered /\ Legacy /\ Cardinality(rcv.buf) >= PreCap
              /\ rcv' = overflow.r /\ net' = overflow.w
           \/ /\ known /\ same = {} /\ rcv.res # "none"
              /\ rcv' = [rcv EXCEPT !.fly = @ \cup {[i |-> i, ls |-> {l}, live |-> TRUE]}]
              /\ net' = TakeOut(l)
        /\ UNCHANGED <<disk, spent>>

\* Mutation: completeness is tested with the bitmap as it was before the write.
PersistDone_Stale(w, saveRow) ==
    LET d == Written(rcv, disk, w.i)
        got == rcv.got \cup {w.i}
        done == w.live /\ rcv.got = Chunk
        r == [rcv EXCEPT !.fly = @ \ {w}, !.got = IF w.live THEN got ELSE @]
    IN  /\ w \in rcv.fly
        /\ saveRow \in (IF w.live THEN {done, TRUE} ELSE {FALSE})
        /\ disk' = IF saveRow THEN RowBitmap(d, got) ELSE d
        /\ rcv' = IF done /\ w.ls # {} THEN Deliver(r) ELSE r
        /\ UNCHANGED wireVars

\* Mutation: the row's bitmap also names the chunks that are still being written.
PersistDone_InFlight(w, saveRow) ==
    LET d == Written(rcv, disk, w.i)
        got == rcv.got \cup {w.i}
        done == w.live /\ got = Chunk
        r == [rcv EXCEPT !.fly = @ \ {w}, !.got = IF w.live THEN got ELSE @]
    IN  /\ w \in rcv.fly
        /\ saveRow \in (IF w.live THEN {done, TRUE} ELSE {FALSE})
        /\ disk' = IF saveRow THEN RowBitmap(d, got \cup {x.i : x \in rcv.fly}) ELSE d
        /\ rcv' = IF done /\ w.ls # {} THEN Deliver(r) ELSE r
        /\ UNCHANGED wireVars

\* The rest of persistChunk and of its handlers: durable write, bitmap, the row's
\* bitmap (always at the end, otherwise when its interval has passed), delivery.
PersistDone(w, saveRow) ==
    LET d == Written(rcv, disk, w.i)
        got == rcv.got \cup {w.i}
        done == w.live /\ got = Chunk
        r == [rcv EXCEPT !.fly = @ \ {w}, !.got = IF w.live THEN got ELSE @]
    IN  /\ w \in rcv.fly
        /\ saveRow \in (IF w.live THEN {done, TRUE} ELSE {FALSE})
        /\ disk' = IF saveRow THEN RowBitmap(d, got) ELSE d
        /\ rcv' = IF done /\ w.ls # {} THEN Deliver(r) ELSE r
        /\ UNCHANGED wireVars

PersistFails(w) ==
    LET failed == ChunkFails([rcv EXCEPT !.fly = @ \ {w}], net, w.ls)
    IN  /\ w \in rcv.fly /\ Spend("fault")
        /\ rcv' = failed.r /\ net' = failed.w
        /\ UNCHANGED disk

(***************************************************************************)
(* Completion: finalizeReceive and the rest of deliverCompletedFile.       *)
(***************************************************************************)

\* Mutation: the ACK leaves before the row and the file are published.
FinJoin_EarlyAck ==
    /\ rcv.fin = "join" /\ \A w \in rcv.fly : ~w.live
    /\ rcv.ses # 0 /\ rcv.got = Chunk
    /\ rcv' = [rcv EXCEPT !.fin = IF Durable(disk) = Chunk THEN "whole" ELSE "broken"]
    /\ net' = Say(net, <<Ctl("done")>>)
    /\ UNCHANGED <<disk, spent>>

\* The writes have drained: check, close the backend, assemble the file.  A stream's
\* size shows only that its last chunk was written.
FinJoin ==
    LET sound == rcv.ses # 0 /\ rcv.got = Chunk
                   /\ IF Streamed THEN rcv.handle /\ N - 1 \in disk.swap ELSE disk.idb = Chunk
    IN  /\ rcv.fin = "join" /\ \A w \in rcv.fly : ~w.live
        /\ rcv' = IF ~sound THEN DeliveryFailed(rcv)
                  ELSE [rcv EXCEPT !.fin = IF Durable(disk) = Chunk THEN "whole" ELSE "broken"]
        /\ UNCHANGED <<disk, wireVars>>

\* flushPendingDurableAcks
Flushed(r, w) ==
    IF w.up = "open" /\ r.ackq
    THEN [r |-> [r EXCEPT !.ackq = FALSE], w |-> Say(w, <<Ctl("done")>>)]
    ELSE [r |-> r, w |-> w]

\* The row is completed, the chunks are deleted, session and signals dropped; the
\* file is handed to the user and the durable ACK queued.
FinRow ==
    LET r == [DropSession(rcv) EXCEPT !.fin = "no", !.handle = FALSE, !.map = 0, !.ackq = TRUE,
                                      !.paused = FALSE, !.cancelled = FALSE]
        f == Flushed(r, net)
    IN  /\ rcv.fin \in {"whole", "broken"}
        /\ disk' = [RowStatus(disk, "completed") EXCEPT !.idb = {}, !.swap = {}, !.out = rcv.fin]
        /\ rcv' = f.r /\ net' = f.w
        /\ UNCHANGED spent

(***************************************************************************)
(* The terminal cleanup of an aborted transfer.                            *)
(***************************************************************************)

\* resolveIntentTarget for a cleanup: the live session, or else the row, is still the
\* attempt the abort was started for.  Without an attempt token nothing is asked.
Targets(x) ==
    \/ x.tok = 0
    \/ rcv.ses # 0 /\ rcv.tok = x.tok
    \/ rcv.ses = 0 /\ (disk.row.st = "none" \/ disk.row.tok = x.tok)

\* What the caller of the abort x does once it has ended, dropped or not:
\* deliverCompletedFile clears the signal, a cancel runs forgetTransfer.
Ended(r, x) ==
    LET signalled == [r EXCEPT !.paused = FALSE, !.cancelled = FALSE]
    IN  CASE x.next = "nothing" -> r
          [] x.next = "clear" -> signalled
          [] x.next = "forget" -> [DropSession(signalled) EXCEPT !.prep = Absent]

\* The writes have drained: the row is marked failed.  A cleanup whose target has
\* changed is dropped.
AbortDrained(x) ==
    LET rest == [rcv EXCEPT !.aborts = @ \ {x}]
    IN  /\ x \in rcv.aborts /\ x.ph = "drain"
        /\ x.tok # 0 => \A w \in rcv.fly : ~w.live
        /\ \/ /\ Targets(x)
              /\ rcv' = [rest EXCEPT !.aborts = @ \cup {[x EXCEPT !.ph = "wipe"]}]
              /\ disk' = RowStatus(disk, "failed")
           \/ /\ ~Targets(x)
              /\ rcv' = Ended(rest, x)
              /\ UNCHANGED disk
        /\ UNCHANGED wireVars

\* Backend, chunks and session go; with them, unless there was no session to begin
\* with, the signal and the preparation.
AbortWiped(x) ==
    LET rest == [rcv EXCEPT !.aborts = @ \ {x}]
        gone == [DropSession(rest) EXCEPT !.handle = FALSE, !.fin = IF Streamed /\ @ = "whole" THEN "broken" ELSE @]
    IN  /\ x \in rcv.aborts /\ x.ph = "wipe"
        /\ \/ /\ Targets(x)
              /\ rcv' = Ended(IF x.tok = 0 THEN gone
                              ELSE [gone EXCEPT !.paused = FALSE, !.cancelled = FALSE, !.prep = Absent], x)
              /\ disk' = [disk EXCEPT !.idb = {}, !.swap = {}]
           \/ /\ ~Targets(x)
              /\ rcv' = Ended(rest, x)
              /\ UNCHANGED disk
        /\ UNCHANGED wireVars

(***************************************************************************)
(* The user, the peer's cancel, the connection.                            *)
(***************************************************************************)

\* The transfer card is there from the first ready answer until the cancel.
Carded == rcv.res \in {"ok", "full"} /\ ~rcv.cancelled

UserPauseR ==
    /\ Carded /\ ~rcv.paused /\ Spend("pause")
    /\ rcv' = [rcv EXCEPT !.paused = TRUE]
    /\ net' = Say(net, <<Ctl("pause")>>)
    /\ UNCHANGED disk

\* resumeTransfer on the receiving side: resume, and the repair of what is missing.
UserResumeR ==
    LET missing == Chunk \ rcv.got
        repair == IF missing = {} THEN <<>> ELSE <<[t |-> "repair", c |-> missing]>>
    IN  /\ Carded /\ rcv.paused /\ net.up = "open"
        /\ rcv' = [rcv EXCEPT !.paused = FALSE]
        /\ net' = Say(net, <<Ctl("go")>> \o repair)
        /\ UNCHANGED <<disk, spent>>

\* cancelTransferAction: its own notice, then the two of abortInboundTransfer.
UserCancelR ==
    /\ Carded /\ Spend("cancel")
    /\ rcv' = Aborting(rcv, "forget")
    /\ net' = Say(net, <<Ctl("cancel"), Ctl("cancel"), Ctl("reject")>>)
    /\ UNCHANGED disk

\* applyPeerCancel
OnPeerCancel ==
    /\ net.cancel > 0
    /\ net' = [net EXCEPT !.cancel = @ - 1]
    /\ rcv' = IF rcv.ses # 0 THEN Aborting(rcv, "forget") ELSE rcv
    /\ UNCHANGED <<disk, spent>>

\* Mutation: the request also names the chunks that are still being written.
SendResume_InFlight ==
    LET ask == [t |-> "resume", c |-> disk.row.bm \cup disk.idb \cup {w.i : w \in rcv.fly}]
    IN  /\ rcv.due
        /\ rcv' = [rcv EXCEPT !.due = FALSE]
        /\ net' = IF disk.row.st = "active" THEN Say(net, <<ask>>) ELSE net
        /\ UNCHANGED <<disk, spent>>

\* sendResumeRequests, after the connection opened and the row was read.
SendResume ==
    LET ask == [t |-> "resume", c |-> disk.row.bm \cup disk.idb]
    IN  /\ rcv.due
        /\ rcv' = [rcv EXCEPT !.due = FALSE]
        /\ net' = IF disk.row.st = "active" THEN Say(net, <<ask>>) ELSE net
        /\ UNCHANGED <<disk, spent>>

\* The receiver's share of cleanupPeerConnection: every handler's attempt is over,
\* the routing and the queued ACK are deleted.
Detached(r) ==
    [r EXCEPT !.hs = {[h EXCEPT !.st = TRUE] : h \in @}, !.fly = {[w EXCEPT !.ls = {}] : w \in @},
              !.map = 0, !.ackq = FALSE, !.due = FALSE]
=============================================================================
