------------------------------ MODULE Persist ------------------------------
(***************************************************************************)
(* The two snapshots the signaling server keeps on disk: turn-state.json   *)
(* (the books of the TURN service) and auth-locks.json (brute-force locks  *)
(* and freezes).  Every file has one chain of writes; a write takes its    *)
(* snapshot when it starts, not when it is asked for.  A security flush    *)
(* writes both files and tells its caller whether both writes are durable. *)
(***************************************************************************)
EXTENDS Integers, FiniteSets, Sequences

CONSTANTS
    Caller,  \* who may wait for a security flush
    Torn,    \* stands for a file that cannot be read or fails validation
    Bounds   \* bound: the mixes of disturbances that may happen, one bound per kind

File == {"turn", "locks"}

\* What the environment does a bounded number of times: a call for a credential, bytes
\* relayed, a provider call that fails, a write that fails, a crash, a file lost in a
\* crash, a new month, a credential growing old, a lock, a shutdown, a poll, a tick of
\* the flusher; and whether the kill switch sweeps.
Disturbance ==
    {"issue", "relay", "fail", "disk", "crash", "torn", "month", "age", "lock", "stop", "poll", "tick", "sweep"}

ASSUME DisturbanceAssumption == Bounds \subseteq [Disturbance -> Nat]

VARIABLES
    books,  \* turn-state.json in memory
    locks,  \* auth-locks.json in memory: whether the lock is engaged
    file,   \* per file: load state, dirty flag, chain of queued writes, the write under way
    sec,    \* per caller: how far its security flush has come
    disk,   \* per file: what a restart would read
    spent

persistVars == <<books, locks, file, sec, disk, spent>>

\* A definition of its own, so that TLC evaluates the set once.
Allowed == Bounds

Spend(k) ==
    /\ spent' = [spent EXCEPT ![k] = @ + 1]
    /\ \E b \in Allowed : \A j \in Disturbance : spent'[j] <= b[j]

\* A write that is not under way; a queued write has a caller, or is the flusher's.
NoWrite == [on |-> FALSE, snap |-> Torn]
Tick == "tick"
Clean == [load |-> "ok", dirty |-> FALSE, chain |-> <<>>, write |-> NoWrite]

Off == [at |-> "off", ok |-> TRUE]

MarkDirty(fs) == [fs EXCEPT !["turn"].dirty = TRUE]

\* flushTurnState, flushPersistedLocks: one more link of the file's chain.  The dirty
\* flag is cleared when the write is queued.
Queued(fs, f, who) ==
    [fs EXCEPT ![f].dirty = FALSE, ![f].chain = Append(@, who)]

\* flushSecurityState: the books first, then the locks; a file whose load failed is
\* left alone.
Security(fs, s, who) ==
    LET f == IF fs["turn"].load = "ok" THEN "turn" ELSE IF fs["locks"].load = "ok" THEN "locks" ELSE "end"
    IN  [file |-> IF f = "end" THEN fs ELSE Queued(fs, f, who),
         sec |-> [s EXCEPT ![who] = [at |-> f, ok |-> TRUE]]]

\* A queued write begins when its predecessor has ended, an idle chain's at once; the
\* snapshot is taken here.
Started(fs, b, l) ==
    [f \in File |->
        IF fs[f].chain = <<>> \/ fs[f].write.on THEN fs[f]
        ELSE [fs[f] EXCEPT !.write = [on |-> TRUE, snap |-> IF f = "turn" THEN b ELSE l]]]

\* The periodic flush.
FlushTick ==
    LET wants(f) == file[f].load # "failed" /\ (f = "turn" => file[f].dirty)
    IN  /\ \E f \in File : wants(f)
        /\ Spend("tick")
        /\ file' = Started([f \in File |-> IF wants(f) THEN Queued(file, f, Tick)[f] ELSE file[f]], books, locks)
        /\ UNCHANGED <<books, locks, sec, disk>>

Ended_Broken(f, ok, keep) ==
    LET who == Head(file[f].chain)
        fs == [file EXCEPT ![f].chain = Tail(@), ![f].write = NoWrite, ![f].dirty = @ \/ keep]
        then == IF who = Tick THEN "off" ELSE IF f = "turn" /\ file["locks"].load = "ok" THEN "locks" ELSE "end"
    IN  /\ file' = IF then = "locks" THEN Queued(fs, "locks", who) ELSE fs
        /\ sec' = IF who = Tick THEN sec ELSE [sec EXCEPT ![who] = [at |-> then, ok |-> @.ok /\ ok]]

\* The head of the chain has ended: its caller goes on to the next file, or has its answer.
Ended(f, ok, keep) ==
    LET who == Head(file[f].chain)
        fs == [file EXCEPT ![f].chain = Tail(@), ![f].write = NoWrite, ![f].dirty = @ \/ keep]
        then == IF who = Tick THEN "off" ELSE IF f = "turn" /\ file["locks"].load = "ok" THEN "locks" ELSE "end"
    IN  /\ file' = Started(IF then = "locks" THEN Queued(fs, "locks", who) ELSE fs, books, locks)
        /\ sec' = IF who = Tick THEN sec
                  ELSE [sec EXCEPT ![who] = [at |-> then, ok |-> @.ok /\ ok]]

\* write, fsync, rename, fsync of the directory.
WriteDone(f) ==
    /\ file[f].write.on
    /\ disk' = [disk EXCEPT ![f] = file[f].write.snap]
    /\ Ended(f, TRUE, FALSE)
    /\ UNCHANGED <<books, locks, spent>>

\* A write fails before the rename, or after it (the directory's fsync); it is retried
\* by the next flush, and the chain stays usable.
WriteFails(f) ==
    /\ file[f].write.on /\ Spend("disk")
    /\ disk' \in {disk, [disk EXCEPT ![f] = file[f].write.snap]}
    /\ Ended(f, FALSE, f = "turn")
    /\ UNCHANGED <<books, locks>>

\* What a crash may leave of a file: a write under way has renamed it, or has not.
Left(f) == IF file[f].write.on THEN {disk[f], file[f].write.snap} ELSE {disk[f]}

\* loadTurnState, loadPersistedLocks.  What cannot be trusted is not replaced by an
\* empty snapshot that counts as loaded.  (An unreadable auth-locks.json is moved out
\* of the way.)
Loaded(d) ==
    [f \in File |-> [Clean EXCEPT !.load = IF d[f] = Torn THEN "failed" ELSE "ok"]]
=============================================================================
