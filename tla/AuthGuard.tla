----------------------------- MODULE AuthGuard -----------------------------
(***************************************************************************)
(* The brute-force guard of the signaling server: the per-(ip, node) lock  *)
(* table `attemptLocks` and the per-node freeze table `nodeFreezes`        *)
(* (server/src/store.ts), charged and cleared by the HTTP handlers         *)
(* (server/src/http.ts) and swept by the cleanup task (cleanup.ts).        *)
(*                                                                         *)
(* The module owns the three variables and the fragments the handlers are  *)
(* made of; SessionRegistry EXTENDS it and composes them.                  *)
(*                                                                         *)
(* Time is abstracted to what the code compares: a lock is in force        *)
(* ("locked") or its deadline has passed ("lapsed"), a failure is inside   *)
(* the rolling window or it has left it.  Counters saturate at the         *)
(* thresholds the code compares them with.                                 *)
(***************************************************************************)
EXTENDS Naturals, FiniteSets

CONSTANTS
    Ip,               \* client addresses
    Node,             \* node ids
    MaxAttempts,      \* MAX_ATTEMPTS
    FreezeThreshold   \* NODE_FREEZE_THRESHOLD

ASSUME GuardAssumption ==
    /\ MaxAttempts \in Nat \ {0}
    /\ FreezeThreshold \in Nat \ {0}

VARIABLES
    lock,    \* attemptLocks: (ip, node) -> lock object, or NoLock
    fails,   \* nodeFreezes[node].recentFailures.length, window applied
    frozen   \* nodeFreezes[node].frozenUntil > now

guardVars == <<lock, fails, frozen>>

NoLock == [n |-> 0, st |-> "absent"]

LockObj == [n : 0..MaxAttempts, st : {"open", "locked", "lapsed"}]

GuardTypeOK ==
    /\ lock \in [Ip \X Node -> LockObj \cup {NoLock}]
    /\ fails \in [Node -> 0..FreezeThreshold]
    /\ frozen \in [Node -> BOOLEAN]

GuardInit ==
    /\ lock = [k \in Ip \X Node |-> NoLock]
    /\ fails = [n \in Node |-> 0]
    /\ frozen = [n \in Node |-> FALSE]

----------------------------------------------------------------------------
(* Fragments of the handlers.                                              *)

Locked(k) == lock[k].st = "locked"

AtMost(x, bound) == IF x < bound THEN x ELSE bound

\* lock.attempts++, and the hard lock when the count reaches MAX_ATTEMPTS.
Charged(l) ==
    LET more == AtMost(l.n + 1, MaxAttempts) IN
    [n  |-> more,
     st |-> IF more = MaxAttempts THEN "locked"
            ELSE IF l.st = "absent" THEN "open" ELSE l.st]

\* recordFailedPasscodeAttempt: one more failure in the window; reaching the
\* threshold engages (or re-arms) the freeze.
RecordFailure(node) ==
    LET more == AtMost(fails[node] + 1, FreezeThreshold) IN
    /\ fails' = [fails EXCEPT ![node] = more]
    /\ frozen' = [frozen EXCEPT ![node] = @ \/ more = FreezeThreshold]

\* clearNodeFreezeOnSuccess: forget the window unless a freeze is running.
ClearFreeze(node) ==
    /\ fails' = [fails EXCEPT ![node] = IF frozen[node] THEN @ ELSE 0]
    /\ UNCHANGED frozen

----------------------------------------------------------------------------
(* Time, and the cleanup sweep over the two tables.                        *)

LockLapses(k) ==
    /\ Locked(k)
    /\ lock' = [lock EXCEPT ![k].st = "lapsed"]
    /\ UNCHANGED <<fails, frozen>>

\* The oldest failures of a node leave the rolling window.
WindowSlides(node) ==
    /\ \E left \in 0..FreezeThreshold :
          /\ left < fails[node]
          /\ fails' = [fails EXCEPT ![node] = left]
    /\ UNCHANGED <<lock, frozen>>

FreezeThaws(node) ==
    /\ frozen[node]
    /\ frozen' = [frozen EXCEPT ![node] = FALSE]
    /\ UNCHANGED <<lock, fails>>

\* The sweep drops a lock that is not in force and has been idle for
\* LOCK_DURATION_MS; how long it has been idle is not tracked.
PurgedLocks(idle) ==
    [k \in Ip \X Node |-> IF k \in idle /\ ~Locked(k) THEN NoLock ELSE lock[k]]

============================================================================
