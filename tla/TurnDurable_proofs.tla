------------------------- MODULE TurnDurable_proofs -------------------------
(***************************************************************************)
(* What the TURN service has told a client, or done at the provider, is on *)
(* disk.  The argument has three parts: the chains of writes and their     *)
(* callers fit together (Chained); the denials and the lock on disk, in a  *)
(* write under way and in memory are ordered by inclusion (Ordered); and a *)
(* caller that has its answer finds what it waited for on disk (Promised). *)
(***************************************************************************)
EXTENDS Turn_proofs

On(f) == file[f].write.on
Snap(f) == file[f].write.snap

(***************************************************************************)
(* Chains and their callers.                                               *)
(***************************************************************************)

\* A queued caller is waiting for this file, and is queued once.
InQueue(q, s, f) ==
    /\ \A i \in DOMAIN q : q[i] \in Caller => s[q[i]].at = f
    /\ \A i, j \in DOMAIN q : q[i] = q[j] /\ q[i] \in Caller => i = j
Queues == \A f \in File : InQueue(file[f].chain, sec, f)

\* Who has asked for a flush, or has an answer to take, is at the place that awaits it.
Callers ==
    /\ \A a \in {"abuse", "sweep"} : sec[a].at # "off" => work[a].at \in {"flush", "note"}
    /\ srv.at \in {"up", "draining", "late"} => sec["stop"].at = "off"

Chained == Queues /\ Callers

LEMMA AppendAt ==
  ASSUME NEW S, NEW q \in Seq(S), NEW v \in S
  PROVE  /\ Append(q, v) \in Seq(S) /\ DOMAIN Append(q, v) = 1 .. Len(q) + 1
         /\ DOMAIN q = 1 .. Len(q) /\ Len(q) \in Nat
         /\ Append(q, v)[Len(q) + 1] = v
         /\ \A i \in 1 .. Len(q) : Append(q, v)[i] = q[i]
OBVIOUS

LEMMA TailAt ==
  ASSUME NEW S, NEW q \in Seq(S), q # <<>>
  PROVE  /\ Tail(q) \in Seq(S) /\ DOMAIN Tail(q) = 1 .. Len(q) - 1
         /\ DOMAIN q = 1 .. Len(q) /\ Len(q) \in Nat /\ Len(q) >= 1
         /\ Head(q) = q[1]
         /\ \A i \in 1 .. Len(q) - 1 : Tail(q)[i] = q[i + 1]
OBVIOUS

LEMMA ChainTyped ==
  ASSUME Typed, NEW f \in File
  PROVE  file[f].chain \in Seq(Caller \cup {Tick})
BY DEF Typed, Types, FileTyped, Files, FileState

LEMMA TickIsNoCaller == Tick \notin Caller
BY CallerAssumption DEF Tick

LEMMA QueuesKept ==
  ASSUME Queues, FilesKept
  PROVE  Queues'
BY DEF Queues, FilesKept, Kept

\* A chain that does not move, while another caller's flush does.
LEMMA OtherChain ==
  ASSUME Queues, NEW f \in File, NEW v, v \in Caller => sec[v].at # f,
         NEW s, \A w \in Caller : w # v => s[w] = sec[w]
  PROVE  InQueue(file[f].chain, s, f)
BY DEF Queues, InQueue

\* One link more, of a caller that was not waiting or of the flusher.
LEMMA OneLinkMore ==
  ASSUME Typed, NEW f \in File, NEW v \in Caller \cup {Tick},
         NEW q, q = Append(file[f].chain, v), Queues, v \in Caller => sec[v].at # f,
         NEW s \in Flushes, v \in Caller => s[v].at = f,
         \A w \in Caller : w # v => s[w] = sec[w]
  PROVE  InQueue(q, s, f)
<1> DEFINE p == file[f].chain
<1>1. p \in Seq(Caller \cup {Tick})
  BY ChainTyped
<1>2. InQueue(p, sec, f)
  BY DEF Queues
<1>3. q = Append(p, v)
  OBVIOUS
<1> HIDE DEF p
<1>4. /\ DOMAIN q = 1 .. Len(p) + 1 /\ DOMAIN p = 1 .. Len(p) /\ Len(p) \in Nat
      /\ q[Len(p) + 1] = v /\ \A i \in 1 .. Len(p) : q[i] = p[i]
  BY <1>1, <1>3, AppendAt
<1>5. \A i \in 1 .. Len(p) : p[i] \in Caller => p[i] # v
  BY <1>2, <1>4 DEF InQueue
<1>6. \A i \in 1 .. Len(p) : q[i] \in Caller => s[q[i]].at = f
  BY <1>2, <1>4, <1>5 DEF InQueue
<1>7. q[Len(p) + 1] \in Caller => s[q[Len(p) + 1]].at = f
  BY <1>4
<1>8. \A i \in DOMAIN q : q[i] \in Caller => s[q[i]].at = f
  BY <1>4, <1>6, <1>7
<1>9. ASSUME NEW i \in DOMAIN q, NEW j \in DOMAIN q, q[i] = q[j], q[i] \in Caller
      PROVE  i = j
  <2>1. i \in 1 .. Len(p) \/ i = Len(p) + 1
    BY <1>4
  <2>2. j \in 1 .. Len(p) \/ j = Len(p) + 1
    BY <1>4
  <2>3. CASE i \in 1 .. Len(p) /\ j \in 1 .. Len(p)
    BY <1>2, <1>4, <1>9, <2>3 DEF InQueue
  <2>4. CASE i = Len(p) + 1 /\ j \in 1 .. Len(p)
    BY <1>4, <1>5, <1>9, <2>4
  <2>5. CASE i \in 1 .. Len(p) /\ j = Len(p) + 1
    BY <1>4, <1>5, <1>9, <2>5
  <2> QED BY <2>1, <2>2, <2>3, <2>4, <2>5
<1> QED BY <1>8, <1>9 DEF InQueue

LEMMA QueuesAsked ==
  ASSUME Typed, Queues, NEW w \in Caller, sec[w].at = "off", FilesAsked(w)
  PROVE  Queues'
<1>1. PICK g \in {"turn", "locks", "end"} :
         /\ sec' = [sec EXCEPT ![w] = [at |-> g, ok |-> TRUE]]
         /\ \A f \in File : file'[f].chain = IF f = g THEN Append(file[f].chain, w) ELSE file[f].chain
  BY DEF FilesAsked
<1>2. sec \in Flushes /\ sec' \in Flushes
  BY AskedOn DEF Typed, Types, FileTyped
<1>3. sec'[w].at = g /\ \A v \in Caller : v # w => sec'[v] = sec[v]
  BY <1>1, <1>2 DEF Flushes
<1>4. SUFFICES ASSUME NEW f \in File
      PROVE  InQueue(file'[f].chain, sec', f)
  BY DEF Queues
<1>5. f # "off"
  BY DEF File
<1>6. CASE f = g
  <2> DEFINE q == file'[f].chain
  <2>1. q = Append(file[f].chain, w)
    BY <1>1, <1>6
  <2> HIDE DEF q
  <2>2. InQueue(q, sec', f)
    <3> DEFINE s == sec'
    <3>1. s \in Flushes /\ s[w].at = f /\ \A v \in Caller : v # w => s[v] = sec[v]
      BY <1>2, <1>3, <1>6
    <3> HIDE DEF s
    <3>2. InQueue(q, s, f)
      BY <2>1, <3>1, <1>5, OneLinkMore
    <3> QED BY <3>2 DEF s
  <2> QED BY <2>2 DEF q
<1>7. CASE f # g
  <2>1. file'[f].chain = file[f].chain
    BY <1>1, <1>7
  <2>2. InQueue(file[f].chain, sec', f)
    BY <1>3, <1>5, OtherChain
  <2> QED BY <2>1, <2>2
<1> QED BY <1>6, <1>7

LEMMA QueuesTicked ==
  ASSUME Typed, Queues, FilesTicked
  PROVE  Queues'
<1>1. SUFFICES ASSUME NEW f \in File
      PROVE  InQueue(file'[f].chain, sec', f)
  BY DEF Queues
<1>2. sec' = sec /\ sec \in Flushes
  BY DEF FilesTicked, Typed, Types
<1>3. CASE file'[f].chain = file[f].chain
  BY <1>2, <1>3 DEF Queues
<1>4. CASE file'[f].chain = Append(file[f].chain, Tick)
  <2> DEFINE q == file'[f].chain
  <2>1. q = Append(file[f].chain, Tick)
    BY <1>4
  <2> HIDE DEF q
  <2>2. InQueue(q, sec, f)
    <3>1. Tick \in Caller \cup {Tick} /\ Tick \notin Caller
      BY TickIsNoCaller
    <3> DEFINE t == Tick
    <3> HIDE DEF t
    <3>2. t \in Caller \cup {Tick} /\ t \notin Caller /\ q = Append(file[f].chain, t)
      BY <2>1, <3>1 DEF t
    <3> QED BY <1>2, <3>2, OneLinkMore
  <2> QED BY <1>2, <2>2 DEF q
<1> QED BY <1>3, <1>4 DEF FilesTicked

\* The head of a chain has ended, and its caller may go on to the other file.
LEMMA QueuesEnded ==
  ASSUME Typed, Queues, NEW f \in File, NEW ok \in BOOLEAN, NEW keep \in BOOLEAN,
         file[f].write.on, Ended(f, ok, keep)
  PROVE  Queues'
<1> DEFINE q == file[f].chain
           who == Head(q)
           on == f = "turn" /\ who # Tick /\ file["locks"].load = "ok"
<1>0. Types /\ WritesOn
  BY DEF Typed
<1>1. /\ who \in Caller \cup {Tick} /\ q # <<>>
      /\ sec' = IF who = Tick THEN sec
                ELSE [sec EXCEPT ![who] = [at |-> IF on THEN "locks" ELSE "end", ok |-> @.ok /\ ok]]
      /\ file'[f].chain = Tail(q) /\ sec' \in Flushes
      /\ \A g \in File : g # f => file'[g].chain = IF on THEN Append(file[g].chain, who) ELSE file[g].chain
  BY <1>0, EndedFacts
<1>2. q \in Seq(Caller \cup {Tick}) /\ sec \in Flushes
  BY ChainTyped DEF Typed, Types
<1>3. InQueue(q, sec, f)
  BY DEF Queues
<1> DEFINE t == Tail(q)
<1>4. /\ DOMAIN t = 1 .. Len(q) - 1 /\ DOMAIN q = 1 .. Len(q) /\ Len(q) \in Nat
      /\ Len(q) >= 1 /\ who = q[1] /\ \A i \in 1 .. Len(q) - 1 : t[i] = q[i + 1]
  <2> HIDE DEF q
  <2> QED BY <1>1, <1>2, TailAt
<1> HIDE DEF q, t
<1>5. who \in Caller => sec[who].at = f
  BY <1>3, <1>4 DEF InQueue
<1>6. \A i \in DOMAIN t : t[i] \in Caller => t[i] # who
  BY <1>3, <1>4 DEF InQueue
<1>7. \A w \in Caller : w # who => sec'[w] = sec[w]
  <2> DEFINE v == [at |-> IF on THEN "locks" ELSE "end", ok |-> sec[who].ok /\ ok]
  <2>1. sec' = IF who = Tick THEN sec ELSE [sec EXCEPT ![who] = v]
    BY <1>1
  <2> HIDE DEF v, who
  <2> QED BY <1>2, <2>1 DEF Flushes
<1>10. on => sec'[who].at = "locks"
  <2> DEFINE k == sec[who].ok /\ ok
             v == [at |-> "locks", ok |-> k]
  <2>1. ASSUME on PROVE sec' = [sec EXCEPT ![who] = v] /\ who \in Caller
    BY <1>1, <2>1
  <2>2. v.at = "locks"
    OBVIOUS
  <2> HIDE DEF v, who, on
  <2> QED BY <1>2, <2>1, <2>2 DEF Flushes
<1> HIDE DEF who, on
<1>8. InQueue(t, sec', f)
  <2>1. ASSUME NEW i \in DOMAIN t
        PROVE  i \in Int /\ i + 1 \in DOMAIN q /\ t[i] = q[i + 1]
    BY <1>4
  <2>2. ASSUME NEW i \in DOMAIN t, t[i] \in Caller
        PROVE  sec'[t[i]].at = f
    <3>1. i + 1 \in DOMAIN q /\ t[i] = q[i + 1]
      BY <2>1
    <3>2. sec[t[i]].at = f
      BY <1>3, <2>2, <3>1 DEF InQueue
    <3> QED BY <1>6, <1>7, <2>2, <3>2
  <2>3. ASSUME NEW i \in DOMAIN t, NEW j \in DOMAIN t, t[i] = t[j], t[i] \in Caller
        PROVE  i = j
    <3>1. /\ i \in Int /\ i + 1 \in DOMAIN q /\ t[i] = q[i + 1]
          /\ j \in Int /\ j + 1 \in DOMAIN q /\ t[j] = q[j + 1]
      BY <2>1
    <3>2. i + 1 = j + 1
      BY <1>3, <2>3, <3>1 DEF InQueue
    <3> QED BY <3>1, <3>2
  <2> QED BY <2>2, <2>3 DEF InQueue
<1>9. ASSUME NEW g \in File, g # f
      PROVE  InQueue(file'[g].chain, sec', g)
  <2>1. CASE on
    <3>1. f = "turn" /\ g = "locks" /\ who \in Caller
      BY <1>1, <1>9, <2>1, TickIsNoCaller DEF on, File
    <3> DEFINE r == file'[g].chain
               s == sec'
    <3>2. r = Append(file[g].chain, who)
      BY <1>1, <1>9, <2>1
    <3>3. s \in Flushes /\ s[who].at = g /\ \A w \in Caller : w # who => s[w] = sec[w]
      BY <1>1, <1>7, <1>10, <2>1, <3>1
    <3> HIDE DEF r, s
    <3>4. InQueue(r, s, g)
      <4>1. who \in Caller /\ sec[who].at # g /\ s[who].at = g
        BY <1>5, <3>1, <3>3
      <4>2. PICK v \in Caller \cup {Tick} : v = who
        BY <4>1
      <4>3. /\ r = Append(file[g].chain, v) /\ sec[v].at # g /\ s \in Flushes /\ s[v].at = g
            /\ \A w \in Caller : w # v => s[w] = sec[w]
        BY <3>2, <3>3, <4>1, <4>2
      <4> QED BY <4>3, OneLinkMore
    <3> QED BY <3>4 DEF r, s
  <2>2. CASE ~on
    <3>1. file'[g].chain = file[g].chain
      BY <1>1, <1>9, <2>2
    <3>2. who \in Caller => sec[who].at # g
      BY <1>5, <1>9
    <3>3. InQueue(file[g].chain, sec', g)
      BY <1>7, <3>2, OtherChain
    <3> QED BY <3>1, <3>3
  <2> QED BY <2>1, <2>2
<1> QED BY <1>1, <1>8, <1>9 DEF Queues, t

(***************************************************************************)
(* The steps between two answers: most of them are of one kind.            *)
(***************************************************************************)

\* Who asks for a flush was not waiting, and is now where it awaits the answer.
Asker(w) ==
    /\ sec[w].at = "off"
    /\ w \in {"abuse", "sweep"} => work'[w].at \in {"flush", "note"}
    /\ w = "abuse" => work["abuse"].at \notin {"flush", "note"}
    /\ w = "stop" => srv'.at \in {"flushing", "last"}
    /\ w = "lock" => locks'

Moves == FilesKept \/ FilesTicked \/ \E w \in Caller : Asker(w) /\ FilesAsked(w)

\* What the abuse handling may do meanwhile: it is left alone, leaves what it waited for, or
\* begins with a ban that it asks to be flushed.
Abuses ==
    LET w == work["abuse"]
        v == work'["abuse"]
    IN  \/ v.at = w.at /\ v.c = w.c
        \/ v.at \notin {"flush", "revoke"} /\ w.at \notin {"flush", "note"}
        \/ /\ v.at = "flush" /\ w.at \notin {"flush", "note"} /\ v.c \in Cid
           /\ FilesAsked("abuse") /\ DeniedOn(books', PrincipalOf[v.c])

\* Nothing reaches the disk, the provider or a client; denials and locks only grow.
Calm ==
    /\ disk' = disk /\ cf'.struck = cf.struck /\ srv'.told = srv.told
    /\ \A f \in File : file[f].load = "ok" => file'[f].load = "ok"
    /\ \A p \in Principal : DeniedOn(books, p) => DeniedOn(books', p)
    /\ locks => locks'
    /\ srv'.at \in {"up", "draining", "late"} => srv.at \in {"up", "draining", "late"}
    /\ work["sweep"].at \in {"flush", "note"} => work'["sweep"].at \in {"flush", "note"}
    /\ Abuses /\ Moves

LEMMA SameDenials ==
  ASSUME NEW b, NEW d, d.deny = b.deny
  PROVE  \A p \in Principal : DeniedOn(b, p) => DeniedOn(d, p)
BY DEF DeniedOn

\* The kill switch's sweep asks for its flush only when no sweep is under way.
LEMMA SweepMoves ==
  ASSUME Typed, Chained, SweepFree, NEW ws \in Works, ws["sweep"] = work["sweep"],
         NEW b, SweptOrKept(ws, b)
  PROVE  Moves /\ work'["abuse"] = ws["abuse"]
<1>1. sec["sweep"].at = "off" /\ "sweep" \in Caller
  BY CallerAssumption DEF Chained, Callers, SweepFree
<1>2. CASE FilesKept /\ work' = ws
  BY <1>2 DEF Moves
<1>3. CASE /\ FilesAsked("sweep")
           /\ work' = [ws EXCEPT !["sweep"].at = "flush", !["sweep"].todo = Active(b)]
  <2>1. work'["sweep"].at = "flush" /\ work'["abuse"] = ws["abuse"]
    BY <1>3 DEF Works, WorkState, Revoker
  <2> QED BY <1>1, <1>3, <2>1 DEF Moves, Asker
<1> QED BY <1>2, <1>3 DEF SweptOrKept

LEMMA CalmIssue ==
  ASSUME Typed, Chained, Issue
  PROVE  Calm
<1>0. Types /\ WritesOn /\ books \in Books /\ srv \in Servers /\ work \in Works
  BY DEF Typed, Types, BooksTyped, WorkTyped, WorkFine
<1>1. ASSUME NEW c \in Cid, IssueOld(c) PROVE Calm
  <2>1. books' = Pruned(Rolled(books)) /\ FilesKept /\ FilesFit /\ work' = work
    BY <1>0, <1>1, IssueOldFacts
  <2>2. Rolled(books) \in Books /\ Rolled(books).deny = books.deny
    BY <1>0, RolledFacts
  <2>3. books'.deny = books.deny
    BY <2>1, <2>2, PrunedFacts
  <2>4. UNCHANGED <<locks, disk, cf, srv>>
    BY <1>1 DEF IssueOld
  <2> QED BY <2>1, <2>3, <2>4, SameDenials DEF Calm, Abuses, Moves, FilesFit
<1>2. ASSUME NEW c \in Cid, IssueFresh(c) PROVE Calm
  <2> DEFINE b == Pruned(Rolled(books))
             d == Reserved(b, c, cred.last + 1)
  <2>1. /\ cred.last + 1 \in Rid /\ b \in Books /\ Swept(d, books') /\ FilesFit
        /\ SweptOrKept(work, d)
    BY <1>0, <1>2, IssueFreshFacts
  <2>2. Rolled(books) \in Books /\ Rolled(books).deny = books.deny
    BY <1>0, RolledFacts
  <2>3. b.deny = books.deny
    BY <2>2, PrunedFacts
  <2> HIDE DEF b
  <2>4. d.deny = b.deny
    BY <2>1, ReservedFacts
  <2> HIDE DEF d
  <2>5. books'.deny = books.deny
    BY <2>1, <2>3, <2>4 DEF Swept
  <2>6. disk' = disk /\ srv' = srv /\ locks' = locks /\ SweepFree /\ cf'.struck = cf.struck
    BY <1>2 DEF IssueFresh
  <2>7. Moves /\ work'["abuse"] = work["abuse"]
    BY <1>0, <2>1, <2>6, SweepMoves
  <2> QED BY <2>1, <2>5, <2>6, <2>7, SameDenials DEF Calm, Abuses, FilesFit, SweepFree
<1>3. ASSUME NEW c \in Cid, ProviderMakes(c) \/ IssueDone(c) PROVE Calm
  <2>1. UNCHANGED <<books, locks, file, sec, disk, work, srv>>
    BY <1>3 DEF ProviderMakes, IssueDone, persistVars
  <2>2. cf'.struck = cf.struck
    BY <1>0, <1>3 DEF ProviderMakes, IssueDone, Types, Providers
  <2> QED BY <2>1, <2>2 DEF Calm, Abuses, Moves, FilesKept, Kept
<1>4. ASSUME NEW c \in Cid, IssueFails(c) PROVE Calm
  <2>1. books'.deny = books.deny /\ FilesKept /\ FilesFit /\ work' = work
    BY <1>0, <1>4, IssueFailsFacts
  <2>2. UNCHANGED <<locks, disk, cf, srv>>
    BY <1>4 DEF IssueFails
  <2> QED BY <2>1, <2>2, SameDenials DEF Calm, Abuses, Moves, FilesFit
<1> QED BY <1>1, <1>2, <1>3, <1>4 DEF Issue

\* The revokers' steps other than calling the provider and taking an answer.
LEMMA CalmRevoke ==
  ASSUME Typed, Chained,
         \/ \E a \in Revoker : RevokeDone(a) \/ RevokeFails(a)
         \/ SweepNext \/ RetryStarts \/ RetryNext
  PROVE  Calm
<1>0. /\ Types /\ WritesOn /\ books \in Books /\ work \in Works
      /\ "abuse" \in Caller /\ "sweep" \in Caller
  BY CallerAssumption DEF Typed, Types, BooksTyped, WorkTyped, WorkFine
<1>1. ASSUME NEW a \in Revoker, RevokeDone(a) PROVE Calm
  <2>1. /\ work[a].c \in Cid /\ books' = Dropped(books, {work[a].c}) /\ FilesKept /\ FilesFit
        /\ work' = [work EXCEPT ![a].at = "rows", ![a].c = NoCid]
    BY <1>0, <1>1, RevokeDoneFacts
  <2>2. books'.deny = books.deny
    <3>1. {work[a].c} \in SUBSET Cid
      BY <2>1
    <3> QED BY <1>0, <2>1, <3>1, DroppedFacts
  <2>3. UNCHANGED <<locks, disk, cf, srv>> /\ work[a].at = "heard"
    BY <1>1 DEF RevokeDone
  <2>4. Abuses /\ (work["sweep"].at \in {"flush", "note"} => work'["sweep"].at \in {"flush", "note"})
    BY <1>0, <2>1, <2>3 DEF Abuses, Works, WorkState, Revoker
  <2> QED BY <2>1, <2>2, <2>3, <2>4, SameDenials DEF Calm, Moves, FilesFit
<1>2. ASSUME NEW a \in Revoker, RevokeFails(a) PROVE Calm
  <2>1. /\ books' = books /\ FilesFit
        /\ IF a = "abuse"
           THEN FilesAsked("abuse") /\ work' = [work EXCEPT ![a].at = "note", ![a].c = NoCid]
           ELSE FilesKept /\ work' = [work EXCEPT ![a].at = "rows", ![a].c = NoCid]
    BY <1>0, <1>2, RevokeFailsFacts
  <2>2. UNCHANGED <<locks, disk, cf, srv>> /\ work[a].at \in {"revoke", "heard"}
    BY <1>2 DEF RevokeFails
  <2>3. Abuses /\ (work["sweep"].at \in {"flush", "note"} => work'["sweep"].at \in {"flush", "note"})
    BY <1>0, <2>1, <2>2 DEF Abuses, Works, WorkState, Revoker
  <2>4. Moves
    <3>1. CASE a = "abuse"
      <4>1. work'["abuse"].at = "note" /\ sec["abuse"].at = "off"
        BY <1>0, <2>1, <2>2, <3>1 DEF Works, WorkState, Revoker, Chained, Callers
      <4> QED BY <1>0, <2>1, <2>2, <3>1, <4>1 DEF Moves, Asker
    <3>2. CASE a # "abuse"
      BY <2>1, <3>2 DEF Moves
    <3> QED BY <3>1, <3>2
  <2> QED BY <2>1, <2>2, <2>3, <2>4 DEF Calm, FilesFit
<1>3. CASE SweepNext
  <2>1. /\ books' = books /\ FilesFit /\ work["sweep"].at = "rows"
        /\ \/ FilesAsked("sweep") /\ work' = [work EXCEPT !["sweep"].at = "note"]
           \/ FilesKept /\ \E w \in WorkState : work' = [work EXCEPT !["sweep"] = w]
    BY <1>0, <1>3, SweepNextFacts
  <2>2. UNCHANGED <<locks, disk, cf, srv>>
    BY <1>3 DEF SweepNext
  <2>3. work'["abuse"] = work["abuse"]
    BY <1>0, <2>1 DEF Works, WorkState, Revoker
  <2>4. Moves
    <3>1. CASE FilesAsked("sweep") /\ work' = [work EXCEPT !["sweep"].at = "note"]
      <4>1. work'["sweep"].at = "note" /\ sec["sweep"].at = "off"
        BY <1>0, <2>1, <3>1 DEF Works, WorkState, Revoker, Chained, Callers
      <4> QED BY <1>0, <3>1, <4>1 DEF Moves, Asker
    <3> QED BY <2>1, <3>1 DEF Moves
  <2> QED BY <2>1, <2>2, <2>3, <2>4 DEF Calm, Abuses, FilesFit
<1>4. CASE RetryStarts
  <2>1. work'["abuse"] = work["abuse"] /\ work'["sweep"] = work["sweep"]
    BY <1>0, <1>4 DEF RetryStarts, Works, Revoker
  <2> QED BY <1>4, <2>1 DEF RetryStarts, persistVars, Calm, Abuses, Moves, FilesKept, Kept
<1>5. CASE RetryNext
  <2>1. /\ FilesFit /\ FilesKept
        /\ \/ books' = books
           \/ \E c \in Cid : books' = Dropped(books, {c})
        /\ work'["abuse"] = work["abuse"] /\ work'["sweep"] = work["sweep"]
    BY <1>0, <1>5, RetryNextFacts DEF Works, Revoker
  <2>2. books'.deny = books.deny
    <3>1. ASSUME NEW c \in Cid, books' = Dropped(books, {c}) PROVE books'.deny = books.deny
      <4>1. {c} \in SUBSET Cid
        OBVIOUS
      <4> QED BY <1>0, <3>1, <4>1, DroppedFacts
    <3> QED BY <2>1, <3>1
  <2>3. UNCHANGED <<locks, disk, cf, srv>>
    BY <1>5 DEF RetryNext
  <2> QED BY <2>1, <2>2, <2>3, SameDenials DEF Calm, Abuses, Moves, FilesFit
<1> QED BY <1>1, <1>2, <1>3, <1>4, <1>5

LEMMA CalmPoll ==
  ASSUME Typed, Chained, Poll
  PROVE  Calm
<1>0. /\ Types /\ WritesOn /\ books \in Books /\ work \in Works /\ srv \in Servers
      /\ "abuse" \in Caller /\ "sweep" \in Caller
  BY CallerAssumption DEF Typed, Types, BooksTyped, WorkTyped, WorkFine
<1>1. CASE AbuseAsks \/ AbuseAskFails
  <2>1. /\ books' = books /\ UNCHANGED <<locks, sec, disk, cf, srv>>
        /\ file' = file \/ file' = MarkDirty(file)
        /\ work'["abuse"].at \in {"idle", "ask"} /\ work["abuse"].at \in {"idle", "ask"}
        /\ work'["sweep"] = work["sweep"]
    BY <1>0, <1>1 DEF AbuseAsks, AbuseAskFails, Works, WorkState, Revoker, Idle
  <2>2. FilesKept /\ \A f \in File : file'[f].load = file[f].load
    BY <1>0, <2>1, MarkedFacts DEF FilesKept, Kept, Types, FileTyped
  <2> QED BY <2>1, <2>2 DEF Calm, Abuses, Moves
<1>2. CASE AbuseRows
  <2>1. PICK S \in SUBSET Cid, rows \in [Cid -> Nat] : RowsRead(S, rows)
    BY <1>0, <1>2, AbuseRowsFacts
  <2>2. FilesFit /\ work["abuse"].at \in {"ask", "rows"}
    BY <1>0, <1>2, AbuseRowsFacts
  <2>3. UNCHANGED <<locks, disk, cf, srv>> /\ SweepFree
    BY <1>2 DEF AbuseRows
  <2> DEFINE d == WithRows(books, S, rows)
  <2>4. d \in Books /\ d.deny = books.deny
    <3>1. books \in Books
      BY <1>0
    <3> QED BY <2>1, <3>1, WithRowsFacts
  <2>5. CASE Swept(d, books') /\ SweptOrKept([work EXCEPT !["abuse"] = Idle], d)
    <3> DEFINE ws == [work EXCEPT !["abuse"] = Idle]
    <3>1. ws \in Works /\ ws["sweep"] = work["sweep"] /\ ws["abuse"].at = "idle"
      BY <1>0, IdleType DEF Works, Revoker
    <3>2. SweptOrKept(ws, d)
      BY <2>5
    <3> HIDE DEF ws, d
    <3>3. Moves /\ work'["abuse"] = ws["abuse"]
      BY <2>3, <3>1, <3>2, SweepMoves
    <3>4. books'.deny = books.deny
      BY <2>4, <2>5 DEF Swept
    <3> QED BY <2>2, <2>3, <3>1, <3>3, <3>4, SameDenials DEF Calm, Abuses, FilesFit, SweepFree
  <2>6. ASSUME NEW c \in Active(books), NEW T \in SUBSET Cid,
               books' = Abused(d, c), FilesAsked("abuse"),
               work' = [work EXCEPT !["abuse"] = [Idle EXCEPT !.at = "flush", !.c = c, !.todo = T]]
        PROVE  Calm
    <3> HIDE DEF d
    <3>1. c \in Cid
      BY DEF Active
    <3>2. /\ \A p \in Principal : DeniedOn(d, p) => DeniedOn(books', p)
          /\ DeniedOn(books', PrincipalOf[c])
      BY <2>4, <2>6, <3>1, AbusedFacts
    <3>3. work'["abuse"].at = "flush" /\ work'["abuse"].c = c /\ work'["sweep"] = work["sweep"]
      BY <1>0, <2>6 DEF Works, Revoker, Idle
    <3>4. sec["abuse"].at = "off"
      BY <2>2 DEF Chained, Callers
    <3>5. Moves
      BY <1>0, <2>2, <2>6, <3>3, <3>4 DEF Moves, Asker
    <3>6. Abuses
      BY <2>2, <2>6, <3>1, <3>2, <3>3 DEF Abuses
    <3>7. \A p \in Principal : DeniedOn(books, p) => DeniedOn(books', p)
      BY <2>4, <3>2, SameDenials
    <3> QED BY <2>2, <2>3, <3>3, <3>5, <3>6, <3>7 DEF Calm, FilesFit
  <2> QED BY <2>1, <2>5, <2>6 DEF RowsRead
<1>3. ASSUME NEW timer \in BOOLEAN, GlobalAsks(timer) PROVE Calm
  <2>1. books' = Rolled(books) /\ FilesKept /\ FilesFit /\ work' = work
    BY <1>0, <1>3, GlobalAsksFacts
  <2>2. books'.deny = books.deny
    BY <1>0, <2>1, RolledFacts
  <2>3. UNCHANGED <<locks, disk, cf, srv>>
    BY <1>3 DEF GlobalAsks
  <2> QED BY <2>1, <2>2, <2>3, SameDenials DEF Calm, Abuses, Moves, FilesFit
<1>4. ASSUME NEW p \in poll.polls, ProviderCounts(p) \/ GlobalStale(p) PROVE Calm
  <2>1. UNCHANGED <<books, locks, file, sec, disk, work, cf, srv>>
    BY <1>4 DEF ProviderCounts, GlobalStale, persistVars
  <2> QED BY <2>1 DEF Calm, Abuses, Moves, FilesKept, Kept
<1>5. ASSUME NEW p \in poll.polls, GlobalFails(p) PROVE Calm
  <2>1. file' = file \/ file' = MarkDirty(file)
    BY <1>5 DEF GlobalFails
  <2>2. sec' = sec
    BY <1>5 DEF GlobalFails
  <2>3. FilesKept /\ \A f \in File : file'[f].load = file[f].load
    BY <1>0, <2>1, <2>2, MarkedFacts DEF FilesKept, Kept, Types, FileTyped
  <2> QED BY <1>5, <2>3 DEF GlobalFails, Calm, Abuses, Moves
<1>6. ASSUME NEW p \in poll.polls, GlobalLowerBound(p) \/ GlobalTotal(p) PROVE Calm
  <2> DEFINE d == IF p.all THEN Reconciled(p.read) ELSE LowerBound(p.read)
  <2>1. p.read \in Nat /\ Swept(d, books') /\ SweptOrKept(work, d) /\ FilesFit /\ SweepFree
    BY <1>0, <1>6, GlobalEndFacts
  <2>2. d.deny = books.deny
    <3>1. Pruned(books).deny = books.deny
      BY <1>0, PrunedFacts
    <3> QED BY <1>0, <2>1, <3>1, ReconciledFacts, LowerBoundFacts
  <2> HIDE DEF d
  <2>3. books'.deny = books.deny
    BY <2>1, <2>2 DEF Swept
  <2>4. UNCHANGED <<locks, disk, cf, srv>>
    BY <1>6 DEF GlobalLowerBound, GlobalTotal
  <2>5. Moves /\ work'["abuse"] = work["abuse"]
    BY <1>0, <2>1, SweepMoves
  <2> QED BY <2>1, <2>3, <2>4, <2>5, SameDenials DEF Calm, Abuses, FilesFit, SweepFree
<1> QED BY <1>1, <1>2, <1>3, <1>4, <1>5, <1>6 DEF Poll

LEMMA CalmWorld ==
  ASSUME Typed, Chained,
         \/ FlushTick /\ UNCHANGED <<cred, work, poll, cf, srv>>
         \/ LockEngages \/ MonthTurns \/ Stops \/ StopFlushes
         \/ \E r \in Rid : Relays(r)
         \/ \E c \in Cid : Ages(c)
  PROVE  Calm
<1>0. /\ Types /\ WritesOn /\ books \in Books /\ work \in Works /\ srv \in Servers
      /\ "lock" \in Caller /\ "stop" \in Caller
  BY CallerAssumption DEF Typed, Types, BooksTyped, WorkTyped, WorkFine
<1>1. CASE FlushTick /\ UNCHANGED <<cred, work, poll, cf, srv>>
  <2>1. FilesTicked /\ FilesFit /\ UNCHANGED <<books, locks, disk>>
    BY <1>0, <1>1, FlushTickFacts DEF FlushTick
  <2> QED BY <1>1, <2>1 DEF Calm, Abuses, Moves, FilesFit
<1>2. CASE LockEngages
  <2>1. /\ locks' = TRUE /\ sec["lock"].at = "off" /\ FilesAsked("lock") /\ FilesFit
        /\ books' = books /\ disk' = disk /\ srv' = srv /\ UNCHANGED <<work, cf>>
    BY <1>0, <1>2, LockEngagesFacts
  <2> QED BY <1>0, <2>1 DEF Calm, Abuses, Moves, Asker, FilesFit
<1>3. CASE MonthTurns \/ Stops
  <2>1. /\ UNCHANGED <<books, locks, file, sec, disk, work>> /\ cf'.struck = cf.struck
        /\ srv'.told = srv.told /\ (srv'.at = srv.at \/ srv.at = "up")
    <3>1. CASE MonthTurns
      BY <1>0, <3>1 DEF MonthTurns, Servers, Types, Providers
    <3>2. CASE Stops
      BY <1>0, <3>2 DEF Stops, Servers
    <3> QED BY <1>3, <3>1, <3>2
  <2> QED BY <2>1 DEF Calm, Abuses, Moves, FilesKept, Kept
<1>4. CASE StopFlushes
  <2>1. /\ FilesAsked("stop") /\ FilesFit /\ sec["stop"].at = "off"
        /\ srv'.at \in {"flushing", "last"} /\ srv'.told = srv.told
        /\ UNCHANGED <<books, locks, disk, work, cf>>
    BY <1>0, <1>4, StopFlushesFacts DEF Servers
  <2> QED BY <1>0, <2>1 DEF Calm, Abuses, Moves, Asker, FilesFit
<1>5. ASSUME NEW r \in Rid, Relays(r) PROVE Calm
  <2>1. UNCHANGED <<books, locks, file, sec, disk, work, srv>>
    BY <1>5 DEF Relays
  <2>2. cf'.struck = cf.struck
    <3> DEFINE u == [cf.usage EXCEPT ![cf.owner[r]] = @ + 1]
               n == cf.total + 1
    <3>1. cf' = [cf EXCEPT !.usage = u, !.total = n]
      BY <1>0, <1>5 DEF Relays, Types, Providers
    <3> HIDE DEF u, n
    <3> QED BY <1>0, <3>1 DEF Types, Providers
  <2> QED BY <2>1, <2>2 DEF Calm, Abuses, Moves, FilesKept, Kept
<1>6. ASSUME NEW c \in Cid, Ages(c) PROVE Calm
  <2>1. UNCHANGED <<locks, file, sec, disk, work, srv>> /\ cf'.struck = cf.struck
    BY <1>6 DEF Ages
  <2>2. books'.deny = books.deny
    BY <1>0, <1>6, AgesFacts
  <2> QED BY <2>1, <2>2, SameDenials DEF Calm, Abuses, Moves, FilesKept, Kept
<1> QED BY <1>1, <1>2, <1>3, <1>4, <1>5, <1>6

LEMMA CallersCalm ==
  ASSUME Typed, Chained, Calm
  PROVE  Chained'
<1>0. "abuse" \in Caller /\ "sweep" \in Caller /\ "stop" \in Caller /\ sec \in Flushes
  BY CallerAssumption DEF Typed, Types
<1>1. CASE FilesKept
  <2>1. Queues' /\ sec' = sec
    BY <1>1, QueuesKept DEF Chained, FilesKept
  <2> QED BY <2>1 DEF Chained, Callers, Calm, Abuses
<1>2. CASE FilesTicked
  <2>1. Queues' /\ sec' = sec
    BY <1>2, QueuesTicked DEF Chained, FilesTicked
  <2> QED BY <2>1 DEF Chained, Callers, Calm, Abuses
<1>3. ASSUME NEW w \in Caller, Asker(w), FilesAsked(w) PROVE Chained'
  <2>1. Queues'
    BY <1>3, QueuesAsked DEF Chained, Asker
  <2>2. \A v \in Caller : v # w => sec'[v] = sec[v]
    BY <1>0, <1>3 DEF FilesAsked, Flushes
  <2> QED BY <1>0, <1>3, <2>1, <2>2 DEF Chained, Callers, Calm, Abuses, Asker
<1> QED BY <1>1, <1>2, <1>3 DEF Calm, Moves

\* An answer is taken: the caller was in no queue any more.
LEMMA QueuesAnswered ==
  ASSUME Typed, Queues, file' = file, NEW w \in Caller, sec[w].at = "end",
         sec' = [sec EXCEPT ![w] = Off]
  PROVE  Queues' /\ sec'[w] = Off /\ \A v \in Caller : v # w => sec'[v] = sec[v]
<1>1. sec'[w] = Off /\ \A v \in Caller : v # w => sec'[v] = sec[v]
  BY DEF Typed, Types, Flushes
<1>2. ASSUME NEW f \in File PROVE InQueue(file[f].chain, sec', f)
  <2>1. sec[w].at # f
    BY <1>2 DEF File
  <2> QED BY <1>1, <1>2, <2>1, OtherChain
<1> QED BY <1>1, <1>2 DEF Queues

LEMMA ChainedFlushed ==
  ASSUME Typed, Chained, NEW a \in {"abuse", "sweep"}, Flushed(a)
  PROVE  Chained'
<1>1. /\ sec[a].at = "end" /\ sec' = [sec EXCEPT ![a] = Off] /\ a \in Caller
      /\ \E w \in WorkState : work' = [work EXCEPT ![a] = w]
  BY FlushedFacts, CallerAssumption DEF Typed
<1>2. file' = file /\ srv' = srv
  BY DEF Flushed
<1>3. Queues' /\ sec'[a] = Off /\ \A v \in Caller : v # a => sec'[v] = sec[v]
  BY <1>1, <1>2, QueuesAnswered DEF Chained
<1>4. \A b \in {"abuse", "sweep"} : b # a => work'[b] = work[b]
  BY <1>1 DEF Typed, Types, WorkTyped, WorkFine, Works, Revoker
<1> QED BY <1>2, <1>3, <1>4, CallerAssumption DEF Chained, Callers, Off

LEMMA ChainedRevokes ==
  ASSUME Typed, Chained, NEW a \in Revoker, ProviderRevokes(a)
  PROVE  Chained'
<1>1. /\ work[a].at = "revoke" /\ work' = [work EXCEPT ![a] = [work[a] EXCEPT !.at = "heard"]]
      /\ UNCHANGED <<file, sec, srv>>
  BY ProviderRevokesFacts DEF Typed, ProviderRevokes, persistVars
<1>2. \A b \in {"abuse", "sweep"} : b # a => work'[b] = work[b]
  BY <1>1 DEF Typed, Types, WorkTyped, WorkFine, Works, Revoker
<1> QED BY <1>1, <1>2 DEF Chained, Callers, Queues

\* What the end of a write makes of the flush of its caller.
LEMMA EndedFlush ==
  ASSUME Typed, Chained, NEW f \in File, NEW ok \in BOOLEAN, NEW keep \in BOOLEAN,
         file[f].write.on, Ended(f, ok, keep), NEW w \in Caller
  PROVE  \/ sec'[w] = sec[w] /\ (sec[w].at = f => Head(file[f].chain) # w)
         \/ /\ Head(file[f].chain) = w /\ sec[w].at = f
            /\ sec'[w].at \in {"locks", "end"} /\ (sec'[w].ok => ok /\ sec[w].ok)
            /\ f = "locks" => sec'[w].at = "end"
            /\ f = "turn" /\ file["locks"].load = "ok" => sec'[w].at = "locks"
<1> DEFINE q == file[f].chain
           who == Head(q)
           on == f = "turn" /\ who # Tick /\ file["locks"].load = "ok"
<1>0. Types /\ WritesOn /\ sec \in Flushes
  BY DEF Typed, Types
<1>1. /\ who \in Caller \cup {Tick} /\ q # <<>>
      /\ sec' = IF who = Tick THEN sec
                ELSE [sec EXCEPT ![who] = [at |-> IF on THEN "locks" ELSE "end", ok |-> @.ok /\ ok]]
  BY <1>0, EndedFacts
<1>2. q \in Seq(Caller \cup {Tick}) /\ InQueue(q, sec, f)
  BY ChainTyped DEF Chained, Queues
<1>3. who = q[1] /\ 1 \in DOMAIN q
  <2> HIDE DEF q
  <2> QED BY <1>1, <1>2, TailAt
<1>4. who \in Caller => sec[who].at = f
  BY <1>2, <1>3 DEF InQueue
<1>5. PICK t \in {"locks", "end"}, k \in BOOLEAN :
         /\ sec' = IF who = Tick THEN sec ELSE [sec EXCEPT ![who] = [at |-> t, ok |-> k]]
         /\ k = (sec[who].ok /\ ok) /\ t = IF on THEN "locks" ELSE "end"
  BY <1>1
<1>6. CASE who = w
  <2>1. sec'[w].at = t /\ sec'[w].ok = k
    <3>1. who # Tick
      BY <1>6, TickIsNoCaller
    <3> HIDE DEF who
    <3> QED BY <1>0, <1>5, <1>6, <3>1 DEF Flushes
  <2>2. f = "locks" => t = "end"
    BY <1>5
  <2>3. f = "turn" /\ file["locks"].load = "ok" => t = "locks"
    BY <1>5, <1>6, TickIsNoCaller
  <2> QED BY <1>4, <1>5, <1>6, <2>1, <2>2, <2>3
<1>7. CASE who # w
  <2> HIDE DEF who
  <2>1. sec'[w] = sec[w]
    BY <1>0, <1>5, <1>7 DEF Flushes
  <2> QED BY <1>7, <2>1 DEF who
<1> QED BY <1>6, <1>7

LEMMA ChainedWrites ==
  ASSUME Typed, Chained, Write, UNCHANGED <<cred, work, poll, cf, srv>>
  PROVE  Chained'
<1>1. PICK f \in File : WriteDone(f) \/ WriteFails(f)
  BY DEF Write
<1>2. PICK ok \in BOOLEAN, keep \in BOOLEAN : file[f].write.on /\ Ended(f, ok, keep)
  BY <1>1, WriteFacts DEF Typed
<1>3. Queues'
  BY <1>2, QueuesEnded DEF Chained
<1>4. \A w \in Caller : sec[w].at = "off" => sec'[w] = sec[w]
  BY <1>2, EndedFlush DEF File
<1>5. "abuse" \in Caller /\ "sweep" \in Caller /\ "stop" \in Caller
  BY CallerAssumption
<1> QED BY <1>3, <1>4, <1>5 DEF Chained, Callers

LEMMA ChainedAnswered ==
  ASSUME Typed, Chained, LockAnswered \/ Exits
  PROVE  Chained'
<1>0. "lock" \in Caller /\ "stop" \in Caller /\ "abuse" \in Caller /\ "sweep" \in Caller
  BY CallerAssumption
<1>1. CASE LockAnswered
  <2>1. /\ sec["lock"].at = "end" /\ sec' = [sec EXCEPT !["lock"] = Off] /\ file' = file
        /\ work' = work /\ srv'.at = srv.at
    BY <1>1 DEF LockAnswered, Answered, Typed, Types, Servers
  <2>2. Queues' /\ \A v \in Caller : v # "lock" => sec'[v] = sec[v]
    BY <1>0, <2>1, QueuesAnswered DEF Chained
  <2> QED BY <1>0, <2>1, <2>2 DEF Chained, Callers
<1>2. CASE Exits
  <2>1. /\ sec["stop"].at = "end" /\ sec' = [sec EXCEPT !["stop"] = Off] /\ file' = file
        /\ work' = work
    BY <1>2, ExitsFacts DEF Typed
  <2>2. Queues' /\ sec'["stop"] = Off /\ \A v \in Caller : v # "stop" => sec'[v] = sec[v]
    BY <1>0, <2>1, QueuesAnswered DEF Chained
  <2> QED BY <1>0, <2>1, <2>2 DEF Chained, Callers, Off
<1> QED BY <1>1, <1>2

LEMMA ChainedCrash ==
  ASSUME Typed, Crash \/ CrashTorn
  PROVE  Chained'
<1>1. PICK t \in Books \cup {Torn}, l \in BOOLEAN \cup {Torn} : Restarts([turn |-> t, locks |-> l])
  BY CrashFacts DEF Typed
<1>2. /\ \A f \in File : file'[f].chain = <<>>
      /\ sec' = [w \in Caller |-> Off]
  BY <1>1, RestartsFacts DEF Typed
<1>3. DOMAIN <<>> = {}
  OBVIOUS
<1>4. "abuse" \in Caller /\ "sweep" \in Caller /\ "stop" \in Caller
  BY CallerAssumption
<1>5. Queues'
  BY <1>2, <1>3 DEF Queues, InQueue
<1> QED BY <1>2, <1>4, <1>5 DEF Chained, Callers, Off

\* Every step is calm, takes an answer, ends a write, calls the provider or restarts.
LEMMA StepKinds ==
  ASSUME Typed, Chained, Next
  PROVE  \/ Calm
         \/ \E a \in {"abuse", "sweep"} : Flushed(a)
         \/ \E a \in Revoker : ProviderRevokes(a)
         \/ Write /\ UNCHANGED <<cred, work, poll, cf, srv>>
         \/ LockAnswered \/ Exits \/ Crash \/ CrashTorn
<1>1. CASE Issue
  BY <1>1, CalmIssue
<1>2. CASE Revoke
  BY <1>2, CalmRevoke DEF Revoke
<1>3. CASE Poll
  BY <1>3, CalmPoll
<1>4. CASE Persisting
  BY <1>4, CalmWorld DEF Persisting
<1>5. CASE World
  BY <1>5, CalmWorld DEF World
<1> QED BY <1>1, <1>2, <1>3, <1>4, <1>5 DEF Next

LEMMA ChainedNext ==
  ASSUME Typed, Chained, [Next]_vars
  PROVE  Chained'
<1>1. CASE UNCHANGED vars
  BY <1>1 DEF vars, persistVars, Chained, Callers, Queues
<1>2. CASE Next
  BY <1>2, StepKinds, CallersCalm, ChainedFlushed, ChainedRevokes, ChainedWrites, ChainedAnswered,
     ChainedCrash
<1> QED BY <1>1, <1>2

LEMMA ChainedInit ==
  ASSUME Init
  PROVE  Chained
<1>1. \A f \in File : file[f].chain = <<>>
  BY DEF Init, Clean
<1>2. sec = [w \in Caller |-> Off]
  BY DEF Init
<1>3. DOMAIN <<>> = {}
  OBVIOUS
<1>4. "abuse" \in Caller /\ "sweep" \in Caller /\ "stop" \in Caller
  BY CallerAssumption
<1>5. Queues
  BY <1>1, <1>3 DEF Queues, InQueue
<1> QED BY <1>2, <1>4, <1>5 DEF Chained, Callers, Off

LEMMA ChainedAlways == Spec => [](Typed /\ Chained)
<1>1. Typed /\ Chained /\ [Next]_vars => Typed' /\ Chained'
  BY TypedNext, ChainedNext
<1> QED BY <1>1, TypesInit, ChainedInit, PTL DEF Spec

(***************************************************************************)
(* Denials and locks: disk, write under way, memory.                       *)
(***************************************************************************)

Readable == (\A f \in File : file[f].load = "ok") /\ disk["turn"] # Torn

\* What is on disk is in the write under way, and what is in either is in memory.
Ordered ==
    /\ \A p \in Principal :
          /\ DeniedOn(disk["turn"], p) => DeniedOn(books, p) /\ (On("turn") => DeniedOn(Snap("turn"), p))
          /\ On("turn") /\ DeniedOn(Snap("turn"), p) => DeniedOn(books, p)
    /\ disk["locks"] => locks /\ (On("locks") => Snap("locks"))
    /\ On("locks") /\ Snap("locks") => locks

\* The ban whose flush is awaited is in memory, in the write of its caller, and on disk once
\* both writes have ended well; only then is the provider called.
BanPromised ==
    LET w == work["abuse"]
        s == sec["abuse"]
    IN  /\ w.at = "flush" =>
              /\ DeniedOn(books, PrincipalOf[w.c])
              /\ On("turn") /\ Head(file["turn"].chain) = "abuse" => DeniedOn(Snap("turn"), PrincipalOf[w.c])
              /\ s.ok /\ s.at \in {"locks", "end"} => DeniedOn(disk["turn"], PrincipalOf[w.c])
        /\ w.at = "revoke" => DeniedOn(disk["turn"], PrincipalOf[w.c])

LockPromised ==
    LET s == sec["lock"]
    IN  /\ s.at # "off" => locks
        /\ On("locks") /\ Head(file["locks"].chain) = "lock" => Snap("locks")
        /\ s.at = "end" /\ s.ok => disk["locks"]
        /\ srv.told => disk["locks"]

CutOff == \A p \in Principal : <<p, "abuse">> \in cf.struck => DeniedOn(disk["turn"], p)

Secure == Readable /\ Ordered /\ BanPromised /\ LockPromised /\ CutOff

\* What a calm step makes of a file's write: it stays, or the first of a new chain begins.
LEMMA WriteMoves ==
  ASSUME Typed, Moves, NEW f \in File
  PROVE  \/ /\ file'[f].write = file[f].write
            /\ On(f) => Head(file'[f].chain) = Head(file[f].chain)
         \/ /\ file'[f].write = [on |-> TRUE, snap |-> IF f = "turn" THEN books ELSE locks]
            /\ Head(file'[f].chain) = Tick
         \/ \E w \in Caller :
               /\ Asker(w) /\ Head(file'[f].chain) = w
               /\ file'[f].write = [on |-> TRUE, snap |-> IF f = "turn" THEN books' ELSE locks']
<1> DEFINE q == file[f].chain
<1>1. q \in Seq(Caller \cup {Tick}) /\ (On(f) <=> q # <<>>)
  BY ChainTyped DEF Typed, WritesOn, On
<1>2. ASSUME NEW v \in Caller \cup {Tick}
      PROVE  (q # <<>> => Head(Append(q, v)) = Head(q)) /\ (q = <<>> => Head(Append(q, v)) = v)
  <2> HIDE DEF q
  <2> QED BY <1>1
<1>3. CASE FilesKept
  BY <1>3 DEF FilesKept, Kept
<1>4. CASE FilesTicked
  <2>1. Tick \in Caller \cup {Tick}
    OBVIOUS
  <2> QED BY <1>1, <1>2, <1>4, <2>1 DEF FilesTicked, On
<1>5. ASSUME NEW w \in Caller, Asker(w), FilesAsked(w)
      PROVE  \/ /\ file'[f].write = file[f].write
                /\ On(f) => Head(file'[f].chain) = Head(file[f].chain)
             \/ /\ Asker(w) /\ Head(file'[f].chain) = w
                /\ file'[f].write = [on |-> TRUE, snap |-> IF f = "turn" THEN books' ELSE locks']
  <2>1. PICK g \in {"turn", "locks", "end"} :
           /\ file'[f].chain = IF f = g THEN Append(q, w) ELSE q
           /\ file'[f].write = IF f = g /\ q = <<>>
                               THEN [on |-> TRUE, snap |-> IF f = "turn" THEN books' ELSE locks']
                               ELSE file[f].write
    BY <1>5 DEF FilesAsked
  <2>2. (q # <<>> => Head(Append(q, w)) = Head(q)) /\ (q = <<>> => Head(Append(q, w)) = w)
    BY <1>2
  <2> HIDE DEF q
  <2>3. CASE f = g /\ q = <<>>
    BY <1>5, <2>1, <2>2, <2>3
  <2>4. CASE ~(f = g /\ q = <<>>)
    <3>1. file'[f].write = file[f].write
      BY <2>1, <2>4
    <3>2. On(f) => Head(file'[f].chain) = Head(q)
      BY <1>1, <2>1, <2>2
    <3> QED BY <3>1, <3>2 DEF q
  <2> QED BY <2>3, <2>4
<1> QED BY <1>3, <1>4, <1>5 DEF Moves

LEMMA SecMoves ==
  ASSUME Typed, Moves, NEW v \in Caller
  PROVE  \/ sec'[v] = sec[v]
         \/ Asker(v) /\ FilesAsked(v) /\ (file["turn"].load = "ok" => sec'[v].at = "turn")
<1>1. ASSUME NEW w \in Caller, FilesAsked(w)
      PROVE  IF v = w THEN file["turn"].load = "ok" => sec'[v].at = "turn" ELSE sec'[v] = sec[v]
  BY <1>1 DEF FilesAsked, Typed, Types, Flushes
<1> QED BY <1>1 DEF Moves, FilesKept, FilesTicked

LEMMA AskedAt ==
  ASSUME Typed, NEW v \in Caller, FilesAsked(v), file["turn"].load = "ok"
  PROVE  sec'[v].at = "turn"
BY DEF FilesAsked, Typed, Types, Flushes

\* The head of a chain waits for this file.
LEMMA HeadInQueue ==
  ASSUME NEW q \in Seq(Caller \cup {Tick}), q # <<>>, NEW s, NEW f, InQueue(q, s, f), Head(q) \in Caller
  PROVE  s[Head(q)].at = f
<1>1. Head(q) = q[1] /\ 1 \in DOMAIN q
  BY TailAt
<1> QED BY <1>1 DEF InQueue

LEMMA HeadWaits ==
  ASSUME Typed, Chained, NEW f \in File, On(f), Head(file[f].chain) \in Caller
  PROVE  sec[Head(file[f].chain)].at = f
<1> DEFINE q == file[f].chain
<1>1. q \in Seq(Caller \cup {Tick}) /\ q # <<>> /\ InQueue(q, sec, f)
  BY ChainTyped DEF Typed, WritesOn, On, Chained, Queues
<1>2. Head(q) \in Caller
  OBVIOUS
<1> HIDE DEF q
<1>3. sec[Head(q)].at = f
  BY <1>1, <1>2, HeadInQueue
<1> QED BY <1>3 DEF q

LEMMA SecureCalm ==
  ASSUME Typed, Typed', Chained, Secure, Calm
  PROVE  Secure'
<1>0. /\ "abuse" \in Caller /\ "lock" \in Caller /\ Tick \notin Caller
      /\ file["turn"].load = "ok" /\ file["locks"].load = "ok"
  BY CallerAssumption, TickIsNoCaller, FileNames DEF Secure, Readable
<1>1. Moves /\ Abuses /\ disk' = disk
  BY DEF Calm
<1>2. Readable'
  BY DEF Calm, Secure, Readable
<1>3. CutOff'
  BY DEF Calm, Secure, CutOff
<1>4. ASSUME NEW p \in Principal
      PROVE  /\ DeniedOn(disk'["turn"], p) => DeniedOn(books', p) /\ (On("turn")' => DeniedOn(Snap("turn")', p))
             /\ On("turn")' /\ DeniedOn(Snap("turn")', p) => DeniedOn(books', p)
  <2>1. DeniedOn(books, p) => DeniedOn(books', p)
    BY DEF Calm
  <2>2. \/ file'["turn"].write = file["turn"].write
        \/ file'["turn"].write = [on |-> TRUE, snap |-> books]
        \/ file'["turn"].write = [on |-> TRUE, snap |-> books']
    BY <1>1, FileNames, WriteMoves
  <2> QED BY <1>1, <2>1, <2>2 DEF Secure, Ordered, On, Snap
<1>5. /\ disk'["locks"] => locks' /\ (On("locks")' => Snap("locks")')
      /\ On("locks")' /\ Snap("locks")' => locks'
  <2>1. locks => locks'
    BY DEF Calm
  <2>2. \/ file'["locks"].write = file["locks"].write
        \/ file'["locks"].write = [on |-> TRUE, snap |-> locks]
        \/ file'["locks"].write = [on |-> TRUE, snap |-> locks']
    BY <1>1, FileNames, WriteMoves
  <2> QED BY <1>1, <2>1, <2>2 DEF Secure, Ordered, On, Snap
<1>6. Ordered'
  BY <1>4, <1>5 DEF Ordered
<1>7. BanPromised'
  <2> DEFINE w == work["abuse"]
             v == work'["abuse"]
             s == sec'["abuse"]
  <2>1. ASSUME v.at = "flush" PROVE DeniedOn(books', PrincipalOf[v.c])
    <3>1. CASE w.at = "flush" /\ w.c = v.c
      <4>1. w.c \in Cid /\ PrincipalOf[w.c] \in Principal
        BY <3>1, OwnerAssumption DEF Typed, Types, WorkTyped, WorkFine, Revoker
      <4> QED BY <3>1, <4>1 DEF Secure, BanPromised, Calm
    <3> QED BY <1>1, <2>1, <3>1 DEF Abuses
  <2>2. ASSUME v.at = "flush", On("turn")', Head(file'["turn"].chain) = "abuse"
        PROVE  DeniedOn(Snap("turn")', PrincipalOf[v.c])
    <3>1. CASE /\ file'["turn"].write = file["turn"].write
               /\ On("turn") => Head(file'["turn"].chain) = Head(file["turn"].chain)
      <4>1. On("turn") /\ Head(file["turn"].chain) = "abuse" /\ Snap("turn")' = Snap("turn")
        BY <2>2, <3>1 DEF On, Snap
      <4>2. sec["abuse"].at = "turn"
        BY <1>0, <4>1, FileNames, HeadWaits
      <4>3. w.at \in {"flush", "note"}
        BY <4>2 DEF Chained, Callers
      <4>4. w.at = "flush" /\ w.c = v.c
        BY <1>1, <2>2, <4>3 DEF Abuses
      <4> QED BY <4>1, <4>4 DEF Secure, BanPromised
    <3>2. CASE Head(file'["turn"].chain) = Tick
      BY <1>0, <2>2, <3>2
    <3>3. ASSUME file'["turn"].write = [on |-> TRUE, snap |-> books']
          PROVE  DeniedOn(Snap("turn")', PrincipalOf[v.c])
      BY <2>1, <2>2, <3>3 DEF Snap
    <3> QED BY <1>1, <3>1, <3>2, <3>3, FileNames, WriteMoves
  <2>3. ASSUME v.at = "flush", s.ok, s.at \in {"locks", "end"}
        PROVE  DeniedOn(disk'["turn"], PrincipalOf[v.c])
    <3>1. s = sec["abuse"] /\ ~FilesAsked("abuse")
      <4>1. ~FilesAsked("abuse")
        BY <1>0, <2>3, AskedAt
      <4> QED BY <1>0, <1>1, <4>1, SecMoves
    <3>2. w.at = "flush" /\ w.c = v.c
      BY <1>1, <2>3, <3>1 DEF Abuses
    <3> QED BY <1>1, <2>3, <3>1, <3>2 DEF Secure, BanPromised
  <2>4. ASSUME v.at = "revoke" PROVE DeniedOn(disk'["turn"], PrincipalOf[v.c])
    <3>1. w.at = "revoke" /\ w.c = v.c
      BY <1>1, <2>4 DEF Abuses
    <3> QED BY <1>1, <3>1 DEF Secure, BanPromised
  <2> QED BY <2>1, <2>2, <2>3, <2>4 DEF BanPromised, On, Snap
<1>8. LockPromised'
  <2> DEFINE s == sec'["lock"]
  <2>1. s = sec["lock"] \/ (Asker("lock") /\ s.at = "turn")
    BY <1>0, <1>1, SecMoves
  <2>2. s.at # "off" => locks'
    BY <2>1 DEF Secure, LockPromised, Calm, Asker
  <2>3. ASSUME On("locks")', Head(file'["locks"].chain) = "lock" PROVE Snap("locks")'
    <3>1. CASE /\ file'["locks"].write = file["locks"].write
               /\ On("locks") => Head(file'["locks"].chain) = Head(file["locks"].chain)
      BY <2>3, <3>1 DEF Secure, LockPromised, On, Snap
    <3>2. CASE Head(file'["locks"].chain) = Tick
      BY <1>0, <2>3, <3>2
    <3>3. ASSUME NEW w \in Caller, Asker(w), Head(file'["locks"].chain) = w,
                 file'["locks"].write = [on |-> TRUE, snap |-> locks']
          PROVE  Snap("locks")'
      BY <2>3, <3>3 DEF Snap, Asker
    <3> QED BY <1>1, <3>1, <3>2, <3>3, FileNames, WriteMoves
  <2>4. s.at = "end" /\ s.ok => disk'["locks"]
    BY <1>1, <2>1 DEF Secure, LockPromised
  <2>5. srv'.told => disk'["locks"]
    BY DEF Calm, Secure, LockPromised
  <2> QED BY <2>2, <2>3, <2>4, <2>5 DEF LockPromised, On, Snap
<1> QED BY <1>2, <1>3, <1>6, <1>7, <1>8 DEF Secure

LEMMA SecureFlushed ==
  ASSUME Typed, Chained, Secure, NEW a \in {"abuse", "sweep"}, Flushed(a)
  PROVE  Secure'
<1>1. /\ work[a].at \in {"flush", "note"} /\ sec[a].at = "end" /\ sec' = [sec EXCEPT ![a] = Off]
      /\ \E w \in WorkState :
            /\ work' = [work EXCEPT ![a] = w] /\ w.at \in {"revoke", "rows", "idle"}
            /\ w.at = "revoke" => a = "abuse" /\ w.c = work[a].c /\ work[a].at = "flush" /\ sec[a].ok
  BY FlushedFacts DEF Typed
<1>2. UNCHANGED <<books, locks, file, disk, cf, srv>>
  BY DEF Flushed
<1>3. sec \in Flushes /\ work \in Works /\ a \in Caller /\ "lock" \in Caller /\ a \in Revoker
  BY CallerAssumption DEF Typed, Types, WorkTyped, WorkFine, Revoker
<1>4. sec'["lock"] = sec["lock"]
  BY <1>1, <1>3 DEF Flushes
<1>5. CASE a = "abuse"
  <2>1. /\ work'["abuse"].at \in {"revoke", "rows", "idle"}
        /\ work'["abuse"].at = "revoke" =>
              work'["abuse"].c = work["abuse"].c /\ work["abuse"].at = "flush" /\ sec["abuse"].ok
    BY <1>1, <1>3, <1>5 DEF Works, Revoker
  <2> QED BY <1>1, <1>2, <1>4, <1>5, <2>1
          DEF Secure, Readable, Ordered, BanPromised, LockPromised, CutOff, On, Snap
<1>6. CASE a = "sweep"
  <2>1. work'["abuse"] = work["abuse"] /\ sec'["abuse"] = sec["abuse"]
    BY <1>1, <1>3, <1>6, CallerAssumption DEF Works, Revoker, Flushes
  <2> QED BY <1>2, <1>4, <2>1
          DEF Secure, Readable, Ordered, BanPromised, LockPromised, CutOff, On, Snap
<1> QED BY <1>5, <1>6

LEMMA SecureRevokes ==
  ASSUME Typed, Chained, Secure, NEW a \in Revoker, ProviderRevokes(a)
  PROVE  Secure'
<1>1. /\ work[a].at = "revoke" /\ work' = [work EXCEPT ![a] = [work[a] EXCEPT !.at = "heard"]]
      /\ UNCHANGED <<books, locks, file, sec, disk, srv>> /\ work \in Works
      /\ \A s \in cf'.struck \ cf.struck : s = <<PrincipalOf[work[a].c], a>>
  BY ProviderRevokesFacts DEF Typed, Types, WorkTyped, WorkFine, ProviderRevokes, persistVars
<1>2. BanPromised'
  <2>1. CASE a = "abuse"
    <3>1. work'["abuse"].at = "heard"
      BY <1>1, <2>1 DEF Works, WorkState, Revoker
    <3> QED BY <3>1 DEF BanPromised
  <2>2. CASE a # "abuse"
    <3>1. work'["abuse"] = work["abuse"]
      BY <1>1, <2>2 DEF Works, Revoker
    <3> QED BY <1>1, <3>1 DEF Secure, BanPromised, On, Snap
  <2> QED BY <2>1, <2>2
<1>3. CutOff'
  <2>1. ASSUME NEW p \in Principal, <<p, "abuse">> \in cf'.struck, <<p, "abuse">> \notin cf.struck
        PROVE  DeniedOn(disk["turn"], p)
    <3>1. <<p, "abuse">> = <<PrincipalOf[work[a].c], a>>
      BY <1>1, <2>1
    <3>2. p = PrincipalOf[work[a].c] /\ a = "abuse"
      BY <3>1
    <3> QED BY <1>1, <3>2 DEF Secure, BanPromised
  <2> QED BY <1>1, <2>1 DEF Secure, CutOff
<1> QED BY <1>1, <1>2, <1>3 DEF Secure, Readable, Ordered, LockPromised, On, Snap

\* What the end of a write makes of the writes: its own file has none or a new one, and the
\* other file may begin one.
LEMMA WritesAfter ==
  ASSUME Typed, NEW f \in File, NEW ok \in BOOLEAN, NEW keep \in BOOLEAN, On(f), Ended(f, ok, keep)
  PROVE  /\ \A g \in File : file'[g].load = file[g].load
         /\ file'[f].write = NoWrite
               \/ file'[f].write = [on |-> TRUE, snap |-> IF f = "turn" THEN books ELSE locks]
         /\ \A g \in File : g # f =>
               \/ file'[g].write = file[g].write /\ (On(g) => Head(file'[g].chain) = Head(file[g].chain))
               \/ file'[g].write = [on |-> TRUE, snap |-> locks] /\ f = "turn"
<1> DEFINE who == Head(file[f].chain)
           on == f = "turn" /\ who # Tick /\ file["locks"].load = "ok"
<1>1. /\ who \in Caller \cup {Tick}
      /\ file'[f].write = IF Tail(file[f].chain) = <<>> THEN NoWrite
                          ELSE [on |-> TRUE, snap |-> IF f = "turn" THEN books ELSE locks]
      /\ \A g \in File : g # f =>
            /\ file'[g].chain = IF on THEN Append(file[g].chain, who) ELSE file[g].chain
            /\ file'[g].write = IF on /\ file[g].chain = <<>> THEN [on |-> TRUE, snap |-> locks]
                                ELSE file[g].write
      /\ \A g \in File : file'[g].load = file[g].load
  BY EndedFacts DEF Typed, On
<1>2. ASSUME NEW g \in File, g # f
      PROVE  \/ file'[g].write = file[g].write /\ (On(g) => Head(file'[g].chain) = Head(file[g].chain))
             \/ file'[g].write = [on |-> TRUE, snap |-> locks] /\ f = "turn"
  <2> DEFINE q == file[g].chain
  <2>1. q \in Seq(Caller \cup {Tick}) /\ (On(g) <=> q # <<>>)
    BY ChainTyped DEF Typed, WritesOn, On
  <2>2. q # <<>> => Head(Append(q, who)) = Head(q)
    <3> HIDE DEF q, who
    <3> QED BY <1>1, <2>1
  <2>3. CASE on /\ q = <<>>
    BY <1>1, <1>2, <2>3
  <2>4. CASE on /\ q # <<>>
    <3>1. file'[g].chain = Append(q, who) /\ file'[g].write = file[g].write
      BY <1>1, <1>2, <2>4
    <3> HIDE DEF q, who, on
    <3>2. Head(file'[g].chain) = Head(q)
      BY <2>2, <2>4, <3>1
    <3> QED BY <3>1, <3>2 DEF q
  <2>5. CASE ~on
    <3>1. file'[g].chain = q /\ file'[g].write = file[g].write
      BY <1>1, <1>2, <2>5
    <3> QED BY <3>1
  <2> QED BY <2>3, <2>4, <2>5
<1>3. file'[f].write = NoWrite
          \/ file'[f].write = [on |-> TRUE, snap |-> IF f = "turn" THEN books ELSE locks]
  BY <1>1
<1> QED BY <1>1, <1>2, <1>3

\* A write that ends leaves its snapshot on disk, or what was there; the next one begins with
\* what is in memory.
LEMMA SecureWrites ==
  ASSUME Typed, Chained, Secure, Write, UNCHANGED <<cred, work, poll, cf, srv>>
  PROVE  Secure'
<1>1. PICK f \in File : WriteDone(f) \/ WriteFails(f)
  BY DEF Write
<1>2. /\ On(f) /\ books' = books /\ locks' = locks
      /\ \E ok \in BOOLEAN, keep \in BOOLEAN :
            /\ Ended(f, ok, keep)
            /\ ok => disk' = [disk EXCEPT ![f] = Snap(f)]
      /\ disk' \in {disk, [disk EXCEPT ![f] = Snap(f)]} /\ DiskTyped'
  BY <1>1, WriteFacts DEF Typed, On, Snap
<1>3. PICK ok \in BOOLEAN, keep \in BOOLEAN :
         Ended(f, ok, keep) /\ (ok => disk' = [disk EXCEPT ![f] = Snap(f)])
  BY <1>2
<1>4. /\ \A g \in File : file'[g].load = file[g].load
      /\ file'[f].write = NoWrite
            \/ file'[f].write = [on |-> TRUE, snap |-> IF f = "turn" THEN books ELSE locks]
      /\ \A g \in File : g # f =>
            \/ file'[g].write = file[g].write /\ (On(g) => Head(file'[g].chain) = Head(file[g].chain))
            \/ file'[g].write = [on |-> TRUE, snap |-> locks] /\ f = "turn"
  BY <1>2, <1>3, WritesAfter
<1>5. /\ "abuse" \in Caller /\ "lock" \in Caller
      /\ file["turn"].load = "ok" /\ file["locks"].load = "ok" /\ f \in {"turn", "locks"}
      /\ disk \in [File -> Snapshot] /\ NoWrite.on = FALSE
  BY CallerAssumption, FileNames DEF Secure, Readable, File, Typed, Types, DiskTyped, NoWrite
<1>6. /\ f = "turn" => disk'["turn"] \in {disk["turn"], Snap("turn")} /\ disk'["locks"] = disk["locks"]
      /\ f = "locks" => disk'["locks"] \in {disk["locks"], Snap("locks")} /\ disk'["turn"] = disk["turn"]
      /\ ok => disk'[f] = Snap(f)
  BY <1>2, <1>3, <1>5, FileNames
<1>7. Snap("turn") = disk'["turn"] => disk'["turn"] # Torn
  <2>1. On("turn") => Snap("turn") # Torn
    BY TornAssumption DEF Typed, Types, FileTyped, Fitting, On, Snap
  <2>2. f = "turn" \/ disk'["turn"] = disk["turn"]
    BY <1>5, <1>6
  <2> QED BY <1>2, <2>1, <2>2 DEF Secure, Readable
<1>8. Readable'
  BY <1>4, <1>5, <1>6, <1>7 DEF Secure, Readable
<1>9. ASSUME NEW p \in Principal
      PROVE  /\ DeniedOn(disk["turn"], p) => DeniedOn(disk'["turn"], p)
             /\ DeniedOn(disk'["turn"], p) => DeniedOn(books, p) /\ (On("turn")' => DeniedOn(Snap("turn")', p))
             /\ On("turn")' /\ DeniedOn(Snap("turn")', p) => DeniedOn(books, p)
  <2>1. CASE f = "turn"
    <3>1. \/ On("turn")' = FALSE
          \/ On("turn")' = TRUE /\ Snap("turn")' = books
      <4>1. file'["turn"].write = NoWrite \/ file'["turn"].write = [on |-> TRUE, snap |-> books]
        BY <1>4, <2>1
      <4> QED BY <1>5, <4>1 DEF On, Snap
    <3> QED BY <1>2, <1>6, <2>1, <3>1 DEF Secure, Ordered
  <2>2. CASE f = "locks"
    <3>1. file'["turn"].write = file["turn"].write
      BY <1>4, <2>2, FileNames
    <3> QED BY <1>6, <2>2, <3>1 DEF Secure, Ordered, On, Snap
  <2> QED BY <1>5, <2>1, <2>2
<1>10. /\ disk["locks"] => disk'["locks"]
       /\ disk'["locks"] => locks /\ (On("locks")' => Snap("locks")')
       /\ On("locks")' /\ Snap("locks")' => locks
  <2>1. CASE f = "locks"
    <3>1. \/ On("locks")' = FALSE
          \/ On("locks")' = TRUE /\ Snap("locks")' = locks
      BY <1>4, <1>5, <2>1, FileNames DEF On, Snap
    <3> QED BY <1>2, <1>6, <2>1, <3>1 DEF Secure, Ordered
  <2>2. CASE f = "turn"
    <3>1. \/ file'["locks"].write = file["locks"].write
          \/ file'["locks"].write = [on |-> TRUE, snap |-> locks]
      BY <1>4, <2>2, FileNames
    <3> QED BY <1>6, <2>2, <3>1 DEF Secure, Ordered, On, Snap
  <2> QED BY <1>5, <2>1, <2>2
<1>11. Ordered'
  BY <1>2, <1>9, <1>10 DEF Ordered
<1>12. CutOff'
  BY <1>9 DEF Secure, CutOff
<1>13. BanPromised'
  <2> DEFINE w == work["abuse"]
             p == PrincipalOf[w.c]
  <2>1. w.at \in {"flush", "revoke"} => p \in Principal
    BY OwnerAssumption DEF Typed, Types, WorkTyped, WorkFine, Revoker
  <2>2. w.at = "revoke" => DeniedOn(disk'["turn"], p)
    BY <1>9, <2>1 DEF Secure, BanPromised
  <2>3. w.at = "flush" => DeniedOn(books, p)
    BY DEF Secure, BanPromised
  <2>4. ASSUME w.at = "flush", On("turn")', Head(file'["turn"].chain) = "abuse"
        PROVE  DeniedOn(Snap("turn")', p)
    <3>1. CASE f = "turn"
      <4>1. file'["turn"].write = NoWrite \/ file'["turn"].write = [on |-> TRUE, snap |-> books]
        BY <1>4, <3>1
      <4> QED BY <1>5, <2>3, <2>4, <4>1 DEF On, Snap
    <3>2. CASE f = "locks"
      BY <1>4, <2>4, <3>2, FileNames DEF Secure, BanPromised, On, Snap
    <3> QED BY <1>5, <3>1, <3>2
  <2>5. ASSUME w.at = "flush", sec'["abuse"].ok, sec'["abuse"].at \in {"locks", "end"}
        PROVE  DeniedOn(disk'["turn"], p)
    <3>1. \/ sec'["abuse"] = sec["abuse"]
          \/ /\ Head(file[f].chain) = "abuse" /\ sec["abuse"].at = f
             /\ sec'["abuse"].ok => ok /\ sec["abuse"].ok
      BY <1>2, <1>3, <1>5, EndedFlush DEF On
    <3>2. CASE sec'["abuse"] = sec["abuse"]
      BY <1>9, <2>1, <2>5, <3>2 DEF Secure, BanPromised
    <3>3. CASE Head(file[f].chain) = "abuse" /\ sec["abuse"].at = f /\ ok /\ sec["abuse"].ok /\ f = "turn"
      BY <1>2, <1>6, <2>5, <3>3 DEF Secure, BanPromised
    <3>4. CASE sec["abuse"].at = f /\ ok /\ sec["abuse"].ok /\ f = "locks"
      BY <1>9, <2>1, <2>5, <3>4 DEF Secure, BanPromised
    <3> QED BY <1>5, <2>5, <3>1, <3>2, <3>3, <3>4
  <2> QED BY <1>2, <2>2, <2>3, <2>4, <2>5 DEF BanPromised
<1>14. LockPromised'
  <2>1. \/ sec'["lock"] = sec["lock"]
        \/ /\ Head(file[f].chain) = "lock" /\ sec["lock"].at = f
           /\ sec'["lock"].ok => ok /\ sec["lock"].ok
           /\ sec'["lock"].at \in {"locks", "end"}
           /\ f = "turn" => sec'["lock"].at = "locks"
    BY <1>2, <1>3, <1>5, EndedFlush DEF On
  <2>2. sec'["lock"].at # "off" => locks
    BY <1>5, <2>1 DEF Secure, LockPromised
  <2>3. ASSUME On("locks")', Head(file'["locks"].chain) = "lock" PROVE Snap("locks")'
    <3>1. CASE file'["locks"].write = file["locks"].write
                 /\ (On("locks") => Head(file'["locks"].chain) = Head(file["locks"].chain))
      BY <2>3, <3>1 DEF Secure, LockPromised, On, Snap
    <3>2. CASE file'["locks"].write = [on |-> TRUE, snap |-> locks]
      <4>1. Typed' /\ Chained'
        <5>1. Persisting
          BY DEF Persisting
        <5> QED BY <5>1, TypesPersist, ChainedWrites
      <4>2. sec'["lock"].at = "locks"
        <5> DEFINE q == file'["locks"].chain
                   s == sec'
        <5>1. q \in Seq(Caller \cup {Tick}) /\ q # <<>> /\ InQueue(q, s, "locks")
          BY <2>3, <4>1, FileNames
             DEF Typed, Types, FileTyped, Files, FileState, WritesOn, On, Chained, Queues
        <5>2. Head(q) = "lock"
          BY <2>3
        <5> HIDE DEF q, s
        <5>3. s[Head(q)].at = "locks"
          BY <1>5, <5>1, <5>2, HeadInQueue
        <5> QED BY <5>2, <5>3 DEF s
      <4>3. locks
        BY <2>2, <4>2
      <4> QED BY <3>2, <4>3 DEF Snap
    <3>3. \/ file'["locks"].write = [on |-> TRUE, snap |-> locks]
          \/ file'["locks"].write = NoWrite
          \/ file'["locks"].write = file["locks"].write
               /\ (On("locks") => Head(file'["locks"].chain) = Head(file["locks"].chain))
      BY <1>4, <1>5, FileNames
    <3> QED BY <1>5, <2>3, <3>1, <3>2, <3>3 DEF On
  <2>4. sec'["lock"].at = "end" /\ sec'["lock"].ok => disk'["locks"]
    <3>1. CASE sec'["lock"] = sec["lock"]
      BY <1>10, <3>1 DEF Secure, LockPromised
    <3>2. CASE Head(file[f].chain) = "lock" /\ f = "locks" /\ ok
      BY <1>2, <1>6, <3>2 DEF Secure, LockPromised
    <3> QED BY <1>5, <2>1, <3>1, <3>2
  <2>5. srv.told => disk'["locks"]
    BY <1>10 DEF Secure, LockPromised
  <2> QED BY <1>2, <2>2, <2>3, <2>4, <2>5 DEF LockPromised
<1> QED BY <1>8, <1>11, <1>12, <1>13, <1>14 DEF Secure

LEMMA SecureAnswered ==
  ASSUME Typed, Chained, Secure, LockAnswered \/ Exits
  PROVE  Secure'
<1>0. sec \in Flushes /\ srv \in Servers /\ {"lock", "stop", "abuse"} \subseteq Caller
  BY CallerAssumption DEF Typed, Types
<1>1. UNCHANGED <<books, locks, file, disk, work, cf>>
  BY DEF LockAnswered, Exits
<1>2. sec'["abuse"] = sec["abuse"]
  BY <1>0 DEF LockAnswered, Exits, Flushes
<1>3. LockPromised'
  <2>1. CASE LockAnswered
    <3>1. sec'["lock"] = Off /\ sec["lock"].at = "end" /\ srv'.told = (srv.told \/ sec["lock"].ok)
      BY <1>0, <2>1 DEF LockAnswered, Answered, Flushes, Servers
    <3>2. srv'.told => disk["locks"]
      BY <3>1 DEF Secure, LockPromised
    <3>3. sec'["lock"].at = "off"
      BY <3>1 DEF Off
    <3>4. On("locks") /\ Head(file["locks"].chain) = "lock" => Snap("locks")
      BY DEF Secure, LockPromised
    <3> QED BY <1>1, <3>2, <3>3, <3>4 DEF LockPromised, On, Snap
  <2>2. CASE Exits
    <3>1. sec'["lock"] = sec["lock"] /\ srv'.told = srv.told
      BY <1>0, <2>2, ExitsFacts DEF Typed, Exits, Flushes
    <3> QED BY <1>1, <3>1 DEF Secure, LockPromised, On, Snap
  <2> QED BY <2>1, <2>2
<1> QED BY <1>1, <1>2, <1>3 DEF Secure, Readable, Ordered, BanPromised, CutOff, On, Snap

\* A crash leaves of each file what was there or what was being written.
LEMMA SecureCrash ==
  ASSUME Typed, Secure, Crash
  PROVE  Secure'
<1>1. PICK t \in Books \cup {Torn}, l \in BOOLEAN \cup {Torn} :
         Restarts([turn |-> t, locks |-> l]) /\ t \in Left("turn") /\ l \in Left("locks")
  BY CrashFacts DEF Typed
<1>2. /\ On("turn") => Snap("turn") \in Books
      /\ On("locks") => Snap("locks") \in BOOLEAN
      /\ disk["turn"] \in Books \cup {Torn} /\ disk["locks"] \in BOOLEAN /\ srv \in Servers
  BY DEF Typed, Types, FileTyped, Fitting, DiskTyped, On, Snap
<1>3. /\ t \in {disk["turn"]} \cup (IF On("turn") THEN {Snap("turn")} ELSE {})
      /\ l \in {disk["locks"]} \cup (IF On("locks") THEN {Snap("locks")} ELSE {})
  BY <1>1 DEF Left, On, Snap
<1>4. t \in Books /\ t # Torn /\ l \in BOOLEAN /\ l # Torn
  BY <1>2, <1>3, TornAssumption DEF Secure, Readable
<1>5. /\ books' = Rolled(t) /\ locks' = (l = TRUE) /\ disk'["turn"] = t /\ disk'["locks"] = (l = TRUE)
      /\ \A f \in File : file'[f].write = NoWrite
      /\ file'["turn"].load = "ok" /\ file'["locks"].load = "ok"
      /\ sec' = [w \in Caller |-> Off] /\ work' = [a \in Revoker |-> Idle]
      /\ cf' = cf /\ srv' = [srv EXCEPT !.at = "up"]
  <2>1. /\ books' = Rolled(t) /\ locks' = (l = TRUE)
        /\ disk' = [turn |-> t, locks |-> l = TRUE]
        /\ \A f \in File : file'[f].write = NoWrite
        /\ file'["turn"].load = "ok" /\ file'["locks"].load = "ok"
    BY <1>1, <1>4, RestartsFacts DEF Typed
  <2>2. /\ sec' = [w \in Caller |-> Off] /\ work' = [a \in Revoker |-> Idle]
        /\ cf' = cf /\ srv' = [srv EXCEPT !.at = "up"]
    BY <1>1, <1>4, RestartsFacts DEF Typed
  <2>3. disk'["turn"] = t /\ disk'["locks"] = (l = TRUE)
    BY <2>1
  <2> QED BY <2>1, <2>2, <2>3
<1>6. \A f \in File : ~On(f)'
  BY <1>5 DEF On, NoWrite
<1>7. Readable'
  BY <1>4, <1>5 DEF Readable, File
<1>8. books'.deny = t.deny
  BY <1>2, <1>4, <1>5, RolledFacts
<1>9. Ordered'
  BY <1>5, <1>6, <1>8, FileNames, SameDenials DEF Ordered
<1>10. BanPromised'
  BY <1>5 DEF BanPromised, Idle, Revoker
<1>11. LockPromised'
  <2>1. disk["locks"] => l = TRUE
    BY <1>3 DEF Secure, Ordered
  <2>2. srv'.told = srv.told
    BY <1>2, <1>5 DEF Servers
  <2>3. sec'["lock"].at = "off"
    BY <1>5, CallerAssumption DEF Off
  <2> QED BY <1>5, <1>6, <2>1, <2>2, <2>3, FileNames DEF Secure, LockPromised
<1>12. CutOff'
  <2>1. \A p \in Principal : DeniedOn(disk["turn"], p) => DeniedOn(t, p)
    BY <1>3 DEF Secure, Ordered
  <2> QED BY <1>5, <2>1 DEF Secure, CutOff
<1> QED BY <1>7, <1>9, <1>10, <1>11, <1>12 DEF Secure

LEMMA WholeBefore ==
  ASSUME Typed, [Next]_vars, Whole'
  PROVE  Whole /\ ~CrashTorn
<1>1. spent'["torn"] \in Nat /\ spent'["torn"] >= spent["torn"] /\ spent["torn"] \in Nat
  BY SpentGrows DEF Typed, Types, Disturbance
<1>2. CrashTorn => spent'["torn"] > 0
  BY CrashFacts DEF Typed
<1> QED BY <1>1, <1>2 DEF Whole

LEMMA SecureNext ==
  ASSUME Typed, Chained, Whole => Secure, [Next]_vars
  PROVE  (Whole => Secure)'
<1>1. SUFFICES ASSUME Whole' PROVE Secure'
  OBVIOUS
<1>2. Secure /\ ~CrashTorn
  BY <1>1, WholeBefore
<1>3. CASE UNCHANGED vars
  BY <1>2, <1>3 DEF vars, persistVars, Secure, Readable, Ordered, BanPromised, LockPromised, CutOff, On, Snap
<1>4. CASE Next
  <2>1. Typed'
    BY TypedNext
  <2> QED BY <1>2, <1>4, <2>1, StepKinds, SecureCalm, SecureFlushed, SecureRevokes, SecureWrites,
             SecureAnswered, SecureCrash
<1> QED BY <1>3, <1>4

LEMMA SecureInit ==
  ASSUME Init
  PROVE  Secure
<1>1. Typed
  BY TypesInit
<1>2. /\ books = EmptyBooks(0) /\ locks = FALSE /\ file = [f \in File |-> Clean]
      /\ sec = [w \in Caller |-> Off] /\ disk = [turn |-> EmptyBooks(0), locks |-> FALSE]
      /\ work = [a \in Revoker |-> Idle] /\ cf.struck = {} /\ srv.told = FALSE
  BY DEF Init
<1>3. \A f \in File : ~On(f) /\ file[f].load = "ok"
  BY <1>2 DEF On, Clean, NoWrite
<1>4. disk["turn"] = books /\ disk["turn"] # Torn /\ disk["locks"] = FALSE
  <2>1. disk["turn"] = books /\ disk["locks"] = FALSE
    BY <1>2
  <2> QED BY <1>1, <2>1, TornAssumption DEF Typed, Types, BooksTyped
<1>5. work["abuse"].at = "idle" /\ sec["lock"].at = "off"
  BY <1>2, CallerAssumption DEF Idle, Revoker, Off
<1> QED BY <1>2, <1>3, <1>4, <1>5, FileNames
        DEF Secure, Readable, Ordered, BanPromised, LockPromised, CutOff

LEMMA SecureAlways == Spec => [](Typed /\ Chained /\ (Whole => Secure))
<1>1. Init => Typed /\ Chained /\ (Whole => Secure)
  BY TypesInit, ChainedInit, SecureInit
<1>2. Typed /\ Chained /\ (Whole => Secure) /\ [Next]_vars => (Typed /\ Chained /\ (Whole => Secure))'
  BY TypedNext, ChainedNext, SecureNext
<1> QED BY <1>1, <1>2, PTL DEF Spec

\* Once the provider has cut off a session for abuse, the ban of its identity is on disk,
\* whatever fails or crashes next, as long as the files stay readable: the provider is called
\* only after the flush of the denial has ended well, no later snapshot lacks the denial, and a
\* restart reads one of those snapshots (turn.ts handleAbusiveCredential, persist.ts
\* flushSecurityState).
THEOREM BansAreDurable == Spec => []DenialIsDurable
<1>1. (Whole => Secure) => DenialIsDurable
  BY DEF Secure, CutOff, DenialIsDurable
<1> QED BY <1>1, SecureAlways, PTL

\* A lock that a client has been told of is on disk (http.ts persistSecurityOr503, persist.ts
\* flushPersistedLocks).
THEOREM LocksAreDurable == Spec => []ToldLockIsDurable
<1>1. (Whole => Secure) => ToldLockIsDurable
  BY DEF Secure, LockPromised, ToldLockIsDurable
<1> QED BY <1>1, SecureAlways, PTL

\* Whom the provider has cut off for abuse is issued nothing fresh any more, by whatever
\* session: the books deny what the disk denies (turn.ts issueCredentials).
THEOREM BannedStaysOut == Spec => BannedGetsNothing
<1> DEFINE Refused == \A c \in Cid : IssueFresh(c) => <<PrincipalOf[c], "abuse">> \notin cf.struck \/ ~Whole
<1>1. ASSUME Typed, Whole => Secure, [Next]_vars
      PROVE  [Refused]_vars
  <2>1. SUFFICES ASSUME NEW c \in Cid, IssueFresh(c), Whole, <<PrincipalOf[c], "abuse">> \in cf.struck
                 PROVE  FALSE
    OBVIOUS
  <2>2. PrincipalOf[c] \in Principal /\ books \in Books /\ srv \in Servers
    BY <1>1, OwnerAssumption DEF Typed, Types, BooksTyped
  <2>3. DeniedOn(books, PrincipalOf[c])
    BY <1>1, <2>1, <2>2 DEF Secure, CutOff, Ordered
  <2>4. Rolled(books) \in Books /\ Rolled(books).deny = books.deny
    BY <2>2, RolledFacts
  <2>5. Pruned(Rolled(books)).deny = books.deny
    BY <2>4, PrunedFacts
  <2>6. Denied(Pruned(Rolled(books)), c)
    BY <2>3, <2>5 DEF Denied, DeniedOn
  <2> QED BY <2>1, <2>6 DEF IssueFresh, Fresh
<1>2. (Typed /\ Chained /\ (Whole => Secure)) /\ [Next]_vars => [Refused]_vars
  BY <1>1
<1>3. Spec => [][Refused]_vars
  BY <1>2, SecureAlways, PTL DEF Spec
<1> QED BY <1>3 DEF BannedGetsNothing

=============================================================================
