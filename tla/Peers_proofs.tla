---------------------------- MODULE Peers_proofs ----------------------------
(***************************************************************************)
(* Safety of negotiation and ICE recovery, for any mix of disturbances.    *)
(*                                                                         *)
(* The inductive invariant is stated of a world, since a synchronous       *)
(* stretch of code is a chain of world operators: every operator is shown  *)
(* to lead from a sound world to a sound world, and an action is then a    *)
(* few of these facts.                                                     *)
(***************************************************************************)
EXTENDS Peers, FiniteSetTheorems, TLAPS

(***************************************************************************)
(* Types.                                                                  *)
(***************************************************************************)

Desc == [pc : Nat, n : Nat]
Message == [t : {"none", "left", "joined", "rejoin", "gone", "offer", "answer"}, d : Desc, re : Desc]
Receipts == [m : Message, inc : Nat, gen : Nat, pc : Nat, pub : Nat]
Conn ==
    [id : Nat, sig : {"stable", "local", "remote"}, n : Nat, rem : Desc,
     ice : {"new", "conn", "disc", "fail"}, stuck : Desc,
     chan : {"none", "wait", "open", "closed"}, mate : Int]
Watch == [kind : {"none", "first", "again"}, pc : Nat, gen : Nat]
Disc == [pc : Nat, gen : Nat]
Device ==
    [gen : Nat, inc : Nat, era : Nat, making : BOOLEAN, setting : BOOLEAN, seq : Nat, pub : Nat,
     going : Nat, remote : BOOLEAN, status : {"connecting", "reconnecting", "online", "offline"},
     aes : BOOLEAN, rebuilt : BOOLEAN, tries : 0..MaxRestarts, lock : Nat, pre : Nat, retry : Nat,
     watch : Watch, disc : Disc, fall : BOOLEAN, pc : Conn, left : SUBSET Nat]
Reason ==
    {"none", "join", "orphan", "fallback", "focus", "user", "send", "woken", "restart", "rebuild"}
Task ==
    [k : {"none", "dial", "sdp", "restart", "watch", "send", "migrate"},
     at : {"none", "ready", "turn", "keys", "offering", "rollback", "answering", "applying", "backoff",
           "stable", "channel"},
     gen : Nat, pc : Nat, inc : Nat, era : Nat, tok : Nat, tries : Nat, by : Reason, m : Message]
World ==
    [side : [Side -> Device], tasks : [Side -> SUBSET Task],
     queue : [Side -> Seq(Receipts)], net : [Side -> Seq(Message)]]

(***************************************************************************)
(* The invariant.                                                          *)
(***************************************************************************)

\* A task that may be parked for a device of this generation.
Fit(t, gen) ==
    /\ t.gen <= gen
    /\ t.k = "send" => t.at = "channel"
    /\ t.k = "restart" => t.tries < MaxRestarts
    /\ t.at \in {"ready", "turn"} => t.gen # 0

\* The connection in the map is of a generation there has been; none was left open.
Owned(r) == r.pc.id <= r.gen /\ (r.pc.id = 0 => r.pc = NoPc) /\ r.left = {}

\* No two restarts of one generation.
Parked(r, T) ==
    /\ \A t \in T : Fit(t, r.gen)
    /\ \A t, u \in T : t.k = "restart" /\ u.k = "restart" /\ t.gen = u.gen => t = u

\* The lock is that of the restart of its generation.
Locked(r, T) ==
    /\ \A t \in T : t.k = "restart" /\ t.gen = r.gen => r.lock = t.gen
    /\ r.lock # 0 => \E t \in T : t.k = "restart" /\ t.gen = r.lock

Making(r, T) == r.making => \E t \in T : t.at = "offering" /\ t.tok = r.seq

\* What a device keeps fits the tasks it has parked.
Sound(r, T) == Owned(r) /\ Parked(r, T) /\ Locked(r, T) /\ Making(r, T)

Inv(w) == w \in World /\ \A s \in Side : Sound(w.side[s], w.tasks[s])

Typed == Inv(Now) /\ up \in [Side -> BOOLEAN] /\ spent \in [Disturbance -> Nat]

(***************************************************************************)
(* Worlds.                                                                 *)
(***************************************************************************)

LEMMA OtherSide == \A s \in Side : Other(s) \in Side /\ Other(s) # s
<1> SUFFICES ASSUME NEW s \in Side PROVE \E o \in Side : o # s
  BY DEF Other
<1>1. SUFFICES ASSUME \A o \in Side : o = s PROVE FALSE
  OBVIOUS
<1>2. Side = {s}
  BY <1>1
<1>3. Cardinality({s}) = 1
  BY FS_Singleton
<1> QED BY <1>2, <1>3, SideAssumption

LEMMA NoTaskTyped == NoTask \in Task /\ NoPc \in Conn /\ NoDesc \in Desc /\ NoMsg \in Message
                     /\ NoWatch \in Watch /\ NoDisc \in Disc
BY DEF NoTask, Task, NoPc, Conn, NoDesc, Desc, NoMsg, Message, Msg, NoWatch, Watch, NoDisc, Disc, Reason

\* What a step does to one device leaves the other as it was.
LEMMA OneSide ==
  ASSUME NEW w, Inv(w), NEW s \in Side, NEW v \in World,
         \A x \in Side : x # s => v.side[x] = w.side[x] /\ v.tasks[x] = w.tasks[x],
         Sound(v.side[s], v.tasks[s])
  PROVE  Inv(v)
BY DEF Inv

\* Fields that the invariant does not relate to the tasks.
Core(r, q) ==
    /\ q.gen = r.gen /\ q.making = r.making /\ q.seq = r.seq /\ q.lock = r.lock
    /\ Owned(r) => Owned(q)

LEMMA CoreSound ==
  ASSUME NEW r, NEW q, NEW T, Core(r, q), Sound(r, T)
  PROVE  Sound(q, T)
BY DEF Core, Sound, Parked, Locked, Making

\* The world with one device, and its tasks, replaced.
Put(w, s, q, T) == [w EXCEPT !.side[s] = q, !.tasks[s] = T]

LEMMA PutKeeps ==
  ASSUME NEW w, Inv(w), NEW s \in Side, NEW q \in Device, NEW T \in SUBSET Task, Sound(q, T)
  PROVE  /\ Inv(Put(w, s, q, T)) /\ Put(w, s, q, T).side[s] = q /\ Put(w, s, q, T).tasks[s] = T
<1> DEFINE v == Put(w, s, q, T)
<1>1. w \in World
  BY DEF Inv
<1>2. v \in World /\ v.side = [w.side EXCEPT ![s] = q] /\ v.tasks = [w.tasks EXCEPT ![s] = T]
  BY <1>1 DEF World, Put
<1>3. /\ v.side[s] = q /\ v.tasks[s] = T
      /\ \A x \in Side : x # s => v.side[x] = w.side[x] /\ v.tasks[x] = w.tasks[x]
  BY <1>1, <1>2 DEF World
<1> HIDE DEF v
<1>4. Inv(v)
  <2>1. v \in World /\ Sound(v.side[s], v.tasks[s])
    BY <1>2, <1>3
  <2>2. \A x \in Side : x # s => v.side[x] = w.side[x] /\ v.tasks[x] = w.tasks[x]
    BY <1>3
  <2> QED BY <2>1, <2>2, OneSide
<1> QED BY <1>3, <1>4 DEF v

LEMMA CoreKeeps ==
  ASSUME NEW w, Inv(w), NEW s \in Side, NEW q \in Device, Core(w.side[s], q)
  PROVE  /\ Inv([w EXCEPT !.side[s] = q]) /\ [w EXCEPT !.side[s] = q].side[s] = q
         /\ [w EXCEPT !.side[s] = q].tasks = w.tasks
<1> DEFINE v == [w EXCEPT !.side[s] = q]
<1>1. v \in World /\ v.side = [w.side EXCEPT ![s] = q] /\ v.tasks = w.tasks
  BY DEF Inv, World
<1>2. Sound(w.side[s], w.tasks[s]) /\ w \in World
  BY DEF Inv
<1>3. v.side[s] = q /\ \A x \in Side : x # s => v.side[x] = w.side[x]
  BY <1>1, <1>2 DEF World
<1>4. Sound(v.side[s], v.tasks[s])
  BY <1>1, <1>2, <1>3, CoreSound
<1> HIDE DEF v
<1>5. Inv(v)
  BY <1>1, <1>3, <1>4, OneSide
<1> QED BY <1>1, <1>3, <1>5 DEF v

LEMMA StartKeeps ==
  ASSUME NEW w, Inv(w), NEW s \in Side, NEW t \in Task, t.k # "restart", Fit(t, w.side[s].gen)
  PROVE  Inv(Start(w, s, t)) /\ Start(w, s, t).side = w.side
<1>1. Start(w, s, t) \in World /\ Start(w, s, t).side = w.side
      /\ Start(w, s, t).tasks = [w.tasks EXCEPT ![s] = @ \cup {t}]
  BY DEF Inv, World, Start
<1>2. Sound(w.side[s], w.tasks[s]) /\ w \in World
  BY DEF Inv
<1>3. Start(w, s, t).tasks[s] = w.tasks[s] \cup {t}
      /\ \A x \in Side : x # s => Start(w, s, t).tasks[x] = w.tasks[x]
  BY <1>1, <1>2 DEF World
<1>4. Sound(w.side[s], w.tasks[s] \cup {t})
  BY <1>2 DEF Sound, Parked, Locked, Making
<1> DEFINE v == Start(w, s, t)
<1>5. v \in World /\ (\A x \in Side : x # s => v.side[x] = w.side[x] /\ v.tasks[x] = w.tasks[x])
      /\ Sound(v.side[s], v.tasks[s])
  BY <1>1, <1>3, <1>4
<1> HIDE DEF v
<1>6. Inv(v)
  BY <1>5, OneSide
<1> QED BY <1>1, <1>6 DEF v

\* The task whose end would leave the flag behind.
Makes(w, s, t) == t.at = "offering" /\ w.side[s].making /\ t.tok = w.side[s].seq

LEMMA EndFacts ==
  ASSUME NEW w \in World, NEW s \in Side, NEW t \in Task
  PROVE  \E g \in Nat : End(w, s, t) = Put(w, s, [w.side[s] EXCEPT !.going = g], w.tasks[s] \ {t})
<1> DEFINE v == [w EXCEPT !.tasks[s] = @ \ {t}]
           g == IF t.k = "dial" /\ v.side[s].going = t.gen THEN 0 ELSE v.side[s].going
<1>1. v.side = w.side
  BY DEF World
<1>2. End(w, s, t) = [v EXCEPT !.side[s].going = g]
  BY DEF End
<1>3. g \in Nat
  BY <1>1 DEF World, Device
<1> HIDE DEF g
<1>4. End(w, s, t) = [v EXCEPT !.side[s] = [w.side[s] EXCEPT !.going = g]]
  <2>1. v.side[s] = w.side[s]
    BY <1>1
  <2> HIDE DEF v
  <2> QED BY <1>2, <2>1
<1> DEFINE q == [w.side[s] EXCEPT !.going = g]
<1> HIDE DEF q
<1>5. [v EXCEPT !.side[s] = q] = Put(w, s, q, w.tasks[s] \ {t})
  BY DEF Put, World
<1> QED BY <1>3, <1>4, <1>5 DEF q

LEMMA GoingFits ==
  ASSUME NEW r \in Device, NEW g \in Nat
  PROVE  [r EXCEPT !.going = g] \in Device /\ Core(r, [r EXCEPT !.going = g])
BY DEF Device, Core, Owned

LEMMA EndKeeps ==
  ASSUME NEW w, Inv(w), NEW s \in Side, NEW t \in Task, t.k # "restart", ~Makes(w, s, t)
  PROVE  Inv(End(w, s, t))
<1>1. w \in World /\ Sound(w.side[s], w.tasks[s]) /\ w.side[s] \in Device /\ w.tasks[s] \in SUBSET Task
  BY DEF Inv, World
<1>2. PICK g \in Nat : End(w, s, t) = Put(w, s, [w.side[s] EXCEPT !.going = g], w.tasks[s] \ {t})
  BY <1>1, EndFacts
<1> DEFINE q == [w.side[s] EXCEPT !.going = g]
<1>3. q \in Device /\ Core(w.side[s], q)
  BY <1>1, GoingFits
<1>4. Sound(w.side[s], w.tasks[s] \ {t})
  BY <1>1 DEF Sound, Parked, Locked, Making, Makes
<1> HIDE DEF q
<1>5. Sound(q, w.tasks[s] \ {t})
  BY <1>3, <1>4, CoreSound
<1>6. Inv(Put(w, s, q, w.tasks[s] \ {t}))
  BY <1>1, <1>3, <1>5, PutKeeps
<1> QED BY <1>2, <1>6 DEF q

LEMMA GoesKeeps ==
  ASSUME NEW w, Inv(w), NEW s \in Side, NEW t \in w.tasks[s], NEW u \in Task,
         u.k = t.k, u.gen = t.gen, Fit(u, w.side[s].gen), ~Makes(w, s, t)
  PROVE  Inv(Goes(w, s, t, u)) /\ Goes(w, s, t, u).side = w.side
         /\ Goes(w, s, t, u).tasks[s] = (w.tasks[s] \ {t}) \cup {u}
<1>1. w \in World /\ Sound(w.side[s], w.tasks[s]) /\ w.side[s] \in Device /\ w.tasks[s] \in SUBSET Task
  BY DEF Inv, World
<1> DEFINE T == (w.tasks[s] \ {t}) \cup {u}
<1>2. Goes(w, s, t, u) \in World /\ Goes(w, s, t, u).side = w.side
      /\ Goes(w, s, t, u).tasks = [w.tasks EXCEPT ![s] = T]
  <2> DEFINE v == [w EXCEPT !.tasks[s] = @ \ {t}]
  <2>1. v \in World /\ v.side = w.side /\ v.tasks = [w.tasks EXCEPT ![s] = @ \ {t}]
    BY <1>1 DEF World
  <2>2. Goes(w, s, t, u) = [v EXCEPT !.tasks[s] = @ \cup {u}]
    BY DEF Goes, Start
  <2>3. v.tasks[s] = w.tasks[s] \ {t}
    BY <1>1, <2>1 DEF World
  <2>4. T \in SUBSET Task
    BY <1>1
  <2> HIDE DEF v
  <2>5. Goes(w, s, t, u) = [v EXCEPT !.tasks[s] = T]
    BY <2>2, <2>3
  <2> HIDE DEF T
  <2>6. Goes(w, s, t, u) \in World /\ Goes(w, s, t, u).side = v.side
        /\ Goes(w, s, t, u).tasks = [v.tasks EXCEPT ![s] = T]
    BY <2>1, <2>4, <2>5 DEF World
  <2> QED BY <1>1, <2>1, <2>6 DEF World
<1>3. Sound(w.side[s], T)
  BY <1>1 DEF Sound, Parked, Locked, Making, Makes
<1> HIDE DEF T
<1> DEFINE v == Goes(w, s, t, u)
<1>4. /\ v \in World /\ (\A x \in Side : x # s => v.side[x] = w.side[x] /\ v.tasks[x] = w.tasks[x])
      /\ Sound(v.side[s], v.tasks[s]) /\ v.tasks[s] = T
  BY <1>1, <1>2, <1>3 DEF World
<1> HIDE DEF v
<1>5. Inv(v)
  BY <1>4, OneSide
<1> QED BY <1>2, <1>4, <1>5 DEF v, T

\* Only the restart that holds the lock gives it back.
LEMMA ReleaseKeeps ==
  ASSUME NEW w, Inv(w), NEW s \in Side, NEW t \in w.tasks[s], t.k = "restart", ~Makes(w, s, t)
  PROVE  Inv(Release(w, s, t))
<1>1. w \in World /\ Sound(w.side[s], w.tasks[s]) /\ w.side[s] \in Device /\ w.tasks[s] \in SUBSET Task
      /\ t \in Task
  BY DEF Inv, World
<1>2. PICK g \in Nat : End(w, s, t) = Put(w, s, [w.side[s] EXCEPT !.going = g], w.tasks[s] \ {t})
  BY <1>1, EndFacts
<1> DEFINE T == w.tasks[s] \ {t}
           q == [w.side[s] EXCEPT !.going = g]
<1>3. q \in Device /\ Core(w.side[s], q)
  BY <1>1, GoingFits
<1> HIDE DEF q
<1> DEFINE l == IF q.lock = t.gen THEN 0 ELSE q.lock
           p == [q EXCEPT !.lock = l]
<1>4. Release(w, s, t) = Put(w, s, p, T)
  <2>1. End(w, s, t) = Put(w, s, q, T)
    BY <1>2 DEF q
  <2>2. Put(w, s, q, T).side[s] = q
    BY <1>1 DEF Put, World
  <2>3. Release(w, s, t) = [Put(w, s, q, T) EXCEPT !.side[s].lock = l]
    BY <2>1, <2>2 DEF Release
  <2>4. [Put(w, s, q, T) EXCEPT !.side[s].lock = l] = [Put(w, s, q, T) EXCEPT !.side[s] = p]
    <3> HIDE DEF l
    <3> QED BY <2>2
  <2>5. [Put(w, s, q, T) EXCEPT !.side[s] = p] = Put(w, s, p, T)
    <3> HIDE DEF p, T
    <3> QED BY <1>1 DEF Put, World
  <2> QED BY <2>3, <2>4, <2>5
<1>5. l \in Nat /\ (q.lock # t.gen => l = q.lock) /\ (q.lock = t.gen => l = 0)
  BY <1>3 DEF Device
<1> HIDE DEF l
<1>6. /\ p \in Device /\ p.lock = l /\ p.gen = q.gen /\ p.making = q.making /\ p.seq = q.seq
      /\ p.left = q.left /\ p.pc = q.pc
  BY <1>3, <1>5 DEF Device
<1> HIDE DEF p
<1>7. Sound(q, w.tasks[s])
  BY <1>1, <1>3, CoreSound
<1>8. Locked(p, T)
  <2>1. ASSUME NEW u \in T, u.k = "restart" PROVE u.gen # t.gen
    BY <1>7, <2>1 DEF Sound, Parked
  <2> QED BY <1>5, <1>6, <1>7, <2>1 DEF Sound, Locked
<1>9. Making(p, T)
  BY <1>1, <1>3, <1>6, <1>7 DEF Sound, Making, Makes, Core
<1>10. Sound(p, T)
  BY <1>6, <1>7, <1>8, <1>9 DEF Sound, Owned, Parked
<1>11. Inv(Put(w, s, p, T))
  BY <1>1, <1>6, <1>10, PutKeeps
<1> QED BY <1>4, <1>11

(***************************************************************************)
(* Cleanup, creation, dialling.                                            *)
(***************************************************************************)

LEMMA NewSideFits ==
  NewSide \in Device /\ NewSide.pc = NoPc /\ NewSide.lock = 0 /\ NewSide.making = FALSE /\ NewSide.tries = 0
<1>1. 0 \in 0..MaxRestarts
  BY MaxRestartsAssumption
<1> QED BY <1>1, NoTaskTyped DEF NewSide, Device

LEMMA CleanedFits ==
  ASSUME NEW r \in Device
  PROVE  LET q == Cleaned(r)
         IN  /\ q \in Device /\ q.gen = r.gen + 1 /\ q.pc = NoPc /\ q.lock = 0 /\ q.seq = r.seq
             /\ q.making = FALSE /\ q.left = r.left /\ q.tries = 0
<1> DEFINE gen == r.gen + 1
           inc == r.inc + 1
           era == r.era + 1
           q == [NewSide EXCEPT
                  !.gen = gen, !.inc = inc, !.era = era, !.seq = r.seq, !.going = r.going,
                  !.status = r.status, !.rebuilt = r.rebuilt, !.fall = r.fall, !.left = r.left]
<1>1. Cleaned(r) = q
  BY Zenon DEF Cleaned
<1>2. /\ gen \in Nat /\ inc \in Nat /\ era \in Nat /\ r.seq \in Nat /\ r.going \in Nat
      /\ r.status \in {"connecting", "reconnecting", "online", "offline"}
      /\ r.rebuilt \in BOOLEAN /\ r.fall \in BOOLEAN /\ r.left \in SUBSET Nat
  BY DEF Device
<1>3. gen = r.gen + 1
  OBVIOUS
<1> HIDE DEF gen, inc, era
<1>4. q \in Device
  BY <1>2, NewSideFits DEF Device
<1>5. q.gen = gen /\ q.pc = NoPc /\ q.lock = 0 /\ q.seq = r.seq
      /\ q.making = FALSE /\ q.left = r.left /\ q.tries = 0
  BY NewSideFits DEF Device
<1> HIDE DEF q
<1> QED BY <1>1, <1>3, <1>4, <1>5

\* A world whose device is about to be cleaned up: its lock and its flag may be behind.
Loose(w, s) ==
    /\ w \in World /\ w.side[s].left = {} /\ Parked(w.side[s], w.tasks[s])
    /\ \A x \in Side : x # s => Sound(w.side[x], w.tasks[x])

LEMMA InvLoose ==
  ASSUME NEW w, Inv(w), NEW s \in Side
  PROVE  Loose(w, s)
BY DEF Inv, Loose, Sound, Owned

LEMMA CleanupKeeps ==
  ASSUME NEW w, NEW s \in Side, Loose(w, s)
  PROVE  /\ Inv(Cleanup(w, s))
         /\ LET r == w.side[s]
                q == Cleanup(w, s).side[s]
            IN  /\ q \in Device /\ q.gen = r.gen + 1 /\ q.pc = NoPc /\ q.lock = 0 /\ q.seq = r.seq
                /\ q.making = FALSE /\ q.left = r.left /\ q.tries = 0
         /\ Cleanup(w, s).tasks = w.tasks
<1>1. /\ w \in World /\ Parked(w.side[s], w.tasks[s]) /\ w.side[s].left = {}
      /\ w.side[s] \in Device /\ w.tasks[s] \in SUBSET Task
  BY DEF Loose, World
<1> DEFINE q == Cleaned(w.side[s])
           v == Cleanup(w, s)
<1>2. v = [w EXCEPT !.side[s] = q, !.queue[s] = <<>>]
  BY DEF Cleanup
<1>4. /\ q \in Device /\ q.gen = w.side[s].gen + 1 /\ q.pc = NoPc /\ q.lock = 0
      /\ q.seq = w.side[s].seq /\ q.making = FALSE /\ q.left = w.side[s].left /\ q.tries = 0
  BY <1>1, CleanedFits
<1> HIDE DEF q
<1>5. v \in World /\ v.side = [w.side EXCEPT ![s] = q] /\ v.tasks = w.tasks
  <2> DEFINE x == [w EXCEPT !.side[s] = q]
  <2>1. x \in World /\ x.side = [w.side EXCEPT ![s] = q] /\ x.tasks = w.tasks
    BY <1>1, <1>4 DEF World
  <2>2. v = [x EXCEPT !.queue[s] = <<>>]
    BY <1>2
  <2> HIDE DEF x, v
  <2>3. <<>> \in Seq(Receipts)
    OBVIOUS
  <2> DEFINE e == <<>>
  <2>4. e \in Seq(Receipts) /\ v = [x EXCEPT !.queue[s] = e]
    BY <2>2, <2>3
  <2> HIDE DEF e
  <2>5. v \in World /\ v.side = x.side /\ v.tasks = x.tasks
    BY <2>1, <2>4 DEF World
  <2> QED BY <2>1, <2>5
<1>6. Sound(q, w.tasks[s])
  <2>1. w.side[s].gen \in Nat /\ \A t \in w.tasks[s] : t.gen \in Nat
    BY <1>1 DEF Device, Task
  <2>2. NoPc.id = 0
    BY DEF NoPc
  <2>3. Parked(q, w.tasks[s])
    BY <1>1, <1>4, <2>1 DEF Parked, Fit
  <2>4. Locked(q, w.tasks[s])
    BY <1>1, <1>4, <2>1 DEF Parked, Fit, Locked
  <2>5. Making(q, w.tasks[s])
    BY <1>4 DEF Making
  <2>6. Owned(q)
    BY <1>1, <1>4, <2>1, <2>2 DEF Owned
  <2> QED BY <2>3, <2>4, <2>5, <2>6 DEF Sound
<1>7. /\ v.side[s] = q /\ Sound(v.side[s], v.tasks[s])
      /\ \A x \in Side : x # s => v.side[x] = w.side[x] /\ v.tasks[x] = w.tasks[x]
  BY <1>1, <1>5, <1>6 DEF World
<1> HIDE DEF v
<1>8. Inv(v)
  BY <1>5, <1>7 DEF Inv, Loose
<1> QED BY <1>4, <1>5, <1>7, <1>8 DEF v

LEMMA BumpedKeeps ==
  ASSUME NEW w, Inv(w), NEW s \in Side
  PROVE  /\ Inv(Bumped(w, s)) /\ Bumped(w, s).tasks = w.tasks
         /\ Bumped(w, s).side[s].gen = w.side[s].gen + 1
         /\ Bumped(w, s).side[s].pc = w.side[s].pc /\ Bumped(w, s).side[s].era = w.side[s].era
<1>1. w \in World /\ Sound(w.side[s], w.tasks[s]) /\ w.side[s] \in Device /\ w.tasks[s] \in SUBSET Task
  BY DEF Inv, World
<1> DEFINE q == [w.side[s] EXCEPT !.gen = @ + 1]
           v == Bumped(w, s)
<1>2. v = [w EXCEPT !.side[s] = q]
  BY DEF Bumped
<1>3. \A r \in Device :
        LET p == [r EXCEPT !.gen = @ + 1]
        IN  /\ p \in Device /\ p.gen = r.gen + 1 /\ p.pc = r.pc /\ p.lock = r.lock /\ p.seq = r.seq
            /\ p.making = r.making /\ p.left = r.left /\ p.era = r.era
  BY DEF Device
<1>4. /\ q \in Device /\ q.gen = w.side[s].gen + 1 /\ q.pc = w.side[s].pc /\ q.lock = w.side[s].lock
      /\ q.seq = w.side[s].seq /\ q.making = w.side[s].making /\ q.left = w.side[s].left
      /\ q.era = w.side[s].era
  BY <1>1, <1>3
<1> HIDE DEF q
<1> HIDE DEF v
<1>5. v \in World /\ v.side = [w.side EXCEPT ![s] = q] /\ v.tasks = w.tasks
  <2> DEFINE sd == [w.side EXCEPT ![s] = q]
  <2>1. sd \in [Side -> Device]
    BY <1>1, <1>4 DEF World
  <2>2. v = [w EXCEPT !.side = sd]
    BY <1>1, <1>2 DEF World
  <2> HIDE DEF sd
  <2>3. v \in World /\ v.side = sd /\ v.tasks = w.tasks
    BY <1>1, <2>1, <2>2 DEF World
  <2> QED BY <2>3 DEF sd
<1>6. Sound(q, w.tasks[s])
  <2>1. w.side[s].gen \in Nat /\ w.side[s].pc.id \in Nat /\ \A t \in w.tasks[s] : t.gen \in Nat
    BY <1>1 DEF Device, Conn, Task
  <2> QED BY <1>1, <1>4, <2>1 DEF Sound, Owned, Parked, Locked, Making, Fit
<1>7. /\ v.side[s] = q /\ Sound(v.side[s], v.tasks[s])
      /\ \A x \in Side : x # s => v.side[x] = w.side[x] /\ v.tasks[x] = w.tasks[x]
  BY <1>1, <1>5, <1>6 DEF World
<1> HIDE DEF v
<1>8. Inv(v)
  BY <1>5, <1>7, OneSide
<1> QED BY <1>4, <1>5, <1>7, <1>8 DEF v

LEMMA DialKeeps ==
  ASSUME NEW w, Inv(w), NEW s \in Side, NEW by \in Reason
  PROVE  Inv(Dial(w, s, by))
<1> DEFINE v == Bumped(w, s)
           g == v.side[s].gen
           t == [Attempt(v, s, "dial") EXCEPT !.at = Barrier(s), !.by = by, !.era = w.side[s].era]
           u == [v EXCEPT !.side[s].going = g]
<1>1. /\ w \in World /\ w.side[s] \in Device /\ v \in World /\ v.side[s] \in Device
      /\ Sound(v.side[s], v.tasks[s]) /\ Inv(v) /\ g = w.side[s].gen + 1 /\ g \in Nat /\ g # 0
  <2>1. Inv(v) /\ g = w.side[s].gen + 1
    BY BumpedKeeps
  <2> HIDE DEF v
  <2>2. /\ w \in World /\ w.side[s] \in Device /\ v \in World /\ v.side[s] \in Device
        /\ Sound(v.side[s], v.tasks[s])
    BY <2>1 DEF Inv, World
  <2> QED BY <2>1, <2>2 DEF Device
<1>2. t \in Task /\ t.k = "dial" /\ t.gen = g /\ t.at \in {"ready", "turn"}
  <2> HIDE DEF v
  <2>1. Attempt(v, s, "dial") \in Task /\ Attempt(v, s, "dial").gen = g /\ Attempt(v, s, "dial").k = "dial"
    BY <1>1, NoTaskTyped DEF Attempt, Task, Device, Conn
  <2>3. Barrier(s) \in {"ready", "turn"} /\ w.side[s].era \in Nat
    BY <1>1 DEF Barrier, Device
  <2> DEFINE a == Attempt(v, s, "dial")
             e == w.side[s].era
             at == Barrier(s)
  <2>4. a \in Task /\ e \in Nat /\ at \in {"ready", "turn"} /\ a.gen = g /\ a.k = "dial"
    BY <2>1, <2>3
  <2>5. t = [a EXCEPT !.at = at, !.by = by, !.era = e]
    BY Zenon
  <2> HIDE DEF a, e, at, g, t
  <2> DEFINE b == [a EXCEPT !.at = at, !.by = by, !.era = e]
  <2>6. b \in Task /\ b.k = a.k /\ b.gen = a.gen /\ b.at = at
    BY <2>4 DEF Task
  <2>7. t = b
    BY <2>5
  <2> HIDE DEF b
  <2> QED BY <2>4, <2>6, <2>7
<1>3. Inv(u) /\ u.side[s].gen = g
  <2> HIDE DEF v
  <2> DEFINE q == [v.side[s] EXCEPT !.going = g]
  <2>1. q \in Device /\ Core(v.side[s], q)
    <3> HIDE DEF g
    <3> QED BY <1>1, GoingFits
  <2>2. u = [v EXCEPT !.side[s] = q]
    OBVIOUS
  <2>3. q.gen = g
    BY <2>1 DEF Core
  <2> HIDE DEF q, g
  <2>4. Inv([v EXCEPT !.side[s] = q]) /\ [v EXCEPT !.side[s] = q].side[s] = q
    BY <1>1, <2>1, CoreKeeps
  <2> QED BY <2>2, <2>3, <2>4
<1>4. Fit(t, g)
  BY <1>1, <1>2 DEF Fit
<1>5. Inv(Start(u, s, t))
  <2> HIDE DEF u, t, g
  <2> QED BY <1>2, <1>3, <1>4, StartKeeps
<1> QED BY <1>1, <1>5 DEF Dial

(***************************************************************************)
(* Frames, the end of a connection and a new one.                          *)
(***************************************************************************)

LEMMA InvParts ==
  ASSUME NEW w, Inv(w), NEW s \in Side
  PROVE  /\ w \in World /\ w.side[s] \in Device /\ w.tasks[s] \in SUBSET Task
         /\ Sound(w.side[s], w.tasks[s])
BY DEF Inv, World

LEMMA SameDevices ==
  ASSUME NEW w, Inv(w), NEW v \in World, v.side = w.side, v.tasks = w.tasks
  PROVE  Inv(v)
BY DEF Inv

LEMMA DeliverKeeps ==
  ASSUME NEW w, Inv(w), NEW s \in Side, NEW m \in Message
  PROVE  /\ Inv(Deliver(w, s, m))
         /\ Deliver(w, s, m).side = w.side
         /\ Deliver(w, s, m).tasks = w.tasks
<1> DEFINE q == Append(w.net[s], m)
           v == [w EXCEPT !.net[s] = q]
<1>1. w \in World
  BY DEF Inv
<1>2. q \in Seq(Message)
  BY <1>1 DEF World
<1>3. Deliver(w, s, m) = v
  BY DEF Deliver
<1> HIDE DEF q
<1>4. v \in World /\ v.side = w.side /\ v.tasks = w.tasks
  BY <1>1, <1>2 DEF World
<1> HIDE DEF v
<1>5. Inv(v)
  BY <1>4, SameDevices
<1> QED BY <1>3, <1>4, <1>5

LEMMA SendKeeps ==
  ASSUME NEW w, Inv(w), NEW s \in Side, NEW m \in Message
  PROVE  Inv(Send(w, s, m)) /\ Send(w, s, m).side = w.side /\ Send(w, s, m).tasks = w.tasks
<1> DEFINE o == Other(s)
           gone == Msg("gone", NoDesc, NoDesc)
<1>1. o \in Side /\ gone \in Message
  BY OtherSide, NoTaskTyped DEF Msg, Message
<1>2. Send(w, s, m) \in {w, Deliver(w, s, gone), Deliver(w, o, m)}
  BY DEF Send
<1> HIDE DEF o, gone
<1>3. /\ Inv(Deliver(w, s, gone))
      /\ Deliver(w, s, gone).side = w.side
      /\ Deliver(w, s, gone).tasks = w.tasks
  BY <1>1, DeliverKeeps
<1>4. /\ Inv(Deliver(w, o, m))
      /\ Deliver(w, o, m).side = w.side
      /\ Deliver(w, o, m).tasks = w.tasks
  BY <1>1, DeliverKeeps
<1> QED BY <1>2, <1>3, <1>4

LEMMA DescribedTyped ==
  ASSUME NEW p \in Conn
  PROVE  Described(p) \in Desc
BY DEF Described, Conn, Desc

LEMMA AbandonedKeeps ==
  ASSUME NEW w, Inv(w), NEW s \in Side, NEW t
  PROVE  /\ Inv(Abandoned(w, s, t)) /\ Abandoned(w, s, t).tasks = w.tasks
         /\ Abandoned(w, s, t).side[s].gen = w.side[s].gen
<1>1. CASE w.side[s].pc.id # t.pc
  BY <1>1 DEF Abandoned
<1>2. CASE w.side[s].pc.id = t.pc
  <2>1. w \in World /\ w.side[s] \in Device
    BY InvParts
  <2> DEFINE i == w.side[s].inc + 1
             q == [w.side[s] EXCEPT !.pc = NoPc, !.inc = i, !.pub = 0]
             v == [w EXCEPT !.side[s] = q]
  <2>2. q \in Device /\ Core(w.side[s], q)
    <3>1. NoPc.id = 0 /\ w.side[s].gen \in Nat /\ i \in Nat
      BY <2>1 DEF NoPc, Device
    <3> HIDE DEF i
    <3>2. q \in Device
      BY <2>1, <3>1, NoTaskTyped DEF Device
    <3>3. /\ q.pc = NoPc /\ q.gen = w.side[s].gen /\ q.making = w.side[s].making
          /\ q.seq = w.side[s].seq /\ q.lock = w.side[s].lock /\ q.left = w.side[s].left
      BY <2>1 DEF Device
    <3> HIDE DEF q
    <3> QED BY <3>1, <3>2, <3>3 DEF Core, Owned
  <2>3. Abandoned(w, s, t) = [w EXCEPT !.side[s] = q, !.queue[s] = <<>>]
    BY <1>2 DEF Abandoned
  <2>4. <<>> \in Seq(Receipts)
    OBVIOUS
  <2> HIDE DEF q
  <2> DEFINE e == <<>>
  <2>8. Abandoned(w, s, t) = [v EXCEPT !.queue[s] = e] /\ e \in Seq(Receipts)
    BY <2>3, <2>4
  <2> HIDE DEF e
  <2>5. Inv(v) /\ v.tasks = w.tasks /\ v.side[s].gen = w.side[s].gen
    BY <2>2, CoreKeeps DEF Core
  <2> HIDE DEF v
  <2> DEFINE z == [v EXCEPT !.queue[s] = e]
  <2>6. z \in World /\ z.side = v.side /\ z.tasks = v.tasks
    <3>1. v \in World
      BY <2>5 DEF Inv
    <3> QED BY <2>8, <3>1 DEF World
  <2> HIDE DEF z
  <2>7. Inv(z)
    BY <2>5, <2>6, SameDevices
  <2> QED BY <2>5, <2>6, <2>7, <2>8 DEF z
<1> QED BY <1>1, <1>2

LEMMA WatchedFits ==
  ASSUME NEW r \in Device
  PROVE  /\ Watched(r) \in Device /\ Core(r, Watched(r)) /\ Watched(r).pc = r.pc
         /\ Watched(r).left = r.left
<1>1. CASE r.watch.kind # "none"
  BY <1>1 DEF Watched, Core
<1>2. CASE r.watch.kind = "none"
  <2> DEFINE x == [kind |-> "first", pc |-> r.pc.id, gen |-> r.gen]
  <2>1. x \in Watch
    BY DEF Watch, Device, Conn
  <2>2. Watched(r) = [r EXCEPT !.watch = x]
    BY <1>2 DEF Watched
  <2> HIDE DEF x
  <2> QED BY <2>1, <2>2 DEF Device, Core, Owned
<1> QED BY <1>1, <1>2

\* Whoever builds a connection has looked again: there is none, and the generation is its own.
LEMMA CreatedKeeps ==
  ASSUME NEW w, Inv(w), NEW s \in Side, NEW t \in Task, NEW chan \in {"none", "wait"},
         SameGen(w, s, t), t.gen # 0, w.side[s].pc.id = 0
  PROVE  /\ Inv(Created(w, s, t, chan)) /\ Created(w, s, t, chan).tasks = w.tasks
         /\ Created(w, s, t, chan).side[s].gen = w.side[s].gen
<1>1. w \in World /\ w.side[s] \in Device /\ Sound(w.side[s], w.tasks[s])
  BY InvParts
<1> DEFINE r == w.side[s]
           pc == [NoPc EXCEPT !.id = t.gen, !.chan = chan]
           q == [r EXCEPT !.pc = pc, !.left = IF r.pc.id = 0 THEN r.left ELSE r.left \cup {r.pc.id}]
<1>2. pc \in Conn /\ pc.id = t.gen
  <2>1. t.gen \in Nat
    BY DEF Task
  <2> QED BY <2>1, NoTaskTyped DEF Conn
<1> HIDE DEF pc
<1>3. q \in Device /\ Core(r, q)
  <2>1. q = [r EXCEPT !.pc = pc]
    <3>1. r.left = IF r.pc.id = 0 THEN r.left ELSE r.left \cup {r.pc.id}
      OBVIOUS
    <3> QED BY <1>1, <3>1 DEF Device
  <2>2. t.gen = r.gen /\ t.gen # 0
    BY DEF SameGen
  <2> HIDE DEF q
  <2> QED BY <1>1, <1>2, <2>1, <2>2 DEF Device, Core, Owned
<1>4. Created(w, s, t, chan) = [w EXCEPT !.side[s] = Watched(q)]
  BY DEF Created, pc
<1> HIDE DEF q
<1>5. Watched(q) \in Device /\ Core(q, Watched(q))
  BY <1>3, WatchedFits
<1> DEFINE z == Watched(q)
<1> HIDE DEF z
<1>6. z \in Device /\ Core(r, z)
  BY <1>3, <1>5 DEF Core, z
<1>7. /\ Inv([w EXCEPT !.side[s] = z]) /\ [w EXCEPT !.side[s] = z].side[s] = z
      /\ [w EXCEPT !.side[s] = z].tasks = w.tasks
  BY <1>6, CoreKeeps
<1> QED BY <1>4, <1>6, <1>7 DEF z, Core

(***************************************************************************)
(* Offers and answers.                                                     *)
(***************************************************************************)

LEMMA ParkedMessage ==
  ASSUME NEW s \in Side, tasks[s] \in SUBSET Task, NEW t
  PROVE  (IF Ahead(s, t) = {} THEN NoMsg ELSE (CHOOSE u \in Ahead(s, t) : TRUE).m) \in Message
<1>1. CASE Ahead(s, t) = {}
  BY <1>1, NoTaskTyped
<1>2. CASE Ahead(s, t) # {}
  <2> DEFINE u == CHOOSE u \in Ahead(s, t) : TRUE
  <2>1. u \in Ahead(s, t)
    BY <1>2
  <2> HIDE DEF u
  <2>2. u \in Task
    BY <2>1 DEF Ahead
  <2>3. u.m \in Message
    BY <2>2 DEF Task
  <2> QED BY <1>2, <2>3 DEF u
<1> QED BY <1>1, <1>2

LEMMA PutGoes ==
  ASSUME NEW w \in World, NEW s \in Side, NEW q \in Device, NEW t, NEW u \in Task
  PROVE  Goes([w EXCEPT !.side[s] = q], s, t, u) = Put(w, s, q, (w.tasks[s] \ {t}) \cup {u})
<1> DEFINE v == [w EXCEPT !.side[s] = q]
           x == [v EXCEPT !.tasks[s] = @ \ {t}]
<1>1. v \in World /\ v.tasks = w.tasks
  BY DEF World
<1>2. x \in World /\ x.tasks[s] = w.tasks[s] \ {t}
  <2> HIDE DEF v
  <2>1. v.tasks[s] \ {t} \in SUBSET Task
    BY <1>1 DEF World
  <2> DEFINE T == v.tasks[s] \ {t}
  <2> HIDE DEF T
  <2>2. [v EXCEPT !.tasks[s] = T] \in World /\ [v EXCEPT !.tasks[s] = T].tasks[s] = T
    BY <1>1, <2>1 DEF World, T
  <2> QED BY <1>1, <2>2 DEF T
<1>3. Goes(v, s, t, u) = [x EXCEPT !.tasks[s] = @ \cup {u}]
  BY DEF Goes, Start
<1> DEFINE T == (w.tasks[s] \ {t}) \cup {u}
<1>4. [x EXCEPT !.tasks[s] = @ \cup {u}] = [x EXCEPT !.tasks[s] = T]
  <2> HIDE DEF x
  <2> QED BY <1>2
<1>5. [x EXCEPT !.tasks[s] = T] = [v EXCEPT !.tasks[s] = T]
  <2> HIDE DEF v, T
  <2> QED BY <1>1 DEF World
<1>6. [v EXCEPT !.tasks[s] = T] = Put(w, s, q, T)
  <2> HIDE DEF T
  <2> QED BY DEF Put, World
<1> QED BY <1>3, <1>4, <1>5, <1>6

\* A task goes on as another of its kind and generation.
LEMMA SwapSound ==
  ASSUME NEW r, NEW q, NEW T, NEW t, NEW u, Sound(r, T), q.gen = r.gen, q.lock = r.lock,
         Owned(q), Making(q, (T \ {t}) \cup {u}), u.k = t.k, u.gen = t.gen, Fit(u, r.gen),
         t.k = "restart" => t \in T
  PROVE  Sound(q, (T \ {t}) \cup {u})
<1> DEFINE V == (T \ {t}) \cup {u}
<1>1. Parked(q, V)
  BY DEF Sound, Parked
<1>2. Locked(q, V)
  BY DEF Sound, Locked
<1> QED BY <1>1, <1>2 DEF Sound

LEMMA OfferingKeeps ==
  ASSUME NEW w, Inv(w), NEW s \in Side, NEW t \in Task, t.k # "send", Fit(t, w.side[s].gen),
         t.k = "restart" => t \in w.tasks[s], tasks[s] \in SUBSET Task
  PROVE  Inv(Offering(w, s, t))
<1>1. /\ w \in World /\ w.side[s] \in Device /\ w.tasks[s] \in SUBSET Task
      /\ Sound(w.side[s], w.tasks[s])
  BY InvParts
<1> DEFINE n == w.side[s].seq + 1
           m == IF Ahead(s, t) = {} THEN NoMsg ELSE (CHOOSE u \in Ahead(s, t) : TRUE).m
           q == [w.side[s] EXCEPT !.making = TRUE, !.seq = n]
           u == [t EXCEPT !.at = "offering", !.tok = n, !.m = m]
           T == (w.tasks[s] \ {t}) \cup {u}
<1>2. n \in Nat /\ m \in Message
  BY <1>1, ParkedMessage DEF Device
<1>3. Offering(w, s, t) = Goes([w EXCEPT !.side[s] = q], s, t, u)
  BY DEF Offering
<1> HIDE DEF n, m
<1>4. q \in Device /\ q.gen = w.side[s].gen /\ q.lock = w.side[s].lock /\ q.seq = n
      /\ (Owned(w.side[s]) => Owned(q))
  BY <1>1, <1>2 DEF Device, Owned
<1>5. u \in Task /\ u.k = t.k /\ u.gen = t.gen /\ u.at = "offering" /\ u.tok = n /\ u.tries = t.tries
  BY <1>2 DEF Task
<1> HIDE DEF q, u
<1>6. Fit(u, w.side[s].gen)
  BY <1>5 DEF Fit
<1>7. Making(q, T)
  BY <1>4, <1>5 DEF Making
<1>8. Sound(q, T)
  <2>1. Owned(q)
    BY <1>1, <1>4 DEF Sound
  <2> QED BY <1>1, <1>4, <1>5, <1>6, <1>7, <2>1, SwapSound
<1>9. Goes([w EXCEPT !.side[s] = q], s, t, u) = Put(w, s, q, T)
  BY <1>1, <1>4, <1>5, PutGoes
<1>10. Inv(Put(w, s, q, T))
  <2>1. T \in SUBSET Task
    BY <1>1, <1>5
  <2> HIDE DEF T
  <2> QED BY <1>4, <1>8, <2>1, PutKeeps
<1> QED BY <1>3, <1>9, <1>10

\* The offer is published, or it is not; either way the flag is down if it was its own.
LEMMA OfferedKeeps ==
  ASSUME NEW w, Inv(w), NEW s \in Side, NEW t \in Task
  PROVE  LET v == Offered(w, s, t)
         IN  /\ Inv(v) /\ v.tasks = w.tasks /\ ~Makes(v, s, t) /\ v.side[s].gen = w.side[s].gen
             /\ v.side[s].pc.id = w.side[s].pc.id
<1>1. w \in World /\ w.side[s] \in Device /\ Sound(w.side[s], w.tasks[s])
  BY InvParts
<1> DEFINE r == w.side[s]
           n == r.pc.n + 1
           p == [r.pc EXCEPT !.sig = "local", !.n = n]
           pub == r.pub + 1
           q == [r EXCEPT !.pc = p, !.pub = pub]
           d == Msg("offer", Described(p), NoDesc)
           sent == Send([w EXCEPT !.side[s] = q], s, d)
           out == IF ~Installs(w, s, t) THEN w ELSE sent
           v == [out EXCEPT !.side[s].making = @ /\ ~OwnToken(w, s, t)]
<1>2. Offered(w, s, t) = v
  BY DEF Offered
<1>3. n \in Nat /\ pub \in Nat
  BY <1>1 DEF Device, Conn
<1> HIDE DEF n, pub
<1>4. p \in Conn /\ p.id = r.pc.id
  BY <1>1, <1>3 DEF Device, Conn
<1>5. d \in Message
  BY <1>4, DescribedTyped, NoTaskTyped DEF Msg, Message
<1> HIDE DEF p, d
<1>6. Inv(out) /\ out.tasks = w.tasks /\ out.side[s].gen = r.gen /\ out.side[s].seq = r.seq
      /\ out.side[s].pc.id = r.pc.id
  <2>1. CASE ~Installs(w, s, t)
    BY <2>1
  <2>2. CASE Installs(w, s, t)
    <3>1. r.pc.id # 0
      BY <2>2 DEF Installs, Holds
    <3>2. q \in Device /\ Core(r, q) /\ q.pc.id = r.pc.id
      BY <1>1, <1>3, <1>4, <3>1 DEF Device, Core, Owned
    <3> HIDE DEF q
    <3> DEFINE x == [w EXCEPT !.side[s] = q]
    <3>3. Inv(x) /\ x.side[s] = q /\ x.tasks = w.tasks
      BY <3>2, CoreKeeps
    <3>4. sent = Send(x, s, d)
      OBVIOUS
    <3> HIDE DEF x
    <3>5. Inv(Send(x, s, d)) /\ Send(x, s, d).side = x.side /\ Send(x, s, d).tasks = x.tasks
      BY <1>5, <3>3, SendKeeps
    <3> HIDE DEF sent
    <3> QED BY <2>2, <3>2, <3>3, <3>4, <3>5 DEF Core
  <2> QED BY <2>1, <2>2
<1> HIDE DEF out
<1> DEFINE b == out.side[s].making /\ ~OwnToken(w, s, t)
           z == [out.side[s] EXCEPT !.making = b]
<1>7. out \in World /\ out.side[s] \in Device /\ Sound(out.side[s], out.tasks[s])
  BY <1>6, InvParts
<1>8. b \in BOOLEAN /\ (b => out.side[s].making)
  BY <1>7 DEF Device
<1>9. b => t.tok # r.seq
  BY DEF OwnToken
<1>10. v = [out EXCEPT !.side[s] = z]
  OBVIOUS
<1> HIDE DEF b
<1>11. /\ z \in Device /\ z.gen = r.gen /\ z.seq = r.seq /\ z.making = b /\ z.pc.id = r.pc.id
       /\ z.lock = out.side[s].lock /\ (Owned(out.side[s]) => Owned(z))
  BY <1>6, <1>7, <1>8 DEF Device, Owned
<1> HIDE DEF z
<1>12. Sound(z, out.tasks[s])
  BY <1>6, <1>7, <1>8, <1>11 DEF Sound, Parked, Locked, Making
<1> HIDE DEF v
<1>13. v \in World /\ v.side = [out.side EXCEPT ![s] = z] /\ v.tasks = out.tasks
  BY <1>7, <1>10, <1>11 DEF World
<1>14. /\ v.side[s] = z /\ Sound(v.side[s], v.tasks[s])
       /\ \A x \in Side : x # s => v.side[x] = out.side[x] /\ v.tasks[x] = out.tasks[x]
  BY <1>7, <1>12, <1>13 DEF World
<1>15. Inv(v)
  BY <1>6, <1>13, <1>14, OneSide
<1>16. ~Makes(v, s, t)
  BY <1>9, <1>11, <1>14 DEF Makes
<1> QED BY <1>2, <1>6, <1>11, <1>13, <1>14, <1>15, <1>16

LEMMA RejectedKeeps ==
  ASSUME NEW w, Inv(w), NEW s \in Side, NEW t \in Task, t.k # "restart", ~Makes(w, s, t)
  PROVE  Inv(Rejected(w, s, t))
<1>1. w \in World /\ w.side[s] \in Device
  BY InvParts
<1> DEFINE r == w.side[s]
           told == \/ t.by = "user"
                   \/ t.by = "rebuild" /\ ~r.aes /\ (r.pc.id = 0 \/ r.pc.ice \in {"new", "conn"})
           x == IF t.by = "rebuild" THEN NoWatch ELSE r.watch
           off == [r EXCEPT !.status = "offline", !.watch = x]
           y == [w EXCEPT !.side[s] = off]
<1>2. Rejected(w, s, t) = End(IF SameGen(w, s, t) /\ told THEN y ELSE w, s, t)
  BY DEF Rejected
<1>3. x \in Watch
  BY <1>1, NoTaskTyped DEF Device
<1> HIDE DEF x, told
<1>4. off \in Device /\ Core(r, off)
  BY <1>1, <1>3 DEF Device, Core, Owned
<1> HIDE DEF off
<1>5. Inv(y) /\ y.side[s] = off
  BY <1>4, CoreKeeps
<1> HIDE DEF y
<1>6. ~Makes(y, s, t)
  BY <1>4, <1>5 DEF Makes, Core
<1>7. Inv(End(y, s, t)) /\ Inv(End(w, s, t))
  BY <1>5, <1>6, EndKeeps
<1> QED BY <1>2, <1>7

LEMMA AnsweringKeeps ==
  ASSUME NEW w, Inv(w), NEW s \in Side, NEW t \in w.tasks[s], t.k = "sdp", ~Makes(w, s, t),
         w.side[s].pc.id # 0
  PROVE  Inv(Answering(w, s, t))
<1>1. w \in World /\ w.side[s] \in Device /\ w.tasks[s] \in SUBSET Task /\ Sound(w.side[s], w.tasks[s])
  BY InvParts
<1> DEFINE p == [w.side[s].pc EXCEPT !.sig = "remote"]
           q == [w.side[s] EXCEPT !.pc = p]
           v == [w EXCEPT !.side[s] = q]
           u == [t EXCEPT !.at = "answering"]
<1>2. Answering(w, s, t) = Goes(v, s, t, u)
  BY DEF Answering
<1>3. p \in Conn /\ p.id = w.side[s].pc.id
  BY <1>1 DEF Device, Conn
<1> HIDE DEF p
<1>4. q \in Device /\ Core(w.side[s], q)
  BY <1>1, <1>3 DEF Device, Core, Owned
<1> HIDE DEF q
<1>5. Inv(v) /\ v.side[s] = q /\ v.tasks = w.tasks
  BY <1>4, CoreKeeps
<1>6. u \in Task /\ u.k = t.k /\ u.gen = t.gen /\ u.at = "answering"
  BY <1>1 DEF Task
<1> HIDE DEF u, v
<1>7. Fit(u, v.side[s].gen)
  <2>1. Fit(t, w.side[s].gen)
    BY <1>1 DEF Sound, Parked
  <2> QED BY <1>4, <1>5, <1>6, <2>1 DEF Fit, Core
<1>8. ~Makes(v, s, t)
  BY <1>4, <1>5 DEF Makes, Core
<1>9. Inv(Goes(v, s, t, u))
  BY <1>5, <1>6, <1>7, <1>8, GoesKeeps
<1> QED BY <1>2, <1>9

LEMMA AcceptingKeeps ==
  ASSUME NEW w, Inv(w), NEW s \in Side, NEW t \in w.tasks[s], t.k = "sdp", t.at # "offering",
         w.side[s].pc.id # 0
  PROVE  Inv(Accepting(w, s, t))
<1>1. w \in World /\ w.side[s] \in Device /\ w.tasks[s] \in SUBSET Task /\ Sound(w.side[s], w.tasks[s])
  BY InvParts
<1> DEFINE r == w.side[s]
           n == r.seq + 1
           q == [r EXCEPT !.seq = n, !.making = FALSE]
           v == [w EXCEPT !.side[s] = q]
           u == [t EXCEPT !.at = "rollback"]
<1>2. Accepting(w, s, t) \in {Answering(w, s, t), End(w, s, t), Goes(v, s, t, u), Answering(v, s, t)}
  BY DEF Accepting
<1>3. n \in Nat
  BY <1>1 DEF Device
<1> HIDE DEF n
<1>4. q \in Device /\ q.gen = r.gen /\ q.lock = r.lock /\ q.making = FALSE /\ q.pc = r.pc /\ q.left = r.left
  BY <1>1, <1>3 DEF Device
<1> HIDE DEF q
<1>5. v \in World /\ v.side = [w.side EXCEPT ![s] = q] /\ v.tasks = w.tasks
  BY <1>1, <1>4 DEF World
<1>6. /\ v.side[s] = q
      /\ \A x \in Side : x # s => v.side[x] = w.side[x]
  BY <1>1, <1>5 DEF World
<1> HIDE DEF v
<1>7. Sound(q, w.tasks[s])
  BY <1>1, <1>4 DEF Sound, Owned, Parked, Locked, Making
<1>8. Inv(v)
  BY <1>5, <1>6, <1>7, OneSide
<1>9. ~Makes(w, s, t) /\ ~Makes(v, s, t)
  BY DEF Makes
<1>10. Inv(Answering(w, s, t)) /\ Inv(End(w, s, t))
  BY <1>1, <1>9, AnsweringKeeps, EndKeeps
<1>11. Inv(Answering(v, s, t))
  BY <1>4, <1>5, <1>6, <1>8, <1>9, AnsweringKeeps
<1>12. Inv(Goes(v, s, t, u))
  <2>1. u \in Task /\ u.k = t.k /\ u.gen = t.gen /\ u.at = "rollback"
    BY <1>1 DEF Task
  <2> HIDE DEF u
  <2>2. Fit(u, v.side[s].gen)
    <3>1. Fit(t, r.gen)
      BY <1>1 DEF Sound, Parked
    <3> QED BY <1>4, <1>6, <2>1, <3>1 DEF Fit
  <2> QED BY <1>5, <1>8, <1>9, <2>1, <2>2, GoesKeeps
<1> QED BY <1>2, <1>10, <1>11, <1>12

LEMMA AgreedFits ==
  ASSUME NEW r \in Device, NEW d \in Desc, r.pc.id # 0
  PROVE  Agreed(r, d) \in Device /\ Core(r, Agreed(r, d)) /\ Agreed(r, d).pc \in Conn
<1> DEFINE again == r.pc.ice \in {"disc", "fail"} \/ r.pc.rem.pc # d.pc
           i == IF again THEN "new" ELSE r.pc.ice
           p == [r.pc EXCEPT !.sig = "stable", !.rem = d, !.ice = i]
           q == [r EXCEPT !.pc = p]
<1>1. Agreed(r, d) = IF again /\ Live(r) THEN Watched(q) ELSE q
  BY DEF Agreed
<1>2. i \in {"new", "conn", "disc", "fail"}
  BY DEF Device, Conn
<1> HIDE DEF again, i
<1>3. p \in Conn /\ p.id = r.pc.id
  BY <1>2 DEF Device, Conn
<1> HIDE DEF p
<1>4. q \in Device /\ Core(r, q) /\ q.pc \in Conn
  BY <1>3 DEF Device, Core, Owned
<1> HIDE DEF q
<1>5. Watched(q) \in Device /\ Core(q, Watched(q)) /\ Watched(q).pc = q.pc
  BY <1>4, WatchedFits
<1>6. Core(r, Watched(q))
  BY <1>4, <1>5 DEF Core
<1> QED BY <1>1, <1>4, <1>5, <1>6

LEMMA SdpTaskFits ==
  ASSUME NEW w, Inv(w), NEW s \in Side, NEW r \in Receipts
  PROVE  LET t == SdpTask(w, s, r)
         IN  t \in Task /\ t.k = "sdp" /\ t.at = "none" /\ t.gen = w.side[s].gen /\ Fit(t, w.side[s].gen)
<1>1. w.side[s] \in Device
  BY InvParts
<1> DEFINE a == Attempt(w, s, "sdp")
           t == SdpTask(w, s, r)
           e == w.side[s].era
<1>2. a \in Task /\ a.gen = w.side[s].gen /\ a.k = "sdp" /\ a.at = "none"
  BY <1>1, NoTaskTyped DEF Attempt, Task, Device, Conn, NoTask
<1>3. r.inc \in Nat /\ r.pub \in Nat /\ r.m \in Message /\ e \in Nat /\ w.side[s].gen \in Nat
  BY <1>1 DEF Receipts, Device
<1>4. t = [a EXCEPT !.inc = r.inc, !.era = e, !.tok = r.pub, !.m = r.m]
  BY DEF SdpTask
<1> HIDE DEF a, e
<1>5. t \in Task /\ t.gen = w.side[s].gen /\ t.k = "sdp" /\ t.at = "none"
  BY <1>2, <1>3, <1>4 DEF Task
<1> HIDE DEF t
<1>6. Fit(t, w.side[s].gen)
  BY <1>3, <1>5 DEF Fit
<1> QED BY <1>5, <1>6 DEF t

LEMMA HandleOfferKeeps ==
  ASSUME NEW w, Inv(w), NEW s \in Side, NEW r \in Receipts
  PROVE  Inv(HandleOffer(w, s, r))
<1>1. w \in World /\ w.side[s] \in Device
  BY InvParts
<1> DEFINE q == [w.side[s] EXCEPT !.remote = FALSE]
           heard == [w EXCEPT !.side[s] = q]
           clean == IF Outworn(w.side[s]) THEN Cleanup(heard, s) ELSE heard
           fresh == Bumped(clean, s)
           t == SdpTask(clean, s, r)
           u == [SdpTask(fresh, s, r) EXCEPT !.at = "turn"]
<1>2. HandleOffer(w, s, r) = IF clean.side[s].pc.id # 0 THEN Accepting(Start(clean, s, t), s, t)
                             ELSE Start(fresh, s, u)
  BY DEF HandleOffer
<1>3. q \in Device /\ Core(w.side[s], q)
  BY <1>1 DEF Device, Core, Owned
<1> HIDE DEF q
<1>4. Inv(heard)
  BY <1>3, CoreKeeps
<1> HIDE DEF heard
<1>5. Inv(Cleanup(heard, s))
  BY <1>4, InvLoose, CleanupKeeps
<1>6. Inv(clean)
  BY <1>4, <1>5
<1> HIDE DEF clean
<1>7. Inv(fresh) /\ fresh.side[s].gen # 0
  <2>1. Inv(fresh) /\ fresh.side[s].gen = clean.side[s].gen + 1
    BY <1>6, BumpedKeeps
  <2>2. clean.side[s].gen \in Nat
    BY <1>6, InvParts DEF Device
  <2> QED BY <2>1, <2>2
<1> HIDE DEF fresh
<1>8. t \in Task /\ t.k = "sdp" /\ t.at = "none" /\ Fit(t, clean.side[s].gen)
  BY <1>6, SdpTaskFits
<1>9. u \in Task /\ u.k = "sdp" /\ Fit(u, fresh.side[s].gen)
  <2> DEFINE a == SdpTask(fresh, s, r)
  <2>1. a \in Task /\ a.k = "sdp" /\ a.gen = fresh.side[s].gen /\ Fit(a, fresh.side[s].gen)
    BY <1>7, SdpTaskFits
  <2> HIDE DEF a
  <2>2. [a EXCEPT !.at = "turn"] \in Task /\ [a EXCEPT !.at = "turn"].k = "sdp"
        /\ [a EXCEPT !.at = "turn"].gen = a.gen
    BY <2>1 DEF Task
  <2>3. Fit([a EXCEPT !.at = "turn"], fresh.side[s].gen)
    BY <1>7, <2>1, <2>2 DEF Fit
  <2> QED BY <2>2, <2>3 DEF a
<1> HIDE DEF t, u
<1>10. Inv(Start(fresh, s, u))
  BY <1>7, <1>9, StartKeeps
<1>11. ASSUME clean.side[s].pc.id # 0 PROVE Inv(Accepting(Start(clean, s, t), s, t))
  <2> DEFINE v == Start(clean, s, t)
  <2>1. Inv(v) /\ v.side = clean.side
    BY <1>6, <1>8, StartKeeps
  <2>2. t \in v.tasks[s]
    BY <1>6 DEF Start, Inv, World
  <2> HIDE DEF v
  <2>3. Inv(Accepting(v, s, t))
    BY <1>8, <1>11, <2>1, <2>2, AcceptingKeeps
  <2> QED BY <2>3 DEF v
<1> QED BY <1>2, <1>10, <1>11

LEMMA HandleAnswerKeeps ==
  ASSUME NEW w, Inv(w), NEW s \in Side, NEW r \in Receipts
  PROVE  Inv(HandleAnswer(w, s, r))
<1>1. w \in World /\ w.side[s] \in Device
  BY InvParts
<1> DEFINE q == [w.side[s] EXCEPT !.setting = TRUE]
           v == [w EXCEPT !.side[s] = q]
           u == [SdpTask(w, s, r) EXCEPT !.at = "applying"]
<1>2. HandleAnswer(w, s, r) \in {w, Start(v, s, u)}
  BY DEF HandleAnswer
<1>3. q \in Device /\ Core(w.side[s], q)
  BY <1>1 DEF Device, Core, Owned
<1> HIDE DEF q
<1>4. Inv(v) /\ v.side[s].gen = w.side[s].gen
  BY <1>3, CoreKeeps DEF Core
<1>5. u \in Task /\ u.k = "sdp" /\ Fit(u, w.side[s].gen)
  <2> DEFINE a == SdpTask(w, s, r)
  <2>1. a \in Task /\ a.k = "sdp" /\ Fit(a, w.side[s].gen)
    BY SdpTaskFits
  <2> HIDE DEF a
  <2>2. /\ [a EXCEPT !.at = "applying"] \in Task /\ [a EXCEPT !.at = "applying"].k = "sdp"
        /\ [a EXCEPT !.at = "applying"].gen = a.gen /\ [a EXCEPT !.at = "applying"].at = "applying"
    BY <2>1 DEF Task
  <2>3. Fit([a EXCEPT !.at = "applying"], w.side[s].gen)
    BY <2>1, <2>2 DEF Fit
  <2> QED BY <2>2, <2>3 DEF a
<1> HIDE DEF u, v
<1>6. Inv(Start(v, s, u))
  BY <1>4, <1>5, StartKeeps
<1> QED BY <1>2, <1>6

(***************************************************************************)
(* Restarts.                                                               *)
(***************************************************************************)

LEMMA RetryingKeeps ==
  ASSUME NEW w, Inv(w), NEW s \in Side, NEW g \in Nat
  PROVE  /\ Inv(Retrying(w, s, g)) /\ Retrying(w, s, g).tasks = w.tasks
         /\ Core(w.side[s], Retrying(w, s, g).side[s])
<1>1. w \in World /\ w.side[s] \in Device
  BY InvParts
<1> DEFINE q == [w.side[s] EXCEPT !.retry = g]
<1>2. Retrying(w, s, g) = [w EXCEPT !.side[s] = q]
  BY DEF Retrying
<1>3. q \in Device /\ Core(w.side[s], q)
  BY <1>1 DEF Device, Core, Owned
<1> HIDE DEF q
<1>4. /\ Inv([w EXCEPT !.side[s] = q]) /\ [w EXCEPT !.side[s] = q].side[s] = q
      /\ [w EXCEPT !.side[s] = q].tasks = w.tasks
  BY <1>3, CoreKeeps
<1> QED BY <1>2, <1>3, <1>4

\* The lock is free, so no restart of this generation is parked: the new one is alone.
LEMMA AttemptRestartKeeps ==
  ASSUME NEW w, Inv(w), NEW s \in Side, w.side[s].gen # 0
  PROVE  Inv(AttemptRestart(w, s))
<1>1. w \in World /\ w.side[s] \in Device /\ w.tasks[s] \in SUBSET Task /\ Sound(w.side[s], w.tasks[s])
  BY InvParts
<1> DEFINE r == w.side[s]
           t == [NoTask EXCEPT !.k = "restart", !.at = "backoff", !.gen = r.gen, !.tries = r.tries]
           q == [r EXCEPT !.lock = r.gen]
           T == w.tasks[s] \cup {t}
<1>2. AttemptRestart(w, s) = IF r.lock # 0 THEN w
        ELSE IF r.tries < MaxRestarts THEN Start([w EXCEPT !.side[s] = q], s, t)
        ELSE IF r.retry = 0 THEN Retrying(w, s, r.gen)
        ELSE w
  BY DEF AttemptRestart
<1>3. r.gen \in Nat /\ r.tries \in Nat
  BY <1>1, MaxRestartsAssumption DEF Device
<1>4. Inv(Retrying(w, s, r.gen))
  BY <1>3, RetryingKeeps
<1>5. ASSUME r.lock = 0, r.tries < MaxRestarts
      PROVE  Inv(Start([w EXCEPT !.side[s] = q], s, t))
  <2>1. /\ q \in Device /\ q.gen = r.gen /\ q.lock = r.gen /\ q.making = r.making /\ q.seq = r.seq
        /\ (Owned(r) => Owned(q))
    BY <1>1, <1>3 DEF Device, Owned
  <2>2. t \in Task /\ t.k = "restart" /\ t.gen = r.gen /\ t.tries = r.tries /\ t.at = "backoff"
    BY <1>3, NoTaskTyped DEF Task, NoTask
  <2> HIDE DEF q, t
  <2>3. \A u \in w.tasks[s] : u.k = "restart" => u.gen # r.gen
    BY <1>1, <1>5 DEF Sound, Locked
  <2>4. Parked(q, T)
    BY <1>1, <1>3, <1>5, <2>1, <2>2, <2>3 DEF Sound, Parked, Fit
  <2>5. Locked(q, T)
    BY <1>1, <1>3, <2>1, <2>2 DEF Locked
  <2>6. Making(q, T)
    BY <1>1, <2>1 DEF Sound, Making
  <2>7. Sound(q, T)
    BY <1>1, <2>1, <2>4, <2>5, <2>6 DEF Sound
  <2>8. T \in SUBSET Task
    BY <1>1, <2>2
  <2>9. Start([w EXCEPT !.side[s] = q], s, t) = Put(w, s, q, T)
    <3> DEFINE v == [w EXCEPT !.side[s] = q]
    <3>1. v \in World /\ v.tasks = w.tasks
      BY <1>1, <2>1 DEF World
    <3>2. Start(v, s, t) = [v EXCEPT !.tasks[s] = T]
      <4> HIDE DEF v
      <4> QED BY <3>1 DEF Start
    <3> HIDE DEF T
    <3>3. [v EXCEPT !.tasks[s] = T] = Put(w, s, q, T)
      BY <1>1 DEF Put, World
    <3> QED BY <3>2, <3>3
  <2> HIDE DEF T
  <2>10. Inv(Put(w, s, q, T))
    BY <2>1, <2>7, <2>8, PutKeeps
  <2> QED BY <2>9, <2>10
<1> QED BY <1>2, <1>4, <1>5

\* The restart offers, or ends with a retry.
LEMMA RestartingKeeps ==
  ASSUME NEW w, Inv(w), NEW s \in Side, NEW t \in w.tasks[s], t.k = "restart", t.at # "offering",
         tasks[s] \in SUBSET Task
  PROVE  Inv(Restarting(w, s, t))
<1>1. w \in World /\ w.side[s] \in Device /\ w.tasks[s] \in SUBSET Task /\ Sound(w.side[s], w.tasks[s])
  BY InvParts
<1>2. t \in Task /\ Fit(t, w.side[s].gen)
  BY <1>1 DEF Sound, Parked
<1> DEFINE n == t.tries + 1
           q == [w.side[s] EXCEPT !.tries = n, !.pre = 0]
           v == [w EXCEPT !.side[s] = q]
           x == Retrying(w, s, t.gen)
<1>3. Restarting(w, s, t) = IF up[s] THEN Offering(v, s, t) ELSE Release(x, s, t)
  BY DEF Restarting
<1>4. n \in 0..MaxRestarts /\ t.gen \in Nat
  BY <1>2, MaxRestartsAssumption DEF Task, Fit
<1> HIDE DEF n
<1>5. q \in Device /\ Core(w.side[s], q)
  BY <1>1, <1>4 DEF Device, Core, Owned
<1> HIDE DEF q
<1>6. Inv(v) /\ v.tasks = w.tasks /\ v.side[s].gen = w.side[s].gen
  BY <1>5, CoreKeeps DEF Core
<1>7. Inv(x) /\ x.tasks = w.tasks
  BY <1>4, RetryingKeeps
<1> HIDE DEF v, x
<1>8. Inv(Offering(v, s, t))
  BY <1>2, <1>6, OfferingKeeps
<1>9. ~Makes(x, s, t)
  BY DEF Makes
<1>10. Inv(Release(x, s, t))
  BY <1>7, <1>9, ReleaseKeeps
<1> QED BY <1>3, <1>8, <1>10

(***************************************************************************)
(* Actions.                                                                *)
(***************************************************************************)

LEMMA NowParts ==
  ASSUME Typed, NEW s \in Side
  PROVE  /\ Inv(Now) /\ Now \in World
         /\ Now.side = side /\ Now.tasks = tasks /\ Now.queue = queue /\ Now.net = net
         /\ side \in [Side -> Device] /\ side[s] \in Device /\ tasks[s] \in SUBSET Task
         /\ Sound(side[s], tasks[s])
<1>1. Now.side = side /\ Now.tasks = tasks /\ Now.queue = queue /\ Now.net = net
  BY DEF Now
<1>2. Inv(Now) /\ Now \in World
  BY DEF Typed, Inv
<1> QED BY <1>1, <1>2 DEF Inv, World

LEMMA ParkedFacts ==
  ASSUME Typed, NEW s \in Side, NEW t \in tasks[s]
  PROVE  t \in Task /\ t \in Now.tasks[s] /\ Fit(t, side[s].gen) /\ Fit(t, Now.side[s].gen)
BY NowParts DEF Sound, Parked

LEMMA BecomesKeeps ==
  ASSUME NEW w, Inv(w), Becomes(w)
  PROVE  Inv(Now)'
<1>1. side' = w.side /\ tasks' = w.tasks /\ queue' = w.queue /\ net' = w.net
  BY DEF Becomes
<1>2. w \in World /\ \A s \in Side : Sound(w.side[s], w.tasks[s])
  BY DEF Inv
<1>3. [side |-> side', tasks |-> tasks', queue |-> queue', net |-> net'] \in World
  BY <1>1, <1>2 DEF World
<1>4. \A s \in Side : Sound(side'[s], tasks'[s])
  BY <1>1, <1>2
<1> DEFINE v == [side |-> side', tasks |-> tasks', queue |-> queue', net |-> net']
<1>5. Now' = v /\ v.side = side' /\ v.tasks = tasks'
  BY DEF Now
<1> HIDE DEF v
<1>6. Inv(v)
  BY <1>3, <1>4, <1>5 DEF v, Inv
<1> QED BY <1>5, <1>6

LEMMA SideKeeps ==
  ASSUME Typed, NEW s \in Side, NEW q \in Device, Core(side[s], q),
         side' = [side EXCEPT ![s] = q], UNCHANGED <<tasks, queue, net>>
  PROVE  Inv(Now)'
<1> DEFINE w == [Now EXCEPT !.side[s] = q]
<1>1. Inv(Now) /\ Now.side = side /\ Now.tasks = tasks /\ Now.queue = queue /\ Now.net = net
  BY NowParts
<1>2. Inv(w)
  BY <1>1, CoreKeeps
<1>3. w.side = [side EXCEPT ![s] = q] /\ w.tasks = tasks /\ w.queue = queue /\ w.net = net
  BY <1>1 DEF Now
<1> HIDE DEF w
<1>4. Becomes(w)
  BY <1>3 DEF Becomes
<1> QED BY <1>2, <1>4, BecomesKeeps

LEMMA SpendTyped ==
  ASSUME Typed, NEW k \in Disturbance, Spend(k)
  PROVE  spent' \in [Disturbance -> Nat]
BY DEF Typed, Spend

LEMMA DueTyped ==
  ASSUME Typed, Due
  PROVE  spent' \in [Disturbance -> Nat]
<1>1. "slow" \in Disturbance
  BY DEF Disturbance
<1> QED BY <1>1, SpendTyped DEF Due, Typed

LEMMA Keeps ==
  ASSUME Typed, Inv(Now)', UNCHANGED up, (UNCHANGED spent) \/ spent' \in [Disturbance -> Nat]
  PROVE  Typed'
BY DEF Typed

LEMMA StepKeeps ==
  ASSUME Typed, NEW w, Inv(w), Becomes(w), UNCHANGED <<up, spent>>
  PROVE  Typed'
<1>1. Inv(Now)'
  BY BecomesKeeps
<1> QED BY <1>1, Keeps

LEMMA TimerKeeps ==
  ASSUME Typed, NEW w, Inv(w), Becomes(w), Due, UNCHANGED up
  PROVE  Typed'
<1>1. Inv(Now)'
  BY BecomesKeeps
<1> QED BY <1>1, Keeps, DueTyped

LEMMA DialReadyKeeps ==
  ASSUME Typed, NEW s \in Side, NEW t \in tasks[s], DialReady(s, t)
  PROVE  Typed'
<1>1. Inv(Now) /\ t \in Task /\ t \in Now.tasks[s] /\ Fit(t, Now.side[s].gen)
  BY NowParts, ParkedFacts
<1> DEFINE u == [t EXCEPT !.at = "turn"]
           w == IF SameGen(Now, s, t) THEN Goes(Now, s, t, u) ELSE End(Now, s, t)
<1>2. t.k = "dial" /\ t.at = "ready" /\ Becomes(w) /\ UNCHANGED <<up, spent>>
  BY DEF DialReady
<1>3. u \in Task /\ u.k = t.k /\ u.gen = t.gen /\ u.at = "turn" /\ u.tries = t.tries
  BY <1>1 DEF Task
<1> HIDE DEF u
<1>4. ~Makes(Now, s, t)
  BY <1>2 DEF Makes
<1>5. Fit(u, Now.side[s].gen)
  BY <1>1, <1>2, <1>3 DEF Fit
<1>6. Inv(Goes(Now, s, t, u))
  BY <1>1, <1>3, <1>4, <1>5, GoesKeeps
<1>7. Inv(End(Now, s, t))
  BY <1>1, <1>2, <1>4, EndKeeps
<1>8. Inv(w)
  BY <1>6, <1>7
<1> HIDE DEF w
<1> QED BY <1>2, <1>8, StepKeeps

LEMMA DialRefusedKeeps ==
  ASSUME Typed, NEW s \in Side, NEW t \in tasks[s], DialRefused(s, t)
  PROVE  Typed'
<1>1. Inv(Now) /\ t \in Task
  BY NowParts, ParkedFacts
<1>2. t.k = "dial" /\ t.at = "ready" /\ Due /\ Becomes(Rejected(Now, s, t)) /\ UNCHANGED up
  BY DEF DialRefused
<1>3. ~Makes(Now, s, t)
  BY <1>2 DEF Makes
<1>4. Inv(Rejected(Now, s, t))
  BY <1>1, <1>2, <1>3, RejectedKeeps
<1> QED BY <1>2, <1>4, TimerKeeps

\* After the wait, a connection is built only if there is none and the generation is still its own.
LEMMA BuildsKeeps ==
  ASSUME Typed, NEW s \in Side, NEW t \in tasks[s], NEW chan \in {"none", "wait"},
         t.k \in {"dial", "sdp"}, t.at = "turn",
         Becomes(IF SameGen(Now, s, t) /\ side[s].pc.id = 0
                 THEN Goes(Created(Now, s, t, chan), s, t, [t EXCEPT !.at = "keys", !.pc = t.gen])
                 ELSE End(Now, s, t)),
         UNCHANGED <<up, spent>>
  PROVE  Typed'
<1>1. Inv(Now) /\ t \in Task /\ t \in Now.tasks[s] /\ Fit(t, Now.side[s].gen) /\ Now.side = side
  BY NowParts, ParkedFacts
<1> DEFINE u == [t EXCEPT !.at = "keys", !.pc = t.gen]
           v == Created(Now, s, t, chan)
           w == IF SameGen(Now, s, t) /\ side[s].pc.id = 0 THEN Goes(v, s, t, u) ELSE End(Now, s, t)
<1>2. Becomes(w)
  OBVIOUS
<1>3. u \in Task /\ u.k = t.k /\ u.gen = t.gen /\ u.at = "keys"
  BY <1>1 DEF Task
<1> HIDE DEF u
<1>4. ~Makes(Now, s, t) /\ ~Makes(v, s, t)
  BY DEF Makes
<1>5. ASSUME SameGen(Now, s, t), side[s].pc.id = 0 PROVE Inv(Goes(v, s, t, u))
  <2>1. t.gen # 0
    BY <1>1 DEF Fit
  <2>2. Inv(v) /\ v.tasks = Now.tasks /\ v.side[s].gen = Now.side[s].gen
    BY <1>1, <1>5, <2>1, CreatedKeeps
  <2> HIDE DEF v
  <2>3. Fit(u, v.side[s].gen)
    BY <1>1, <1>3, <2>2 DEF Fit
  <2> QED BY <1>1, <1>3, <1>4, <2>2, <2>3, GoesKeeps
<1>6. Inv(End(Now, s, t))
  BY <1>1, <1>4, EndKeeps
<1> HIDE DEF v
<1>7. Inv(w)
  BY <1>5, <1>6
<1> HIDE DEF w
<1> QED BY <1>2, <1>7, StepKeeps

LEMMA DialOffersKeeps ==
  ASSUME Typed, NEW s \in Side, NEW t \in tasks[s], DialOffers(s, t)
  PROVE  Typed'
<1>1. /\ Inv(Now) /\ t \in Task /\ t \in Now.tasks[s] /\ Fit(t, Now.side[s].gen)
      /\ tasks[s] \in SUBSET Task
  BY NowParts, ParkedFacts
<1> DEFINE v == Abandoned(Now, s, t)
           w == IF Holds(Now, s, t) THEN Offering(Now, s, t) ELSE End(v, s, t)
<1>2. t.k = "dial" /\ t.at = "keys" /\ Becomes(w) /\ UNCHANGED <<up, spent>>
  BY DEF DialOffers
<1>3. Inv(Offering(Now, s, t))
  BY <1>1, <1>2, OfferingKeeps
<1>4. Inv(v)
  BY <1>1, AbandonedKeeps
<1>5. ~Makes(v, s, t)
  BY <1>2 DEF Makes
<1> HIDE DEF v
<1>6. Inv(End(v, s, t))
  BY <1>1, <1>2, <1>4, <1>5, EndKeeps
<1>7. Inv(w)
  BY <1>3, <1>6
<1> HIDE DEF w
<1> QED BY <1>2, <1>7, StepKeeps

LEMMA DialPublishesKeeps ==
  ASSUME Typed, NEW s \in Side, NEW t \in tasks[s], DialPublishes(s, t)
  PROVE  Typed'
<1>1. Inv(Now) /\ t \in Task
  BY NowParts, ParkedFacts
<1> DEFINE v == Offered(Now, s, t)
           w == IF Holds(Now, s, t) /\ side[s].pc.sig # "remote" THEN End(v, s, t) ELSE Rejected(v, s, t)
<1>2. t.k = "dial" /\ Becomes(w) /\ UNCHANGED <<up, spent>>
  BY DEF DialPublishes
<1>3. Inv(v) /\ ~Makes(v, s, t)
  BY <1>1, OfferedKeeps
<1> HIDE DEF v
<1>4. Inv(End(v, s, t)) /\ Inv(Rejected(v, s, t))
  BY <1>1, <1>2, <1>3, EndKeeps, RejectedKeeps
<1>5. Inv(w)
  BY <1>4
<1> HIDE DEF w
<1> QED BY <1>2, <1>5, StepKeeps

LEMMA SdpStartsKeeps ==
  ASSUME Typed, NEW s \in Side, SdpStarts(s)
  PROVE  Typed'
<1>1. Inv(Now) /\ Now \in World /\ Now.queue = queue
  BY NowParts
<1> DEFINE r == Head(queue[s])
           v == [Now EXCEPT !.queue[s] = Tail(@)]
           w == IF ~Current(s, r) THEN v
                ELSE IF r.m.t = "offer" THEN HandleOffer(v, s, r) ELSE HandleAnswer(v, s, r)
<1>2. queue[s] # <<>> /\ Becomes(w) /\ UNCHANGED <<up, spent>>
  BY DEF SdpStarts
<1>3. queue[s] \in Seq(Receipts)
  BY <1>1 DEF World
<1>4. r \in Receipts /\ Tail(queue[s]) \in Seq(Receipts)
  BY <1>2, <1>3
<1>5. Inv(v)
  <2> DEFINE q == Tail(queue[s])
  <2>1. v = [Now EXCEPT !.queue[s] = q]
    BY <1>1
  <2>2. q \in Seq(Receipts)
    BY <1>4
  <2> HIDE DEF q, v
  <2>3. v \in World /\ v.side = Now.side /\ v.tasks = Now.tasks
    BY <1>1, <2>1, <2>2 DEF World
  <2> QED BY <1>1, <2>3, SameDevices
<1> HIDE DEF r, v
<1>6. Inv(HandleOffer(v, s, r)) /\ Inv(HandleAnswer(v, s, r))
  BY <1>4, <1>5, HandleOfferKeeps, HandleAnswerKeeps
<1>7. Inv(w)
  BY <1>5, <1>6
<1> HIDE DEF w
<1> QED BY <1>2, <1>7, StepKeeps

LEMMA SdpAcceptsKeeps ==
  ASSUME Typed, NEW s \in Side, NEW t \in tasks[s], SdpAccepts(s, t)
  PROVE  Typed'
<1>1. Inv(Now) /\ t \in Task /\ t \in Now.tasks[s] /\ Now.side = side
  BY NowParts, ParkedFacts
<1> DEFINE v == Abandoned(Now, s, t)
           w == IF Holds(Now, s, t) THEN Accepting(Now, s, t) ELSE End(v, s, t)
<1>2. t.k = "sdp" /\ t.at = "keys" /\ Becomes(w) /\ UNCHANGED <<up, spent>>
  BY DEF SdpAccepts
<1>3. ASSUME Holds(Now, s, t) PROVE Inv(Accepting(Now, s, t))
  <2>1. Now.side[s].pc.id # 0
    BY <1>3 DEF Holds
  <2> QED BY <1>1, <1>2, <2>1, AcceptingKeeps
<1>4. Inv(v)
  BY <1>1, AbandonedKeeps
<1>5. ~Makes(v, s, t)
  BY <1>2 DEF Makes
<1> HIDE DEF v
<1>6. Inv(End(v, s, t))
  BY <1>1, <1>2, <1>4, <1>5, EndKeeps
<1>7. Inv(w)
  BY <1>3, <1>6
<1> HIDE DEF w
<1> QED BY <1>2, <1>7, StepKeeps

LEMMA SdpRollsBackKeeps ==
  ASSUME Typed, NEW s \in Side, NEW t \in tasks[s], SdpRollsBack(s, t)
  PROVE  Typed'
<1>1. Inv(Now) /\ t \in Task /\ t \in Now.tasks[s]
  BY NowParts, ParkedFacts
<1> DEFINE w == IF Holds(Now, s, t) THEN Answering(Now, s, t) ELSE End(Now, s, t)
<1>2. t.k = "sdp" /\ t.at = "rollback" /\ Becomes(w) /\ UNCHANGED <<up, spent>>
  BY DEF SdpRollsBack
<1>3. ~Makes(Now, s, t)
  BY <1>2 DEF Makes
<1>4. ASSUME Holds(Now, s, t) PROVE Inv(Answering(Now, s, t))
  <2>1. Now.side[s].pc.id # 0
    BY <1>4 DEF Holds
  <2> QED BY <1>1, <1>2, <1>3, <2>1, AnsweringKeeps
<1>5. Inv(End(Now, s, t))
  BY <1>1, <1>2, <1>3, EndKeeps
<1>6. Inv(w)
  BY <1>4, <1>5
<1> HIDE DEF w
<1> QED BY <1>2, <1>6, StepKeeps

LEMMA SdpAnswersKeeps ==
  ASSUME Typed, NEW s \in Side, NEW t \in tasks[s], SdpAnswers(s, t)
  PROVE  Typed'
<1>1. Inv(Now) /\ t \in Task /\ t \in Now.tasks[s] /\ Now.side = side /\ side[s] \in Device
  BY NowParts, ParkedFacts
<1> DEFINE n == side[s].pc.n + 1
           p == [side[s].pc EXCEPT !.n = n]
           q == [side[s] EXCEPT !.pc = p]
           r == Agreed(q, t.m.d)
           v == [Now EXCEPT !.side[s] = r]
           m == Msg("answer", Described(r.pc), t.m.d)
           w == IF ~Holds(Now, s, t) THEN End(Now, s, t) ELSE Send(End(v, s, t), s, m)
<1>2. t.k = "sdp" /\ t.at = "answering" /\ Becomes(w) /\ UNCHANGED <<up, spent>>
  <2>1. q = [side[s] EXCEPT !.pc.n = @ + 1]
    OBVIOUS
  <2> QED BY <2>1 DEF SdpAnswers
<1>3. ~Makes(Now, s, t) /\ ~Makes(v, s, t)
  BY <1>2 DEF Makes
<1>4. Inv(End(Now, s, t))
  BY <1>1, <1>2, <1>3, EndKeeps
<1>5. ASSUME Holds(Now, s, t) PROVE Inv(Send(End(v, s, t), s, m))
  <2>1. side[s].pc.id # 0
    BY <1>1, <1>5 DEF Holds
  <2>2. n \in Nat /\ side[s].pc \in Conn /\ t.m.d \in Desc
    BY <1>1 DEF Device, Conn, Task, Message
  <2> HIDE DEF n
  <2>3. p \in Conn /\ p.id = side[s].pc.id
    BY <2>2 DEF Conn
  <2> HIDE DEF p
  <2>4. q \in Device /\ Core(side[s], q) /\ q.pc.id # 0
    BY <1>1, <2>1, <2>3 DEF Device, Core, Owned
  <2> HIDE DEF q
  <2>5. r \in Device /\ Core(q, r) /\ r.pc \in Conn
    BY <2>2, <2>4, AgreedFits
  <2> HIDE DEF r
  <2>6. Core(Now.side[s], r)
    BY <1>1, <2>4, <2>5 DEF Core
  <2>7. Inv(v)
    BY <1>1, <2>5, <2>6, CoreKeeps
  <2> HIDE DEF v
  <2>8. Inv(End(v, s, t))
    BY <1>1, <1>2, <1>3, <2>7, EndKeeps
  <2>9. m \in Message
    BY <2>2, <2>5, DescribedTyped DEF Msg, Message
  <2> HIDE DEF m
  <2> QED BY <2>8, <2>9, SendKeeps
<1> HIDE DEF v, m
<1>6. Inv(w)
  BY <1>4, <1>5
<1> HIDE DEF w
<1> QED BY <1>2, <1>6, StepKeeps

LEMMA SdpAppliesKeeps ==
  ASSUME Typed, NEW s \in Side, NEW t \in tasks[s], SdpApplies(s, t)
  PROVE  Typed'
<1>1. /\ Inv(Now) /\ t \in Task /\ t \in Now.tasks[s] /\ Now.side = side /\ side[s] \in Device
      /\ Sound(side[s], tasks[s])
  BY NowParts, ParkedFacts
<1> DEFINE v == [Now EXCEPT !.side[s].setting = FALSE]
           w == IF t.era = side[s].era THEN v ELSE Now
           a == IF t.pc = side[s].pc.id /\ side[s].pc.sig = "local"
                THEN [w EXCEPT !.side[s] = Agreed(@, t.m.d)] ELSE w
<1>2. t.k = "sdp" /\ t.at = "applying" /\ Becomes(End(a, s, t)) /\ UNCHANGED <<up, spent>>
  BY DEF SdpApplies
<1>3. Inv(w) /\ w.side[s].pc = side[s].pc
  <2> DEFINE q == [Now.side[s] EXCEPT !.setting = FALSE]
  <2>1. q \in Device /\ Core(Now.side[s], q) /\ q.pc = side[s].pc
    BY <1>1 DEF Device, Core, Owned
  <2>2. v = [Now EXCEPT !.side[s] = q]
    OBVIOUS
  <2> HIDE DEF q
  <2>3. Inv([Now EXCEPT !.side[s] = q]) /\ [Now EXCEPT !.side[s] = q].side[s] = q
    BY <1>1, <2>1, CoreKeeps
  <2> HIDE DEF v
  <2> QED BY <1>1, <2>1, <2>2, <2>3
<1> HIDE DEF w
<1>4. Inv(a)
  <2>1. CASE t.pc = side[s].pc.id /\ side[s].pc.sig = "local"
    <3>1. w.side[s] \in Device
      BY <1>3, InvParts
    <3>2. w.side[s].pc.id # 0
      BY <1>1, <1>3, <2>1 DEF Sound, Owned, NoPc
    <3>3. t.m.d \in Desc
      BY <1>1 DEF Task, Message
    <3> DEFINE q == Agreed(w.side[s], t.m.d)
    <3>4. q \in Device /\ Core(w.side[s], q)
      BY <3>1, <3>2, <3>3, AgreedFits
    <3>5. a = [w EXCEPT !.side[s] = q]
      BY <2>1
    <3> HIDE DEF q
    <3> QED BY <1>3, <3>4, <3>5, CoreKeeps
  <2>2. CASE ~(t.pc = side[s].pc.id /\ side[s].pc.sig = "local")
    BY <1>3, <2>2
  <2> QED BY <2>1, <2>2
<1> HIDE DEF a
<1>5. ~Makes(a, s, t)
  BY <1>2 DEF Makes
<1>6. Inv(End(a, s, t))
  BY <1>1, <1>2, <1>4, <1>5, EndKeeps
<1> QED BY <1>2, <1>6, StepKeeps

LEMMA RestartStaleKeeps ==
  ASSUME Typed, NEW s \in Side, NEW t \in tasks[s], RestartStale(s, t)
  PROVE  Typed'
<1>1. Inv(Now) /\ t \in Now.tasks[s]
  BY NowParts, ParkedFacts
<1>2. t.k = "restart" /\ t.at = "backoff" /\ Due /\ UNCHANGED up /\ Becomes(Release(Now, s, t))
  BY DEF RestartStale, Backoff
<1>3. ~Makes(Now, s, t)
  BY <1>2 DEF Makes
<1>4. Inv(Release(Now, s, t))
  BY <1>1, <1>2, <1>3, ReleaseKeeps
<1> QED BY <1>2, <1>4, TimerKeeps

\* The cleanup takes the lock away with the restart that held it.
LEMMA EndLoose ==
  ASSUME NEW w, NEW s \in Side, Loose(w, s), NEW t \in Task
  PROVE  Loose(End(w, s, t), s)
<1>1. /\ w \in World /\ w.side[s] \in Device /\ w.tasks[s] \in SUBSET Task /\ w.side[s].left = {}
      /\ Parked(w.side[s], w.tasks[s])
  BY DEF Loose, World
<1>2. PICK g \in Nat : End(w, s, t) = Put(w, s, [w.side[s] EXCEPT !.going = g], w.tasks[s] \ {t})
  BY <1>1, EndFacts
<1> DEFINE q == [w.side[s] EXCEPT !.going = g]
           T == w.tasks[s] \ {t}
           v == Put(w, s, q, T)
<1>3. q \in Device /\ q.gen = w.side[s].gen /\ q.left = {}
  BY <1>1 DEF Device
<1> HIDE DEF q
<1>4. Parked(q, T) /\ T \in SUBSET Task
  BY <1>1, <1>3 DEF Parked
<1> HIDE DEF T
<1>5. v \in World /\ v.side = [w.side EXCEPT ![s] = q] /\ v.tasks = [w.tasks EXCEPT ![s] = T]
  BY <1>1, <1>3, <1>4 DEF World, Put
<1>6. /\ v.side[s] = q /\ v.tasks[s] = T
      /\ \A x \in Side : x # s => v.side[x] = w.side[x] /\ v.tasks[x] = w.tasks[x]
  BY <1>1, <1>5 DEF World
<1> HIDE DEF v
<1>7. Loose(v, s)
  BY <1>3, <1>4, <1>5, <1>6 DEF Loose
<1> QED BY <1>2, <1>7 DEF q, T, v

LEMMA RestartRedialsKeeps ==
  ASSUME Typed, NEW s \in Side, NEW t \in tasks[s], RestartRedials(s, t)
  PROVE  Typed'
<1>1. /\ Inv(Now) /\ t \in Task /\ Now.side = side /\ side[s] \in Device /\ Fit(t, Now.side[s].gen)
  BY NowParts, ParkedFacts
<1> DEFINE a == [Now EXCEPT !.side[s].status = "reconnecting"]
           w == Cleanup(End(a, s, t), s)
           n == t.tries + 1
           v == [w EXCEPT !.side[s].tries = n]
<1>2. t.k = "restart" /\ Due /\ UNCHANGED up /\ Becomes(Dial(v, s, "restart"))
  BY DEF RestartRedials, Backoff
<1>3. Inv(a)
  <2> DEFINE q == [Now.side[s] EXCEPT !.status = "reconnecting"]
  <2>1. q \in Device /\ Core(Now.side[s], q)
    BY <1>1 DEF Device, Core, Owned
  <2>2. a = [Now EXCEPT !.side[s] = q]
    OBVIOUS
  <2> HIDE DEF q, a
  <2> QED BY <1>1, <2>1, <2>2, CoreKeeps
<1> HIDE DEF a
<1>4. Loose(End(a, s, t), s)
  BY <1>1, <1>3, InvLoose, EndLoose
<1>5. Inv(w)
  BY <1>4, CleanupKeeps
<1> HIDE DEF w
<1>6. n \in 0..MaxRestarts
  BY <1>1, <1>2, MaxRestartsAssumption DEF Task, Fit
<1> HIDE DEF n
<1>7. Inv(v)
  <2> DEFINE q == [w.side[s] EXCEPT !.tries = n]
  <2>1. w.side[s] \in Device
    BY <1>5, InvParts
  <2>2. q \in Device /\ Core(w.side[s], q)
    BY <1>6, <2>1 DEF Device, Core, Owned
  <2>3. v = [w EXCEPT !.side[s] = q]
    OBVIOUS
  <2> HIDE DEF q, v
  <2> QED BY <1>5, <2>2, <2>3, CoreKeeps
<1> HIDE DEF v
<1>8. Inv(Dial(v, s, "restart"))
  <2>1. "restart" \in Reason
    BY DEF Reason
  <2> QED BY <1>7, <2>1, DialKeeps
<1> QED BY <1>2, <1>8, TimerKeeps

LEMMA RestartExhaustedKeeps ==
  ASSUME Typed, NEW s \in Side, NEW t \in tasks[s], RestartExhausted(s, t)
  PROVE  Typed'
<1>1. Inv(Now) /\ t \in Now.tasks[s] /\ Now.side = side /\ side[s] \in Device
  BY NowParts, ParkedFacts
<1> DEFINE q == [Now.side[s] EXCEPT !.status = "offline", !.pre = 0]
           v == [Now EXCEPT !.side[s] = q]
<1>2. t.k = "restart" /\ t.at = "backoff" /\ Due /\ UNCHANGED up /\ Becomes(Release(v, s, t))
  BY DEF RestartExhausted, Backoff
<1>3. q \in Device /\ Core(Now.side[s], q)
  BY <1>1 DEF Device, Core, Owned
<1> HIDE DEF q
<1>4. Inv(v) /\ v.tasks = Now.tasks
  BY <1>1, <1>3, CoreKeeps
<1> HIDE DEF v
<1>5. ~Makes(v, s, t)
  BY <1>2 DEF Makes
<1>6. Inv(Release(v, s, t))
  BY <1>1, <1>2, <1>4, <1>5, ReleaseKeeps
<1> QED BY <1>2, <1>6, TimerKeeps

LEMMA RestartWakesKeeps ==
  ASSUME Typed, NEW s \in Side, NEW t \in tasks[s], RestartWakes(s, t)
  PROVE  Typed'
<1>1. /\ Inv(Now) /\ t \in Task /\ t \in Now.tasks[s] /\ Now.side = side /\ side[s] \in Device
      /\ Fit(t, Now.side[s].gen) /\ tasks[s] \in SUBSET Task
  BY NowParts, ParkedFacts
<1> DEFINE n == side[s].pre + 1
           q == [Now.side[s] EXCEPT !.status = "reconnecting", !.pre = n]
           v == [Now EXCEPT !.side[s] = q]
           u == [t EXCEPT !.pc = side[s].pc.id]
           x == [u EXCEPT !.at = "stable"]
           w == IF side[s].pc.sig = "stable" THEN Restarting(Goes(v, s, t, u), s, u) ELSE Goes(v, s, t, x)
<1>2. t.k = "restart" /\ t.at = "backoff" /\ Due /\ UNCHANGED up /\ Becomes(w)
  BY DEF RestartWakes, Backoff
<1>3. n \in Nat /\ side[s].pc.id \in Nat
  BY <1>1 DEF Device, Conn
<1> HIDE DEF n
<1>4. q \in Device /\ Core(Now.side[s], q)
  BY <1>1, <1>3 DEF Device, Core, Owned
<1> HIDE DEF q
<1>5. Inv(v) /\ v.tasks = Now.tasks /\ v.side[s].gen = Now.side[s].gen
  BY <1>1, <1>4, CoreKeeps DEF Core
<1> HIDE DEF v
<1>6. u \in Task /\ u.k = t.k /\ u.gen = t.gen /\ u.at = "backoff" /\ u.tries = t.tries
  BY <1>1, <1>2, <1>3 DEF Task
<1> HIDE DEF u
<1>7. x \in Task /\ x.k = t.k /\ x.gen = t.gen /\ x.at = "stable" /\ x.tries = t.tries
  BY <1>6 DEF Task
<1> HIDE DEF x
<1>8. Fit(u, v.side[s].gen) /\ Fit(x, v.side[s].gen)
  BY <1>1, <1>2, <1>5, <1>6, <1>7 DEF Fit
<1>9. ~Makes(v, s, t)
  BY <1>2 DEF Makes
<1>10. Inv(Goes(v, s, t, x))
  BY <1>1, <1>5, <1>7, <1>8, <1>9, GoesKeeps
<1>11. Inv(Goes(v, s, t, u)) /\ u \in Goes(v, s, t, u).tasks[s]
  <2>1. Inv(Goes(v, s, t, u)) /\ Goes(v, s, t, u).tasks[s] = (v.tasks[s] \ {t}) \cup {u}
    BY <1>1, <1>5, <1>6, <1>8, <1>9, GoesKeeps
  <2> QED BY <2>1
<1>12. Inv(Restarting(Goes(v, s, t, u), s, u))
  BY <1>1, <1>2, <1>6, <1>11, RestartingKeeps
<1>13. Inv(w)
  BY <1>10, <1>12
<1> HIDE DEF w
<1> QED BY <1>2, <1>13, TimerKeeps

LEMMA RestartStableKeeps ==
  ASSUME Typed, NEW s \in Side, NEW t \in tasks[s], RestartStable(s, t)
  PROVE  Typed'
<1>1. Inv(Now) /\ t \in Now.tasks[s] /\ tasks[s] \in SUBSET Task
  BY NowParts, ParkedFacts
<1> DEFINE w == IF Holds(Now, s, t) THEN Restarting(Now, s, t) ELSE Release(Now, s, t)
<1>2. t.k = "restart" /\ t.at = "stable" /\ Becomes(w) /\ UNCHANGED <<up, spent>>
  BY DEF RestartStable
<1>3. Inv(Restarting(Now, s, t))
  BY <1>1, <1>2, RestartingKeeps
<1>4. ~Makes(Now, s, t)
  BY <1>2 DEF Makes
<1>5. Inv(Release(Now, s, t))
  BY <1>1, <1>2, <1>4, ReleaseKeeps
<1>6. Inv(w)
  BY <1>3, <1>5
<1> HIDE DEF w
<1> QED BY <1>2, <1>6, StepKeeps

LEMMA RestartTimesOutKeeps ==
  ASSUME Typed, NEW s \in Side, NEW t \in tasks[s], RestartTimesOut(s, t)
  PROVE  Typed'
<1>1. Inv(Now) /\ t \in Now.tasks[s] /\ t \in Task
  BY NowParts, ParkedFacts
<1> DEFINE v == Retrying(Now, s, t.gen)
<1>2. t.k = "restart" /\ t.at = "stable" /\ Due /\ UNCHANGED up /\ Becomes(Release(v, s, t))
  BY DEF RestartTimesOut
<1>3. t.gen \in Nat
  BY <1>1 DEF Task
<1>4. Inv(v) /\ v.tasks = Now.tasks
  BY <1>1, <1>3, RetryingKeeps
<1> HIDE DEF v
<1>5. ~Makes(v, s, t)
  BY <1>2 DEF Makes
<1>6. Inv(Release(v, s, t))
  BY <1>1, <1>2, <1>4, <1>5, ReleaseKeeps
<1> QED BY <1>2, <1>6, TimerKeeps

LEMMA RestartPublishesKeeps ==
  ASSUME Typed, NEW s \in Side, NEW t \in tasks[s], RestartPublishes(s, t)
  PROVE  Typed'
<1>1. Inv(Now) /\ t \in Now.tasks[s] /\ t \in Task
  BY NowParts, ParkedFacts
<1> DEFINE v == Offered(Now, s, t)
           x == Retrying(v, s, t.gen)
           y == IF t.pc = side[s].pc.id THEN x ELSE v
<1>2. t.k = "restart" /\ Becomes(Release(y, s, t)) /\ UNCHANGED <<up, spent>>
  BY DEF RestartPublishes
<1>3. t.gen \in Nat
  BY <1>1 DEF Task
<1>4. Inv(v) /\ v.tasks = Now.tasks /\ ~Makes(v, s, t)
  BY <1>1, OfferedKeeps
<1> HIDE DEF v
<1>5. Inv(x) /\ x.tasks = v.tasks /\ Core(v.side[s], x.side[s])
  BY <1>3, <1>4, RetryingKeeps
<1> HIDE DEF x
<1>6. ~Makes(x, s, t)
  BY <1>4, <1>5 DEF Makes, Core
<1>7. Inv(y) /\ y.tasks = Now.tasks /\ ~Makes(y, s, t)
  BY <1>4, <1>5, <1>6
<1> HIDE DEF y
<1>8. Inv(Release(y, s, t))
  BY <1>1, <1>2, <1>7, ReleaseKeeps
<1> QED BY <1>2, <1>8, StepKeeps

LEMMA RetryFiresKeeps ==
  ASSUME Typed, NEW s \in Side, RetryFires(s)
  PROVE  Typed'
<1>1. Inv(Now) /\ Now.side = side /\ side[s] \in Device
  BY NowParts
<1> DEFINE r == side[s]
           w == [Now EXCEPT !.side[s].retry = 0]
           x == [w EXCEPT !.side[s].pre = 0]
           y == [w EXCEPT !.side[s] = [@ EXCEPT !.pre = 0, !.status = "offline"]]
           z == IF r.retry # r.gen THEN w
                ELSE IF r.pc.ice = "conn" THEN x
                ELSE IF r.tries >= MaxRestarts THEN y
                ELSE AttemptRestart(w, s)
<1>2. r.retry # 0 /\ Due /\ UNCHANGED up /\ Becomes(z)
  BY DEF RetryFires
<1>3. Inv(w) /\ w.side[s] \in Device /\ w.side[s].gen = r.gen
  <2> DEFINE q == [Now.side[s] EXCEPT !.retry = 0]
  <2>1. q \in Device /\ Core(Now.side[s], q)
    BY <1>1 DEF Device, Core, Owned
  <2>2. w = [Now EXCEPT !.side[s] = q]
    OBVIOUS
  <2> HIDE DEF q
  <2>3. Inv([Now EXCEPT !.side[s] = q]) /\ [Now EXCEPT !.side[s] = q].side[s] = q
    BY <1>1, <2>1, CoreKeeps
  <2> HIDE DEF w
  <2> QED BY <1>1, <2>1, <2>2, <2>3 DEF Core
<1> HIDE DEF w
<1>4. Inv(x)
  <2> DEFINE q == [w.side[s] EXCEPT !.pre = 0]
  <2>1. q \in Device /\ Core(w.side[s], q)
    BY <1>3 DEF Device, Core, Owned
  <2>2. x = [w EXCEPT !.side[s] = q]
    OBVIOUS
  <2> HIDE DEF q, x
  <2> QED BY <1>3, <2>1, <2>2, CoreKeeps
<1>5. Inv(y)
  <2> DEFINE q == [w.side[s] EXCEPT !.pre = 0, !.status = "offline"]
  <2>1. q \in Device /\ Core(w.side[s], q)
    BY <1>3 DEF Device, Core, Owned
  <2>2. y = [w EXCEPT !.side[s] = q]
    OBVIOUS
  <2> HIDE DEF q, y
  <2> QED BY <1>3, <2>1, <2>2, CoreKeeps
<1>6. ASSUME r.retry = r.gen PROVE Inv(AttemptRestart(w, s))
  BY <1>2, <1>3, <1>6, AttemptRestartKeeps
<1> HIDE DEF x, y
<1>7. Inv(z)
  BY <1>3, <1>4, <1>5, <1>6
<1> HIDE DEF z
<1> QED BY <1>2, <1>7, TimerKeeps

LEMMA DisconnectedFiresKeeps ==
  ASSUME Typed, NEW s \in Side, DisconnectedFires(s)
  PROVE  Typed'
<1>1. Inv(Now) /\ Now.side = side /\ side[s] \in Device /\ Sound(side[s], tasks[s])
  BY NowParts
<1> DEFINE r == side[s]
           w == [Now EXCEPT !.side[s].disc = NoDisc]
           v == [w EXCEPT !.side[s].status = "reconnecting"]
           z == IF r.disc = [pc |-> r.pc.id, gen |-> r.gen] /\ r.pc.ice \in {"disc", "fail"}
                THEN AttemptRestart(v, s) ELSE w
<1>2. Due /\ UNCHANGED up /\ Becomes(z)
  BY DEF DisconnectedFires
<1>3. Inv(w) /\ w.side[s] \in Device /\ w.side[s].gen = r.gen
  <2> DEFINE q == [Now.side[s] EXCEPT !.disc = NoDisc]
  <2>1. q \in Device /\ Core(Now.side[s], q)
    BY <1>1, NoTaskTyped DEF Device, Core, Owned
  <2>2. w = [Now EXCEPT !.side[s] = q]
    OBVIOUS
  <2> HIDE DEF q
  <2>3. Inv([Now EXCEPT !.side[s] = q]) /\ [Now EXCEPT !.side[s] = q].side[s] = q
    BY <1>1, <2>1, CoreKeeps
  <2> HIDE DEF w
  <2> QED BY <1>1, <2>1, <2>2, <2>3 DEF Core
<1> HIDE DEF w
<1>4. Inv(v) /\ v.side[s].gen = r.gen
  <2> DEFINE q == [w.side[s] EXCEPT !.status = "reconnecting"]
  <2>1. q \in Device /\ Core(w.side[s], q)
    BY <1>3 DEF Device, Core, Owned
  <2>2. v = [w EXCEPT !.side[s] = q]
    OBVIOUS
  <2> HIDE DEF q
  <2>3. Inv([w EXCEPT !.side[s] = q]) /\ [w EXCEPT !.side[s] = q].side[s] = q
    BY <1>3, <2>1, CoreKeeps
  <2> HIDE DEF v
  <2> QED BY <1>3, <2>1, <2>2, <2>3 DEF Core
<1> HIDE DEF v
<1>5. ASSUME r.pc.ice \in {"disc", "fail"} PROVE r.gen # 0
  <2>1. r.pc.id # 0
    BY <1>1, <1>5 DEF Sound, Owned, NoPc
  <2> QED BY <1>1, <2>1 DEF Sound, Owned, Device, Conn
<1>6. ASSUME r.pc.ice \in {"disc", "fail"} PROVE Inv(AttemptRestart(v, s))
  BY <1>4, <1>5, <1>6, AttemptRestartKeeps
<1>7. Inv(z)
  BY <1>3, <1>6
<1> HIDE DEF z
<1> QED BY <1>2, <1>7, TimerKeeps

LEMMA UnwatchedKeeps ==
  ASSUME Typed, NEW s \in Side
  PROVE  /\ Inv(Unwatched(s)) /\ Unwatched(s).side[s] \in Device
         /\ Core(side[s], Unwatched(s).side[s])
<1>1. Inv(Now) /\ Now.side = side /\ side[s] \in Device
  BY NowParts
<1> DEFINE q == [Now.side[s] EXCEPT !.watch = NoWatch]
<1>2. q \in Device /\ Core(side[s], q)
  BY <1>1, NoTaskTyped DEF Device, Core, Owned
<1>3. Unwatched(s) = [Now EXCEPT !.side[s] = q]
  BY DEF Unwatched
<1> HIDE DEF q
<1>4. Inv([Now EXCEPT !.side[s] = q]) /\ [Now EXCEPT !.side[s] = q].side[s] = q
  BY <1>1, <1>2, CoreKeeps
<1> QED BY <1>2, <1>3, <1>4

LEMMA WatchStaleKeeps ==
  ASSUME Typed, NEW s \in Side, WatchStale(s)
  PROVE  Typed'
<1>1. Due /\ UNCHANGED up /\ Becomes(Unwatched(s))
  BY DEF WatchStale
<1>2. Inv(Unwatched(s))
  BY UnwatchedKeeps
<1> QED BY <1>1, <1>2, TimerKeeps

LEMMA WatchYieldsKeeps ==
  ASSUME Typed, NEW s \in Side, WatchYields(s)
  PROVE  Typed'
<1>1. Inv(Now) /\ Now.side = side /\ side[s] \in Device
  BY NowParts
<1> DEFINE p == [Now.side[s].watch EXCEPT !.kind = "again"]
           q == [Now.side[s] EXCEPT !.watch = p]
           v == [Now EXCEPT !.side[s].watch.kind = "again"]
<1>2. Due /\ UNCHANGED up /\ Becomes(v)
  BY DEF WatchYields, WatchDue
<1>3. v = [Now EXCEPT !.side[s] = q]
  OBVIOUS
<1>4. p \in Watch
  BY <1>1 DEF Device, Watch
<1> HIDE DEF p
<1>5. q \in Device /\ Core(Now.side[s], q)
  BY <1>1, <1>4 DEF Device, Core, Owned
<1> HIDE DEF q, v
<1>6. Inv(v)
  BY <1>1, <1>3, <1>5, CoreKeeps
<1> QED BY <1>2, <1>6, TimerKeeps

LEMMA WatchGivesUpKeeps ==
  ASSUME Typed, NEW s \in Side, WatchGivesUp(s)
  PROVE  Typed'
<1> DEFINE w == Unwatched(s)
           v == [w EXCEPT !.side[s].status = "offline"]
<1>1. Due /\ UNCHANGED up /\ Becomes(v)
  BY DEF WatchGivesUp, WatchDue
<1>2. Inv(w) /\ w.side[s] \in Device
  BY UnwatchedKeeps
<1> HIDE DEF w
<1> DEFINE q == [w.side[s] EXCEPT !.status = "offline"]
<1>3. q \in Device /\ Core(w.side[s], q)
  BY <1>2 DEF Device, Core, Owned
<1>4. v = [w EXCEPT !.side[s] = q]
  OBVIOUS
<1> HIDE DEF q, v
<1>5. Inv(v)
  BY <1>2, <1>3, <1>4, CoreKeeps
<1> QED BY <1>1, <1>5, TimerKeeps

LEMMA WatchRebuildsKeeps ==
  ASSUME Typed, NEW s \in Side, WatchRebuilds(s)
  PROVE  Typed'
<1>1. Inv(Now) /\ Now.side = side /\ side[s] \in Device
  BY NowParts
<1> DEFINE q == [Now.side[s] EXCEPT !.rebuilt = TRUE, !.status = "connecting"]
           v == [Now EXCEPT !.side[s] = q]
           w == Cleanup(v, s)
<1>2. Due /\ UNCHANGED up /\ Becomes(Dial(w, s, "rebuild"))
  BY DEF WatchRebuilds, WatchDue
<1>3. q \in Device /\ Core(Now.side[s], q)
  BY <1>1 DEF Device, Core, Owned
<1> HIDE DEF q
<1>4. Inv(v)
  BY <1>1, <1>3, CoreKeeps
<1> HIDE DEF v
<1>5. Inv(w)
  BY <1>4, InvLoose, CleanupKeeps
<1> HIDE DEF w
<1>6. "rebuild" \in Reason
  BY DEF Reason
<1>7. Inv(Dial(w, s, "rebuild"))
  BY <1>5, <1>6, DialKeeps
<1> QED BY <1>2, <1>7, TimerKeeps

LEMMA AttemptFits ==
  ASSUME NEW w, Inv(w), NEW s \in Side, NEW k \in {"watch", "migrate"}
  PROVE  LET t == Attempt(w, s, k)
         IN  t \in Task /\ t.k = k /\ t.at = "none" /\ t.gen = w.side[s].gen
<1>1. w.side[s] \in Device
  BY InvParts
<1> QED BY <1>1, NoTaskTyped DEF Attempt, Task, Device, Conn, NoTask

LEMMA WatchRestartsKeeps ==
  ASSUME Typed, NEW s \in Side, WatchRestarts(s)
  PROVE  Typed'
<1>1. Inv(Now) /\ Now.side = side /\ side[s] \in Device /\ tasks[s] \in SUBSET Task
  BY NowParts
<1> DEFINE w == Unwatched(s)
           t == Attempt(Now, s, "watch")
<1>2. Due /\ UNCHANGED up /\ Becomes(Offering(w, s, t))
  BY DEF WatchRestarts, WatchDue
<1>3. Inv(w) /\ w.side[s].gen = side[s].gen
  BY UnwatchedKeeps DEF Core
<1>4. t \in Task /\ t.k = "watch" /\ t.at = "none" /\ t.gen = Now.side[s].gen
  BY <1>1, AttemptFits
<1> HIDE DEF w, t
<1>5. Fit(t, w.side[s].gen)
  BY <1>1, <1>3, <1>4 DEF Fit, Device
<1>6. Inv(Offering(w, s, t))
  BY <1>1, <1>3, <1>4, <1>5, OfferingKeeps
<1> QED BY <1>2, <1>6, TimerKeeps

LEMMA WatchPublishesKeeps ==
  ASSUME Typed, NEW s \in Side, NEW t \in tasks[s], WatchPublishes(s, t)
  PROVE  Typed'
<1>1. Inv(Now) /\ t \in Task /\ t \in Now.tasks[s]
  BY NowParts, ParkedFacts
<1> DEFINE v == Offered(Now, s, t)
           again == [kind |-> "again", pc |-> t.pc, gen |-> t.gen]
           x == [v EXCEPT !.side[s].watch = again]
           y == IF Installs(Now, s, t) THEN x ELSE v
<1>2. t.k = "watch" /\ Becomes(End(y, s, t)) /\ UNCHANGED <<up, spent>>
  BY DEF WatchPublishes
<1>3. Inv(v) /\ v.tasks = Now.tasks /\ ~Makes(v, s, t)
  BY <1>1, OfferedKeeps
<1> HIDE DEF v
<1>4. again \in Watch
  BY <1>1 DEF Watch, Task
<1> HIDE DEF again
<1>5. Inv(x) /\ ~Makes(x, s, t)
  <2> DEFINE q == [v.side[s] EXCEPT !.watch = again]
  <2>1. v.side[s] \in Device
    BY <1>3, InvParts
  <2>2. q \in Device /\ Core(v.side[s], q)
    BY <1>4, <2>1 DEF Device, Core, Owned
  <2>3. x = [v EXCEPT !.side[s] = q]
    OBVIOUS
  <2> HIDE DEF q
  <2>4. Inv([v EXCEPT !.side[s] = q]) /\ [v EXCEPT !.side[s] = q].side[s] = q
    BY <1>3, <2>2, CoreKeeps
  <2> HIDE DEF x
  <2> QED BY <1>3, <2>2, <2>3, <2>4 DEF Makes, Core
<1> HIDE DEF x
<1>6. Inv(y) /\ ~Makes(y, s, t)
  BY <1>3, <1>5
<1> HIDE DEF y
<1>7. Inv(End(y, s, t))
  BY <1>1, <1>2, <1>6, EndKeeps
<1> QED BY <1>2, <1>7, StepKeeps

(***************************************************************************)
(* The transport.                                                          *)
(***************************************************************************)

LEMMA IceIsFits ==
  ASSUME Typed, NEW s \in Side, NEW ice \in {"new", "conn", "disc", "fail"}, side[s].pc.id # 0
  PROVE  IceIs(s, ice) \in Device /\ Core(side[s], IceIs(s, ice)) /\ IceIs(s, ice).pc.id = side[s].pc.id
<1>1. side[s] \in Device
  BY NowParts
<1> DEFINE p == [side[s].pc EXCEPT !.ice = ice]
           q == [side[s] EXCEPT !.pc = p]
<1>2. IceIs(s, ice) = q
  BY DEF IceIs
<1>3. p \in Conn /\ p.id = side[s].pc.id
  BY <1>1 DEF Device, Conn
<1> HIDE DEF p
<1>4. q \in Device /\ Core(side[s], q) /\ q.pc.id = side[s].pc.id
  BY <1>1, <1>3 DEF Device, Core, Owned
<1> QED BY <1>2, <1>4

LEMMA IceConnectedFits ==
  ASSUME NEW r \in Device
  PROVE  IceConnected(r) \in Device /\ Core(r, IceConnected(r))
<1> DEFINE w == IF r.aes THEN [r EXCEPT !.watch = NoWatch] ELSE Watched(r)
           st == IF r.aes THEN "online" ELSE "connecting"
           q == [w EXCEPT !.disc = NoDisc, !.tries = 0, !.status = st]
<1>1. IceConnected(r) = IF ~Live(r) THEN r ELSE q
  BY DEF IceConnected
<1>2. w \in Device /\ Core(r, w)
  <2>1. [r EXCEPT !.watch = NoWatch] \in Device /\ Core(r, [r EXCEPT !.watch = NoWatch])
    BY NoTaskTyped DEF Device, Core, Owned
  <2>2. Watched(r) \in Device /\ Core(r, Watched(r))
    BY WatchedFits
  <2> QED BY <2>1, <2>2
<1>3. st \in {"connecting", "online"} /\ 0 \in 0..MaxRestarts
  BY MaxRestartsAssumption
<1> HIDE DEF w, st
<1>4. q \in Device /\ Core(w, q)
  BY <1>2, <1>3, NoTaskTyped DEF Device, Core, Owned
<1> HIDE DEF q
<1>5. Core(r, q) /\ Core(r, r)
  BY <1>2, <1>4 DEF Core
<1> QED BY <1>1, <1>4, <1>5

LEMMA DisconnectedFits ==
  ASSUME Typed, NEW s \in Side, side[s].pc.id # 0
  PROVE  Disconnected(s) \in Device /\ Core(side[s], Disconnected(s))
<1> DEFINE r == IceIs(s, "disc")
           now == [pc |-> r.pc.id, gen |-> r.gen]
           d == IF r.disc = NoDisc THEN now ELSE r.disc
           q == [r EXCEPT !.watch = NoWatch, !.disc = d]
<1>1. Disconnected(s) = IF ~Live(r) THEN r ELSE q
  BY DEF Disconnected
<1>2. r \in Device /\ Core(side[s], r)
  BY IceIsFits
<1> HIDE DEF r
<1>3. d \in Disc
  BY <1>2 DEF Device, Disc, Conn
<1> HIDE DEF d
<1>4. q \in Device /\ Core(r, q)
  BY <1>2, <1>3, NoTaskTyped DEF Device, Core, Owned
<1> HIDE DEF q
<1>5. Core(side[s], q)
  BY <1>2, <1>4 DEF Core
<1> QED BY <1>1, <1>2, <1>4, <1>5

\* What the browser reports is of a connection there is.
LEMMA Reported ==
  ASSUME Typed, NEW s \in Side,
         side[s].pc.ice # "new" \/ side[s].pc.chan # "none" \/ side[s].pc.sig # "stable"
  PROVE  side[s].pc.id # 0 /\ side[s].gen # 0
<1>1. side[s] \in Device /\ Sound(side[s], tasks[s])
  BY NowParts
<1>2. side[s].pc.id # 0
  BY <1>1 DEF Sound, Owned, NoPc
<1> QED BY <1>1, <1>2 DEF Sound, Owned, Device, Conn

LEMMA IceConnectsKeeps ==
  ASSUME Typed, NEW s \in Side, IceConnects(s)
  PROVE  Typed'
<1> DEFINE r == IceIs(s, "conn")
           q == IceConnected(r)
<1>1. /\ CanConnect(side[s], side[Other(s)]) \/ side[s].pc.ice = "disc"
      /\ side' = [side EXCEPT ![s] = q] /\ UNCHANGED <<tasks, queue, net, up, spent>>
  BY DEF IceConnects
<1>2. side[s].pc.id # 0
  <2>1. CASE CanConnect(side[s], side[Other(s)])
    BY <2>1 DEF CanConnect, Matched, Linked
  <2>2. CASE side[s].pc.ice = "disc"
    BY <2>2, Reported
  <2> QED BY <1>1, <2>1, <2>2
<1>3. r \in Device /\ Core(side[s], r)
  BY <1>2, IceIsFits
<1> HIDE DEF r
<1>4. q \in Device /\ Core(r, q)
  BY <1>3, IceConnectedFits
<1> HIDE DEF q
<1>5. Core(side[s], q)
  BY <1>3, <1>4 DEF Core
<1>6. Inv(Now)'
  BY <1>1, <1>4, <1>5, SideKeeps
<1> QED BY <1>1, <1>6, Keeps

LEMMA DropKeeps ==
  ASSUME Typed, NEW s \in Side, side[s].pc.ice = "conn",
         side' = [side EXCEPT ![s] = Disconnected(s)], UNCHANGED <<tasks, queue, net>>
  PROVE  Inv(Now)'
<1> DEFINE q == Disconnected(s)
<1>1. side[s].pc.id # 0
  BY Reported
<1>2. q \in Device /\ Core(side[s], q)
  BY <1>1, DisconnectedFits
<1>3. side' = [side EXCEPT ![s] = q]
  OBVIOUS
<1> HIDE DEF q
<1> QED BY <1>2, <1>3, SideKeeps

LEMMA IceDropsKeeps ==
  ASSUME Typed, NEW s \in Side, IceDrops(s)
  PROVE  Typed'
<1>1. /\ side[s].pc.ice = "conn" /\ side' = [side EXCEPT ![s] = Disconnected(s)]
      /\ UNCHANGED <<tasks, queue, net, up>> /\ Spend("drop")
  BY DEF IceDrops
<1>2. Inv(Now)'
  BY <1>1, DropKeeps
<1>3. "drop" \in Disturbance
  BY DEF Disturbance
<1>4. spent' \in [Disturbance -> Nat]
  BY <1>1, <1>3, SpendTyped
<1> QED BY <1>1, <1>2, <1>4, Keeps

LEMMA IceLostKeeps ==
  ASSUME Typed, NEW s \in Side, IceLost(s)
  PROVE  Typed'
<1>1. /\ side[s].pc.ice = "conn" /\ side' = [side EXCEPT ![s] = Disconnected(s)]
      /\ UNCHANGED <<tasks, queue, net, up, spent>>
  BY DEF IceLost
<1>2. Inv(Now)'
  BY <1>1, DropKeeps
<1> QED BY <1>1, <1>2, Keeps

LEMMA IceFailsKeeps ==
  ASSUME Typed, NEW s \in Side, IceFails(s)
  PROVE  Typed'
<1>1. Inv(Now) /\ Now.side = side /\ side[s] \in Device
  BY NowParts
<1> DEFINE r == IceIs(s, "fail")
           w == [Now EXCEPT !.side[s] = r]
           v == [w EXCEPT !.side[s] = [@ EXCEPT !.watch = NoWatch, !.disc = NoDisc]]
           z == IF Live(side[s]) THEN AttemptRestart(v, s) ELSE w
<1>2. side[s].pc.ice = "disc" /\ Becomes(z) /\ UNCHANGED <<up, spent>>
  BY DEF IceFails
<1>3. side[s].pc.id # 0 /\ side[s].gen # 0
  BY <1>2, Reported
<1>4. r \in Device /\ Core(Now.side[s], r)
  BY <1>1, <1>3, IceIsFits
<1> HIDE DEF r
<1>5. Inv(w) /\ w.side[s] \in Device /\ w.side[s].gen = side[s].gen
  <2>1. Inv(w) /\ w.side[s] = r
    BY <1>1, <1>4, CoreKeeps
  <2> HIDE DEF w
  <2> QED BY <1>1, <1>4, <2>1 DEF Core
<1> HIDE DEF w
<1>6. Inv(v) /\ v.side[s].gen = side[s].gen
  <2> DEFINE q == [w.side[s] EXCEPT !.watch = NoWatch, !.disc = NoDisc]
  <2>1. q \in Device /\ Core(w.side[s], q)
    BY <1>5, NoTaskTyped DEF Device, Core, Owned
  <2>2. v = [w EXCEPT !.side[s] = q]
    OBVIOUS
  <2> HIDE DEF q
  <2>3. Inv([w EXCEPT !.side[s] = q]) /\ [w EXCEPT !.side[s] = q].side[s] = q
    BY <1>5, <2>1, CoreKeeps
  <2> HIDE DEF v
  <2> QED BY <1>5, <2>1, <2>2, <2>3 DEF Core
<1> HIDE DEF v
<1>7. Inv(AttemptRestart(v, s))
  BY <1>3, <1>6, AttemptRestartKeeps
<1>8. Inv(z)
  BY <1>5, <1>7
<1> HIDE DEF z
<1> QED BY <1>2, <1>8, StepKeeps

LEMMA WedgesKeeps ==
  ASSUME Typed, NEW s \in Side, Wedges(s)
  PROVE  Typed'
<1>1. side[s] \in Device /\ side \in [Side -> Device]
  BY NowParts
<1> DEFINE p == IF side[s].pc.ice = "new" THEN [side[s].pc EXCEPT !.stuck = side[s].pc.rem]
                ELSE [side[s].pc EXCEPT !.mate = -1]
           q == [side[s] EXCEPT !.pc = p]
<1>2. /\ Spend("wedge") /\ side' = [side EXCEPT ![s] = q] /\ UNCHANGED <<tasks, queue, net, up>>
      /\ CanConnect(side[s], side[Other(s)]) \/ CanEncrypt(side[s], side[Other(s)])
  BY DEF Wedges
<1>3. side[s].pc.id # 0
  BY <1>2 DEF CanConnect, CanEncrypt, Matched, Linked
<1>4. p \in Conn /\ p.id = side[s].pc.id
  <2>1. [side[s].pc EXCEPT !.stuck = side[s].pc.rem] \in Conn
        /\ [side[s].pc EXCEPT !.stuck = side[s].pc.rem].id = side[s].pc.id
    BY <1>1 DEF Device, Conn
  <2>2. [side[s].pc EXCEPT !.mate = -1] \in Conn /\ [side[s].pc EXCEPT !.mate = -1].id = side[s].pc.id
    BY <1>1 DEF Device, Conn
  <2> QED BY <2>1, <2>2
<1> HIDE DEF p
<1>5. q \in Device /\ Core(side[s], q)
  BY <1>1, <1>3, <1>4 DEF Device, Core, Owned
<1> HIDE DEF q
<1>6. Inv(Now)'
  BY <1>2, <1>5, SideKeeps
<1>7. "wedge" \in Disturbance
  BY DEF Disturbance
<1>8. spent' \in [Disturbance -> Nat]
  BY <1>2, <1>7, SpendTyped
<1> QED BY <1>2, <1>6, <1>8, Keeps

LEMMA KeysInstalledKeeps ==
  ASSUME Typed, NEW s \in Side, KeysInstalled(s)
  PROVE  Typed'
<1>1. side[s] \in Device /\ side[Other(s)] \in Device
  BY NowParts, OtherSide
<1> DEFINE mate == side[Other(s)].pc.id
           p == [side[s].pc EXCEPT !.chan = "open", !.mate = mate]
           q == [side[s] EXCEPT !.aes = TRUE, !.rebuilt = FALSE, !.watch = NoWatch, !.status = "online",
                                !.pc = p]
<1>2. CanEncrypt(side[s], side[Other(s)]) /\ UNCHANGED <<tasks, queue, net, up, spent>>
  BY DEF KeysInstalled
<1>3. side' = [side EXCEPT ![s] = q]
  <2>1. side' = [side EXCEPT ![s] = [@ EXCEPT !.aes = TRUE, !.rebuilt = FALSE, !.watch = NoWatch,
                    !.status = "online", !.pc.chan = "open", !.pc.mate = side[Other(s)].pc.id]]
    BY DEF KeysInstalled
  <2>2. [side[s] EXCEPT !.aes = TRUE, !.rebuilt = FALSE, !.watch = NoWatch,
                    !.status = "online", !.pc.chan = "open", !.pc.mate = mate] = q
    OBVIOUS
  <2> QED BY <2>1, <2>2
<1>4. side[s].pc.id # 0
  BY <1>2 DEF CanEncrypt, Linked
<1>5. mate \in Int
  BY <1>1 DEF Device, Conn
<1> HIDE DEF mate
<1>6. p \in Conn /\ p.id = side[s].pc.id
  BY <1>1, <1>5 DEF Device, Conn
<1> HIDE DEF p
<1>7. q \in Device /\ Core(side[s], q)
  BY <1>1, <1>4, <1>6, NoTaskTyped DEF Device, Core, Owned
<1> HIDE DEF q
<1>8. Inv(Now)'
  BY <1>2, <1>3, <1>7, SideKeeps
<1> QED BY <1>2, <1>8, Keeps

LEMMA ChannelClosesKeeps ==
  ASSUME Typed, NEW s \in Side, ChannelCloses(s)
  PROVE  Typed'
<1>1. Inv(Now) /\ Now.side = side /\ side[s] \in Device
  BY NowParts
<1> DEFINE p == [Now.side[s].pc EXCEPT !.chan = "closed"]
           q == [Now.side[s] EXCEPT !.pc = p]
           w == [Now EXCEPT !.side[s].pc.chan = "closed"]
           z == IF Live(side[s]) THEN AttemptRestart(w, s) ELSE w
<1>2. side[s].pc.chan = "open" /\ Becomes(z) /\ UNCHANGED <<up, spent>>
  BY DEF ChannelCloses, CanClose
<1>3. side[s].pc.id # 0 /\ side[s].gen # 0
  BY <1>2, Reported
<1>4. w = [Now EXCEPT !.side[s] = q]
  OBVIOUS
<1>5. p \in Conn /\ p.id = side[s].pc.id
  BY <1>1 DEF Device, Conn
<1> HIDE DEF p
<1>6. q \in Device /\ Core(Now.side[s], q) /\ q.gen = side[s].gen
  BY <1>1, <1>3, <1>5 DEF Device, Core, Owned
<1> HIDE DEF q
<1>7. Inv([Now EXCEPT !.side[s] = q]) /\ [Now EXCEPT !.side[s] = q].side[s] = q
  BY <1>1, <1>6, CoreKeeps
<1> HIDE DEF w
<1>8. Inv(w) /\ w.side[s].gen # 0
  BY <1>3, <1>4, <1>6, <1>7
<1>9. Inv(AttemptRestart(w, s))
  BY <1>8, AttemptRestartKeeps
<1>10. Inv(z)
  BY <1>8, <1>9
<1> HIDE DEF z
<1> QED BY <1>2, <1>10, StepKeeps

(***************************************************************************)
(* What reaches a device from outside.                                     *)
(***************************************************************************)

LEMMA StatusKeeps ==
  ASSUME NEW w, Inv(w), NEW s \in Side, NEW st \in {"connecting", "reconnecting", "online", "offline"}
  PROVE  Inv([w EXCEPT !.side[s].status = st])
<1> DEFINE q == [w.side[s] EXCEPT !.status = st]
           v == [w EXCEPT !.side[s].status = st]
<1>1. w.side[s] \in Device
  BY InvParts
<1>2. q \in Device /\ Core(w.side[s], q)
  BY <1>1 DEF Device, Core, Owned
<1>3. v = [w EXCEPT !.side[s] = q]
  OBVIOUS
<1> HIDE DEF q, v
<1>4. Inv(v)
  BY <1>2, <1>3, CoreKeeps
<1> QED BY <1>4 DEF v

LEMMA RedialKeeps ==
  ASSUME NEW w, Inv(w), NEW s \in Side, NEW by \in Reason
  PROVE  Inv(Dial(Cleanup(w, s), s, by))
<1> DEFINE v == Cleanup(w, s)
<1>1. Inv(v)
  BY InvLoose, CleanupKeeps
<1> HIDE DEF v
<1>2. Inv(Dial(v, s, by))
  BY <1>1, DialKeeps
<1> QED BY <1>2 DEF v

LEMMA LeftKeeps ==
  ASSUME NEW w, Inv(w), NEW s \in Side
  PROVE  Inv(Left(w, s))
<1> DEFINE q == [w.side[s] EXCEPT !.rebuilt = FALSE]
           v == [w EXCEPT !.side[s].rebuilt = FALSE]
           x == [v EXCEPT !.side[s].status = "reconnecting"]
           y == [v EXCEPT !.side[s].status = "offline"]
<1>1. Left(w, s) \in {x, Cleanup(y, s)}
  BY DEF Left
<1>2. Inv(v)
  <2>1. w.side[s] \in Device
    BY InvParts
  <2>2. q \in Device /\ Core(w.side[s], q)
    BY <2>1 DEF Device, Core, Owned
  <2>3. v = [w EXCEPT !.side[s] = q]
    OBVIOUS
  <2> HIDE DEF q, v
  <2> QED BY <2>2, <2>3, CoreKeeps
<1> HIDE DEF v
<1>3. Inv(x)
  BY <1>2, StatusKeeps
<1>4. Inv(y)
  BY <1>2, StatusKeeps
<1> HIDE DEF x, y
<1>5. Inv(Cleanup(y, s))
  BY <1>4, InvLoose, CleanupKeeps
<1> QED BY <1>1, <1>3, <1>5

LEMMA JoinedKeeps ==
  ASSUME NEW w, Inv(w), NEW s \in Side, NEW initiate \in BOOLEAN
  PROVE  Inv(Joined(w, s, initiate))
<1> DEFINE v == [w EXCEPT !.side[s].status = "connecting"]
           x == [w EXCEPT !.side[s].status = "online"]
<1>1. Joined(w, s, initiate) \in {w, v, x, Dial(v, s, "join")}
  BY DEF Joined
<1>2. Inv(v)
  BY StatusKeeps
<1>3. Inv(x)
  BY StatusKeeps
<1> HIDE DEF v, x
<1>4. Inv(Dial(v, s, "join"))
  <2>1. "join" \in Reason
    BY DEF Reason
  <2> QED BY <1>2, <2>1, DialKeeps
<1> QED BY <1>1, <1>2, <1>3, <1>4

LEMMA GoneKeeps ==
  ASSUME NEW w, Inv(w), NEW s \in Side
  PROVE  Inv(Gone(w, s))
<1> DEFINE v == [w EXCEPT !.side[s].status = "offline"]
<1>1. Gone(w, s) \in {w, v}
  BY DEF Gone
<1>2. Inv(v)
  BY StatusKeeps
<1> QED BY <1>1, <1>2

LEMMA ReceiveKeeps ==
  ASSUME Typed, NEW s \in Side, Receive(s)
  PROVE  Typed'
<1>1. Inv(Now) /\ Now \in World /\ Now.net = net /\ side[s] \in Device
  BY NowParts
<1> DEFINE m == Head(net[s])
           c == Receipt(s, m)
           v == [Now EXCEPT !.net[s] = Tail(@)]
           x == [v EXCEPT !.queue[s] = Append(@, c)]
           z == CASE m.t = "left" -> Left(v, s)
                  [] m.t = "joined" -> Joined(v, s, FALSE)
                  [] m.t = "rejoin" -> Joined(v, s, TRUE)
                  [] m.t = "gone" -> Gone(v, s)
                  [] OTHER -> x
<1>2. net[s] # <<>> /\ Becomes(z) /\ UNCHANGED <<up, spent>>
  BY DEF Receive
<1>3. z \in {Left(v, s), Joined(v, s, FALSE), Joined(v, s, TRUE), Gone(v, s), x}
  BY Zenon
<1>4. m \in Message /\ Tail(net[s]) \in Seq(Message)
  BY <1>1, <1>2 DEF World
<1>5. Inv(v)
  <2> DEFINE q == Tail(net[s])
  <2>1. v = [Now EXCEPT !.net[s] = q]
    BY <1>1
  <2>2. q \in Seq(Message)
    BY <1>4
  <2> HIDE DEF q, v
  <2>3. v \in World /\ v.side = Now.side /\ v.tasks = Now.tasks
    BY <1>1, <2>1, <2>2 DEF World
  <2> QED BY <1>1, <2>3, SameDevices
<1>6. c \in Receipts
  BY <1>1, <1>4 DEF Receipt, Receipts, Device, Conn
<1> HIDE DEF m, c, v
<1>7. Inv(x)
  <2> DEFINE q == Append(v.queue[s], c)
  <2>1. v \in World
    BY <1>5 DEF Inv
  <2>2. q \in Seq(Receipts)
    BY <1>6, <2>1 DEF World
  <2>3. x = [v EXCEPT !.queue[s] = q]
    OBVIOUS
  <2> HIDE DEF q, x
  <2>4. x \in World /\ x.side = v.side /\ x.tasks = v.tasks
    BY <2>1, <2>2, <2>3 DEF World
  <2> QED BY <1>5, <2>4, SameDevices
<1>8. Inv(Left(v, s)) /\ Inv(Joined(v, s, FALSE)) /\ Inv(Joined(v, s, TRUE)) /\ Inv(Gone(v, s))
  BY <1>5, LeftKeeps, JoinedKeeps, GoneKeeps
<1> HIDE DEF x, z
<1>9. Inv(z)
  BY <1>3, <1>7, <1>8
<1> QED BY <1>2, <1>9, StepKeeps

LEMMA SignalingDropsKeeps ==
  ASSUME Typed, NEW s \in Side, SignalingDrops(s)
  PROVE  Typed'
<1>1. Inv(Now) /\ Now \in World /\ Now.side = side /\ Now.tasks = tasks /\ Now.queue = queue /\ Now.net = net
  BY NowParts
<1> DEFINE o == Other(s)
           e == <<>>
           m == Msg("left", NoDesc, NoDesc)
           a == IF up[o] THEN Append(net[o], m) ELSE net[o]
           n == [net EXCEPT ![s] = e, ![o] = a]
           w == [Now EXCEPT !.net = n]
<1>2. /\ Spend("blip") /\ up' = [up EXCEPT ![s] = FALSE] /\ UNCHANGED <<side, tasks, queue>>
      /\ net' = [net EXCEPT ![s] = <<>>,
                            ![o] = IF up[o] THEN Append(@, m) ELSE @]
  BY DEF SignalingDrops
<1>3. o \in Side /\ o # s /\ m \in Message
  BY OtherSide, NoTaskTyped DEF Msg, Message
<1>4. net \in [Side -> Seq(Message)]
  BY <1>1 DEF World
<1>5. net' = n
  <2>1. [net EXCEPT ![s] = <<>>][o] = net[o]
    BY <1>3, <1>4
  <2> QED BY <1>2, <2>1
<1>6. e \in Seq(Message)
  OBVIOUS
<1> HIDE DEF o, m
<1>7. a \in Seq(Message)
  BY <1>3, <1>4
<1> HIDE DEF a, e
<1>8. n \in [Side -> Seq(Message)]
  BY <1>3, <1>4, <1>6, <1>7
<1> HIDE DEF n
<1>9. w \in World /\ w.side = side /\ w.tasks = tasks /\ w.queue = queue /\ w.net = n
  BY <1>1, <1>8 DEF World
<1> HIDE DEF w
<1>10. Inv(w)
  BY <1>1, <1>9, SameDevices
<1>11. Becomes(w)
  BY <1>2, <1>5, <1>9 DEF Becomes
<1>12. Inv(Now)'
  BY <1>10, <1>11, BecomesKeeps
<1>13. "blip" \in Disturbance
  BY DEF Disturbance
<1>14. spent' \in [Disturbance -> Nat]
  BY <1>2, <1>13, SpendTyped
<1>15. up' \in [Side -> BOOLEAN]
  BY <1>2 DEF Typed
<1> QED BY <1>12, <1>14, <1>15 DEF Typed

LEMMA SignalingReturnsKeeps ==
  ASSUME Typed, NEW s \in Side, SignalingReturns(s)
  PROVE  Typed'
<1>1. Inv(Now)
  BY NowParts
<1> DEFINE o == Other(s)
           w == Adopted(Now, s)
           m1 == Msg("rejoin", NoDesc, NoDesc)
           m2 == Msg("joined", NoDesc, NoDesc)
           x == Deliver(Deliver(w, s, m1), o, m2)
           z == IF ~up[o] THEN w ELSE x
<1>2. up' = [up EXCEPT ![s] = TRUE] /\ Becomes(z) /\ UNCHANGED spent
  BY DEF SignalingReturns
<1>3. o \in Side /\ m1 \in Message /\ m2 \in Message
  BY OtherSide, NoTaskTyped DEF Msg, Message
<1>4. Inv(w)
  <2>1. w \in {Now, Dial(Cleanup(Now, s), s, "orphan")}
    BY DEF Adopted
  <2>2. "orphan" \in Reason
    BY DEF Reason
  <2>3. Inv(Dial(Cleanup(Now, s), s, "orphan"))
    BY <1>1, <2>2, RedialKeeps
  <2> QED BY <1>1, <2>1, <2>3
<1> HIDE DEF w, m1, m2, o
<1>5. Inv(x)
  <2>1. Inv(Deliver(w, s, m1))
    BY <1>3, <1>4, DeliverKeeps
  <2> QED BY <1>3, <2>1, DeliverKeeps
<1> HIDE DEF x
<1>6. Inv(z)
  BY <1>4, <1>5
<1> HIDE DEF z
<1>7. Inv(Now)'
  BY <1>2, <1>6, BecomesKeeps
<1>8. up' \in [Side -> BOOLEAN]
  BY <1>2 DEF Typed
<1> QED BY <1>2, <1>7, <1>8 DEF Typed

LEMMA FallbackFiresKeeps ==
  ASSUME Typed, NEW s \in Side, FallbackFires(s)
  PROVE  Typed'
<1>1. Inv(Now) /\ Now.side[s] \in Device
  BY NowParts
<1> DEFINE q == [Now.side[s] EXCEPT !.fall = FALSE]
           w == [Now EXCEPT !.side[s].fall = FALSE]
           v == [w EXCEPT !.side[s].remote = FALSE]
           z == IF side[s].remote /\ side[s].pc.id = 0 THEN Dial(v, s, "fallback") ELSE w
<1>2. Due /\ UNCHANGED up /\ Becomes(z)
  BY DEF FallbackFires
<1>3. q \in Device /\ Core(Now.side[s], q) /\ w = [Now EXCEPT !.side[s] = q]
  BY <1>1 DEF Device, Core, Owned
<1> HIDE DEF q, w
<1>4. Inv(w)
  BY <1>1, <1>3, CoreKeeps
<1>5. Inv(v)
  <2> DEFINE p == [w.side[s] EXCEPT !.remote = FALSE]
  <2>1. w.side[s] \in Device
    BY <1>4, InvParts
  <2>2. p \in Device /\ Core(w.side[s], p)
    BY <2>1 DEF Device, Core, Owned
  <2>3. v = [w EXCEPT !.side[s] = p]
    OBVIOUS
  <2> HIDE DEF p, v
  <2> QED BY <1>4, <2>2, <2>3, CoreKeeps
<1> HIDE DEF v
<1>6. "fallback" \in Reason
  BY DEF Reason
<1>7. Inv(Dial(v, s, "fallback"))
  BY <1>5, <1>6, DialKeeps
<1>8. Inv(z)
  BY <1>4, <1>7
<1> HIDE DEF z
<1> QED BY <1>2, <1>8, TimerKeeps

LEMMA UserKeeps ==
  ASSUME Typed, NEW w, Inv(w), Becomes(w), NEW k \in Disturbance, Spend(k), UNCHANGED up
  PROVE  Typed'
<1>1. Inv(Now)'
  BY BecomesKeeps
<1>2. spent' \in [Disturbance -> Nat]
  BY SpendTyped
<1> QED BY <1>1, <1>2, Keeps

LEMMA RecoverKeeps ==
  ASSUME Typed, NEW s \in Side, Recover(s)
  PROVE  Typed'
<1>1. Inv(Now) /\ Now.side = side
  BY NowParts
<1> DEFINE r == side[s]
           lost == \/ r.status \in {"offline", "reconnecting"} \/ Dead(r)
                   \/ r.pc.chan \in {"none", "closed"}
           z == IF lost THEN Dial(Cleanup(Now, s), s, "focus")
                ELSE IF r.pc.ice = "disc" THEN AttemptRestart(Now, s)
                ELSE Now
<1>2. Spend("focus") /\ Becomes(z) /\ UNCHANGED up
  BY DEF Recover
<1>3. "focus" \in Reason /\ "focus" \in Disturbance
  BY DEF Reason, Disturbance
<1>4. Inv(Dial(Cleanup(Now, s), s, "focus"))
  BY <1>1, <1>3, RedialKeeps
<1>5. ASSUME r.pc.ice = "disc" PROVE Inv(AttemptRestart(Now, s))
  <2>1. Now.side[s].gen # 0
    BY <1>1, <1>5, Reported
  <2> QED BY <1>1, <2>1, AttemptRestartKeeps
<1> HIDE DEF lost
<1>6. Inv(z)
  BY <1>1, <1>4, <1>5
<1> HIDE DEF z
<1> QED BY <1>2, <1>3, <1>6, UserKeeps

LEMMA ReconnectKeeps ==
  ASSUME Typed, NEW s \in Side, Reconnect(s)
  PROVE  Typed'
<1>1. Inv(Now) /\ Now.side[s] \in Device
  BY NowParts
<1> DEFINE q == [Now.side[s] EXCEPT !.rebuilt = FALSE, !.status = "connecting"]
           v == [Now EXCEPT !.side[s] = q]
           z == Dial(Cleanup(v, s), s, "user")
<1>2. Spend("user") /\ Becomes(z) /\ UNCHANGED up
  BY DEF Reconnect
<1>3. q \in Device /\ Core(Now.side[s], q)
  BY <1>1 DEF Device, Core, Owned
<1> HIDE DEF q
<1>4. Inv(v)
  BY <1>1, <1>3, CoreKeeps
<1> HIDE DEF v
<1>5. "user" \in Reason /\ "user" \in Disturbance
  BY DEF Reason, Disturbance
<1>6. Inv(z)
  BY <1>4, <1>5, RedialKeeps
<1> HIDE DEF z
<1> QED BY <1>2, <1>5, <1>6, UserKeeps

LEMMA EnsuredKeeps ==
  ASSUME NEW w, Inv(w), NEW s \in Side, NEW by \in Reason
  PROVE  Inv(Ensured(w, s, by))
<1>1. Inv(Dial(Cleanup(w, s), s, by))
  BY RedialKeeps
<1> QED BY <1>1 DEF Ensured

LEMMA SendsKeeps ==
  ASSUME Typed, NEW s \in Side, Sends(s)
  PROVE  Typed'
<1>1. Inv(Now) /\ Now.side = side /\ side[s] \in Device
  BY NowParts
<1> DEFINE e == side[s].era
           t == [NoTask EXCEPT !.k = "send", !.at = "channel", !.era = e]
           z == IF Connecting(s) THEN Now
                ELSE IF Awaited(side[s]) THEN Start(Now, s, t)
                ELSE Ensured(Now, s, "send")
<1>2. Spend("send") /\ Becomes(z) /\ UNCHANGED up
  BY DEF Sends
<1>3. "send" \in Reason /\ "send" \in Disturbance
  BY DEF Reason, Disturbance
<1>4. e \in Nat /\ side[s].gen \in Nat
  BY <1>1 DEF Device
<1> HIDE DEF e
<1>5. t \in Task /\ t.k = "send" /\ t.at = "channel" /\ t.gen = 0
  BY <1>4, NoTaskTyped DEF Task, NoTask
<1> HIDE DEF t
<1>6. Fit(t, Now.side[s].gen)
  BY <1>1, <1>4, <1>5 DEF Fit
<1>7. Inv(Start(Now, s, t))
  BY <1>1, <1>5, <1>6, StartKeeps
<1>8. Inv(Ensured(Now, s, "send"))
  BY <1>1, <1>3, EnsuredKeeps
<1>9. Inv(z)
  BY <1>1, <1>7, <1>8
<1> HIDE DEF z
<1> QED BY <1>2, <1>3, <1>9, UserKeeps

LEMMA WokenKeeps ==
  ASSUME Typed, NEW s \in Side, NEW t \in tasks[s], t.k = "send"
  PROVE  Inv(Ensured(End(Now, s, t), s, "woken"))
<1>1. Inv(Now) /\ t \in Task /\ Fit(t, Now.side[s].gen)
  BY NowParts, ParkedFacts
<1>2. ~Makes(Now, s, t)
  BY <1>1 DEF Makes, Fit
<1>3. Inv(End(Now, s, t))
  BY <1>1, <1>2, EndKeeps
<1>4. "woken" \in Reason
  BY DEF Reason
<1> QED BY <1>3, <1>4, EnsuredKeeps

LEMMA SendWakesKeeps ==
  ASSUME Typed, NEW s \in Side, NEW t \in tasks[s], SendWakes(s, t)
  PROVE  Typed'
<1>1. t.k = "send" /\ Becomes(Ensured(End(Now, s, t), s, "woken")) /\ UNCHANGED <<up, spent>>
  BY DEF SendWakes
<1>2. Inv(Ensured(End(Now, s, t), s, "woken"))
  BY <1>1, WokenKeeps
<1> QED BY <1>1, <1>2, StepKeeps

LEMMA SendTimesOutKeeps ==
  ASSUME Typed, NEW s \in Side, NEW t \in tasks[s], SendTimesOut(s, t)
  PROVE  Typed'
<1>1. t.k = "send" /\ Due /\ Becomes(Ensured(End(Now, s, t), s, "woken")) /\ UNCHANGED up
  BY DEF SendTimesOut
<1>2. Inv(Ensured(End(Now, s, t), s, "woken"))
  BY <1>1, WokenKeeps
<1> QED BY <1>1, <1>2, TimerKeeps

LEMMA MigratingKeeps ==
  ASSUME Typed, NEW s \in Side, NEW t \in Task, t.k = "migrate", t.at = "stable",
         t.gen <= side[s].gen
  PROVE  Inv(Migrating(Now, s, t))
<1>1. Inv(Now) /\ Now.side = side /\ tasks[s] \in SUBSET Task
  BY NowParts
<1>2. Fit(t, Now.side[s].gen)
  BY <1>1 DEF Fit
<1>3. Inv(Offering(Now, s, t))
  BY <1>1, <1>2, OfferingKeeps
<1>4. ~Makes(Now, s, t)
  BY DEF Makes
<1>5. Inv(End(Now, s, t))
  BY <1>1, <1>4, EndKeeps
<1> QED BY <1>3, <1>5 DEF Migrating

LEMMA MigrateKeeps ==
  ASSUME Typed, NEW s \in Side, Migrate(s)
  PROVE  Typed'
<1>1. Inv(Now) /\ Now.side = side /\ side[s] \in Device
  BY NowParts
<1> DEFINE a == Attempt(Now, s, "migrate")
           t == [a EXCEPT !.at = "stable"]
           z == IF side[s].pc.sig = "stable" THEN Migrating(Now, s, t) ELSE Start(Now, s, t)
<1>2. Spend("migrate") /\ Becomes(z) /\ UNCHANGED up
  BY DEF Migrate
<1>3. a \in Task /\ a.k = "migrate" /\ a.gen = side[s].gen
  BY <1>1, AttemptFits
<1> HIDE DEF a
<1>4. t \in Task /\ t.k = "migrate" /\ t.at = "stable" /\ t.gen = side[s].gen /\ t.gen <= side[s].gen
  BY <1>1, <1>3 DEF Task, Device
<1> HIDE DEF t
<1>5. Inv(Migrating(Now, s, t))
  BY <1>4, MigratingKeeps
<1>6. Fit(t, Now.side[s].gen)
  BY <1>1, <1>4 DEF Fit
<1>7. Inv(Start(Now, s, t))
  BY <1>1, <1>4, <1>6, StartKeeps
<1>8. Inv(z)
  BY <1>5, <1>7
<1> HIDE DEF z
<1>9. "migrate" \in Disturbance
  BY DEF Disturbance
<1> QED BY <1>2, <1>8, <1>9, UserKeeps

LEMMA MigrateStableKeeps ==
  ASSUME Typed, NEW s \in Side, NEW t \in tasks[s], MigrateStable(s, t)
  PROVE  Typed'
<1>1. t \in Task /\ Fit(t, side[s].gen)
  BY ParkedFacts
<1>2. t.k = "migrate" /\ t.at = "stable" /\ Becomes(Migrating(Now, s, t)) /\ UNCHANGED <<up, spent>>
  BY DEF MigrateStable
<1>3. Inv(Migrating(Now, s, t))
  BY <1>1, <1>2, MigratingKeeps DEF Fit
<1> QED BY <1>2, <1>3, StepKeeps

LEMMA MigrateTimesOutKeeps ==
  ASSUME Typed, NEW s \in Side, NEW t \in tasks[s], MigrateTimesOut(s, t)
  PROVE  Typed'
<1>1. Inv(Now) /\ t \in Task
  BY NowParts, ParkedFacts
<1>2. t.k = "migrate" /\ t.at = "stable" /\ Due /\ Becomes(End(Now, s, t)) /\ UNCHANGED up
  BY DEF MigrateTimesOut
<1>3. ~Makes(Now, s, t)
  BY <1>2 DEF Makes
<1>4. Inv(End(Now, s, t))
  BY <1>1, <1>2, <1>3, EndKeeps
<1> QED BY <1>2, <1>4, TimerKeeps

LEMMA MigratePublishesKeeps ==
  ASSUME Typed, NEW s \in Side, NEW t \in tasks[s], MigratePublishes(s, t)
  PROVE  Typed'
<1>1. Inv(Now) /\ t \in Task
  BY NowParts, ParkedFacts
<1> DEFINE v == Offered(Now, s, t)
<1>2. t.k = "migrate" /\ Becomes(End(v, s, t)) /\ UNCHANGED <<up, spent>>
  BY DEF MigratePublishes
<1>3. Inv(v) /\ ~Makes(v, s, t)
  BY <1>1, OfferedKeeps
<1> HIDE DEF v
<1>4. Inv(End(v, s, t))
  BY <1>1, <1>2, <1>3, EndKeeps
<1> QED BY <1>2, <1>4, StepKeeps

(***************************************************************************)
(* The specification.                                                      *)
(***************************************************************************)

LEMMA TypedInit == Init => Typed
<1> SUFFICES ASSUME Init PROVE Typed
  OBVIOUS
<1> DEFINE t == [NoTask EXCEPT !.k = "dial", !.at = "turn", !.gen = 1, !.by = "join"]
           a == [NewSide EXCEPT !.gen = 1, !.going = 1]
           b == [NewSide EXCEPT !.remote = TRUE, !.fall = TRUE]
<1>1. PICK new \in Side :
        /\ side = [s \in Side |-> IF s = new THEN a ELSE b]
        /\ tasks = [s \in Side |-> IF s = new THEN {t} ELSE {}]
  BY DEF Init
<1>2. /\ queue = [s \in Side |-> <<>>] /\ net = [s \in Side |-> <<>>]
      /\ up = [s \in Side |-> TRUE] /\ spent = [k \in Disturbance |-> 0]
  BY DEF Init
<1>3. t \in Task /\ t.k = "dial" /\ t.at = "turn" /\ t.gen = 1
  <2>1. "join" \in Reason /\ "dial" \in {"none", "dial", "sdp", "restart", "watch", "send", "migrate"}
    BY DEF Reason
  <2> QED BY <2>1, NoTaskTyped DEF Task
<1>4. NewSide.left = {} /\ NewSide.gen = 0 /\ NewSide.pc = NoPc /\ NewSide.lock = 0
      /\ NewSide.making = FALSE /\ NewSide \in Device /\ NoPc.id = 0
  <2>1. NewSide.left = {} /\ NewSide.gen = 0 /\ NoPc.id = 0
    BY DEF NewSide, NoPc
  <2> QED BY <2>1, NewSideFits
<1> HIDE DEF t
<1>5. a \in Device /\ a.gen = 1 /\ a.left = {} /\ a.pc = NoPc /\ a.lock = 0 /\ a.making = FALSE
  BY <1>4 DEF Device
<1>6. b \in Device /\ b.left = {} /\ b.pc = NoPc /\ b.lock = 0 /\ b.making = FALSE /\ b.gen = 0
  BY <1>4 DEF Device
<1> HIDE DEF a, b
<1>7. Sound(a, {t}) /\ Sound(b, {})
  BY <1>3, <1>4, <1>5, <1>6 DEF Sound, Owned, Parked, Locked, Making, Fit
<1>8. \A s \in Side : Sound(side[s], tasks[s])
  BY <1>1, <1>7
<1>9. /\ side \in [Side -> Device] /\ tasks \in [Side -> SUBSET Task]
      /\ queue \in [Side -> Seq(Receipts)] /\ net \in [Side -> Seq(Message)]
  <2>1. <<>> \in Seq(Receipts) /\ <<>> \in Seq(Message)
    OBVIOUS
  <2>2. side \in [Side -> Device]
    BY <1>1, <1>5, <1>6
  <2>3. tasks \in [Side -> SUBSET Task]
    BY <1>1, <1>3
  <2> DEFINE e == <<>>
  <2>4. e \in Seq(Receipts) /\ e \in Seq(Message) /\ queue = [s \in Side |-> e] /\ net = [s \in Side |-> e]
    BY <1>2, <2>1
  <2> HIDE DEF e
  <2> QED BY <2>2, <2>3, <2>4
<1>10. Now \in World /\ Now.side = side /\ Now.tasks = tasks
  BY <1>9 DEF Now, World
<1>11. Inv(Now)
  BY <1>8, <1>10 DEF Inv
<1>12. up \in [Side -> BOOLEAN] /\ spent \in [Disturbance -> Nat]
  BY <1>2
<1> QED BY <1>11, <1>12 DEF Typed

LEMMA WorksKeeps ==
  ASSUME Typed, NEW s \in Side, Works(s)
  PROVE  Typed'
<1>1. CASE Receive(s)
  BY <1>1, ReceiveKeeps
<1>2. CASE SdpStarts(s)
  BY <1>2, SdpStartsKeeps
<1>3. ASSUME NEW t \in tasks[s],
             \/ DialReady(s, t) \/ DialBuilds(s, t) \/ DialOffers(s, t) \/ DialPublishes(s, t)
             \/ SdpBuilds(s, t) \/ SdpAccepts(s, t) \/ SdpRollsBack(s, t) \/ SdpAnswers(s, t)
             \/ SdpApplies(s, t) \/ RestartStable(s, t) \/ RestartPublishes(s, t)
             \/ WatchPublishes(s, t) \/ SendWakes(s, t) \/ MigrateStable(s, t)
             \/ MigratePublishes(s, t)
      PROVE  Typed'
  <2>1. CASE DialReady(s, t)
    BY <2>1, DialReadyKeeps
  <2>2. CASE DialBuilds(s, t)
    <3>1. "wait" \in {"none", "wait"} /\ "dial" \in {"dial", "sdp"}
      OBVIOUS
    <3> QED BY <2>2, <3>1, BuildsKeeps DEF DialBuilds
  <2>3. CASE DialOffers(s, t)
    BY <2>3, DialOffersKeeps
  <2>4. CASE DialPublishes(s, t)
    BY <2>4, DialPublishesKeeps
  <2>5. CASE SdpBuilds(s, t)
    <3>1. "none" \in {"none", "wait"} /\ "sdp" \in {"dial", "sdp"}
      OBVIOUS
    <3> QED BY <2>5, <3>1, BuildsKeeps DEF SdpBuilds
  <2>6. CASE SdpAccepts(s, t)
    BY <2>6, SdpAcceptsKeeps
  <2>7. CASE SdpRollsBack(s, t)
    BY <2>7, SdpRollsBackKeeps
  <2>8. CASE SdpAnswers(s, t)
    BY <2>8, SdpAnswersKeeps
  <2>9. CASE SdpApplies(s, t)
    BY <2>9, SdpAppliesKeeps
  <2>10. CASE RestartStable(s, t)
    BY <2>10, RestartStableKeeps
  <2>11. CASE RestartPublishes(s, t)
    BY <2>11, RestartPublishesKeeps
  <2>12. CASE WatchPublishes(s, t)
    BY <2>12, WatchPublishesKeeps
  <2>13. CASE SendWakes(s, t)
    BY <2>13, SendWakesKeeps
  <2>14. CASE MigrateStable(s, t)
    BY <2>14, MigrateStableKeeps
  <2>15. CASE MigratePublishes(s, t)
    BY <2>15, MigratePublishesKeeps
  <2> QED BY <1>3, <2>1, <2>2, <2>3, <2>4, <2>5, <2>6, <2>7, <2>8, <2>9, <2>10, <2>11, <2>12,
             <2>13, <2>14, <2>15
<1> QED BY <1>1, <1>2, <1>3 DEF Works

LEMMA FiresKeeps ==
  ASSUME Typed, NEW s \in Side, Fires(s)
  PROVE  Typed'
<1>1. CASE RetryFires(s)
  BY <1>1, RetryFiresKeeps
<1>2. CASE DisconnectedFires(s)
  BY <1>2, DisconnectedFiresKeeps
<1>3. CASE FallbackFires(s)
  BY <1>3, FallbackFiresKeeps
<1>4. CASE WatchStale(s)
  BY <1>4, WatchStaleKeeps
<1>5. CASE WatchYields(s)
  BY <1>5, WatchYieldsKeeps
<1>6. CASE WatchGivesUp(s)
  BY <1>6, WatchGivesUpKeeps
<1>7. CASE WatchRebuilds(s)
  BY <1>7, WatchRebuildsKeeps
<1>8. CASE WatchRestarts(s)
  BY <1>8, WatchRestartsKeeps
<1>9. ASSUME NEW t \in tasks[s],
             \/ DialRefused(s, t) \/ SendTimesOut(s, t) \/ MigrateTimesOut(s, t)
             \/ RestartStale(s, t) \/ RestartRedials(s, t) \/ RestartExhausted(s, t)
             \/ RestartWakes(s, t) \/ RestartTimesOut(s, t)
      PROVE  Typed'
  <2>1. CASE DialRefused(s, t)
    BY <2>1, DialRefusedKeeps
  <2>2. CASE SendTimesOut(s, t)
    BY <2>2, SendTimesOutKeeps
  <2>3. CASE MigrateTimesOut(s, t)
    BY <2>3, MigrateTimesOutKeeps
  <2>4. CASE RestartStale(s, t)
    BY <2>4, RestartStaleKeeps
  <2>5. CASE RestartRedials(s, t)
    BY <2>5, RestartRedialsKeeps
  <2>6. CASE RestartExhausted(s, t)
    BY <2>6, RestartExhaustedKeeps
  <2>7. CASE RestartWakes(s, t)
    BY <2>7, RestartWakesKeeps
  <2>8. CASE RestartTimesOut(s, t)
    BY <2>8, RestartTimesOutKeeps
  <2> QED BY <1>9, <2>1, <2>2, <2>3, <2>4, <2>5, <2>6, <2>7, <2>8
<1> QED BY <1>1, <1>2, <1>3, <1>4, <1>5, <1>6, <1>7, <1>8, <1>9 DEF Fires

LEMMA TypedStep == Typed /\ [Next]_vars => Typed'
<1> SUFFICES ASSUME Typed, [Next]_vars PROVE Typed'
  OBVIOUS
<1>1. ASSUME NEW s \in Side, Transport(s) PROVE Typed'
  <2>1. CASE IceConnects(s)
    BY <2>1, IceConnectsKeeps
  <2>2. CASE IceLost(s)
    BY <2>2, IceLostKeeps
  <2>3. CASE IceFails(s)
    BY <2>3, IceFailsKeeps
  <2>4. CASE KeysInstalled(s)
    BY <2>4, KeysInstalledKeeps
  <2>5. CASE ChannelCloses(s)
    BY <2>5, ChannelClosesKeeps
  <2> QED BY <1>1, <2>1, <2>2, <2>3, <2>4, <2>5 DEF Transport
<1>2. ASSUME NEW s \in Side, Outside(s) PROVE Typed'
  <2>1. CASE Wedges(s)
    BY <2>1, WedgesKeeps
  <2>2. CASE IceDrops(s)
    BY <2>2, IceDropsKeeps
  <2>3. CASE SignalingDrops(s)
    BY <2>3, SignalingDropsKeeps
  <2>4. CASE SignalingReturns(s)
    BY <2>4, SignalingReturnsKeeps
  <2>5. CASE Recover(s)
    BY <2>5, RecoverKeeps
  <2>6. CASE Reconnect(s)
    BY <2>6, ReconnectKeeps
  <2>7. CASE Sends(s)
    BY <2>7, SendsKeeps
  <2>8. CASE Migrate(s)
    BY <2>8, MigrateKeeps
  <2> QED BY <1>2, <2>1, <2>2, <2>3, <2>4, <2>5, <2>6, <2>7, <2>8 DEF Outside
<1>3. CASE UNCHANGED vars
  <2>1. UNCHANGED <<side, tasks, queue, net, up, spent>>
    BY <1>3 DEF vars
  <2>2. Becomes(Now) /\ Inv(Now)
    BY <2>1, NowParts DEF Becomes, Now, Typed
  <2>3. UNCHANGED <<up, spent>>
    BY <2>1
  <2> QED BY <2>2, <2>3, StepKeeps
<1>4. CASE Next
  BY <1>1, <1>2, <1>4, WorksKeeps, FiresKeeps DEF Next
<1> QED BY <1>3, <1>4

LEMMA TypedShows == Typed => TypeOK /\ NoLeak /\ LockOwned /\ MakingEnds
<1> SUFFICES ASSUME Typed PROVE TypeOK /\ NoLeak /\ LockOwned /\ MakingEnds
  OBVIOUS
<1>1. TypeOK
  <2>1. ASSUME NEW s \in Side
        PROVE  /\ side[s].gen \in Nat /\ side[s].pc.id \in 0..side[s].gen
               /\ side[s].status \in {"connecting", "reconnecting", "online", "offline"}
               /\ side[s].pc.sig \in {"stable", "local", "remote"}
               /\ side[s].tries \in 0..MaxRestarts
               /\ \A t \in tasks[s] : t.gen <= side[s].gen
    <3>1. side[s] \in Device /\ Sound(side[s], tasks[s])
      BY NowParts
    <3> QED BY <3>1 DEF Sound, Owned, Parked, Fit, Device, Conn
  <2> QED BY <2>1 DEF TypeOK, Typed
<1>2. ASSUME NEW s \in Side PROVE Sound(side[s], tasks[s])
  BY NowParts
<1> QED BY <1>1, <1>2 DEF NoLeak, LockOwned, MakingEnds, Sound, Owned, Locked, Making

LEMMA TypedAlways == Spec => []Typed
BY TypedInit, TypedStep, PTL DEF Spec

\* What the two devices keep has its shape, whatever mix of disturbances hits them and however
\* often: the attempt counter stays within its bound, and no task is of a generation to come.
THEOREM TypesHold == Spec => []TypeOK
<1>1. Typed => TypeOK
  BY TypedShows
<1> QED BY <1>1, TypedAlways, PTL

\* No connection is overwritten in the map while it is open: each builder looks again after it
\* waited (peer-runtime, handleRemoteSDP).
THEOREM NothingLeaks == Spec => []NoLeak
<1>1. Typed => NoLeak
  BY TypedShows
<1> QED BY <1>1, TypedAlways, PTL

\* The restart lock is that of one running restart of the current generation, and a lock that
\* is held has a restart that will release it (attemptIceRestart and its finally block).
THEOREM RestartOwnsItsLock == Spec => []LockOwned
<1>1. Typed => LockOwned
  BY TypedShows
<1> QED BY <1>1, TypedAlways, PTL

\* A device that says it is making an offer is making it (beginLocalOffer, finally blocks).
THEOREM OffersEnd == Spec => []MakingEnds
<1>1. Typed => MakingEnds
  BY TypedShows
<1> QED BY <1>1, TypedAlways, PTL

=============================================================================
