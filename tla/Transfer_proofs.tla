-------------------------- MODULE Transfer_proofs --------------------------
(***************************************************************************)
(* The file transfer, for any number of chunks, lanes, attempts, sessions  *)
(* and disturbances: its state is well typed, what is reported as saved is *)
(* stored, and its steps are those of TransferPromise.                     *)
(***************************************************************************)
EXTENDS Transfer, FiniteSums_proofs

(***************************************************************************)
(* Least elements.                                                         *)
(***************************************************************************)

LEMMA LeastExists ==
  ASSUME NEW S \in SUBSET (0 .. N), S # {}
  PROVE  LeastOf(S) \in S
<1> DEFINE B == {0 .. i : i \in S}
<1>1. B \in SUBSET (SUBSET (0 .. N)) /\ B # {} /\ IsFiniteSet(0 .. N)
  <2>1. \A i \in S : 0 .. i \in SUBSET (0 .. N)
    BY SizeAssumption
  <2>2. B # {}
    OBVIOUS
  <2>3. N \in Int /\ 0 \in Int
    BY SizeAssumption
  <2>4. IsFiniteSet(0 .. N)
    BY <2>3, FS_Interval
  <2> QED BY <2>1, <2>2, <2>4
<1>2. \E s \in B : \A t \in SUBSET s : t # s => t \notin B
  <2> HIDE DEF B
  <2> QED BY <1>1, SmallestSubset
<1>3. PICK i \in S : \A t \in SUBSET (0 .. i) : t # 0 .. i => t \notin B
  BY <1>2
<1>4. ASSUME NEW j \in S, j < i
      PROVE  FALSE
  <2>1. i \in Nat /\ j \in Nat
    OBVIOUS
  <2>2. 0 .. j \subseteq 0 .. i /\ i \in 0 .. i /\ i \notin 0 .. j
    BY <1>4, <2>1
  <2>3. 0 .. j \in B
    OBVIOUS
  <2> QED BY <1>3, <2>2, <2>3
<1>5. \A j \in S : i <= j
  BY <1>4
<1> QED BY <1>5 DEF LeastOf

(***************************************************************************)
(* Answers to a set of messages: a fold in an order that CHOOSE picks.     *)
(***************************************************************************)

Backs == [Lane -> Seq(Reply)]

\* The values h gives to the subsets of S put the answers ts to each of them on `back'.
Puts(back, ts, h, S) ==
    h = [s \in SUBSET S |-> IF s = {} THEN back ELSE Put(h[s \ {Pick(s)}], Pick(s), ts)]

Answered(back, ts, S) == (CHOOSE h : Puts(back, ts, h, S))[S]

LEMMA AnswersUnfold ==
  ASSUME NEW w, NEW H, NEW ts
  PROVE  Answers(w, H, ts) = [w EXCEPT !.back = Answered(w.back, ts, {x \in H : x.l \in w.lanes})]
BY DEF Answers, FoldSet, MapThenFoldSet, Pick, Puts, Answered

\* Two solutions agree where both are defined.
LEMMA PutsAgree ==
  ASSUME NEW S, IsFiniteSet(S), NEW back, NEW ts, NEW g, NEW h, NEW R \in SUBSET S, NEW T \in SUBSET S,
         Puts(back, ts, g, R), Puts(back, ts, h, T)
  PROVE  \A s \in SUBSET (R \cap T) : g[s] = h[s]
<1> DEFINE B == {s \in SUBSET (R \cap T) : g[s] # h[s]}
<1> SUFFICES ASSUME B # {} PROVE FALSE
  OBVIOUS
<1>1. PICK s \in B : \A t \in SUBSET s : t # s => t \notin B
  <2>1. B \in SUBSET (SUBSET S)
    OBVIOUS
  <2> HIDE DEF B
  <2> QED BY <2>1, SmallestSubset
<1>2. /\ g[s] = IF s = {} THEN back ELSE Put(g[s \ {Pick(s)}], Pick(s), ts)
      /\ h[s] = IF s = {} THEN back ELSE Put(h[s \ {Pick(s)}], Pick(s), ts)
  BY DEF Puts
<1>3. s # {}
  BY <1>2
<1>4. Pick(s) \in s
  BY <1>3 DEF Pick
<1> QED BY <1>1, <1>2, <1>3, <1>4

\* The recursion has a solution on every finite set.
LEMMA PutsExist ==
  ASSUME NEW S, IsFiniteSet(S), NEW back, NEW ts
  PROVE  \E h : Puts(back, ts, h, S)
<1> DEFINE B == {s \in SUBSET S : ~ \E h : Puts(back, ts, h, s)}
           Sol(s) == CHOOSE h : Puts(back, ts, h, s)
           After(t) == Put(Sol(t \ {Pick(t)})[t \ {Pick(t)}], Pick(t), ts)
<1> SUFFICES ASSUME B # {} PROVE FALSE
  OBVIOUS
<1>1. PICK s \in B : \A t \in SUBSET s : t # s => t \notin B
  <2>1. B \in SUBSET (SUBSET S)
    OBVIOUS
  <2> HIDE DEF B
  <2> QED BY <2>1, SmallestSubset
<1>2. \A t \in SUBSET s : t # s => Puts(back, ts, Sol(t), t)
  BY <1>1
<1> DEFINE h == [t \in SUBSET s |-> IF t = {} THEN back ELSE After(t)]
<1>3. ASSUME NEW t \in SUBSET s, t # s PROVE h[t] = Sol(t)[t]
  <2>0. Puts(back, ts, Sol(t), t)
    BY <1>2, <1>3
  <2>1. CASE t = {}
    <3>1. Sol(t)[t] = back
      <4> HIDE DEF Sol
      <4> QED BY <2>0, <2>1 DEF Puts
    <3> QED BY <2>1, <3>1
  <2>2. CASE t # {}
    <3> DEFINE u == t \ {Pick(t)}
    <3>1. Pick(t) \in t
      BY <2>2 DEF Pick
    <3>2. Puts(back, ts, Sol(t), t) /\ Puts(back, ts, Sol(u), u)
      BY <1>2, <1>3
    <3>3. Sol(t)[u] = Sol(u)[u]
      <4> HIDE DEF u, Sol
      <4>1. u \subseteq t BY DEF u
      <4>2. t \in SUBSET S /\ u \in SUBSET S BY <4>1
      <4> QED BY <3>2, <4>1, <4>2, PutsAgree
    <3>4. Sol(t)[t] = Put(Sol(t)[u], Pick(t), ts)
      <4> HIDE DEF Sol
      <4> QED BY <3>2, <2>2 DEF Puts
    <3>5. h[t] = Put(Sol(u)[u], Pick(t), ts)
      BY <2>2
    <3> QED BY <3>3, <3>4, <3>5
  <2> QED BY <2>1, <2>2
<1>4. \A t \in SUBSET s : t # {} => h[t \ {Pick(t)}] = Sol(t \ {Pick(t)})[t \ {Pick(t)}]
  <2> SUFFICES ASSUME NEW t \in SUBSET s, t # {} PROVE h[t \ {Pick(t)}] = Sol(t \ {Pick(t)})[t \ {Pick(t)}]
    OBVIOUS
  <2>1. Pick(t) \in t BY DEF Pick
  <2>2. t \ {Pick(t)} \in SUBSET s /\ t \ {Pick(t)} # s BY <2>1
  <2> HIDE DEF h, Sol
  <2> QED BY <1>3, <2>2
<1>5. Puts(back, ts, h, s)
  <2>1. PICK g : g = h
    OBVIOUS
  <2>2. \A t \in SUBSET s : (IF t = {} THEN back ELSE After(t))
                          = (IF t = {} THEN back ELSE Put(g[t \ {Pick(t)}], Pick(t), ts))
    <3>1. \A t \in SUBSET s : t # {} => After(t) = Put(g[t \ {Pick(t)}], Pick(t), ts)
      <4> HIDE DEF h, Sol
      <4> QED BY <1>4, <2>1
    <3> HIDE DEF h, Sol, After
    <3> QED BY <3>1
  <2>3. g = [t \in SUBSET s |-> IF t = {} THEN back ELSE After(t)]
    BY <2>1
  <2>4. Puts(back, ts, g, s)
    <3> HIDE DEF h, Sol, After
    <3> QED BY <2>2, <2>3 DEF Puts
  <2> QED BY <2>1, <2>4
<1> QED BY <1>5

\* Well-typed answers leave well-typed channels.
LEMMA PutTyped ==
  ASSUME NEW b \in Backs, NEW x, x.l \in Lane, NEW ts, NEW k \in Nat, ts \in [1 .. k -> {"ready", "reject", "cancel"}],
         \A j \in 1 .. k : [t |-> ts[j], a |-> x.a] \in Reply
  PROVE  Put(b, x, ts) \in Backs
<1> DEFINE m == [j \in DOMAIN ts |-> [t |-> ts[j], a |-> x.a]]
<1>1. m \in Seq(Reply)
  OBVIOUS
<1>2. b[x.l] \o m \in Seq(Reply)
  BY <1>1 DEF Backs
<1> QED BY <1>2 DEF Put, Backs

LEMMA PutsTyped ==
  ASSUME NEW S, IsFiniteSet(S), NEW back \in Backs, NEW ts,
         \A x \in S, b \in Backs : Put(b, x, ts) \in Backs
  PROVE  Answered(back, ts, S) \in Backs
<1> DEFINE h == CHOOSE g : Puts(back, ts, g, S)
           B == {s \in SUBSET S : h[s] \notin Backs}
<1>1. Puts(back, ts, h, S)
  BY PutsExist
<1>2. B = {}
  <2> SUFFICES ASSUME B # {} PROVE FALSE
    OBVIOUS
  <2>1. PICK s \in B : \A t \in SUBSET s : t # s => t \notin B
    <3>1. B \in SUBSET (SUBSET S)
      OBVIOUS
    <3> HIDE DEF B
    <3> QED BY <3>1, SmallestSubset
  <2> HIDE DEF h
  <2>2. h[s] = IF s = {} THEN back ELSE Put(h[s \ {Pick(s)}], Pick(s), ts)
    BY <1>1 DEF Puts
  <2>3. CASE s = {}
    BY <2>1, <2>2, <2>3
  <2>4. CASE s # {}
    <3>1. Pick(s) \in s
      BY <2>4 DEF Pick
    <3>2. h[s \ {Pick(s)}] \in Backs
      BY <2>1, <3>1
    <3> QED BY <2>1, <2>2, <2>4, <3>1, <3>2
  <2> QED BY <2>3, <2>4
<1>3. h[S] \in Backs
  BY <1>2
<1> QED BY <1>3 DEF Answered

(***************************************************************************)
(* The sender.  While u, nothing it holds says that the file was saved.    *)
(***************************************************************************)

Senders(u) == {s \in Snd : u => s.delivery # "saved"}

Attempts(u) == {g \in [Att -> Eng] : \A a \in Att : Fits(g[a]) /\ (u => ~g[a].acked /\ g[a].pc # "saved")}

Undone == {m \in Control : m.t # "done"}

SendOK(u) == snd \in Senders(u) /\ eng \in Attempts(u)

NetOK(u) == net \in Net /\ spent \in [Disturbance -> Nat] /\ (u => net.control \in Seq(Undone))

SenderGoesOn(u) == SendOK(u)' /\ NetOK(u)' /\ (snd.last # 0 => snd'.last # 0)

LEMMA EngineTyped ==
  ASSUME NEW pc \in Pc \ {"saved"}, NEW by \in SUBSET Caller, NEW lanes \in SUBSET Lane, NEW have \in SUBSET Chunk
  PROVE  Engine(pc, by, lanes, have) \in Eng /\ Fits(Engine(pc, by, lanes, have))
         /\ ~Engine(pc, by, lanes, have).acked /\ Engine(pc, by, lanes, have).pc = pc
BY SizeAssumption, CapAssumption DEF Engine, Eng, Fits

LEMMA OffTyped == Off \in Eng /\ Fits(Off) /\ ~Off.acked /\ Off.pc = "off"
<1>1. "off" \in Pc \ {"saved"}
  BY DEF Pc
<1> QED BY <1>1, EngineTyped DEF Off

\* The fields that steps change without a look at the others.
LEMMA Repointed ==
  ASSUME NEW e \in Eng, Fits(e), NEW pc \in Pc
  PROVE  LET f == [e EXCEPT !.pc = pc] IN f \in Eng /\ Fits(f) /\ f.acked = e.acked /\ f.pc = pc
BY DEF Eng, Fits

LEMMA Unparked ==
  ASSUME NEW e \in Eng, Fits(e)
  PROVE  LET f == [e EXCEPT !.parked = {}] IN f \in Eng /\ Fits(f) /\ f.acked = e.acked /\ f.pc = e.pc
BY DEF Eng, Fits

LEMMA RefuseTyped ==
  ASSUME NEW u \in BOOLEAN, NEW g \in Attempts(u)
  PROVE  Refuse(g) \in Attempts(u)
<1>1. ASSUME NEW a \in Att
      PROVE  /\ Refuse(g)[a] \in Eng /\ Fits(Refuse(g)[a])
             /\ u => ~Refuse(g)[a].acked /\ Refuse(g)[a].pc # "saved"
  <2>1. g[a] \in Eng /\ Fits(g[a]) /\ (u => ~g[a].acked /\ g[a].pc # "saved")
    BY DEF Attempts
  <2>2. "refused" \in Pc
    BY DEF Pc
  <2>3. Refuse(g)[a] = IF g[a].pc = "ready" THEN [g[a] EXCEPT !.pc = "refused"] ELSE g[a]
    BY DEF Refuse
  <2> QED BY <2>1, <2>2, <2>3, Repointed
<1> QED BY <1>1 DEF Attempts, Refuse

LEMMA WakeTyped ==
  ASSUME NEW u \in BOOLEAN, NEW g \in Attempts(u)
  PROVE  Wake(g) \in Attempts(u)
<1>1. ASSUME NEW a \in Att
      PROVE  /\ Wake(g)[a] \in Eng /\ Fits(Wake(g)[a])
             /\ u => ~Wake(g)[a].acked /\ Wake(g)[a].pc # "saved"
  <2>1. g[a] \in Eng /\ Fits(g[a]) /\ (u => ~g[a].acked /\ g[a].pc # "saved") /\ g \in [Att -> Eng]
    BY DEF Attempts
  <2>2. Wake(g)[a] = IF snd.task = a /\ snd.task # 0 THEN [g[a] EXCEPT !.parked = {}] ELSE g[a]
    BY <2>1 DEF Wake
  <2> QED BY <2>1, <2>2, Unparked
<1>2. Wake(g) \in [Att -> Eng]
  <2>1. g \in [Att -> Eng]
    BY DEF Attempts
  <2>2. DOMAIN Wake(g) = Att /\ Wake(g) = [a \in Att |-> Wake(g)[a]]
    BY <2>1 DEF Wake
  <2> QED BY <1>1, <2>2
<1> QED BY <1>1, <1>2 DEF Attempts

\* One attempt changes.
LEMMA OneChanges ==
  ASSUME NEW u \in BOOLEAN, NEW g \in Attempts(u), NEW a \in Att, NEW e \in Eng, Fits(e),
         u => ~e.acked /\ e.pc # "saved"
  PROVE  [g EXCEPT ![a] = e] \in Attempts(u)
BY DEF Attempts

LEMMA ForgetTyped ==
  ASSUME NEW u \in BOOLEAN, NEW s \in Senders(u)
  PROVE  Forget(s) \in Senders(u) /\ Forget(s).last = s.last
<1>1. s \in Snd /\ 0 \in 0 .. MaxAtt
  BY AttAssumption DEF Senders
<1>2. Forget(s) \in Snd
  BY <1>1 DEF Forget, Snd
<1>3. Forget(s).delivery = s.delivery /\ Forget(s).last = s.last
  BY <1>1 DEF Forget, Snd
<1> QED BY <1>2, <1>3 DEF Senders

LEMMA SettledTyped ==
  ASSUME NEW u \in BOOLEAN, NEW s \in Senders(u), NEW a
  PROVE  Settled(s, a) \in Senders(u) /\ Settled(s, a).last = s.last
<1> DEFINE active == IF s.active = a THEN 0 ELSE s.active
           soft == s.soft /\ active # 0
           gates == s.gates \ {a}
<1>1. active \in 0 .. MaxAtt /\ soft \in BOOLEAN /\ gates \in SUBSET Att
  BY AttAssumption DEF Senders, Snd
<1>2. Settled(s, a) = [s EXCEPT !.gates = gates, !.active = active, !.soft = soft]
  BY DEF Settled
<1> HIDE DEF active, soft, gates
<1> QED BY <1>1, <1>2 DEF Senders, Snd

LEMMA ShownTyped ==
  ASSUME NEW u \in BOOLEAN, NEW s \in Senders(u), NEW card \in Card
  PROVE  Shown(s, card) \in Senders(u) /\ Shown(s, card).last = s.last
BY DEF Shown, Senders, Snd

LEMMA ResolvedTyped ==
  ASSUME NEW u \in BOOLEAN, NEW s \in Senders(u), NEW a, NEW state \in Delivery, u => state # "saved"
  PROVE  Resolved(s, a, state) \in Senders(u) /\ Resolved(s, a, state).last = s.last
<1> DEFINE by == eng[a].by
           final == state = "saved" \/ Legacy
           t == Settled(s, a)
           s1 == [t EXCEPT !.delivery = state, !.source = @ /\ ~final]
           s2 == IF "first" \in by
                 THEN Shown([s1 EXCEPT !.paused = FALSE, !.cancelled = FALSE], "completed")
                 ELSE s1
<1>1. t \in Senders(u) /\ t.last = s.last
  BY SettledTyped
<1>2. s1 \in Senders(u) /\ s1.last = s.last
  <2> HIDE DEF t, final
  <2> QED BY <1>1 DEF Senders, Snd
<1>3. s2 \in Senders(u) /\ s2.last = s.last
  <2> HIDE DEF s1, by
  <2>1. [s1 EXCEPT !.paused = FALSE, !.cancelled = FALSE] \in Senders(u)
        /\ [s1 EXCEPT !.paused = FALSE, !.cancelled = FALSE].last = s.last
    BY <1>2 DEF Senders, Snd
  <2>2. "completed" \in Card
    BY DEF Card
  <2> QED BY <1>2, <2>1, <2>2, ShownTyped
<1>4. Resolved(s, a, state) = IF final /\ by \cap {"user", "peer"} # {} THEN Forget(s2) ELSE s2
  BY DEF Resolved
<1> HIDE DEF s2, final, by
<1> QED BY <1>3, <1>4, ForgetTyped

LEMMA ThrownTyped ==
  ASSUME NEW u \in BOOLEAN, NEW s \in Senders(u), NEW a, NEW cancel \in BOOLEAN
  PROVE  Thrown(s, a, cancel) \in Senders(u) /\ Thrown(s, a, cancel).last = s.last
<1> DEFINE by == eng[a].by
           s1 == Settled(s, a)
           s2 == IF "first" \in by
                 THEN [s1 EXCEPT !.source = FALSE, !.delivery = "none", !.paused = FALSE, !.cancelled = FALSE]
                 ELSE s1
           s3 == IF cancel /\ by \cap {"user", "peer"} # {} THEN Forget([s2 EXCEPT !.source = FALSE]) ELSE s2
<1>1. s1 \in Senders(u) /\ s1.last = s.last
  BY SettledTyped
<1>2. s2 \in Senders(u) /\ s2.last = s.last
  <2> HIDE DEF s1, by
  <2> QED BY <1>1 DEF Senders, Snd, Delivery
<1>3. s3 \in Senders(u) /\ s3.last = s.last
  <2> HIDE DEF s2, by
  <2>1. [s2 EXCEPT !.source = FALSE] \in Senders(u) /\ [s2 EXCEPT !.source = FALSE].last = s.last
    BY <1>2 DEF Senders, Snd
  <2> QED BY <1>2, <2>1, ForgetTyped
<1>4. Thrown(s, a, cancel) = IF ~cancel /\ by \cap {"first", "user"} # {} THEN Shown(s3, "failed") ELSE s3
  BY DEF Thrown
<1>5. "failed" \in Card
  BY DEF Card
<1> HIDE DEF s3, by
<1> QED BY <1>3, <1>4, <1>5, ShownTyped

(***************************************************************************)
(* The channels, as the steps change them.                                 *)
(***************************************************************************)

LEMMA SpendTyped ==
  ASSUME spent \in [Disturbance -> Nat], NEW k \in Disturbance, Spend(k)
  PROVE  spent' \in [Disturbance -> Nat]
BY DEF Spend

LEMMA NetKept ==
  ASSUME NEW u \in BOOLEAN, NetOK(u), net' = net, spent' \in [Disturbance -> Nat]
  PROVE  NetOK(u)'
BY DEF NetOK

LEMMA ControlTaken ==
  ASSUME NEW u \in BOOLEAN, NetOK(u), NEW t, Heard(t), net' = TakeControl, spent' = spent
  PROVE  NetOK(u)' /\ Head(net.control) \in Control /\ (u => t # "done")
<1>1. net \in Net /\ net.control \in Seq(Control) /\ net.control # <<>>
  BY DEF NetOK, Net, Heard
<1>2. Tail(net.control) \in Seq(Control) /\ Head(net.control) \in Control
  BY <1>1
<1>3. net' \in Net /\ net'.control = Tail(net.control)
  BY <1>1, <1>2 DEF TakeControl, Net
<1>4. ASSUME u
      PROVE  Tail(net.control) \in Seq(Undone) /\ t # "done"
  <2>1. net.control \in Seq(Undone)
    BY <1>4 DEF NetOK
  <2>2. Head(net.control) \in Undone /\ Tail(net.control) \in Seq(Undone)
    BY <1>1, <2>1
  <2> QED BY <2>2 DEF Undone, Heard
<1> QED BY <1>2, <1>3, <1>4 DEF NetOK

LEMMA BackTaken ==
  ASSUME NEW u \in BOOLEAN, NetOK(u), NEW l \in Lane, NEW t, Replied(l, t), net' = TakeBack(l), spent' = spent
  PROVE  NetOK(u)' /\ Head(net.back[l]) \in Reply
<1>1. net \in Net /\ net.back \in [Lane -> Seq(Reply)] /\ net.back[l] # <<>>
  BY DEF NetOK, Net, Replied
<1>2. Tail(net.back[l]) \in Seq(Reply) /\ Head(net.back[l]) \in Reply
  BY <1>1
<1> DEFINE back == [net.back EXCEPT ![l] = Tail(@)]
<1>3. back \in [Lane -> Seq(Reply)]
  BY <1>1, <1>2
<1>4. net' = [net EXCEPT !.back = back]
  BY DEF TakeBack
<1>5. net' \in Net /\ net'.control = net.control
  <2> HIDE DEF back
  <2> QED BY <1>1, <1>3, <1>4 DEF Net
<1> QED BY <1>2, <1>5 DEF NetOK

LEMMA OutTaken ==
  ASSUME NEW u \in BOOLEAN, NetOK(u), NEW l \in Lane, NEW t, Arrives(l, t)
  PROVE  /\ TakeOut(l) \in Net /\ Head(net.out[l]) \in Sent
         /\ TakeOut(l).control = net.control /\ TakeOut(l).up = net.up /\ TakeOut(l).version = net.version
<1>1. net \in Net /\ net.out \in [Lane -> Seq(Sent)] /\ net.out[l] # <<>>
  BY DEF NetOK, Net, Arrives
<1>2. Tail(net.out[l]) \in Seq(Sent) /\ Head(net.out[l]) \in Sent
  BY <1>1
<1> DEFINE out == [net.out EXCEPT ![l] = Tail(@)]
<1>3. out \in [Lane -> Seq(Sent)]
  BY <1>1, <1>2
<1>4. TakeOut(l) = [net EXCEPT !.out = out]
  BY DEF TakeOut
<1> HIDE DEF out
<1> QED BY <1>1, <1>2, <1>3, <1>4 DEF Net

LEMMA OutPut ==
  ASSUME NEW u \in BOOLEAN, NetOK(u), NEW out \in [Lane -> Seq(Sent)], net' = [net EXCEPT !.out = out],
         spent' = spent
  PROVE  NetOK(u)'
BY DEF NetOK, Net

(***************************************************************************)
(* The sender's steps.                                                     *)
(***************************************************************************)

LEMMA ThrowTyped ==
  ASSUME NEW u \in BOOLEAN, NEW s \in Senders(u), eng \in Attempts(u), NEW a \in Att, NEW c \in BOOLEAN,
         Throw(s, a, c)
  PROVE  SendOK(u)' /\ snd'.last = s.last
<1>1. snd' \in Senders(u) /\ snd'.last = s.last
  BY ThrownTyped DEF Throw
<1>2. eng' \in Attempts(u)
  BY OffTyped, OneChanges DEF Throw
<1> QED BY <1>1, <1>2 DEF SendOK

LEMMA ReturnTyped ==
  ASSUME NEW u \in BOOLEAN, SendOK(u), NetOK(u), NEW a \in Att, NEW state \in Delivery, u => state # "saved",
         Return(a, state)
  PROVE  SenderGoesOn(u)
<1> DEFINE s == [snd EXCEPT !.ready = {}]
<1>1. s \in Senders(u) /\ s.last = snd.last
  BY DEF SendOK, Senders, Snd
<1>2. snd' \in Senders(u) /\ snd'.last = snd.last
  <2>1. snd' = Resolved(s, a, state)
    BY DEF Return
  <2> HIDE DEF s
  <2> QED BY <1>1, <2>1, ResolvedTyped
<1>3. eng' \in Attempts(u)
  BY OffTyped, OneChanges, RefuseTyped DEF Return, SendOK
<1>4. NetOK(u)'
  BY NetKept DEF Return, wireVars, NetOK
<1> QED BY <1>2, <1>3, <1>4 DEF SenderGoesOn, SendOK

LEMMA NextRoundTyped ==
  ASSUME NEW u \in BOOLEAN, SendOK(u), NEW a \in Att, NEW e \in Eng, Fits(e), u => ~e.acked,
         NextRound(a, e)
  PROVE  SendOK(u)' /\ snd'.last = snd.last
<1>1. CASE e.round + 1 = MaxRounds
  BY <1>1, ThrowTyped DEF NextRound, SendOK
<1>2. CASE e.round + 1 # MaxRounds
  <2> DEFINE f == [e EXCEPT !.pc = "lanes", !.round = @ + 1, !.repair = FALSE, !.over = {}]
  <2>1. f \in Eng /\ Fits(f) /\ f.acked = e.acked /\ f.pc = "lanes"
    <3>1. e.round + 1 \in 0 .. MaxRounds - 1
      BY <1>2, CapAssumption DEF Eng
    <3>2. "lanes" \in Pc
      BY DEF Pc
    <3> QED BY <3>1, <3>2 DEF Eng, Fits
  <2>2. snd' = snd /\ eng' = [eng EXCEPT ![a] = f]
    BY <1>2 DEF NextRound
  <2>3. eng' \in Attempts(u)
    <3> HIDE DEF f
    <3> QED BY <2>1, <2>2, OneChanges DEF SendOK
  <2> QED BY <2>2, <2>3 DEF SendOK
<1> QED BY <1>1, <1>2

LEMMA RequeuedTyped ==
  ASSUME NEW e \in Eng, Fits(e), NEW miss \in SUBSET Chunk
  PROVE  LET f == Requeued(e, miss) IN f \in Eng /\ Fits(f) /\ f.acked = e.acked /\ f.pc = e.pc
<1>1. miss \cup {e.next} \in SUBSET (0 .. N) /\ miss \cup {e.next} # {}
  <2>1. N \in Nat
    BY SizeAssumption
  <2>2. Chunk \subseteq 0 .. N
    BY <2>1 DEF Chunk
  <2>3. e.next \in 0 .. N
    BY DEF Eng
  <2> QED BY <2>2, <2>3
<1>2. LeastOf(miss \cup {e.next}) \in 0 .. N
  BY <1>1, LeastExists
<1> DEFINE n == LeastOf(miss \cup {e.next})
<1>3. Requeued(e, miss) = [e EXCEPT !.skip = @ \ miss, !.sent = @ \ miss, !.next = n, !.repair = TRUE]
  BY DEF Requeued
<1>4. n \in 0 .. N
  BY <1>2
<1> HIDE DEF n
<1> DEFINE f == Requeued(e, miss)
<1>5. f \in Eng
  <2> DEFINE skip == e.skip \ miss
             sent == e.sent \ miss
  <2>1. skip \in SUBSET Chunk /\ sent \in SUBSET Chunk
    BY DEF Eng
  <2>2. f = [e EXCEPT !.skip = skip, !.sent = sent, !.next = n, !.repair = TRUE]
    BY <1>3
  <2> HIDE DEF skip, sent, f
  <2> QED BY <1>4, <2>1, <2>2 DEF Eng
<1>6. /\ f.use = e.use /\ f.open = e.open /\ f.over = e.over /\ f.parked = e.parked /\ f.held = e.held
      /\ f.acked = e.acked /\ f.pc = e.pc
  BY <1>3 DEF Eng
<1> HIDE DEF f
<1> QED BY <1>5, <1>6 DEF Fits, f

LEMMA StartTyped ==
  ASSUME NEW u \in BOOLEAN, SendOK(u), NetOK(u), StartSend
  PROVE  SenderGoesOn(u)
<1>1. 1 \in Att /\ 1 \in 0 .. MaxAtt
  BY AttAssumption DEF Att
<1>2. snd' \in Senders(u) /\ snd'.last = 1
  BY <1>1 DEF StartSend, SendOK, Senders, Snd, Card
<1>3. net.lanes \in SUBSET Lane /\ "saving" \in Pc \ {"saved"} /\ {"first"} \in SUBSET Caller /\ {} \in SUBSET Chunk
  BY DEF NetOK, Net, Pc, Caller
<1>4. eng' \in Attempts(u)
  <2> DEFINE e == Engine("saving", {"first"}, net.lanes, {})
  <2>1. e \in Eng /\ Fits(e) /\ ~e.acked /\ e.pc = "saving"
    BY <1>3, EngineTyped
  <2>2. eng' = [eng EXCEPT ![1] = e]
    BY DEF StartSend
  <2> HIDE DEF e
  <2> QED BY <1>1, <2>1, <2>2, OneChanges DEF SendOK
<1>5. NetOK(u)'
  BY NetKept DEF StartSend, wireVars, NetOK
<1> QED BY <1>2, <1>4, <1>5 DEF SenderGoesOn, SendOK

LEMMA ResendTyped ==
  ASSUME NEW u \in BOOLEAN, NEW s \in Senders(u), eng \in Attempts(u), net.lanes \in SUBSET Lane,
         s.task = snd.task, NEW by \in Caller, NEW have \in SUBSET Chunk, Resend(s, by, have)
  PROVE  SendOK(u)' /\ (s.last # 0 => snd'.last # 0) /\ (snd'.last = s.last \/ snd'.last # 0)
<1>1. s \in Snd /\ (u => s.delivery # "saved") /\ snd.task \in 0 .. MaxAtt
  BY DEF Senders, Snd
<1>2. CASE LiveTask
  <2> DEFINE t == snd.task
             g == Wake(eng)
             skip == IF eng[t].pc = "saving" THEN g[t].skip ELSE g[t].skip \cup have
             bys == g[t].by \cup {by}
             e == [g[t] EXCEPT !.skip = skip, !.by = bys]
  <2>1. t \in Att /\ g \in Attempts(u)
    BY <1>1, <1>2, WakeTyped DEF LiveTask, Att
  <2>2. g \in [Att -> Eng] /\ Fits(g[t]) /\ (u => ~g[t].acked /\ g[t].pc # "saved")
    BY <2>1 DEF Attempts
  <2>3. eng' = [g EXCEPT ![t] = e] /\ snd' = [s EXCEPT !.paused = FALSE]
    <3>1. /\ eng' = [g EXCEPT ![t].skip = skip, ![t].by = bys]
          /\ snd' = [s EXCEPT !.paused = FALSE]
      BY <1>2 DEF Resend
    <3>2. g[t] \in Eng
      BY <2>1, <2>2
    <3> HIDE DEF g, skip, bys
    <3>3. eng' = [g EXCEPT ![t] = [[g[t] EXCEPT !.skip = skip] EXCEPT !.by = bys]]
      BY <2>1, <2>2, <3>1
    <3> QED BY <3>1, <3>3
  <2>4. e \in Eng /\ Fits(e) /\ e.acked = g[t].acked /\ e.pc = g[t].pc
    <3>1. g[t] \in Eng /\ skip \in SUBSET Chunk /\ bys \in SUBSET Caller
      <4> HIDE DEF g
      <4> QED BY <2>1, <2>2 DEF Eng
    <3> HIDE DEF g, skip, bys
    <3> QED BY <2>2, <3>1 DEF Eng, Fits
  <2>5. eng' \in Attempts(u)
    <3> HIDE DEF e, g
    <3> QED BY <2>1, <2>2, <2>3, <2>4, OneChanges
  <2>6. snd' \in Senders(u) /\ snd'.last = s.last
    BY <1>1, <2>3 DEF Senders, Snd
  <2> QED BY <2>5, <2>6 DEF SendOK
<1>3. CASE ~LiveTask
  <2> DEFINE a == IF s.task # 0 THEN s.task ELSE s.last + 1
             skip == IF s.stash # {} THEN Chunk \ s.stash ELSE have
             last == IF a > s.last THEN a ELSE s.last
             e == Engine("saving", {by}, net.lanes, skip)
  <2>1. /\ a <= MaxAtt /\ eng' = [eng EXCEPT ![a] = e]
        /\ snd' = [s EXCEPT !.task = a, !.active = a, !.stash = {}, !.last = last]
    BY <1>3 DEF Resend
  <2>2. a \in Att /\ last \in 0 .. MaxAtt /\ last # 0
    BY <1>1, <2>1, AttAssumption DEF Snd, Att
  <2>3. e \in Eng /\ Fits(e) /\ ~e.acked /\ e.pc = "saving"
    <3>1. skip \in SUBSET Chunk /\ {by} \in SUBSET Caller /\ "saving" \in Pc \ {"saved"}
      BY DEF Pc
    <3> HIDE DEF skip
    <3> QED BY <3>1, EngineTyped
  <2>4. eng' \in Attempts(u)
    <3> HIDE DEF a, e
    <3> QED BY <2>1, <2>2, <2>3, OneChanges
  <2>5. snd' \in Senders(u) /\ snd'.last = last
    <3>1. a \in 0 .. MaxAtt
      BY <2>2 DEF Att
    <3> HIDE DEF a, last
    <3> QED BY <1>1, <2>1, <2>2, <3>1 DEF Senders, Snd
  <2> HIDE DEF last
  <2> QED BY <2>2, <2>4, <2>5 DEF SendOK
<1> QED BY <1>2, <1>3

LEMMA AnswerAskTyped ==
  ASSUME NEW u \in BOOLEAN, SendOK(u), NetOK(u), NEW q, AnswerAsk(q)
  PROVE  SenderGoesOn(u)
<1> DEFINE s == [snd EXCEPT !.asks = @ \ {q}]
           s1 == [s EXCEPT !.paused = FALSE]
           t == IF q.by = "user" THEN Shown(s1, "moving") ELSE s
<1>1. snd \in Snd /\ (u => snd.delivery # "saved") /\ q \in Ask /\ "moving" \in Card
  BY DEF SendOK, Senders, Snd, AnswerAsk, Card
<1>2. s \in Senders(u) /\ s.last = snd.last /\ s.task = snd.task
  BY <1>1 DEF Senders, Snd
<1>3. s1 \in Senders(u) /\ s1.last = snd.last /\ s1.task = snd.task
  BY <1>1 DEF Senders, Snd
<1>4. Shown(s1, "moving") \in Senders(u) /\ Shown(s1, "moving").last = snd.last
      /\ Shown(s1, "moving").task = snd.task
  <2>1. Shown(s1, "moving") \in Senders(u) /\ Shown(s1, "moving").last = s1.last
    <3> HIDE DEF s1
    <3> QED BY <1>1, <1>3, ShownTyped
  <2>2. Shown(s1, "moving").task = s1.task
    <3> HIDE DEF s1
    <3> QED BY <1>3 DEF Shown, Senders, Snd
  <2> QED BY <1>3, <2>1, <2>2
<1>5. t \in Senders(u) /\ t.last = snd.last /\ t.task = snd.task
  <2> HIDE DEF s, s1
  <2> QED BY <1>2, <1>4
<1>6. Resend(t, q.by, q.have) /\ UNCHANGED wireVars
  BY DEF AnswerAsk
<1>7. q.by \in Caller /\ q.have \in SUBSET Chunk /\ net.lanes \in SUBSET Lane
  BY <1>1 DEF Ask, Caller, NetOK, Net
<1>8. SendOK(u)' /\ (snd.last # 0 => snd'.last # 0)
  <2> HIDE DEF t
  <2> QED BY <1>5, <1>6, <1>7, ResendTyped DEF SendOK
<1>9. NetOK(u)'
  BY <1>6, NetKept DEF wireVars, NetOK
<1> QED BY <1>8, <1>9 DEF SenderGoesOn

LEMMA AskFailsTyped ==
  ASSUME NEW u \in BOOLEAN, SendOK(u), NetOK(u), NEW q, AskFails(q)
  PROVE  SenderGoesOn(u)
<1>1. snd' \in Senders(u) /\ snd'.last = snd.last
  BY DEF AskFails, SendOK, Senders, Snd
<1>2. NetOK(u)'
  BY NetKept DEF AskFails, wireVars, NetOK
<1> QED BY <1>1, <1>2 DEF SenderGoesOn, SendOK, AskFails

LEMMA SaveDoneTyped ==
  ASSUME NEW u \in BOOLEAN, SendOK(u), NetOK(u), NEW a \in Att, SaveDone(a)
  PROVE  SenderGoesOn(u)
<1> DEFINE metas(L) == [l \in Lane |-> IF l \in L THEN Append(net.out[l], Meta(a)) ELSE net.out[l]]
<1>1. \A L \in SUBSET Lane : metas(L) \in [Lane -> Seq(Sent)]
  <2>1. net.out \in [Lane -> Seq(Sent)]
    BY DEF NetOK, Net
  <2>2. Meta(a) \in Sent
    BY SizeAssumption DEF Meta, Sent, Chunk
  <2> QED BY <2>1, <2>2
<1>2. eng \in Attempts(u) /\ eng \in [Att -> Eng] /\ Fits(eng[a]) /\ snd \in Senders(u)
  BY DEF SendOK, Attempts
<1>3. eng[a].use \in SUBSET Lane /\ eng[a].open \in SUBSET Lane
  BY <1>2 DEF Eng
<1>4. CASE Abort(a) /\ Throw(snd, a, TRUE) /\ UNCHANGED <<net, spent>>
  <2>1. NetOK(u)'
    BY <1>4, NetKept DEF NetOK
  <2> QED BY <1>2, <1>4, <2>1, ThrowTyped DEF SenderGoesOn
<1>5. ASSUME NEW L \in SUBSET eng[a].open, net' = [net EXCEPT !.out = metas(L)], Throw(snd, a, FALSE), spent' = spent
      PROVE  SenderGoesOn(u)
  <2>1. NetOK(u)'
    <3> HIDE DEF metas
    <3> QED BY <1>1, <1>3, <1>5, OutPut
  <2> QED BY <1>2, <1>5, <2>1, ThrowTyped DEF SenderGoesOn
<1>6. CASE /\ net' = [net EXCEPT !.out = metas(eng[a].use)] /\ spent' = spent
           /\ snd' = [snd EXCEPT !.ready = @ \cap {a}]
           /\ eng' = [Refuse(eng) EXCEPT ![a].pc = IF Legacy \/ a \in snd.ready THEN "lanes" ELSE "ready"]
  <2>1. NetOK(u)'
    <3> HIDE DEF metas
    <3> QED BY <1>1, <1>3, <1>6, OutPut
  <2>2. snd' \in Senders(u) /\ snd'.last = snd.last
    BY <1>6 DEF SendOK, Senders, Snd
  <2>3. eng' \in Attempts(u)
    <3> DEFINE g == Refuse(eng)
               pc == IF Legacy \/ a \in snd.ready THEN "lanes" ELSE "ready"
               e == [g[a] EXCEPT !.pc = pc]
    <3>1. g \in Attempts(u) /\ pc \in Pc /\ pc # "saved"
      BY <1>2, RefuseTyped DEF Pc
    <3>2. g \in [Att -> Eng] /\ Fits(g[a]) /\ (u => ~g[a].acked)
      BY <3>1 DEF Attempts
    <3>3. eng' = [g EXCEPT ![a] = e]
      <4> HIDE DEF g, pc
      <4> QED BY <1>6, <3>2 DEF g, pc
    <3>4. e \in Eng /\ Fits(e) /\ e.acked = g[a].acked /\ e.pc = pc
      <4> HIDE DEF g, pc
      <4> QED BY <3>1, <3>2, Repointed
    <3> HIDE DEF g, pc, e
    <3> QED BY <3>1, <3>2, <3>3, <3>4, OneChanges
  <2> QED BY <2>1, <2>2, <2>3 DEF SenderGoesOn, SendOK
<1>7. UNCHANGED spent
  BY DEF SaveDone
<1>8. \/ Abort(a) /\ Throw(snd, a, TRUE) /\ UNCHANGED net
      \/ \E L \in SUBSET eng[a].open : net' = [net EXCEPT !.out = metas(L)] /\ Throw(snd, a, FALSE)
      \/ /\ net' = [net EXCEPT !.out = metas(eng[a].use)]
         /\ snd' = [snd EXCEPT !.ready = @ \cap {a}]
         /\ eng' = [Refuse(eng) EXCEPT ![a].pc = IF Legacy \/ a \in snd.ready THEN "lanes" ELSE "ready"]
  BY DEF SaveDone
<1> QED BY <1>4, <1>5, <1>6, <1>7, <1>8

\* What follows for one attempt that changes while the task and the record stay.
LEMMA EngineMoves ==
  ASSUME NEW u \in BOOLEAN, SendOK(u), NetOK(u)', NEW a \in Att, NEW e \in Eng, Fits(e),
         u => ~e.acked /\ e.pc # "saved", eng' = [eng EXCEPT ![a] = e],
         snd' \in Senders(u), snd'.last = snd.last
  PROVE  SenderGoesOn(u)
BY OneChanges DEF SenderGoesOn, SendOK

LEMMA AttemptFacts ==
  ASSUME NEW u \in BOOLEAN, SendOK(u), NEW a \in Att
  PROVE  /\ eng[a] \in Eng /\ Fits(eng[a]) /\ (u => ~eng[a].acked /\ eng[a].pc # "saved")
         /\ snd \in Senders(u) /\ snd \in Snd /\ eng \in Attempts(u) /\ eng \in [Att -> Eng]
BY DEF SendOK, Attempts, Senders

LEMMA ThrowGoesOn ==
  ASSUME NEW u \in BOOLEAN, SendOK(u), NetOK(u), NEW a \in Att, NEW c \in BOOLEAN, Throw(snd, a, c), net' = net,
         spent' \in [Disturbance -> Nat]
  PROVE  SenderGoesOn(u)
BY AttemptFacts, ThrowTyped, NetKept DEF SenderGoesOn

\* Giving up with the ready flags dropped.
LEMMA AbortGoesOn ==
  ASSUME NEW u \in BOOLEAN, SendOK(u), NetOK(u), NEW a \in Att, NEW c \in BOOLEAN,
         Throw([snd EXCEPT !.ready = {}], a, c), net' = net, spent' \in [Disturbance -> Nat]
  PROVE  SenderGoesOn(u)
<1> DEFINE s == [snd EXCEPT !.ready = {}]
<1>1. s \in Senders(u) /\ s.last = snd.last
  BY DEF SendOK, Senders, Snd
<1> HIDE DEF s
<1>2. Throw(s, a, c)
  BY DEF s
<1> QED BY <1>1, <1>2, AttemptFacts, ThrowTyped, NetKept DEF SenderGoesOn

LEMMA RefusedTyped ==
  ASSUME NEW u \in BOOLEAN, SendOK(u), NetOK(u), NEW a \in Att, Refused(a) \/ ReadyTimeout(a) \/ DrainFails(a)
  PROVE  SenderGoesOn(u)
<1>1. Throw(snd, a, Abort(a)) /\ net' = net
  BY DEF Refused, ReadyTimeout, DrainFails, wireVars
<1>2. spent' \in [Disturbance -> Nat]
  <2>1. spent \in [Disturbance -> Nat] /\ "timeout" \in Disturbance
    BY DEF NetOK, Disturbance
  <2>2. spent' = spent \/ Spend("timeout")
    BY DEF Refused, ReadyTimeout, DrainFails, wireVars
  <2> QED BY <2>1, <2>2, SpendTyped
<1>3. Abort(a) \in BOOLEAN
  BY AttemptFacts DEF Abort, Snd
<1> QED BY <1>1, <1>2, <1>3, ThrowGoesOn

LEMMA TakeTyped ==
  ASSUME NEW u \in BOOLEAN, SendOK(u), NetOK(u), NEW a \in Att, NEW l \in Lane, Take(a, l)
  PROVE  SenderGoesOn(u)
<1> DEFINE e == eng[a]
           i == LeastOf(Queue(e))
           e1 == [e EXCEPT !.aborted = TRUE, !.over = @ \cup {l}]
           e2 == [e EXCEPT !.parked = @ \cup {l}]
           e3 == [e EXCEPT !.next = N, !.over = @ \cup {l}]
           e4 == [e EXCEPT !.next = i + 1, !.held[l] = Append(@, i)]
           good(f) == f \in Eng /\ Fits(f) /\ f.acked = e.acked /\ f.pc = e.pc
<1>1. e \in Eng /\ Fits(e) /\ (u => ~e.acked /\ e.pc # "saved") /\ snd \in Senders(u)
  BY AttemptFacts
<1>2. l \in e.use /\ N \in 0 .. N /\ N \in Nat
  BY SizeAssumption DEF Take, CanTake
<1>3. good(e1) /\ good(e2) /\ good(e3)
  <2> HIDE DEF e
  <2> QED BY <1>1, <1>2 DEF Eng, Fits
<1>4. ASSUME Queue(e) # {}
      PROVE  good(e4)
  <2>1. i \in Queue(e)
    <3>1. Queue(e) \in SUBSET (0 .. N)
      BY <1>1, <1>2 DEF Queue, Eng
    <3> HIDE DEF e
    <3> QED BY <1>4, <3>1, LeastExists
  <2>2. i \in Chunk /\ i + 1 \in 0 .. N
    <3>1. e.next \in 0 .. N
      BY <1>1 DEF Eng
    <3>2. i \in e.next .. N - 1
      BY <2>1 DEF Queue
    <3> HIDE DEF e, i
    <3> QED BY <1>2, <3>1, <3>2 DEF Chunk
  <2>3. e.held \in [Lane -> Seq(Chunk)] /\ Append(e.held[l], i) \in Seq(Chunk)
    <3>1. e.held \in [Lane -> Seq(Chunk)]
      BY <1>1 DEF Eng
    <3> HIDE DEF i, e
    <3> QED BY <2>2, <3>1
  <2> DEFINE h == Append(e.held[l], i)
             held == [e.held EXCEPT ![l] = h]
             n == i + 1
  <2>4. e4 = [e EXCEPT !.next = n, !.held = held]
    OBVIOUS
  <2>5. held \in [Lane -> Seq(Chunk)] /\ (\A m \in Lane \ e.use : held[m] = <<>>)
    <3>1. \A m \in Lane \ e.use : e.held[m] = <<>>
      BY <1>1 DEF Fits
    <3>2. h \in Seq(Chunk) /\ e.held \in [Lane -> Seq(Chunk)]
      BY <2>3
    <3> HIDE DEF e, h
    <3> QED BY <1>2, <3>1, <3>2
  <2>6. n \in 0 .. N
    BY <2>2
  <2> HIDE DEF held, n, e, e4
  <2> QED BY <1>1, <2>4, <2>5, <2>6 DEF Eng, Fits
<1>5. \/ eng' = [eng EXCEPT ![a] = e1]
      \/ eng' = [eng EXCEPT ![a] = e2]
      \/ eng' = [eng EXCEPT ![a] = e3]
      \/ Queue(e) # {} /\ eng' = [eng EXCEPT ![a] = e4]
  <2>1. eng' = [eng EXCEPT ![a] =
                  CASE e.aborted \/ Abort(a) -> e1
                    [] ~e.aborted /\ ~Abort(a) /\ snd.paused -> e2
                    [] ~e.aborted /\ ~Abort(a) /\ ~snd.paused /\ Queue(e) = {} -> e3
                    [] OTHER -> e4]
    BY DEF Take
  <2> HIDE DEF e, e1, e2, e3, e4
  <2> QED BY <2>1
<1>6. NetOK(u)' /\ snd' = snd
  BY NetKept DEF Take, wireVars, NetOK
<1> HIDE DEF e, e1, e2, e3, e4
<1> QED BY <1>1, <1>3, <1>4, <1>5, <1>6, EngineMoves

LEMMA DroppedTyped ==
  ASSUME NEW e \in Eng, Fits(e), NEW l \in e.use
  PROVE  LET f == Dropped(e, l) IN f \in Eng /\ Fits(f) /\ f.acked = e.acked /\ f.pc = e.pc
<1> DEFINE held == [e.held EXCEPT ![l] = <<>>]
           over == e.over \cup {l}
<1>1. Dropped(e, l) = [e EXCEPT !.aborted = TRUE, !.over = over, !.held = held]
  BY DEF Dropped
<1>2. l \in Lane /\ e.held \in [Lane -> Seq(Chunk)] /\ over \subseteq e.use /\ e.use \in SUBSET Lane
  BY DEF Eng, Fits
<1>3. held \in [Lane -> Seq(Chunk)] /\ (\A m \in Lane \ e.use : held[m] = <<>>)
  BY <1>2 DEF Fits
<1> HIDE DEF held, over
<1> DEFINE f == Dropped(e, l)
<1>4. f \in Eng
  BY <1>1, <1>2, <1>3 DEF Eng
<1>5. /\ f.use = e.use /\ f.open = e.open /\ f.over = over /\ f.parked = e.parked /\ f.held = held
      /\ f.acked = e.acked /\ f.pc = e.pc
  BY <1>1 DEF Eng
<1> HIDE DEF f
<1> QED BY <1>2, <1>3, <1>4, <1>5 DEF Fits, f

LEMMA SendChunkTyped ==
  ASSUME NEW u \in BOOLEAN, SendOK(u), NetOK(u), NEW a \in Att, NEW l \in Lane, SendChunk(a, l)
  PROVE  SenderGoesOn(u)
<1> DEFINE e == eng[a]
           i == Head(e.held[l])
<1>1. e \in Eng /\ Fits(e) /\ (u => ~e.acked /\ e.pc # "saved") /\ snd \in Senders(u)
  BY AttemptFacts
<1>2. e.held \in [Lane -> Seq(Chunk)] /\ e.held[l] # <<>> /\ l \in e.use /\ e.sent \in SUBSET Chunk
  <2>1. e.held[l] # <<>>
    BY DEF SendChunk
  <2> HIDE DEF e
  <2> QED BY <1>1, <2>1 DEF Eng, Fits
<1>3. i \in Chunk /\ Tail(e.held[l]) \in Seq(Chunk)
  <2> HIDE DEF e
  <2> QED BY <1>2 DEF i
<1>4. CASE e.aborted \/ Abort(a)
  <2>1. eng' = [eng EXCEPT ![a] = Dropped(e, l)] /\ net' = net /\ snd' = snd /\ spent' = spent
    BY <1>4 DEF SendChunk
  <2>2. NetOK(u)'
    BY <2>1, NetKept DEF NetOK
  <2> HIDE DEF e
  <2> QED BY <1>1, <1>2, <2>1, <2>2, DroppedTyped, EngineMoves
<1>5. CASE ~(e.aborted \/ Abort(a))
  <2> DEFINE held == [e.held EXCEPT ![l] = Tail(e.held[l])]
             sent == e.sent \cup {i}
             f == [e EXCEPT !.held = held, !.sent = sent]
             out == [net.out EXCEPT ![l] = Append(@, Frame(a, i))]
  <2>1. eng' = [eng EXCEPT ![a].held[l] = Tail(e.held[l]), ![a].sent = sent]
        /\ net' = [net EXCEPT !.out = out] /\ snd' = snd /\ spent' = spent
    BY <1>5 DEF SendChunk
  <2>2. eng' = [eng EXCEPT ![a] = f]
    <3>1. eng \in [Att -> Eng]
      BY AttemptFacts
    <3>2. eng' = [eng EXCEPT ![a] = [[e EXCEPT !.held[l] = Tail(e.held[l])] EXCEPT !.sent = sent]]
      <4> HIDE DEF sent
      <4> QED BY <2>1, <3>1
    <3> HIDE DEF sent
    <3> QED BY <3>2
  <2>3. f \in Eng /\ Fits(f) /\ f.acked = e.acked /\ f.pc = e.pc
    <3>1. held \in [Lane -> Seq(Chunk)] /\ (\A m \in Lane \ e.use : held[m] = <<>>) /\ sent \in SUBSET Chunk
      <4> HIDE DEF e, i
      <4> QED BY <1>1, <1>2, <1>3 DEF Fits
    <3> HIDE DEF held, sent, e
    <3> QED BY <1>1, <3>1 DEF Eng, Fits
  <2>4. NetOK(u)'
    <3>1. net.out \in [Lane -> Seq(Sent)]
      BY DEF NetOK, Net
    <3>2. Frame(a, i) \in Sent
      <4> HIDE DEF i
      <4> QED BY <1>3 DEF Frame, Sent
    <3>3. out \in [Lane -> Seq(Sent)]
      <4> HIDE DEF i
      <4> QED BY <3>1, <3>2
    <3> HIDE DEF out
    <3> QED BY <2>1, <3>3, OutPut
  <2> HIDE DEF e, f
  <2> QED BY <1>1, <2>1, <2>2, <2>3, <2>4, EngineMoves
<1> QED BY <1>4, <1>5

LEMMA LaneDiesTyped ==
  ASSUME NEW u \in BOOLEAN, SendOK(u), NetOK(u), NEW a \in Att, NEW l \in Lane, LaneDies(a, l)
  PROVE  SenderGoesOn(u)
<1> DEFINE e == eng[a]
           waits == l \in e.parked
           back == {e.next} \cup {e.held[l][k] : k \in DOMAIN e.held[l]}
           over == IF waits THEN e.over ELSE e.over \cup {l}
           held == [e.held EXCEPT ![l] = <<>>]
           n == LeastOf(back)
           f == [e EXCEPT !.next = n, !.over = over, !.held = held]
<1>1. e \in Eng /\ Fits(e) /\ (u => ~e.acked /\ e.pc # "saved") /\ snd \in Senders(u)
  BY AttemptFacts
<1>2. e.held \in [Lane -> Seq(Chunk)] /\ e.held[l] # <<>> /\ l \in e.use /\ e.next \in 0 .. N
  <2>1. e.held[l] # <<>>
    BY DEF LaneDies
  <2> HIDE DEF e
  <2> QED BY <1>1, <2>1 DEF Eng, Fits
<1>3. n \in 0 .. N
  <2>1. Chunk \subseteq 0 .. N
    BY SizeAssumption DEF Chunk
  <2>2. back \in SUBSET (0 .. N) /\ back # {}
    <3>1. \A k \in DOMAIN e.held[l] : e.held[l][k] \in Chunk
      <4> HIDE DEF e
      <4> QED BY <1>2
    <3> HIDE DEF e
    <3> QED BY <1>2, <2>1, <3>1 DEF back
  <2> HIDE DEF back
  <2> QED BY <2>2, LeastExists
<1>4. f \in Eng /\ Fits(f) /\ f.acked = e.acked /\ f.pc = e.pc
  <2>1. held \in [Lane -> Seq(Chunk)] /\ (\A m \in Lane \ e.use : held[m] = <<>>)
    <3> HIDE DEF e
    <3> QED BY <1>1, <1>2 DEF Fits
  <2>2. over \subseteq e.use /\ e.use \in SUBSET Lane
    <3> HIDE DEF e
    <3> QED BY <1>1, <1>2 DEF Fits, Eng
  <2> HIDE DEF held, over, n, e
  <2> QED BY <1>1, <1>3, <2>1, <2>2 DEF Eng, Fits
<1>5. eng' = [eng EXCEPT ![a] = Dropped(e, l)] \/ eng' = [eng EXCEPT ![a] = f]
  <2>1. eng' = [eng EXCEPT ![a] = IF e.aborted \/ Abort(a) THEN Dropped(e, l) ELSE f]
    BY DEF LaneDies
  <2> HIDE DEF f, e
  <2> QED BY <2>1
<1>6. NetOK(u)' /\ snd' = snd
  <2>1. spent \in [Disturbance -> Nat] /\ "timeout" \in Disturbance
    BY DEF NetOK, Disturbance
  <2>2. (spent' = spent \/ Spend("timeout")) /\ net' = net /\ snd' = snd
    BY DEF LaneDies
  <2> QED BY <2>1, <2>2, SpendTyped, NetKept
<1> HIDE DEF e, f
<1> QED BY <1>1, <1>2, <1>4, <1>5, <1>6, DroppedTyped, EngineMoves

\* A step of an attempt that its first caller records as d.
LEMMA MarkedTyped ==
  ASSUME NEW u \in BOOLEAN, SendOK(u), NEW a \in Att, NEW d \in Delivery, u => d # "saved",
         snd' = IF "first" \in eng[a].by THEN [snd EXCEPT !.delivery = d] ELSE snd
  PROVE  snd' \in Senders(u) /\ snd'.last = snd.last
BY AttemptFacts DEF Senders, Snd

LEMMA RoundEndsTyped ==
  ASSUME NEW u \in BOOLEAN, SendOK(u), NetOK(u), NEW a \in Att, RoundEnds(a)
  PROVE  SenderGoesOn(u)
<1>1. eng[a] \in Eng /\ Fits(eng[a]) /\ (u => ~eng[a].acked /\ eng[a].pc # "saved") /\ eng \in [Att -> Eng]
  BY AttemptFacts
<1>2. NetOK(u)' /\ net' = net /\ spent' \in [Disturbance -> Nat]
  BY NetKept DEF RoundEnds, wireVars, NetOK
<1>3. \/ Throw([snd EXCEPT !.ready = {}], a, TRUE)
      \/ NextRound(a, eng[a])
      \/ Throw(snd, a, FALSE)
      \/ /\ eng' = [eng EXCEPT ![a].pc = "drain"]
         /\ snd' = IF "first" \in eng[a].by THEN [snd EXCEPT !.delivery = "queued"] ELSE snd
  BY DEF RoundEnds
<1>4. CASE NextRound(a, eng[a])
  BY <1>1, <1>2, <1>4, NextRoundTyped DEF SenderGoesOn
<1>5. CASE /\ eng' = [eng EXCEPT ![a].pc = "drain"]
           /\ snd' = IF "first" \in eng[a].by THEN [snd EXCEPT !.delivery = "queued"] ELSE snd
  <2>1. "drain" \in Pc /\ "queued" \in Delivery
    BY DEF Pc, Delivery
  <2>2. snd' \in Senders(u) /\ snd'.last = snd.last
    BY <1>5, <2>1, MarkedTyped
  <2> DEFINE f == [eng[a] EXCEPT !.pc = "drain"]
  <2>3. f \in Eng /\ Fits(f) /\ f.acked = eng[a].acked /\ f.pc = "drain"
    BY <1>1, <2>1, Repointed
  <2>4. eng' = [eng EXCEPT ![a] = f]
    BY <1>1, <1>5
  <2> HIDE DEF f
  <2> QED BY <1>1, <1>2, <2>2, <2>3, <2>4, EngineMoves
<1> QED BY <1>2, <1>3, <1>4, <1>5, ThrowGoesOn, AbortGoesOn

LEMMA DrainedTyped ==
  ASSUME NEW u \in BOOLEAN, SendOK(u), NetOK(u), NEW a \in Att, Drained(a)
  PROVE  SenderGoesOn(u)
<1> DEFINE pc == CASE Legacy -> "giveup" [] eng[a].acked /\ ~Legacy -> "saved" [] OTHER -> "ack"
           d == IF eng[a].acked /\ ~Legacy THEN "saved" ELSE "delivered"
<1>1. eng[a] \in Eng /\ Fits(eng[a]) /\ (u => ~eng[a].acked /\ eng[a].pc # "saved") /\ eng \in [Att -> Eng]
  BY AttemptFacts
<1>2. NetOK(u)' /\ net' = net /\ spent' \in [Disturbance -> Nat]
  BY NetKept DEF Drained, wireVars, NetOK
<1>3. \/ Throw([snd EXCEPT !.ready = {}], a, TRUE)
      \/ NextRound(a, eng[a])
      \/ /\ eng' = [eng EXCEPT ![a].pc = pc]
         /\ snd' = IF "first" \in eng[a].by THEN [snd EXCEPT !.delivery = d] ELSE snd
  BY DEF Drained
<1>4. CASE NextRound(a, eng[a])
  BY <1>1, <1>2, <1>4, NextRoundTyped DEF SenderGoesOn
<1>5. CASE /\ eng' = [eng EXCEPT ![a].pc = pc]
           /\ snd' = IF "first" \in eng[a].by THEN [snd EXCEPT !.delivery = d] ELSE snd
  <2>1. pc \in Pc /\ d \in Delivery /\ (u => pc # "saved" /\ d # "saved")
    BY <1>1 DEF Pc, Delivery
  <2> HIDE DEF pc, d
  <2>2. snd' \in Senders(u) /\ snd'.last = snd.last
    BY <1>5, <2>1, MarkedTyped
  <2> DEFINE f == [eng[a] EXCEPT !.pc = pc]
  <2>3. f \in Eng /\ Fits(f) /\ f.acked = eng[a].acked /\ f.pc = pc
    BY <1>1, <2>1, Repointed
  <2>4. eng' = [eng EXCEPT ![a] = f]
    BY <1>1, <1>5
  <2> HIDE DEF f
  <2> QED BY <1>1, <1>2, <2>1, <2>2, <2>3, <2>4, EngineMoves
<1> HIDE DEF pc, d
<1> QED BY <1>2, <1>3, <1>4, <1>5, AbortGoesOn

LEMMA AckTimeoutTyped ==
  ASSUME NEW u \in BOOLEAN, SendOK(u), NetOK(u), NEW a \in Att, AckTimeout(a)
  PROVE  SenderGoesOn(u)
<1>1. eng[a] \in Eng /\ Fits(eng[a]) /\ (u => ~eng[a].acked) /\ eng \in [Att -> Eng] /\ snd \in Senders(u)
  BY AttemptFacts
<1> DEFINE f == [eng[a] EXCEPT !.pc = "giveup"]
<1>2. "giveup" \in Pc
  BY DEF Pc
<1>3. f \in Eng /\ Fits(f) /\ f.acked = eng[a].acked /\ f.pc = "giveup"
  BY <1>1, <1>2, Repointed
<1>4. eng' = [eng EXCEPT ![a] = f] /\ snd' = snd /\ net' = net
  BY <1>1 DEF AckTimeout
<1>5. NetOK(u)'
  <2>1. spent \in [Disturbance -> Nat] /\ "timeout" \in Disturbance
    BY DEF NetOK, Disturbance
  <2> QED BY <1>4, <2>1, SpendTyped, NetKept DEF AckTimeout
<1> HIDE DEF f
<1> QED BY <1>1, <1>3, <1>4, <1>5, EngineMoves

LEMMA CancelSeenTyped ==
  ASSUME NEW u \in BOOLEAN, SendOK(u), NetOK(u), NEW a \in Att, CancelSeen(a)
  PROVE  SenderGoesOn(u)
BY AbortGoesOn DEF CancelSeen, wireVars, NetOK

LEMMA ReturnsTyped ==
  ASSUME NEW u \in BOOLEAN, SendOK(u), NetOK(u), NEW a \in Att, GiveUpDone(a) \/ SavedDone(a)
  PROVE  SenderGoesOn(u)
<1>1. "saved" \in Delivery /\ "delivered" \in Delivery
  BY DEF Delivery
<1>2. u => eng[a].pc # "saved"
  BY AttemptFacts
<1>3. CASE GiveUpDone(a)
  BY <1>1, <1>3, ReturnTyped DEF GiveUpDone
<1>4. CASE SavedDone(a)
  BY <1>1, <1>2, <1>4, ReturnTyped DEF SavedDone
<1> QED BY <1>3, <1>4

LEMMA OnReadyTyped ==
  ASSUME NEW u \in BOOLEAN, SendOK(u), NetOK(u), NEW l \in Lane, OnReady(l)
  PROVE  SenderGoesOn(u)
<1> DEFINE m == Head(net.back[l])
           a == m.a
<1>1. NetOK(u)' /\ m \in Reply /\ m.t = "ready"
  BY BackTaken DEF OnReady, Replied
<1>2. a \in Att
  <2> HIDE DEF m
  <2> QED BY <1>1 DEF Reply
<1>3. eng \in [Att -> Eng] /\ snd \in Senders(u) /\ eng \in Attempts(u)
  BY AttemptFacts, AttAssumption DEF SendOK, Attempts
<1>4. \/ snd' = snd /\ eng' = eng
      \/ /\ snd' = [snd EXCEPT !.ready = @ \cup {a}]
         /\ eng' = IF eng[a].pc = "ready" THEN [eng EXCEPT ![a].pc = "lanes"] ELSE eng
  BY DEF OnReady, sendVars
<1> HIDE DEF a
<1>5. ASSUME snd' = [snd EXCEPT !.ready = @ \cup {a}],
             eng' = IF eng[a].pc = "ready" THEN [eng EXCEPT ![a].pc = "lanes"] ELSE eng
      PROVE  SenderGoesOn(u)
  <2>1. snd' \in Senders(u) /\ snd'.last = snd.last
    BY <1>2, <1>3, <1>5 DEF Senders, Snd
  <2> DEFINE f == [eng[a] EXCEPT !.pc = "lanes"]
  <2>2. eng[a] \in Eng /\ Fits(eng[a]) /\ (u => ~eng[a].acked) /\ "lanes" \in Pc
    BY <1>2, AttemptFacts DEF Pc
  <2>3. f \in Eng /\ Fits(f) /\ f.acked = eng[a].acked /\ f.pc = "lanes"
    BY <2>2, Repointed
  <2>4. eng' = [eng EXCEPT ![a] = f] \/ eng' = eng
    BY <1>2, <1>3, <1>5
  <2> HIDE DEF f
  <2> QED BY <1>1, <1>2, <1>3, <2>1, <2>2, <2>3, <2>4, EngineMoves DEF SenderGoesOn, SendOK
<1> QED BY <1>1, <1>3, <1>4, <1>5 DEF SenderGoesOn, SendOK

LEMMA OnRejectTyped ==
  ASSUME NEW u \in BOOLEAN, SendOK(u), NetOK(u), OnReject
  PROVE  SenderGoesOn(u)
<1>1. NetOK(u)' /\ Rejected
  BY ControlTaken, BackTaken DEF OnReject
<1> DEFINE s == [snd EXCEPT !.ready = {}, !.source = FALSE]
<1>2. s \in Senders(u) /\ s.last = snd.last /\ "failed" \in Card
  BY DEF SendOK, Senders, Snd, Card
<1>3. \/ snd' = snd /\ eng' = eng
      \/ snd' = Shown(s, "failed") /\ eng' = Refuse(eng)
  BY <1>1 DEF Rejected, sendVars
<1> HIDE DEF s
<1> QED BY <1>1, <1>2, <1>3, ShownTyped, RefuseTyped DEF SenderGoesOn, SendOK

LEMMA PeerCancelsTyped ==
  ASSUME NEW u \in BOOLEAN, SendOK(u), NetOK(u)', PeerCancels
  PROVE  SenderGoesOn(u)
<1>1. CASE snd.task = 0
  BY <1>1 DEF PeerCancels, sendVars, SenderGoesOn, SendOK
<1>2. CASE snd.task # 0
  <2>1. snd' \in Senders(u) /\ snd'.last = snd.last
    <3>1. snd \in Snd /\ "none" \in Card /\ "none" \in Delivery
      BY DEF SendOK, Senders, Card, Delivery
    <3>2. snd' = [snd EXCEPT !.cancelled = TRUE, !.paused = FALSE, !.ready = {}, !.card = "none",
                             !.delivery = "none", !.closing = TRUE]
      BY <1>2 DEF PeerCancels
    <3>3. snd' \in Snd
      BY <3>1, <3>2 DEF Snd
    <3>4. snd'.last = snd.last /\ snd'.delivery = "none"
      BY <3>1, <3>2 DEF Snd
    <3> QED BY <3>3, <3>4 DEF Senders
  <2>2. eng' \in Attempts(u)
    BY <1>2, WakeTyped, RefuseTyped DEF PeerCancels, SendOK
  <2> QED BY <2>1, <2>2 DEF SenderGoesOn, SendOK
<1> QED BY <1>1, <1>2

LEMMA OnCancelTyped ==
  ASSUME NEW u \in BOOLEAN, SendOK(u), NetOK(u), OnCancel
  PROVE  SenderGoesOn(u)
<1>1. NetOK(u)' /\ PeerCancels
  BY ControlTaken, BackTaken DEF OnCancel
<1> QED BY <1>1, PeerCancelsTyped

LEMMA OnRepairTyped ==
  ASSUME NEW u \in BOOLEAN, SendOK(u), NetOK(u), OnRepair
  PROVE  SenderGoesOn(u)
<1> DEFINE miss == Head(net.control).c
           a == snd.task
           again == Requeued(eng[a], miss)
<1>1. NetOK(u)' /\ Head(net.control) \in Control
  BY ControlTaken DEF OnRepair
<1>2. miss \in SUBSET Chunk
  BY <1>1 DEF Control
<1>3. snd \in Snd /\ (u => snd.delivery # "saved") /\ eng \in Attempts(u)
  BY DEF SendOK, Senders
<1>4. \/ snd' = snd /\ eng' = eng
      \/ /\ snd' = [snd EXCEPT !.stash = miss,
                               !.asks = @ \cup {q \in {[by |-> "peer", have |-> {}]} : snd.source}]
         /\ eng' = eng
      \/ a # 0 /\ NextRound(a, again)
      \/ a # 0 /\ eng' = [eng EXCEPT ![a] = again] /\ snd' = snd
  BY DEF OnRepair, sendVars
<1>5. ASSUME a # 0
      PROVE  /\ a \in Att /\ again \in Eng /\ Fits(again)
             /\ u => ~again.acked /\ again.pc # "saved"
  <2>1. a \in Att
    BY <1>3, <1>5 DEF Snd, Att
  <2> HIDE DEF a, miss
  <2> QED BY <1>2, <2>1, AttemptFacts, RequeuedTyped
<1>6. CASE /\ snd' = [snd EXCEPT !.stash = miss,
                                 !.asks = @ \cup {q \in {[by |-> "peer", have |-> {}]} : snd.source}]
           /\ eng' = eng
  <2> DEFINE asks == snd.asks \cup {q \in {[by |-> "peer", have |-> {}]} : snd.source}
  <2>1. asks \in SUBSET Ask /\ snd' = [snd EXCEPT !.stash = miss, !.asks = asks]
    BY <1>3, <1>6 DEF Snd, Ask
  <2>2. snd' \in Senders(u) /\ snd'.last = snd.last
    <3> HIDE DEF asks, miss
    <3> QED BY <1>2, <1>3, <2>1 DEF Senders, Snd
  <2> QED BY <1>1, <1>3, <1>6, <2>2 DEF SenderGoesOn, SendOK
<1>7. CASE a # 0 /\ NextRound(a, again)
  <2> HIDE DEF a, again
  <2> QED BY <1>1, <1>5, <1>7, NextRoundTyped DEF SenderGoesOn
<1>8. CASE a # 0 /\ eng' = [eng EXCEPT ![a] = again] /\ snd' = snd
  <2> HIDE DEF a, again
  <2> QED BY <1>1, <1>5, <1>8, EngineMoves DEF SendOK
<1> QED BY <1>1, <1>4, <1>6, <1>7, <1>8 DEF SenderGoesOn, SendOK

LEMMA OnDoneTyped ==
  ASSUME NEW u \in BOOLEAN, SendOK(u), NetOK(u), OnDone
  PROVE  SenderGoesOn(u) /\ ~u
<1>1. NetOK(u)' /\ ~u
  BY ControlTaken DEF OnDone
<1>2. snd \in Snd /\ eng \in Attempts(u)
  BY DEF SendOK, Senders
<1> DEFINE a == snd.task
           s == [snd EXCEPT !.delivery = "saved", !.source = FALSE]
           g == Refuse(eng)
           pc == IF g[a].pc = "ack" THEN "saved" ELSE g[a].pc
           e == [g[a] EXCEPT !.acked = TRUE, !.pc = pc]
<1>3. CASE a = 0
  BY <1>1, <1>3 DEF OnDone, sendVars, SenderGoesOn, SendOK
<1>4. CASE a # 0
  <2>1. s \in Senders(u) /\ s.last = snd.last
    BY <1>1, <1>2 DEF Senders, Snd, Delivery
  <2>2. snd' = Forget(s)
    BY <1>4 DEF OnDone
  <2>3. snd' \in Senders(u) /\ snd'.last = snd.last
    <3> HIDE DEF s
    <3> QED BY <2>1, <2>2, ForgetTyped
  <2>4. a \in Att /\ g \in Attempts(u)
    BY <1>2, <1>4, RefuseTyped DEF Snd, Att
  <2>5. g \in [Att -> Eng] /\ g[a] \in Eng /\ Fits(g[a])
    <3> HIDE DEF g
    <3> QED BY <2>4 DEF Attempts
  <2>6. eng' = [g EXCEPT ![a] = e]
    <3>1. eng' = [g EXCEPT ![a].acked = TRUE, ![a].pc = IF @ = "ack" THEN "saved" ELSE @]
      BY <1>4 DEF OnDone
    <3> HIDE DEF g, a
    <3>2. eng' = [g EXCEPT ![a] = [[g[a] EXCEPT !.acked = TRUE] EXCEPT !.pc = pc]]
      BY <2>4, <2>5, <3>1 DEF Eng
    <3> HIDE DEF pc
    <3> QED BY <3>2
  <2>7. e \in Eng /\ Fits(e)
    <3>1. pc \in Pc
      <4> HIDE DEF g, a
      <4> QED BY <2>5 DEF Eng, Pc
    <3> HIDE DEF g, a, pc
    <3> QED BY <2>5, <3>1 DEF Eng, Fits
  <2>8. eng' \in Attempts(u)
    <3> HIDE DEF g, a, e
    <3> QED BY <1>1, <2>4, <2>6, <2>7, OneChanges
  <2> QED BY <1>1, <2>3, <2>8 DEF SenderGoesOn, SendOK
<1> QED BY <1>1, <1>3, <1>4

LEMMA PausesTyped ==
  ASSUME NEW u \in BOOLEAN, SendOK(u), NetOK(u), OnPause \/ OnGo
  PROVE  SenderGoesOn(u)
<1> DEFINE s1 == [snd EXCEPT !.paused = TRUE]
           s2 == [snd EXCEPT !.paused = FALSE]
<1>1. /\ s1 \in Senders(u) /\ s1.last = snd.last
      /\ s2 \in Senders(u) /\ s2.last = snd.last /\ "paused" \in Card /\ "moving" \in Card
  BY DEF SendOK, Senders, Snd, Card
<1>2. NetOK(u)'
  BY ControlTaken DEF OnPause, OnGo
<1>3. \/ snd' = snd \/ snd' = Shown(s1, "paused") \/ snd' = Shown(s2, "moving")
  BY DEF OnPause, OnGo, sendVars
<1>4. eng' = eng \/ eng' = Wake(eng)
  BY DEF OnPause, OnGo, sendVars
<1> HIDE DEF s1, s2
<1> QED BY <1>1, <1>2, <1>3, <1>4, ShownTyped, WakeTyped DEF SenderGoesOn, SendOK

LEMMA OnResumeTyped ==
  ASSUME NEW u \in BOOLEAN, SendOK(u), NetOK(u), OnResume
  PROVE  SenderGoesOn(u)
<1> DEFINE q == [by |-> "peer", have |-> Head(net.control).c]
<1>1. NetOK(u)' /\ Head(net.control) \in Control
  BY ControlTaken DEF OnResume
<1>2. q \in Ask
  BY <1>1 DEF Control, Ask
<1>3. snd' \in Senders(u) /\ snd'.last = snd.last
  <2>1. snd' = snd \/ snd' = [snd EXCEPT !.asks = @ \cup {q}]
    BY DEF OnResume
  <2> HIDE DEF q
  <2> QED BY <1>2, <2>1 DEF SendOK, Senders, Snd
<1> QED BY <1>1, <1>3 DEF OnResume, SenderGoesOn, SendOK

LEMMA UserPauseTyped ==
  ASSUME NEW u \in BOOLEAN, SendOK(u), NetOK(u), UserPause
  PROVE  SenderGoesOn(u)
<1>1. snd' \in Senders(u) /\ snd'.last = snd.last
  BY DEF UserPause, SendOK, Senders, Snd, Card
<1>2. spent \in [Disturbance -> Nat] /\ "pause" \in Disturbance
  BY DEF NetOK, Disturbance
<1>3. NetOK(u)'
  BY <1>2, SpendTyped, NetKept DEF UserPause
<1> QED BY <1>1, <1>3 DEF UserPause, SenderGoesOn, SendOK

LEMMA UserResumeTyped ==
  ASSUME NEW u \in BOOLEAN, SendOK(u), NetOK(u), UserResume
  PROVE  SenderGoesOn(u)
<1>1. snd' \in Senders(u) /\ snd'.last = snd.last
  <2>1. [by |-> "user", have |-> {}] \in Ask
    BY DEF Ask
  <2> QED BY <2>1 DEF UserResume, SendOK, Senders, Snd
<1>2. NetOK(u)'
  BY NetKept DEF UserResume, wireVars, NetOK
<1> QED BY <1>1, <1>2 DEF UserResume, SenderGoesOn, SendOK

LEMMA UserCancelTyped ==
  ASSUME NEW u \in BOOLEAN, SendOK(u), NetOK(u), UserCancel
  PROVE  SenderGoesOn(u)
<1>1. snd' \in Senders(u) /\ snd'.last = snd.last
  <2>1. snd \in Snd /\ "none" \in Card /\ "none" \in Delivery
    BY DEF SendOK, Senders, Card, Delivery
  <2>2. snd' = [snd EXCEPT !.cancelled = TRUE, !.paused = FALSE, !.card = "none", !.delivery = "none",
                           !.closing = TRUE]
    BY DEF UserCancel
  <2>3. snd' \in Snd /\ snd'.last = snd.last /\ snd'.delivery = "none"
    BY <2>1, <2>2 DEF Snd
  <2> QED BY <2>3 DEF Senders
<1>2. spent' \in [Disturbance -> Nat]
  <2>1. spent \in [Disturbance -> Nat] /\ "cancel" \in Disturbance
    BY DEF NetOK, Disturbance
  <2> QED BY <2>1, SpendTyped DEF UserCancel
<1>3. net' \in Net /\ net'.control = net.control
  <2>1. net \in Net /\ net.cancel + 2 \in Nat
    BY DEF NetOK, Net
  <2>2. net' \in {net, [net EXCEPT !.cancel = net.cancel + 2]}
    BY DEF UserCancel
  <2> DEFINE c == net.cancel + 2
  <2>3. c \in Nat /\ net' \in {net, [net EXCEPT !.cancel = c]}
    BY <2>1, <2>2
  <2> HIDE DEF c
  <2> QED BY <2>1, <2>3 DEF Net
<1>4. NetOK(u)'
  BY <1>2, <1>3 DEF NetOK
<1> QED BY <1>1, <1>4, WakeTyped DEF UserCancel, SenderGoesOn, SendOK

LEMMA CloseDoneTyped ==
  ASSUME NEW u \in BOOLEAN, SendOK(u), NetOK(u), CloseDone
  PROVE  SenderGoesOn(u)
<1> DEFINE gates == snd.gates \ {Current(snd)}
           s == [snd EXCEPT !.gates = gates, !.active = 0, !.source = FALSE, !.closing = FALSE]
<1>1. s \in Senders(u) /\ s.last = snd.last
  <2>1. snd \in Snd /\ gates \in SUBSET Att /\ 0 \in 0 .. MaxAtt /\ (u => snd.delivery # "saved")
    BY AttAssumption DEF SendOK, Senders, Snd
  <2> HIDE DEF gates
  <2> QED BY <2>1 DEF Senders, Snd
<1>2. snd' = Forget(s) /\ eng' = Refuse(eng)
  BY DEF CloseDone
<1>3. NetOK(u)'
  BY NetKept DEF CloseDone, wireVars, NetOK
<1> HIDE DEF s
<1> QED BY <1>1, <1>2, <1>3, ForgetTyped, RefuseTyped DEF SenderGoesOn, SendOK

LEMMA ClosingTyped ==
  ASSUME NEW u \in BOOLEAN, SendOK(u), NetOK(u), Closing
  PROVE  SenderGoesOn(u)
<1>1. NetOK(u)'
  <2>1. spent \in [Disturbance -> Nat] /\ "timeout" \in Disturbance
    BY DEF NetOK, Disturbance
  <2> QED BY <2>1, SpendTyped, NetKept DEF Closing, Neutralise, Detach
<1>2. CASE Neutralise
  <2>1. snd \in Snd /\ (u => snd.delivery # "saved")
    BY DEF SendOK, Senders
  <2>2. Current(snd) \in Att
    <3>1. snd.task # 0 /\ snd.task \in 0 .. MaxAtt /\ snd.active \in 0 .. MaxAtt /\ MaxAtt \in Nat
      BY <1>2, <2>1, AttAssumption DEF Neutralise, LiveTask, Snd
    <3>2. Current(snd) = snd.task \/ (Current(snd) = snd.active /\ snd.active # 0)
      BY DEF Current
    <3> QED BY <3>1, <3>2 DEF Att
  <2> DEFINE gates == snd.gates \cup {Current(snd)}
  <2>3. gates \in SUBSET Att
    BY <2>1, <2>2 DEF Snd
  <2>4. snd' = [snd EXCEPT !.cancelled = TRUE, !.paused = FALSE, !.soft = TRUE, !.gates = gates]
    BY <1>2 DEF Neutralise
  <2> HIDE DEF gates
  <2>5. snd' \in Senders(u) /\ snd'.last = snd.last
    BY <2>1, <2>3, <2>4 DEF Senders, Snd
  <2> QED BY <1>1, <1>2, <2>5, WakeTyped DEF Neutralise, SenderGoesOn, SendOK
<1>3. CASE Detach
  <2> DEFINE s == [snd EXCEPT !.source = FALSE, !.closing = FALSE]
  <2>1. s \in Senders(u) /\ s.last = snd.last
    BY DEF SendOK, Senders, Snd
  <2>2. snd' = Forget(s) /\ eng' = Refuse(eng)
    BY <1>3 DEF Detach
  <2> HIDE DEF s
  <2> QED BY <1>1, <2>1, <2>2, ForgetTyped, RefuseTyped DEF SenderGoesOn, SendOK
<1> QED BY <1>2, <1>3 DEF Closing

\* Every step of the sender.
SenderMoves == SenderActs \/ \E a \in Att : Refused(a)

LEMMA SenderTyped ==
  ASSUME NEW u \in BOOLEAN, SendOK(u), NetOK(u), SenderMoves
  PROVE  SenderGoesOn(u)
<1>1. ASSUME NEW a \in Att, EngineStep(a)
      PROVE  SenderGoesOn(u)
  BY <1>1, SaveDoneTyped, RoundEndsTyped, DrainedTyped, CancelSeenTyped, ReturnsTyped, TakeTyped,
     SendChunkTyped DEF EngineStep
<1>2. ASSUME NEW a \in Att, Expires(a)
      PROVE  SenderGoesOn(u)
  BY <1>2, RefusedTyped, AckTimeoutTyped DEF Expires
<1>3. CASE SenderHears
  BY <1>3, OnReadyTyped, OnRejectTyped, OnCancelTyped, OnRepairTyped, OnDoneTyped, PausesTyped, OnResumeTyped
     DEF SenderHears
<1>4. CASE Asked
  BY <1>4, AnswerAskTyped, AskFailsTyped DEF Asked
<1> QED BY <1>1, <1>2, <1>3, <1>4, StartTyped, UserPauseTyped, UserResumeTyped, CloseDoneTyped, ClosingTyped,
           UserCancelTyped, LaneDiesTyped, RefusedTyped DEF SenderMoves, SenderActs

(***************************************************************************)
(* The receiver.  While u, the file is not handed over, no ACK of it is    *)
(* queued, and none is in flight.                                          *)
(***************************************************************************)

Receivers(u) == {r \in Rcv : IsFiniteSet(r.hs) /\ (u => ~r.ackq)}

Disks(u) == {d \in Disk : u => d.out = "none"}

Wires(u) == {w \in Net : u => w.control \in Seq(Undone)}

RecvOK(u) == rcv \in Receivers(u) /\ disk \in Disks(u)

Receives(u) == RecvOK(u)' /\ NetOK(u)'

LEMMA WiresKept ==
  ASSUME NEW u \in BOOLEAN, NetOK(u)
  PROVE  net \in Wires(u)
BY DEF NetOK, Wires

LEMMA WiresMove ==
  ASSUME NEW u \in BOOLEAN, net' \in Wires(u), spent' \in [Disturbance -> Nat]
  PROVE  NetOK(u)'
BY DEF NetOK, Wires

LEMMA BlankTyped ==
  ASSUME NEW u \in BOOLEAN, NEW m \in Session
  PROVE  Blank(m) \in Receivers(u)
<1>1. IsFiniteSet({})
  BY FS_EmptySet
<1>2. 0 \in Session /\ 0 \in 0 .. MaxAtt
  BY AttAssumption DEF Session
<1> QED BY <1>1, <1>2 DEF Blank, Receivers, Rcv

\* Fields whose change leaves a receiver's memory well typed.
LEMMA AbortingTyped ==
  ASSUME NEW u \in BOOLEAN, NEW r \in Receivers(u), NEW next \in {"nothing", "clear", "forget"}
  PROVE  Aborting(r, next) \in Receivers(u)
<1> DEFINE aborts == r.aborts \cup {[tok |-> r.tok, ph |-> "drain", next |-> next]}
<1>1. r \in Rcv /\ IsFiniteSet(r.hs) /\ (u => ~r.ackq)
  BY DEF Receivers
<1>2. aborts \in SUBSET Cleaning
  BY <1>1 DEF Rcv, Cleaning
<1>3. Aborting(r, next) = [r EXCEPT !.cancelled = TRUE, !.paused = FALSE, !.aborts = aborts]
  BY DEF Aborting
<1> HIDE DEF aborts
<1>4. Aborting(r, next) \in Rcv
  BY <1>1, <1>2, <1>3 DEF Rcv
<1>5. Aborting(r, next).hs = r.hs /\ Aborting(r, next).ackq = r.ackq
  BY <1>1, <1>3 DEF Rcv
<1> QED BY <1>1, <1>4, <1>5 DEF Receivers

LEMMA DropSessionTyped ==
  ASSUME NEW u \in BOOLEAN, NEW r \in Receivers(u)
  PROVE  DropSession(r) \in Receivers(u)
<1> DEFINE fly == {[w EXCEPT !.live = FALSE] : w \in r.fly}
<1>1. r \in Rcv /\ IsFiniteSet(r.hs) /\ (u => ~r.ackq)
  BY DEF Receivers
<1>2. fly \in SUBSET Write
  <2>1. r.fly \in SUBSET Write
    BY <1>1 DEF Rcv
  <2>2. \A w \in Write : [w EXCEPT !.live = FALSE] \in Write
    BY DEF Write
  <2> QED BY <2>1, <2>2
<1>3. DropSession(r) = [r EXCEPT !.ses = 0, !.tok = 0, !.short = 0, !.got = {}, !.buf = {}, !.res = "none",
                                 !.fly = fly]
  BY DEF DropSession
<1>4. 0 \in Session /\ 0 \in 0 .. MaxAtt
  BY AttAssumption DEF Session
<1> HIDE DEF fly
<1>5. DropSession(r) \in Rcv
  <2> DEFINE s == [r EXCEPT !.ses = 0, !.tok = 0, !.short = 0]
             t == [s EXCEPT !.got = {}, !.buf = {}, !.res = "none"]
  <2>1. DropSession(r) = [t EXCEPT !.fly = fly]
    BY <1>3
  <2>2. s \in Rcv
    BY <1>1, <1>4 DEF Rcv
  <2> HIDE DEF s
  <2>3. t \in Rcv
    BY <2>2 DEF Rcv
  <2> HIDE DEF t
  <2> QED BY <1>2, <2>1, <2>3 DEF Rcv
<1>6. DropSession(r).hs = r.hs /\ DropSession(r).ackq = r.ackq
  BY <1>1, <1>3 DEF Rcv
<1> QED BY <1>1, <1>5, <1>6 DEF Receivers

LEMMA UnmappedTyped ==
  ASSUME NEW u \in BOOLEAN, NEW r \in Receivers(u), NEW a
  PROVE  Unmapped(r, a) \in Receivers(u) /\ [r EXCEPT !.map = 0] \in Receivers(u)
<1>1. r \in Rcv /\ IsFiniteSet(r.hs) /\ (u => ~r.ackq) /\ 0 \in 0 .. MaxAtt
  BY AttAssumption DEF Receivers
<1>2. [r EXCEPT !.map = 0] \in Receivers(u)
  BY <1>1 DEF Receivers, Rcv
<1> QED BY <1>2 DEF Unmapped

LEMMA DeliveryFailedTyped ==
  ASSUME NEW u \in BOOLEAN, NEW r \in Receivers(u)
  PROVE  DeliveryFailed(r) \in Receivers(u)
<1> DEFINE s == [r EXCEPT !.delivered = FALSE, !.fin = "no", !.map = 0]
<1>1. s \in Receivers(u)
  <2>1. r \in Rcv /\ IsFiniteSet(r.hs) /\ (u => ~r.ackq) /\ 0 \in 0 .. MaxAtt
    BY AttAssumption DEF Receivers
  <2>2. s \in Rcv /\ s.hs = r.hs /\ s.ackq = r.ackq
    BY <2>1 DEF Rcv
  <2> HIDE DEF s
  <2> QED BY <2>1, <2>2 DEF Receivers
<1>2. DeliveryFailed(r) = Aborting(s, "clear")
  BY DEF DeliveryFailed
<1> HIDE DEF s
<1> QED BY <1>1, <1>2, AbortingTyped

LEMMA DeliverTyped ==
  ASSUME NEW u \in BOOLEAN, NEW r \in Receivers(u)
  PROVE  Deliver(r) \in Receivers(u)
<1>1. [r EXCEPT !.delivered = TRUE, !.fin = "join"] \in Receivers(u)
  <2> DEFINE s == [r EXCEPT !.delivered = TRUE, !.fin = "join"]
  <2>1. r \in Rcv /\ IsFiniteSet(r.hs) /\ (u => ~r.ackq)
    BY DEF Receivers
  <2>2. s \in Rcv /\ s.hs = r.hs /\ s.ackq = r.ackq
    BY <2>1 DEF Rcv
  <2> HIDE DEF s
  <2>3. s \in Receivers(u)
    BY <2>1, <2>2 DEF Receivers
  <2> QED BY <2>3 DEF s
<1>2. Deliver(r) \in {r, DeliveryFailed(r), [r EXCEPT !.delivered = TRUE, !.fin = "join"]}
  <2>1. r.delivered \in BOOLEAN
    BY DEF Receivers, Rcv
  <2> QED BY <2>1 DEF Deliver
<1> QED BY <1>1, <1>2, DeliveryFailedTyped

LEMMA DiskOps ==
  ASSUME NEW u \in BOOLEAN, NEW d \in Disks(u), NEW bm \in SUBSET Chunk,
         NEW st \in {"active", "failed", "completed"}
  PROVE  RowBitmap(d, bm) \in Disks(u) /\ RowStatus(d, st) \in Disks(u)
<1>1. d \in Disk /\ d.row \in Row /\ (u => d.out = "none")
  BY DEF Disks, Disk
<1>2. [d.row EXCEPT !.bm = bm] \in Row /\ [d.row EXCEPT !.st = st] \in Row
  BY <1>1 DEF Row
<1>3. ASSUME NEW row \in Row
      PROVE  [d EXCEPT !.row = row] \in Disks(u)
  BY <1>1 DEF Disks, Disk
<1>4. [d EXCEPT !.row = [d.row EXCEPT !.bm = bm]] \in Disks(u)
  BY <1>2, <1>3
<1>5. [d EXCEPT !.row = [d.row EXCEPT !.st = st]] \in Disks(u)
  BY <1>2, <1>3
<1> QED BY <1>4, <1>5 DEF RowBitmap, RowStatus

LEMMA WrittenTyped ==
  ASSUME NEW u \in BOOLEAN, NEW d \in Disks(u), NEW r, r.handle \in BOOLEAN, NEW i \in Chunk
  PROVE  Written(r, d, i) \in Disks(u)
<1>1. Streamed \in BOOLEAN
  BY ModeAssumption
<1>2. [d EXCEPT !.swap = @ \cup {i}] \in Disks(u) /\ [d EXCEPT !.idb = @ \cup {i}] \in Disks(u)
  BY DEF Disks, Disk
<1>3. Written(r, d, i) \in {d, [d EXCEPT !.swap = @ \cup {i}], [d EXCEPT !.idb = @ \cup {i}]}
  BY <1>1 DEF Written
<1> QED BY <1>2, <1>3

LEMMA JoinedTyped ==
  ASSUME NEW u \in BOOLEAN, NEW r \in Receivers(u), NEW h \in Handler
  PROVE  Joined(r, h) \in Receivers(u)
<1> DEFINE t == IF r.prep = Absent THEN r.tok ELSE r.prep
           g == [h EXCEPT !.ph = "prep", !.tok = t]
           hs == r.hs \cup {g}
<1>1. r \in Rcv /\ IsFiniteSet(r.hs) /\ (u => ~r.ackq)
  BY DEF Receivers
<1>2. t \in Session
  BY <1>1 DEF Rcv
<1>3. g \in Handler
  <2> HIDE DEF t
  <2> QED BY <1>2 DEF Handler
<1>4. hs \in SUBSET Handler /\ IsFiniteSet(hs)
  <2>1. r.hs \in SUBSET Handler
    BY <1>1 DEF Rcv
  <2> HIDE DEF g
  <2> QED BY <1>1, <1>3, <2>1, FS_AddElement
<1>5. Joined(r, h) = [r EXCEPT !.prep = t, !.hs = hs]
  BY DEF Joined
<1> HIDE DEF t, hs
<1> DEFINE j == [r EXCEPT !.prep = t, !.hs = hs]
<1>6. Joined(r, h) \in Rcv /\ Joined(r, h).hs = hs /\ Joined(r, h).ackq = r.ackq
  <2>1. j \in Rcv
    BY <1>1, <1>2, <1>4 DEF Rcv
  <2>2. j.hs = hs
    BY <1>1 DEF Rcv
  <2>3. j.ackq = r.ackq
    BY <1>1 DEF Rcv
  <2> HIDE DEF j
  <2>4. Joined(r, h) = j
    BY <1>5 DEF j
  <2> QED BY <2>1, <2>2, <2>3, <2>4
<1> QED BY <1>1, <1>4, <1>6 DEF Receivers

LEMMA SayTyped ==
  ASSUME NEW u \in BOOLEAN, NEW w \in Wires(u), NEW ms \in Seq(Control), u => ms \in Seq(Undone)
  PROVE  Say(w, ms) \in Wires(u)
<1>1. w \in Net /\ w.control \in Seq(Control) /\ (u => w.control \in Seq(Undone))
  BY DEF Wires, Net
<1> DEFINE control == w.control \o ms
<1>2. control \in Seq(Control) /\ (u => control \in Seq(Undone))
  BY <1>1
<1>3. [w EXCEPT !.control = control] \in Wires(u)
  <2> HIDE DEF control
  <2> QED BY <1>1, <1>2 DEF Wires, Net
<1> QED BY <1>3 DEF Say

Answer == {"ready", "reject", "cancel"}

\* The answers ts to all of H, each of which may get them.
LEMMA AnswersTyped ==
  ASSUME NEW u \in BOOLEAN, NEW w \in Wires(u), NEW H, IsFiniteSet(H), NEW k \in Nat, NEW ts \in [1 .. k -> Answer],
         \A x \in H : x.l \in Lane /\ \A j \in 1 .. k : [t |-> ts[j], a |-> x.a] \in Reply
  PROVE  /\ Answers(w, H, ts) \in Wires(u)
         /\ Answers(w, H, ts).up = w.up /\ Answers(w, H, ts).out = w.out
<1> DEFINE S == {x \in H : x.l \in w.lanes}
           back == Answered(w.back, ts, S)
<1>1. w \in Net /\ w.back \in Backs
  BY DEF Wires, Net, Backs
<1>2. IsFiniteSet(S)
  BY FS_Subset
<1>3. \A x \in S, b \in Backs : Put(b, x, ts) \in Backs
  <2>1. ts \in [1 .. k -> {"ready", "reject", "cancel"}]
    BY DEF Answer
  <2> QED BY <2>1, PutTyped
<1>4. back \in Backs
  <2> HIDE DEF S
  <2> QED BY <1>1, <1>2, <1>3, PutsTyped
<1>5. Answers(w, H, ts) = [w EXCEPT !.back = back]
  BY AnswersUnfold
<1> HIDE DEF back
<1> QED BY <1>1, <1>4, <1>5 DEF Wires, Net, Backs

LEMMA ToldTyped ==
  ASSUME NEW u \in BOOLEAN, NEW r \in Receivers(u), NEW w \in Wires(u), NEW H \in SUBSET Handler, IsFiniteSet(H),
         NEW res
  PROVE  Told(r, w, H, res).r \in Receivers(u) /\ Told(r, w, H, res).w \in Wires(u)
<1> DEFINE stale == {h \in H : h.st}
           current == H \ stale
           dead == IF res = "bad" THEN H ELSE stale
           answer == IF res = "bad" THEN <<"reject", "cancel">> ELSE <<"ready">>
           r1 == IF dead = {} THEN r ELSE Aborting(r, "nothing")
           r2 == IF \E h \in dead : h.a = r.map THEN [r1 EXCEPT !.map = 0] ELSE r1
           r3 == IF res = "full" /\ current # {} THEN Deliver(r2) ELSE r2
<1>1. Told(r, w, H, res) = [w |-> Answers(w, current, answer), r |-> r3]
  BY DEF Told
<1>2. r1 \in Receivers(u)
  BY AbortingTyped
<1>3. r2 \in Receivers(u)
  <2> HIDE DEF r1, dead
  <2> QED BY <1>2, UnmappedTyped
<1>4. r3 \in Receivers(u)
  <2> HIDE DEF r2, current
  <2> QED BY <1>3, DeliverTyped
<1>5. Answers(w, current, answer) \in Wires(u)
  <2>1. IsFiniteSet(current) /\ current \in SUBSET Handler
    BY FS_Subset
  <2>2. \A x \in Handler : x.l \in Lane /\ x.a \in Att /\ x.a \in 0 .. MaxAtt
    BY DEF Handler, Att
  <2>3. CASE res = "bad"
    <3>1. answer = <<"reject", "cancel">>
      BY <2>3
    <3>2. answer \in [1 .. 2 -> Answer] /\ answer[1] = "reject" /\ answer[2] = "cancel"
      BY <3>1 DEF Answer
    <3>3. \A x \in current : x.l \in Lane /\ \A j \in 1 .. 2 : [t |-> answer[j], a |-> x.a] \in Reply
      <4>1. ASSUME NEW x \in current, NEW j \in 1 .. 2
            PROVE  [t |-> answer[j], a |-> x.a] \in Reply
        <5>1. j = 1 \/ j = 2
          OBVIOUS
        <5>2. x.a \in 0 .. MaxAtt
          BY <2>1, <2>2
        <5> HIDE DEF answer, current
        <5> QED BY <3>2, <5>1, <5>2 DEF Reply
      <4> HIDE DEF answer, current
      <4> QED BY <2>1, <2>2, <4>1
    <3> HIDE DEF answer, current
    <3> QED BY <2>1, <3>2, <3>3, AnswersTyped
  <2>4. CASE res # "bad"
    <3>1. answer = <<"ready">>
      BY <2>4
    <3>2. answer \in [1 .. 1 -> Answer] /\ answer[1] = "ready"
      BY <3>1 DEF Answer
    <3>3. \A x \in current : x.l \in Lane /\ \A j \in 1 .. 1 : [t |-> answer[j], a |-> x.a] \in Reply
      <4>1. ASSUME NEW x \in current, NEW j \in 1 .. 1
            PROVE  [t |-> answer[j], a |-> x.a] \in Reply
        <5>1. j = 1
          OBVIOUS
        <5>2. x.a \in Att
          BY <2>1, <2>2
        <5> HIDE DEF answer, current
        <5> QED BY <3>2, <5>1, <5>2 DEF Reply
      <4> HIDE DEF answer, current
      <4> QED BY <2>1, <2>2, <4>1
    <3> HIDE DEF answer, current
    <3> QED BY <2>1, <3>2, <3>3, AnswersTyped
  <2> QED BY <2>3, <2>4
<1> HIDE DEF r3, current, answer
<1> QED BY <1>1, <1>4, <1>5

LEMMA PrepareTyped ==
  ASSUME NEW u \in BOOLEAN, NEW r \in Receivers(u), NEW w \in Wires(u), NEW h \in Handler
  PROVE  Prepare(r, w, h).r \in Receivers(u) /\ Prepare(r, w, h).w \in Wires(u)
<1>1. {h} \in SUBSET Handler /\ IsFiniteSet({h})
  BY FS_Singleton
<1>2. Told(r, w, {h}, r.res).r \in Receivers(u) /\ Told(r, w, {h}, r.res).w \in Wires(u)
  BY <1>1, ToldTyped
<1> QED BY <1>2, JoinedTyped DEF Prepare

LEMMA ChunkFailsTyped ==
  ASSUME NEW u \in BOOLEAN, NEW r \in Receivers(u), NEW w \in Wires(u), NEW L \in SUBSET Lane
  PROVE  ChunkFails(r, w, L).r \in Receivers(u) /\ ChunkFails(r, w, L).w \in Wires(u)
<1> DEFINE s == Aborting(r, "nothing")
           H == {[l |-> l, a |-> r.map] : l \in L}
           ts == <<"cancel", "reject">>
<1>1. s \in Receivers(u) /\ [s EXCEPT !.map = 0] \in Receivers(u)
  <2>1. s \in Receivers(u)
    BY AbortingTyped
  <2> HIDE DEF s
  <2> QED BY <2>1, UnmappedTyped
<1>2. Answers(w, H, ts) \in Wires(u)
  <2>1. IsFiniteSet(L)
    BY SizeAssumption, FS_Subset
  <2>2. IsFiniteSet(H)
    <3> DEFINE f == [l \in L |-> [l |-> l, a |-> r.map]]
    <3>1. f \in Surjection(L, H)
      BY DEF Surjection
    <3> HIDE DEF f, H
    <3> QED BY <2>1, <3>1, FS_Surjection
  <2>3. ts \in [1 .. 2 -> Answer] /\ ts[1] = "cancel" /\ ts[2] = "reject"
    BY DEF Answer
  <2>4. r.map \in 0 .. MaxAtt
    BY DEF Receivers, Rcv
  <2>5. \A x \in H : x.l \in Lane /\ \A j \in 1 .. 2 : [t |-> ts[j], a |-> x.a] \in Reply
    <3>1. ASSUME NEW x \in H, NEW j \in 1 .. 2
          PROVE  [t |-> ts[j], a |-> x.a] \in Reply
      <4>1. x.a = r.map /\ (j = 1 \/ j = 2)
        OBVIOUS
      <4> HIDE DEF ts, H
      <4> QED BY <2>3, <2>4, <4>1 DEF Reply
    <3>2. \A x \in H : x.l \in Lane
      OBVIOUS
    <3> HIDE DEF ts, H
    <3> QED BY <3>1, <3>2
  <2> HIDE DEF H, ts
  <2> QED BY <2>2, <2>3, <2>5, AnswersTyped
<1>3. ChunkFails(r, w, L) = IF L = {} THEN [r |-> r, w |-> w]
                            ELSE [r |-> [s EXCEPT !.map = 0], w |-> Answers(w, H, ts)]
  BY DEF ChunkFails
<1> HIDE DEF s, H, ts
<1> QED BY <1>1, <1>2, <1>3

LEMMA FlushedTyped ==
  ASSUME NEW u \in BOOLEAN, NEW r \in Receivers(u), NEW w \in Wires(u)
  PROVE  Flushed(r, w).r \in Receivers(u) /\ Flushed(r, w).w \in Wires(u)
<1>1. CASE w.up = "open" /\ r.ackq
  <2>1. ~u
    BY <1>1 DEF Receivers
  <2>2. <<Ctl("done")>> \in Seq(Control)
    BY DEF Ctl, Control
  <2>3. Say(w, <<Ctl("done")>>) \in Wires(u)
    BY <2>1, <2>2, SayTyped
  <2>4. [r EXCEPT !.ackq = FALSE] \in Receivers(u)
    <3>1. r \in Rcv /\ IsFiniteSet(r.hs)
      BY DEF Receivers
    <3>2. [r EXCEPT !.ackq = FALSE] \in Rcv /\ [r EXCEPT !.ackq = FALSE].hs = r.hs
      BY <3>1 DEF Rcv
    <3> QED BY <2>1, <3>1, <3>2 DEF Receivers
  <2> QED BY <1>1, <2>3, <2>4 DEF Flushed
<1>2. CASE ~(w.up = "open" /\ r.ackq)
  BY <1>2 DEF Flushed
<1> QED BY <1>1, <1>2

(***************************************************************************)
(* The receiver's steps.                                                   *)
(***************************************************************************)

LEMMA ReceiverFacts ==
  ASSUME NEW u \in BOOLEAN, RecvOK(u), NetOK(u)
  PROVE  /\ rcv \in Receivers(u) /\ rcv \in Rcv /\ IsFiniteSet(rcv.hs) /\ (u => ~rcv.ackq)
         /\ disk \in Disks(u) /\ disk \in Disk /\ disk.row \in Row /\ (u => disk.out = "none")
         /\ net \in Wires(u) /\ net \in Net /\ spent \in [Disturbance -> Nat]
BY WiresKept DEF RecvOK, NetOK, Receivers, Disks, Disk

LEMMA OutTakenWires ==
  ASSUME NEW u \in BOOLEAN, NetOK(u), NEW l \in Lane, NEW t, Arrives(l, t)
  PROVE  TakeOut(l) \in Wires(u) /\ Head(net.out[l]) \in Sent
BY OutTaken DEF NetOK, Wires

LEMMA OnMetaTyped ==
  ASSUME NEW u \in BOOLEAN, RecvOK(u), NetOK(u), NEW l \in Lane, OnMeta(l)
  PROVE  Receives(u)
<1> DEFINE a == Head(net.out[l]).a
           h == [l |-> l, a |-> a, ph |-> "read", ses |-> rcv.ses, tok |-> rcv.tok, st |-> FALSE]
           routed == [rcv EXCEPT !.map = a, !.short = a]
           w == TakeOut(l)
           m == rcv.minted + 1
           g == [h EXCEPT !.ses = m, !.tok = m]
           hs == rcv.hs \cup {g}
           s == [routed EXCEPT !.ses = m, !.tok = m, !.minted = m, !.hs = hs]
<1>1. /\ rcv \in Receivers(u) /\ rcv \in Rcv /\ IsFiniteSet(rcv.hs) /\ (u => ~rcv.ackq)
      /\ disk \in Disks(u) /\ spent \in [Disturbance -> Nat]
  BY ReceiverFacts
<1>2. w \in Wires(u) /\ a \in Att /\ a \in 0 .. MaxAtt
  <2>1. w \in Wires(u) /\ Head(net.out[l]) \in Sent
    BY OutTakenWires DEF OnMeta
  <2> QED BY <2>1 DEF Sent, Att
<1>3. h \in Handler
  <2> HIDE DEF a
  <2> QED BY <1>1, <1>2 DEF Rcv, Handler
<1>4. routed \in Receivers(u) /\ routed \in Rcv /\ routed.hs = rcv.hs /\ routed.ackq = rcv.ackq
  <2> HIDE DEF a
  <2>1. routed \in Rcv /\ routed.hs = rcv.hs /\ routed.ackq = rcv.ackq
    BY <1>1, <1>2 DEF Rcv
  <2> HIDE DEF routed
  <2> QED BY <1>1, <2>1 DEF Receivers
<1>5. disk' = disk /\ spent' = spent
  BY DEF OnMeta
<1>6. CASE rcv' = Prepare(routed, w, h).r /\ net' = Prepare(routed, w, h).w
  <2> HIDE DEF routed, w, h
  <2>1. rcv' \in Receivers(u) /\ net' \in Wires(u)
    BY <1>2, <1>3, <1>4, <1>6, PrepareTyped
  <2> QED BY <1>1, <1>5, <2>1, WiresMove DEF Receives, RecvOK
<1>7. CASE m <= MaxMint /\ rcv' = s /\ net' = w
  <2>1. m \in Session
    BY <1>1, <1>7 DEF Rcv, Session
  <2>2. g \in Handler
    <3> HIDE DEF h, m
    <3> QED BY <1>3, <2>1 DEF Handler
  <2>3. hs \in SUBSET Handler /\ IsFiniteSet(hs)
    <3>1. rcv.hs \in SUBSET Handler
      BY <1>1 DEF Rcv
    <3> HIDE DEF g
    <3> QED BY <1>1, <2>2, <3>1, FS_AddElement
  <2>4. s \in Rcv /\ s.hs = hs /\ s.ackq = rcv.ackq
    <3> HIDE DEF routed, m, hs
    <3> QED BY <1>4, <2>1, <2>3 DEF Rcv
  <2>5. rcv' \in Receivers(u)
    <3> HIDE DEF s, hs
    <3> QED BY <1>1, <1>7, <2>3, <2>4 DEF Receivers
  <2> HIDE DEF w
  <2> QED BY <1>1, <1>2, <1>5, <1>7, <2>5, WiresMove DEF Receives, RecvOK
<1> QED BY <1>6, <1>7 DEF OnMeta

LEMMA RestoreDoneTyped ==
  ASSUME NEW u \in BOOLEAN, RecvOK(u), NetOK(u), NEW h, RestoreDone(h)
  PROVE  Receives(u)
<1> DEFINE mine == rcv.ses = h.ses
           prior == IF disk.row.st = "none" THEN {} ELSE disk.row.bm \cup disk.idb
           tok == IF disk.row.st = "none" THEN h.tok ELSE disk.row.tok
           hs == rcv.hs \ {h}
           r0 == [rcv EXCEPT !.hs = hs]
           got == r0.got \cup prior
           r1 == IF mine THEN [r0 EXCEPT !.got = got, !.tok = tok] ELSE r0
           row == [st |-> "active", tok |-> tok, bm |-> IF mine THEN r1.got ELSE prior]
<1>1. /\ rcv \in Rcv /\ IsFiniteSet(rcv.hs) /\ (u => ~rcv.ackq) /\ rcv.hs \in SUBSET Handler
      /\ disk \in Disk /\ disk.row \in Row /\ (u => disk.out = "none") /\ net \in Wires(u)
      /\ spent \in [Disturbance -> Nat]
  BY ReceiverFacts DEF Rcv
<1>2. h \in Handler /\ h \in rcv.hs
  BY <1>1 DEF RestoreDone
<1>3. prior \in SUBSET Chunk /\ tok \in Session
  <2>1. disk.row.bm \in SUBSET Chunk /\ disk.idb \in SUBSET Chunk /\ disk.row.tok \in Session
    BY <1>1 DEF Disk, Row
  <2>2. h.tok \in Session
    BY <1>2 DEF Handler
  <2> QED BY <2>1, <2>2
<1>4. r0 \in Rcv /\ r0.hs = hs /\ r0.ackq = rcv.ackq /\ IsFiniteSet(hs)
  <2>1. IsFiniteSet(hs) /\ hs \in SUBSET Handler
    BY <1>1, FS_Subset
  <2> HIDE DEF hs
  <2> QED BY <1>1, <2>1 DEF Rcv
<1>5. r1 \in Rcv /\ r1.hs = hs /\ r1.ackq = rcv.ackq
  <2>1. got \in SUBSET Chunk
    <3> HIDE DEF r0, prior
    <3> QED BY <1>3, <1>4 DEF Rcv
  <2> DEFINE r2 == [r0 EXCEPT !.got = got, !.tok = tok]
  <2>2. r1 = IF mine THEN r2 ELSE r0
    OBVIOUS
  <2> HIDE DEF r0, got, tok, mine, hs, r1
  <2>3. r2 \in Rcv
    BY <1>3, <1>4, <2>1 DEF Rcv
  <2>4. r2.hs = r0.hs /\ r2.ackq = r0.ackq
    BY <1>4 DEF Rcv
  <2> HIDE DEF r2
  <2> QED BY <1>4, <2>2, <2>3, <2>4
<1>6. r1 \in Receivers(u)
  <2> HIDE DEF r1, hs
  <2> QED BY <1>1, <1>4, <1>5 DEF Receivers
<1>7. disk' = [disk EXCEPT !.row = row]
  BY DEF RestoreDone
<1>8. disk' \in Disks(u)
  <2>1. row \in Row
    <3> HIDE DEF r1, prior, tok, mine
    <3> QED BY <1>3, <1>5 DEF Row, Rcv
  <2> HIDE DEF row
  <2> QED BY <1>1, <1>7, <2>1 DEF Disks, Disk
<1>9. \/ rcv' = Unmapped(Aborting(r1, "nothing"), h.a) /\ net' = net
      \/ rcv' = Prepare(r1, net, h).r /\ net' = Prepare(r1, net, h).w
  BY DEF RestoreDone
<1>10. rcv' \in Receivers(u) /\ net' \in Wires(u)
  <2> HIDE DEF r1
  <2>1. Unmapped(Aborting(r1, "nothing"), h.a) \in Receivers(u)
    BY <1>6, AbortingTyped, UnmappedTyped
  <2>2. Prepare(r1, net, h).r \in Receivers(u) /\ Prepare(r1, net, h).w \in Wires(u)
    BY <1>1, <1>2, <1>6, PrepareTyped
  <2> QED BY <1>1, <1>9, <2>1, <2>2
<1>11. spent' = spent
  BY DEF RestoreDone
<1> QED BY <1>1, <1>8, <1>10, <1>11, WiresMove DEF Receives, RecvOK

LEMMA PrepDoneTyped ==
  ASSUME NEW u \in BOOLEAN, RecvOK(u), NetOK(u), NEW t, PrepDone(t)
  PROVE  Receives(u)
<1> DEFINE H == {h \in rcv.hs : h.ph = "prep" /\ h.tok = t}
           alive == rcv.ses # 0 /\ rcv.tok = t
           foreign == ~Legacy /\ \E x \in rcv.buf : x[1] # rcv.short
           indexes == IF alive /\ ~foreign THEN {x[2] : x \in rcv.buf} ELSE {}
           got == rcv.got \cup indexes
           res == CASE ~alive \/ foreign -> "bad" [] alive /\ ~foreign /\ got = Chunk -> "full" [] OTHER -> "ok"
           hs == rcv.hs \ H
           prep == IF rcv.prep = t THEN Absent ELSE rcv.prep
           handle == Streamed /\ alive
           r0 == [rcv EXCEPT !.hs = hs, !.prep = prep, !.handle = handle]
           r1 == IF alive THEN [r0 EXCEPT !.buf = {}, !.got = got, !.res = res] ELSE r0
           d == IF Streamed THEN [disk EXCEPT !.swap = indexes] ELSE [disk EXCEPT !.idb = @ \cup indexes]
           on == Told(r1, net, H, res)
<1>1. /\ rcv \in Rcv /\ IsFiniteSet(rcv.hs) /\ (u => ~rcv.ackq) /\ rcv.hs \in SUBSET Handler
      /\ disk \in Disks(u) /\ disk \in Disk /\ net \in Wires(u) /\ spent \in [Disturbance -> Nat]
  BY ReceiverFacts DEF Rcv
<1>2. indexes \in SUBSET Chunk /\ got \in SUBSET Chunk
  <2>1. rcv.buf \in SUBSET (Att \X Chunk) /\ rcv.got \in SUBSET Chunk
    BY <1>1 DEF Rcv
  <2>2. \A x \in rcv.buf : x[2] \in Chunk
    BY <2>1
  <2>3. indexes \in SUBSET Chunk
    <3> HIDE DEF alive, foreign
    <3> QED BY <2>2
  <2> HIDE DEF indexes
  <2> QED BY <2>1, <2>3
<1>3. res \in {"ok", "full", "bad"}
  <2> HIDE DEF alive, foreign, got
  <2> QED OBVIOUS
<1>4. H \in SUBSET Handler /\ IsFiniteSet(H) /\ hs \in SUBSET Handler /\ IsFiniteSet(hs)
  BY <1>1, FS_Subset
<1>5. prep \in Session \cup {Absent} /\ handle \in BOOLEAN
  BY <1>1, ModeAssumption DEF Rcv
<1>6. r0 \in Rcv /\ r0.hs = hs /\ r0.ackq = rcv.ackq
  <2> HIDE DEF hs, prep, handle
  <2> QED BY <1>1, <1>4, <1>5 DEF Rcv
<1>7. r1 \in Rcv /\ r1.hs = hs /\ r1.ackq = rcv.ackq
  <2> DEFINE s == [r0 EXCEPT !.buf = {}, !.got = got, !.res = res]
  <2>1. r1 = IF alive THEN s ELSE r0
    OBVIOUS
  <2> HIDE DEF r0, r1, got, res, alive, hs
  <2>2. s \in Rcv
    BY <1>2, <1>3, <1>6 DEF Rcv
  <2>3. s.hs = hs /\ s.ackq = rcv.ackq
    BY <1>6 DEF Rcv
  <2> QED BY <1>6, <2>1, <2>2, <2>3
<1>8. r1 \in Receivers(u)
  <2> HIDE DEF r1, hs
  <2> QED BY <1>1, <1>4, <1>7 DEF Receivers
<1>9. d \in Disks(u)
  <2> DEFINE idb == disk.idb \cup indexes
  <2>1. idb \in SUBSET Chunk /\ (u => disk.out = "none")
    BY <1>1, <1>2 DEF Disks, Disk
  <2>2. d = IF Streamed THEN [disk EXCEPT !.swap = indexes] ELSE [disk EXCEPT !.idb = idb]
    OBVIOUS
  <2> HIDE DEF indexes, idb, d
  <2>3. [disk EXCEPT !.swap = indexes] \in Disks(u) /\ [disk EXCEPT !.idb = idb] \in Disks(u)
    BY <1>1, <1>2, <2>1 DEF Disks, Disk
  <2> QED BY <2>2, <2>3
<1>10. on.r \in Receivers(u) /\ on.w \in Wires(u)
  <2> HIDE DEF r1, H, res
  <2> QED BY <1>1, <1>4, <1>8, ToldTyped
<1>11. /\ rcv' = on.r /\ net' = on.w /\ spent' = spent
       /\ disk' = IF res = "full" /\ indexes # {} THEN RowBitmap(d, got) ELSE d
  BY DEF PrepDone
<1>12. disk' \in Disks(u)
  <2> HIDE DEF d, got, res, indexes, on
  <2> QED BY <1>2, <1>9, <1>11, DiskOps
<1> HIDE DEF on
<1> QED BY <1>1, <1>10, <1>11, <1>12, WiresMove DEF Receives, RecvOK

LEMMA OnFrameTyped ==
  ASSUME NEW u \in BOOLEAN, RecvOK(u), NetOK(u), NEW l \in Lane, OnFrame(l)
  PROVE  Receives(u)
<1> DEFINE a == Head(net.out[l]).a
           i == Head(net.out[l]).i
           w == TakeOut(l)
           same == {v \in rcv.fly : v.live /\ v.i = i}
           joined == {[v EXCEPT !.ls = @ \cup {l}] : v \in same}
           flys == {(rcv.fly \ same) \cup joined, rcv.fly \cup {[i |-> i, ls |-> {l}, live |-> TRUE]}}
           buf == rcv.buf \cup {<<a, i>>}
           overflow == ChunkFails(rcv, w, {l})
<1>1. /\ rcv \in Receivers(u) /\ rcv \in Rcv /\ IsFiniteSet(rcv.hs) /\ (u => ~rcv.ackq)
      /\ disk \in Disks(u) /\ spent \in [Disturbance -> Nat]
  BY ReceiverFacts
<1>2. w \in Wires(u) /\ a \in Att /\ i \in Chunk
  <2>1. w \in Wires(u) /\ Head(net.out[l]) \in Sent
    BY OutTakenWires DEF OnFrame
  <2> QED BY <2>1 DEF Sent
<1>3. disk' = disk /\ spent' = spent
  BY DEF OnFrame
<1>4. \A fly \in flys : [rcv EXCEPT !.fly = fly] \in Receivers(u)
  <2>1. rcv.fly \in SUBSET Write
    BY <1>1 DEF Rcv
  <2>2. joined \in SUBSET Write
    <3>1. \A v \in Write : [v EXCEPT !.ls = @ \cup {l}] \in Write
      BY DEF Write
    <3>2. same \in SUBSET Write
      BY <2>1
    <3> HIDE DEF same
    <3> QED BY <3>1, <3>2
  <2>3. [i |-> i, ls |-> {l}, live |-> TRUE] \in Write
    <3> HIDE DEF i
    <3> QED BY <1>2 DEF Write
  <2>4. flys \in SUBSET (SUBSET Write)
    <3> HIDE DEF joined, same, i
    <3> QED BY <2>1, <2>2, <2>3
  <2>5. \A fly \in SUBSET Write : [rcv EXCEPT !.fly = fly] \in Receivers(u)
    BY <1>1 DEF Receivers, Rcv
  <2> HIDE DEF flys
  <2> QED BY <2>4, <2>5
<1>5. [rcv EXCEPT !.buf = buf] \in Receivers(u)
  <2>1. buf \in SUBSET (Att \X Chunk)
    <3>1. rcv.buf \in SUBSET (Att \X Chunk)
      BY <1>1 DEF Rcv
    <3> HIDE DEF a, i
    <3> QED BY <1>2, <3>1
  <2> HIDE DEF buf
  <2> QED BY <1>1, <2>1 DEF Receivers, Rcv
<1>6. overflow.r \in Receivers(u) /\ overflow.w \in Wires(u)
  <2> HIDE DEF w
  <2> QED BY <1>1, <1>2, ChunkFailsTyped
<1>7. \/ rcv' = rcv /\ net' = w
      \/ rcv' = [rcv EXCEPT !.fly = (rcv.fly \ same) \cup joined] /\ net' = w
      \/ rcv' = [rcv EXCEPT !.fly = rcv.fly \cup {[i |-> i, ls |-> {l}, live |-> TRUE]}] /\ net' = w
      \/ rcv' = [rcv EXCEPT !.buf = buf] /\ net' = w
      \/ rcv' = overflow.r /\ net' = overflow.w
  BY DEF OnFrame
<1>8. rcv' \in Receivers(u) /\ net' \in Wires(u)
  <2>1. /\ (rcv.fly \ same) \cup joined \in flys
        /\ rcv.fly \cup {[i |-> i, ls |-> {l}, live |-> TRUE]} \in flys
    OBVIOUS
  <2> HIDE DEF flys, same, joined, i, a, w, buf, overflow
  <2> QED BY <1>1, <1>2, <1>4, <1>5, <1>6, <1>7, <2>1
<1> QED BY <1>1, <1>3, <1>8, WiresMove DEF Receives, RecvOK

LEMMA PersistDoneTyped ==
  ASSUME NEW u \in BOOLEAN, RecvOK(u), NetOK(u), NEW w, NEW saveRow, PersistDone(w, saveRow)
  PROVE  Receives(u)
<1> DEFINE d == Written(rcv, disk, w.i)
           got == rcv.got \cup {w.i}
           done == w.live /\ got = Chunk
           fly == rcv.fly \ {w}
           seen == IF w.live THEN got ELSE rcv.got
           r == [rcv EXCEPT !.fly = fly, !.got = seen]
<1>1. /\ rcv \in Rcv /\ IsFiniteSet(rcv.hs) /\ (u => ~rcv.ackq) /\ disk \in Disks(u)
      /\ rcv.fly \in SUBSET Write /\ rcv.got \in SUBSET Chunk /\ rcv.handle \in BOOLEAN
  BY ReceiverFacts DEF Rcv
<1>2. w.i \in Chunk /\ w \in Write
  BY <1>1 DEF PersistDone, Write
<1>3. d \in Disks(u) /\ got \in SUBSET Chunk
  BY <1>1, <1>2, WrittenTyped
<1>4. r \in Receivers(u)
  <2>1. fly \in SUBSET Write /\ seen \in SUBSET Chunk
    BY <1>1, <1>3
  <2> HIDE DEF fly, seen
  <2>2. r \in Rcv /\ r.hs = rcv.hs /\ r.ackq = rcv.ackq
    BY <1>1, <2>1 DEF Rcv
  <2> HIDE DEF r
  <2> QED BY <1>1, <2>2 DEF Receivers
<1>5. /\ disk' = IF saveRow THEN RowBitmap(d, got) ELSE d
      /\ rcv' = IF done /\ w.ls # {} THEN Deliver(r) ELSE r
      /\ net' = net /\ spent' = spent
  BY DEF PersistDone, wireVars
<1>6. disk' \in Disks(u)
  <2> HIDE DEF d, got
  <2> QED BY <1>3, <1>5, DiskOps
<1>7. rcv' \in Receivers(u)
  <2> HIDE DEF r, done
  <2> QED BY <1>4, <1>5, DeliverTyped
<1> QED BY <1>5, <1>6, <1>7, ReceiverFacts, WiresMove DEF Receives, RecvOK

LEMMA PersistFailsTyped ==
  ASSUME NEW u \in BOOLEAN, RecvOK(u), NetOK(u), NEW w, PersistFails(w)
  PROVE  Receives(u)
<1> DEFINE fly == rcv.fly \ {w}
           r == [rcv EXCEPT !.fly = fly]
<1>1. /\ rcv \in Rcv /\ IsFiniteSet(rcv.hs) /\ (u => ~rcv.ackq) /\ disk \in Disks(u)
      /\ rcv.fly \in SUBSET Write /\ net \in Wires(u) /\ spent \in [Disturbance -> Nat]
  BY ReceiverFacts DEF Rcv
<1>2. w.ls \in SUBSET Lane
  BY <1>1 DEF PersistFails, Write
<1>3. r \in Receivers(u)
  <2>1. fly \in SUBSET Write
    BY <1>1
  <2> HIDE DEF fly
  <2> QED BY <1>1, <2>1 DEF Receivers, Rcv
<1>4. rcv' = ChunkFails(r, net, w.ls).r /\ net' = ChunkFails(r, net, w.ls).w /\ disk' = disk
  BY DEF PersistFails
<1>5. rcv' \in Receivers(u) /\ net' \in Wires(u)
  <2> HIDE DEF r
  <2> QED BY <1>1, <1>2, <1>3, <1>4, ChunkFailsTyped
<1>6. spent' \in [Disturbance -> Nat]
  BY <1>1, SpendTyped DEF PersistFails, Disturbance
<1> QED BY <1>1, <1>4, <1>5, <1>6, WiresMove DEF Receives, RecvOK

LEMMA FinJoinTyped ==
  ASSUME NEW u \in BOOLEAN, RecvOK(u), NetOK(u), FinJoin
  PROVE  Receives(u)
<1>1. rcv \in Receivers(u) /\ rcv \in Rcv /\ IsFiniteSet(rcv.hs) /\ (u => ~rcv.ackq) /\ disk \in Disks(u)
  BY ReceiverFacts
<1>2. \A fin \in {"whole", "broken"} : [rcv EXCEPT !.fin = fin] \in Receivers(u)
  BY <1>1 DEF Receivers, Rcv
<1>3. /\ rcv' \in {DeliveryFailed(rcv), [rcv EXCEPT !.fin = "whole"], [rcv EXCEPT !.fin = "broken"]}
      /\ disk' = disk /\ net' = net /\ spent' = spent
  BY DEF FinJoin, wireVars
<1>4. rcv' \in Receivers(u)
  BY <1>1, <1>2, <1>3, DeliveryFailedTyped
<1> QED BY <1>1, <1>3, <1>4, ReceiverFacts, WiresMove DEF Receives, RecvOK

\* The delivery: from here on the file is stored, and an ACK may be queued or sent.
LEMMA FinRowTyped ==
  ASSUME RecvOK(FALSE), NetOK(FALSE), FinRow
  PROVE  Receives(FALSE) /\ disk'.out # "none"
<1> DEFINE s == DropSession(rcv)
           r == [s EXCEPT !.fin = "no", !.handle = FALSE, !.map = 0, !.ackq = TRUE,
                          !.paused = FALSE, !.cancelled = FALSE]
           d == RowStatus(disk, "completed")
<1>1. /\ rcv \in Receivers(FALSE) /\ disk \in Disks(FALSE) /\ net \in Wires(FALSE)
      /\ spent \in [Disturbance -> Nat] /\ rcv.fin \in {"whole", "broken"}
  BY ReceiverFacts DEF FinRow
<1>2. s \in Receivers(FALSE)
  BY <1>1, DropSessionTyped
<1>3. r \in Receivers(FALSE)
  <2> HIDE DEF s
  <2>1. s \in Rcv /\ IsFiniteSet(s.hs) /\ 0 \in 0 .. MaxAtt
    BY <1>2, AttAssumption DEF Receivers
  <2>2. r \in Rcv /\ r.hs = s.hs
    BY <2>1 DEF Rcv
  <2> HIDE DEF r
  <2> QED BY <2>1, <2>2 DEF Receivers
<1>4. d \in Disk
  <2>1. d \in Disks(FALSE)
    BY <1>1, DiskOps
  <2> QED BY <2>1 DEF Disks
<1>5. /\ disk' = [d EXCEPT !.idb = {}, !.swap = {}, !.out = rcv.fin]
      /\ rcv' = Flushed(r, net).r /\ net' = Flushed(r, net).w /\ spent' = spent
  BY DEF FinRow
<1>6. disk' \in Disks(FALSE) /\ disk'.out # "none"
  <2> HIDE DEF d
  <2> QED BY <1>1, <1>4, <1>5 DEF Disks, Disk
<1>7. rcv' \in Receivers(FALSE) /\ net' \in Wires(FALSE)
  <2> HIDE DEF r
  <2> QED BY <1>1, <1>3, <1>5, FlushedTyped
<1> QED BY <1>1, <1>5, <1>6, <1>7, WiresMove DEF Receives, RecvOK

\* A changed set of cleanups, and the end of one.
LEMMA AbortsTyped ==
  ASSUME NEW u \in BOOLEAN, NEW r \in Receivers(u), NEW aborts \in SUBSET Cleaning
  PROVE  [r EXCEPT !.aborts = aborts] \in Receivers(u)
BY DEF Receivers, Rcv

LEMMA EndedTyped ==
  ASSUME NEW u \in BOOLEAN, NEW r \in Receivers(u), NEW x \in Cleaning
  PROVE  Ended(r, x) \in Receivers(u)
<1>1. [r EXCEPT !.paused = FALSE, !.cancelled = FALSE] \in Receivers(u)
  <2> DEFINE s == [r EXCEPT !.paused = FALSE, !.cancelled = FALSE]
  <2>1. r \in Rcv /\ IsFiniteSet(r.hs) /\ (u => ~r.ackq)
    BY DEF Receivers
  <2>2. s \in Rcv /\ s.hs = r.hs /\ s.ackq = r.ackq
    BY <2>1 DEF Rcv
  <2> HIDE DEF s
  <2>3. s \in Receivers(u)
    BY <2>1, <2>2 DEF Receivers
  <2> QED BY <2>3 DEF s
<1> DEFINE t == DropSession([r EXCEPT !.paused = FALSE, !.cancelled = FALSE])
<1>2. t \in Receivers(u)
  BY <1>1, DropSessionTyped
<1>3. [t EXCEPT !.prep = Absent] \in Receivers(u)
  <2> HIDE DEF t
  <2>1. t \in Rcv /\ IsFiniteSet(t.hs) /\ (u => ~t.ackq)
    BY <1>2 DEF Receivers
  <2> DEFINE f == [t EXCEPT !.prep = Absent]
  <2>2. f \in Rcv /\ f.hs = t.hs /\ f.ackq = t.ackq
    BY <2>1 DEF Rcv
  <2> HIDE DEF f
  <2>3. f \in Receivers(u)
    BY <2>1, <2>2 DEF Receivers
  <2> QED BY <2>3 DEF f
<1>4. x.next \in {"nothing", "clear", "forget"}
  BY DEF Cleaning
<1>5. Ended(r, x) \in {r, [r EXCEPT !.paused = FALSE, !.cancelled = FALSE], [t EXCEPT !.prep = Absent]}
  BY <1>4 DEF Ended
<1> QED BY <1>1, <1>3, <1>5

LEMMA AbortDrainedTyped ==
  ASSUME NEW u \in BOOLEAN, RecvOK(u), NetOK(u), NEW x, AbortDrained(x)
  PROVE  Receives(u)
<1> DEFINE left == rcv.aborts \ {x}
           rest == [rcv EXCEPT !.aborts = left]
           aborts == rest.aborts \cup {[x EXCEPT !.ph = "wipe"]}
<1>1. rcv \in Receivers(u) /\ rcv \in Rcv /\ rcv.aborts \in SUBSET Cleaning /\ disk \in Disks(u)
  BY ReceiverFacts DEF Rcv
<1>2. x \in Cleaning
  BY <1>1 DEF AbortDrained
<1>3. rest \in Receivers(u) /\ rest.aborts = left /\ left \in SUBSET Cleaning
  <2>1. left \in SUBSET Cleaning
    BY <1>1
  <2> HIDE DEF left
  <2>2. rest \in Receivers(u)
    BY <1>1, <2>1, AbortsTyped
  <2> QED BY <1>1, <2>1, <2>2 DEF Rcv
<1>4. aborts \in SUBSET Cleaning
  <2>1. [x EXCEPT !.ph = "wipe"] \in Cleaning
    BY <1>2 DEF Cleaning
  <2> HIDE DEF rest, left
  <2> QED BY <1>3, <2>1
<1>5. [rest EXCEPT !.aborts = aborts] \in Receivers(u) /\ Ended(rest, x) \in Receivers(u)
  <2> HIDE DEF rest, aborts
  <2> QED BY <1>2, <1>3, <1>4, AbortsTyped, EndedTyped
<1>6. /\ \/ rcv' = [rest EXCEPT !.aborts = aborts] /\ disk' = RowStatus(disk, "failed")
         \/ rcv' = Ended(rest, x) /\ disk' = disk
      /\ net' = net /\ spent' = spent
  BY DEF AbortDrained, wireVars
<1>7. RowStatus(disk, "failed") \in Disks(u)
  BY <1>1, DiskOps
<1>8. rcv' \in Receivers(u) /\ disk' \in Disks(u)
  <2> HIDE DEF rest, aborts
  <2> QED BY <1>1, <1>5, <1>6, <1>7
<1> QED BY <1>6, <1>8, ReceiverFacts, WiresMove DEF Receives, RecvOK

LEMMA AbortWipedTyped ==
  ASSUME NEW u \in BOOLEAN, RecvOK(u), NetOK(u), NEW x, AbortWiped(x)
  PROVE  Receives(u)
<1> DEFINE left == rcv.aborts \ {x}
           rest == [rcv EXCEPT !.aborts = left]
           s == DropSession(rest)
           fin == IF Streamed /\ s.fin = "whole" THEN "broken" ELSE s.fin
           gone == [s EXCEPT !.handle = FALSE, !.fin = fin]
           free == [gone EXCEPT !.paused = FALSE, !.cancelled = FALSE, !.prep = Absent]
<1>1. rcv \in Receivers(u) /\ rcv \in Rcv /\ rcv.aborts \in SUBSET Cleaning /\ disk \in Disks(u)
  BY ReceiverFacts DEF Rcv
<1>2. rest \in Receivers(u)
  <2>1. left \in SUBSET Cleaning
    BY <1>1
  <2> HIDE DEF left
  <2> QED BY <1>1, <2>1, AbortsTyped
<1>3. s \in Receivers(u) /\ s \in Rcv /\ IsFiniteSet(s.hs) /\ (u => ~s.ackq)
  <2>1. s \in Receivers(u)
    <3> HIDE DEF rest
    <3> QED BY <1>2, DropSessionTyped
  <2> HIDE DEF s
  <2> QED BY <2>1 DEF Receivers
<1>4. gone \in Receivers(u)
  <2> HIDE DEF s
  <2>1. fin \in {"no", "join", "whole", "broken"}
    BY <1>3 DEF Rcv
  <2> HIDE DEF fin
  <2>2. gone \in Rcv /\ gone.hs = s.hs /\ gone.ackq = s.ackq
    BY <1>3, <2>1 DEF Rcv
  <2> HIDE DEF gone
  <2> QED BY <1>3, <2>2 DEF Receivers
<1>5. free \in Receivers(u)
  <2> HIDE DEF gone
  <2>1. gone \in Rcv /\ IsFiniteSet(gone.hs) /\ (u => ~gone.ackq)
    BY <1>4 DEF Receivers
  <2>2. free \in Rcv /\ free.hs = gone.hs /\ free.ackq = gone.ackq
    BY <2>1 DEF Rcv
  <2> HIDE DEF free
  <2> QED BY <2>1, <2>2 DEF Receivers
<1>6. Ended(gone, x) \in Receivers(u) /\ Ended(rest, x) \in Receivers(u) /\ Ended(free, x) \in Receivers(u)
  <2>1. x \in Cleaning
    BY <1>1 DEF AbortWiped
  <2> HIDE DEF gone, rest, free
  <2> QED BY <1>2, <1>4, <1>5, <2>1, EndedTyped
<1>7. /\ \/ rcv' \in {Ended(gone, x), Ended(free, x)} /\ disk' = [disk EXCEPT !.idb = {}, !.swap = {}]
         \/ rcv' = Ended(rest, x) /\ disk' = disk
      /\ net' = net /\ spent' = spent
  BY DEF AbortWiped, wireVars
<1>8. [disk EXCEPT !.idb = {}, !.swap = {}] \in Disks(u)
  BY <1>1 DEF Disks, Disk
<1>9. rcv' \in Receivers(u) /\ disk' \in Disks(u)
  <2> HIDE DEF gone, rest, free
  <2> QED BY <1>1, <1>5, <1>6, <1>7, <1>8
<1> QED BY <1>7, <1>9, ReceiverFacts, WiresMove DEF Receives, RecvOK

\* The messages of the receiver's user, and its resume request.
LEMMA WordsTyped ==
  /\ \A t \in {"pause", "go", "cancel", "reject"} : <<Ctl(t)>> \in Seq(Undone)
  /\ \A t \in {"repair", "resume"}, c \in SUBSET Chunk : <<[t |-> t, c |-> c]>> \in Seq(Undone)
  /\ \A ms \in Seq(Undone) : ms \in Seq(Control)
<1>1. \A t \in {"pause", "go", "cancel", "reject"} : Ctl(t) \in Undone
  BY DEF Ctl, Undone, Control
<1>2. \A t \in {"repair", "resume"}, c \in SUBSET Chunk : [t |-> t, c |-> c] \in Undone
  BY DEF Undone, Control
<1>3. \A m \in Undone : m \in Control
  BY DEF Undone
<1>4. \A ms \in Seq(Undone) : ms \in Seq(Control)
  BY <1>3
<1> QED BY <1>1, <1>2, <1>4

LEMMA UserRTyped ==
  ASSUME NEW u \in BOOLEAN, RecvOK(u), NetOK(u), UserPauseR \/ UserResumeR \/ UserCancelR
  PROVE  Receives(u)
<1>1. /\ rcv \in Receivers(u) /\ rcv \in Rcv /\ disk \in Disks(u) /\ net \in Wires(u)
      /\ spent \in [Disturbance -> Nat] /\ rcv.got \in SUBSET Chunk
  BY ReceiverFacts DEF Rcv
<1>2. \A p \in BOOLEAN : [rcv EXCEPT !.paused = p] \in Receivers(u)
  BY <1>1 DEF Receivers, Rcv
<1>3. CASE UserPauseR
  <2>1. Say(net, <<Ctl("pause")>>) \in Wires(u)
    BY <1>1, WordsTyped, SayTyped
  <2>2. spent' \in [Disturbance -> Nat]
    BY <1>1, <1>3, SpendTyped DEF UserPauseR, Disturbance
  <2> QED BY <1>1, <1>2, <1>3, <2>1, <2>2, WiresMove DEF UserPauseR, Receives, RecvOK
<1>4. CASE UserResumeR
  <2> DEFINE missing == Chunk \ rcv.got
             repair == IF missing = {} THEN <<>> ELSE <<[t |-> "repair", c |-> missing]>>
             ms == <<Ctl("go")>> \o repair
  <2>1. missing \in SUBSET Chunk /\ <<>> \in Seq(Undone)
    OBVIOUS
  <2>2. repair \in Seq(Undone)
    <3> HIDE DEF missing
    <3> QED BY <2>1, WordsTyped
  <2>3. <<Ctl("go")>> \in Seq(Undone)
    BY WordsTyped
  <2>4. ms \in Seq(Undone)
    <3> HIDE DEF repair
    <3> QED BY <2>2, <2>3
  <2>5. ms \in Seq(Control)
    BY <2>4, WordsTyped
  <2>6. Say(net, ms) \in Wires(u)
    <3> HIDE DEF ms
    <3> QED BY <1>1, <2>4, <2>5, SayTyped
  <2>7. net' = Say(net, ms) /\ rcv' = [rcv EXCEPT !.paused = FALSE] /\ disk' = disk /\ spent' = spent
    BY <1>4 DEF UserResumeR
  <2> HIDE DEF ms
  <2> QED BY <1>1, <1>2, <2>6, <2>7, WiresMove DEF Receives, RecvOK
<1>5. CASE UserCancelR
  <2> DEFINE ms == <<Ctl("cancel"), Ctl("cancel"), Ctl("reject")>>
  <2>1. ms \in Seq(Undone)
    <3>1. <<Ctl("cancel")>> \in Seq(Undone) /\ <<Ctl("reject")>> \in Seq(Undone)
      BY WordsTyped
    <3>2. ms = <<Ctl("cancel")>> \o <<Ctl("cancel")>> \o <<Ctl("reject")>>
      OBVIOUS
    <3> QED BY <3>1, <3>2
  <2>2. ms \in Seq(Control)
    BY <2>1, WordsTyped
  <2>3. Say(net, ms) \in Wires(u)
    <3> HIDE DEF ms
    <3> QED BY <1>1, <2>1, <2>2, SayTyped
  <2>4. spent' \in [Disturbance -> Nat]
    BY <1>1, <1>5, SpendTyped DEF UserCancelR, Disturbance
  <2>5. rcv' \in Receivers(u)
    BY <1>1, <1>5, AbortingTyped DEF UserCancelR
  <2>6. net' = Say(net, ms) /\ disk' = disk
    BY <1>5 DEF UserCancelR
  <2> HIDE DEF ms
  <2> QED BY <1>1, <2>3, <2>4, <2>5, <2>6, WiresMove DEF Receives, RecvOK
<1> QED BY <1>3, <1>4, <1>5

LEMMA OnPeerCancelTyped ==
  ASSUME NEW u \in BOOLEAN, RecvOK(u), NetOK(u), OnPeerCancel
  PROVE  Receives(u)
<1>1. rcv \in Receivers(u) /\ disk \in Disks(u) /\ net \in Wires(u) /\ spent \in [Disturbance -> Nat]
  BY ReceiverFacts
<1>2. [net EXCEPT !.cancel = @ - 1] \in Wires(u)
  <2> DEFINE c == net.cancel - 1
  <2>1. net \in Net /\ (u => net.control \in Seq(Undone))
    BY <1>1 DEF Wires
  <2>2. c \in Nat
    BY <2>1 DEF OnPeerCancel, Net
  <2> HIDE DEF c
  <2>3. [net EXCEPT !.cancel = c] \in Net /\ [net EXCEPT !.cancel = c].control = net.control
    BY <2>1, <2>2 DEF Net
  <2>4. [net EXCEPT !.cancel = c] \in Wires(u)
    BY <2>1, <2>3 DEF Wires
  <2> QED BY <2>4 DEF c
<1>3. Aborting(rcv, "forget") \in Receivers(u)
  BY <1>1, AbortingTyped
<1>4. /\ net' = [net EXCEPT !.cancel = @ - 1] /\ rcv' \in {rcv, Aborting(rcv, "forget")}
      /\ disk' = disk /\ spent' = spent
  BY DEF OnPeerCancel
<1> QED BY <1>1, <1>2, <1>3, <1>4, WiresMove DEF Receives, RecvOK

LEMMA SendResumeTyped ==
  ASSUME NEW u \in BOOLEAN, RecvOK(u), NetOK(u), SendResume
  PROVE  Receives(u)
<1> DEFINE c == disk.row.bm \cup disk.idb
<1>1. /\ rcv \in Receivers(u) /\ rcv \in Rcv /\ disk \in Disks(u) /\ net \in Wires(u)
      /\ spent \in [Disturbance -> Nat] /\ c \in SUBSET Chunk
  BY ReceiverFacts DEF Disk, Row
<1>2. [rcv EXCEPT !.due = FALSE] \in Receivers(u)
  BY <1>1 DEF Receivers, Rcv
<1>3. /\ net' \in {net, Say(net, <<[t |-> "resume", c |-> c]>>)} /\ rcv' = [rcv EXCEPT !.due = FALSE]
      /\ disk' = disk /\ spent' = spent
  BY DEF SendResume
<1>4. net' \in Wires(u)
  <2> HIDE DEF c
  <2>1. <<[t |-> "resume", c |-> c]>> \in Seq(Undone) /\ <<[t |-> "resume", c |-> c]>> \in Seq(Control)
    BY <1>1, WordsTyped
  <2>2. Say(net, <<[t |-> "resume", c |-> c]>>) \in Wires(u)
    BY <1>1, <2>1, SayTyped
  <2> QED BY <1>1, <1>3, <2>2
<1> QED BY <1>1, <1>2, <1>3, <1>4, WiresMove DEF Receives, RecvOK

LEMMA ReceiverTyped ==
  ASSUME NEW u \in BOOLEAN, RecvOK(u), NetOK(u), ReceiverActs, ~FinRow
  PROVE  Receives(u)
<1>1. ASSUME NEW l \in Lane, ReceiverHears(l)
      PROVE  Receives(u)
  BY <1>1, OnMetaTyped, OnFrameTyped DEF ReceiverHears
<1>2. ASSUME ReceiverGoesOn
      PROVE  Receives(u)
  <2>1. ASSUME NEW h \in rcv.hs, RestoreDone(h)
        PROVE  Receives(u)
    BY <2>1, RestoreDoneTyped
  <2>2. ASSUME NEW t \in Session, PrepDone(t)
        PROVE  Receives(u)
    BY <2>2, PrepDoneTyped
  <2>3. ASSUME NEW w \in rcv.fly, NEW saveRow \in BOOLEAN, PersistDone(w, saveRow)
        PROVE  Receives(u)
    BY <2>3, PersistDoneTyped
  <2>4. ASSUME NEW x \in rcv.aborts, AbortDrained(x) \/ AbortWiped(x)
        PROVE  Receives(u)
    BY <2>4, AbortDrainedTyped, AbortWipedTyped
  <2> QED BY <1>2, <2>1, <2>2, <2>3, <2>4, FinJoinTyped, SendResumeTyped DEF ReceiverGoesOn
<1>3. ASSUME NEW w \in rcv.fly, PersistFails(w)
      PROVE  Receives(u)
  BY <1>3, PersistFailsTyped
<1> QED BY <1>1, <1>2, <1>3, OnPeerCancelTyped, UserRTyped DEF ReceiverActs

(***************************************************************************)
(* The connection's steps.                                                 *)
(***************************************************************************)

LEMMA QuietTyped ==
  ASSUME NEW u \in BOOLEAN, NEW phase \in Phase, NEW version \in Versions
  PROVE  Quiet(phase, version) \in Wires(u)
<1>1. <<>> \in Seq(Control) /\ <<>> \in Seq(Undone) /\ <<>> \in Seq(Sent) /\ <<>> \in Seq(Reply)
  OBVIOUS
<1> QED BY <1>1 DEF Quiet, Wires, Net

LEMMA WithoutTyped ==
  ASSUME NEW u \in BOOLEAN, eng \in Attempts(u), NEW L
  PROVE  Without(L) \in Attempts(u)
<1>1. ASSUME NEW a \in Att
      PROVE  /\ [eng[a] EXCEPT !.open = @ \ L] \in Eng /\ Fits([eng[a] EXCEPT !.open = @ \ L])
             /\ (u => ~[eng[a] EXCEPT !.open = @ \ L].acked /\ [eng[a] EXCEPT !.open = @ \ L].pc # "saved")
  <2> DEFINE open == eng[a].open \ L
             e == [eng[a] EXCEPT !.open = open]
  <2>1. eng[a] \in Eng /\ Fits(eng[a]) /\ (u => ~eng[a].acked /\ eng[a].pc # "saved")
    BY DEF Attempts
  <2>2. open \in SUBSET Lane /\ open \subseteq eng[a].open
    BY <2>1 DEF Eng
  <2> HIDE DEF open
  <2>3. e \in Eng
    BY <2>1, <2>2 DEF Eng
  <2>4. e.open = open /\ e.over = eng[a].over /\ e.parked = eng[a].parked /\ e.use = eng[a].use
    BY <2>1 DEF Eng
  <2>5. e.held = eng[a].held /\ e.acked = eng[a].acked /\ e.pc = eng[a].pc
    BY <2>1 DEF Eng
  <2> HIDE DEF e
  <2>6. Fits(e)
    BY <2>1, <2>2, <2>4, <2>5 DEF Fits
  <2>7. e \in Eng /\ Fits(e) /\ (u => ~e.acked /\ e.pc # "saved")
    BY <2>1, <2>3, <2>5, <2>6
  <2> QED BY <2>7 DEF e, open
<1>2. Without(L) = [a \in Att |-> [eng[a] EXCEPT !.open = @ \ L]]
  BY DEF Without
<1>3. \A a \in Att : Without(L)[a] = [eng[a] EXCEPT !.open = @ \ L]
  BY <1>2
<1>4. Without(L) \in [Att -> Eng]
  BY <1>1, <1>2
<1> QED BY <1>1, <1>3, <1>4 DEF Attempts

LEMMA DetachedTyped ==
  ASSUME NEW u \in BOOLEAN, NEW r \in Receivers(u)
  PROVE  Detached(r) \in Receivers(u)
<1> DEFINE hs == {[h EXCEPT !.st = TRUE] : h \in r.hs}
           fly == {[w EXCEPT !.ls = {}] : w \in r.fly}
           f == [h \in r.hs |-> [h EXCEPT !.st = TRUE]]
<1>1. r \in Rcv /\ IsFiniteSet(r.hs) /\ r.hs \in SUBSET Handler /\ r.fly \in SUBSET Write
  BY DEF Receivers, Rcv
<1>2. hs \in SUBSET Handler /\ fly \in SUBSET Write
  <2>1. \A h \in Handler : [h EXCEPT !.st = TRUE] \in Handler
    BY DEF Handler
  <2>2. \A w \in Write : [w EXCEPT !.ls = {}] \in Write
    BY DEF Write
  <2> QED BY <1>1, <2>1, <2>2
<1>3. IsFiniteSet(hs)
  <2>1. f \in Surjection(r.hs, hs)
    BY DEF Surjection
  <2> HIDE DEF f, hs
  <2> QED BY <1>1, <2>1, FS_Surjection
<1>4. Detached(r) = [r EXCEPT !.hs = hs, !.fly = fly, !.map = 0, !.ackq = FALSE, !.due = FALSE]
  BY DEF Detached
<1>5. 0 \in 0 .. MaxAtt
  BY AttAssumption
<1> HIDE DEF hs, fly
<1>6. Detached(r) \in Rcv /\ Detached(r).hs = hs /\ Detached(r).ackq = FALSE
  <2> DEFINE q == [r EXCEPT !.hs = hs, !.fly = fly]
  <2>1. Detached(r) = [q EXCEPT !.map = 0, !.ackq = FALSE, !.due = FALSE]
    BY <1>4
  <2>2. q \in Rcv
    BY <1>1, <1>2 DEF Rcv
  <2>3. q.hs = hs
    BY <1>1 DEF Rcv
  <2> HIDE DEF q
  <2>4. Detached(r) \in Rcv
    BY <1>5, <2>1, <2>2 DEF Rcv
  <2>5. Detached(r).hs = hs /\ Detached(r).ackq = FALSE
    BY <2>1, <2>2, <2>3 DEF Rcv
  <2> QED BY <2>4, <2>5
<1> QED BY <1>3, <1>6 DEF Receivers

LEMMA ConnectionTyped ==
  ASSUME NEW u \in BOOLEAN, SendOK(u), RecvOK(u), NetOK(u), Connection
  PROVE  SendOK(u)' /\ Receives(u) /\ snd' = snd /\ disk'.out = disk.out
<1>1. /\ rcv \in Receivers(u) /\ rcv \in Rcv /\ disk \in Disks(u) /\ disk \in Disk /\ net \in Wires(u) /\ net \in Net
      /\ spent \in [Disturbance -> Nat] /\ snd \in Senders(u) /\ eng \in Attempts(u)
      /\ net.version \in Versions
  BY ReceiverFacts DEF SendOK, Net
<1>2. \A v \in BOOLEAN : [rcv EXCEPT !.due = v] \in Receivers(u)
  BY <1>1 DEF Receivers, Rcv
<1>3. \A phase \in Phase : Quiet(phase, net.version) \in Wires(u)
  BY <1>1, QuietTyped
<1>4. CASE Drop
  <2>1. net' = Quiet("dead", net.version) /\ "dead" \in Phase
    BY <1>4 DEF Drop, Phase
  <2>2. spent' \in [Disturbance -> Nat]
    BY <1>1, <1>4, SpendTyped DEF Drop, Disturbance
  <2>3. eng' \in Attempts(u)
    BY <1>1, <1>4, WithoutTyped DEF Drop
  <2> QED BY <1>1, <1>2, <1>3, <1>4, <2>1, <2>2, <2>3, WiresMove DEF Drop, SendOK, Receives, RecvOK
<1>5. CASE Reload
  <2>1. net' \in {net, Quiet("dead", net.version)} /\ "dead" \in Phase
    BY <1>5 DEF Reload, Phase
  <2>2. spent' \in [Disturbance -> Nat]
    BY <1>1, <1>5, SpendTyped DEF Reload, Disturbance
  <2>3. eng' \in Attempts(u)
    BY <1>1, <1>5, WithoutTyped DEF Reload
  <2>4. rcv' \in Receivers(u)
    <3>1. rcv.minted \in Session
      BY <1>1 DEF Rcv
    <3> QED BY <1>5, <3>1, BlankTyped DEF Reload
  <2>5. disk' = [disk EXCEPT !.swap = {}] /\ snd' = snd
    BY <1>5 DEF Reload
  <2>6. disk' \in Disks(u) /\ disk'.out = disk.out
    BY <1>1, <2>5 DEF Disks, Disk
  <2> QED BY <1>1, <1>3, <2>1, <2>2, <2>3, <2>4, <2>5, <2>6, WiresMove DEF SendOK, Receives, RecvOK
<1>6. CASE Cleanup
  <2>1. net' = Quiet("fresh", net.version) /\ "fresh" \in Phase
    BY <1>6 DEF Cleanup, Phase
  <2>2. rcv' \in Receivers(u) /\ disk' = disk /\ spent' = spent /\ snd' = snd /\ eng' = eng
    BY <1>1, <1>6, DetachedTyped DEF Cleanup, sendVars
  <2> QED BY <1>1, <1>3, <2>1, <2>2, WiresMove DEF SendOK, Receives, RecvOK
<1>7. CASE Reopen
  <2> DEFINE r == [rcv EXCEPT !.due = TRUE]
             w == Quiet("open", net.version)
  <2>1. r \in Receivers(u) /\ w \in Wires(u)
    <3>1. "open" \in Phase
      BY DEF Phase
    <3> QED BY <1>2, <1>3, <3>1
  <2>2. rcv' = Flushed(r, w).r /\ net' = Flushed(r, w).w /\ disk' = disk /\ spent' = spent /\ snd' = snd /\ eng' = eng
    BY <1>7 DEF Reopen, sendVars
  <2>3. rcv' \in Receivers(u) /\ net' \in Wires(u)
    <3> HIDE DEF r, w
    <3> QED BY <2>1, <2>2, FlushedTyped
  <2> QED BY <1>1, <2>2, <2>3, WiresMove DEF SendOK, Receives, RecvOK
<1>8. ASSUME NEW l \in Lane, LaneCloses(l)
      PROVE  SendOK(u)' /\ Receives(u) /\ snd' = snd /\ disk'.out = disk.out
  <2> DEFINE lanes == net.lanes \ {l}
             out == [net.out EXCEPT ![l] = <<>>]
             back == [net.back EXCEPT ![l] = <<>>]
  <2>1. lanes \in SUBSET Lane /\ out \in [Lane -> Seq(Sent)] /\ back \in [Lane -> Seq(Reply)]
    <3>1. net.lanes \in SUBSET Lane /\ net.out \in [Lane -> Seq(Sent)] /\ net.back \in [Lane -> Seq(Reply)]
      BY <1>1 DEF Net
    <3>2. <<>> \in Seq(Sent) /\ <<>> \in Seq(Reply)
      OBVIOUS
    <3> QED BY <3>1, <3>2
  <2>2. net' = [net EXCEPT !.lanes = lanes, !.out = out, !.back = back]
    BY <1>8 DEF LaneCloses
  <2>3. net' \in Wires(u)
    <3> HIDE DEF lanes, out, back
    <3> QED BY <1>1, <2>1, <2>2 DEF Wires, Net
  <2>4. spent' \in [Disturbance -> Nat]
    BY <1>1, <1>8, SpendTyped DEF LaneCloses, Disturbance
  <2>5. eng' \in Attempts(u)
    BY <1>1, <1>8, WithoutTyped DEF LaneCloses
  <2>6. snd' = snd /\ rcv' = rcv /\ disk' = disk
    BY <1>8 DEF LaneCloses, recvVars
  <2> QED BY <1>1, <2>3, <2>4, <2>5, <2>6, WiresMove DEF SendOK, Receives, RecvOK
<1> QED BY <1>4, <1>5, <1>6, <1>7, <1>8 DEF Connection

\* Only the delivery touches what is stored.
LEMMA OutKept ==
  ASSUME NEW u \in BOOLEAN, RecvOK(u), NetOK(u), ReceiverActs, ~FinRow
  PROVE  disk'.out = disk.out
<1>1. disk \in Disk /\ disk \in Disks(u) /\ rcv \in Rcv /\ rcv.handle \in BOOLEAN /\ rcv.fly \in SUBSET Write
  BY ReceiverFacts DEF Rcv
<1>2. ASSUME NEW d \in Disk, NEW bm, NEW st
      PROVE  RowBitmap(d, bm).out = d.out /\ RowStatus(d, st).out = d.out
  BY DEF RowBitmap, RowStatus, Disk
<1>3. CASE disk' = disk
  BY <1>3
<1>4. ASSUME NEW h, RestoreDone(h)
      PROVE  disk'.out = disk.out
  BY <1>1, <1>4 DEF RestoreDone, Disk
<1>5. ASSUME NEW t, PrepDone(t)
      PROVE  disk'.out = disk.out
  <2> DEFINE alive == rcv.ses # 0 /\ rcv.tok = t
             foreign == ~Legacy /\ \E x \in rcv.buf : x[1] # rcv.short
             indexes == IF alive /\ ~foreign THEN {x[2] : x \in rcv.buf} ELSE {}
             got == rcv.got \cup indexes
             res == CASE ~alive \/ foreign -> "bad" [] alive /\ ~foreign /\ got = Chunk -> "full" [] OTHER -> "ok"
             d == IF Streamed THEN [disk EXCEPT !.swap = indexes] ELSE [disk EXCEPT !.idb = @ \cup indexes]
  <2>1. disk' = IF res = "full" /\ indexes # {} THEN RowBitmap(d, got) ELSE d
    BY <1>5 DEF PrepDone
  <2>2. d.out = disk.out
    <3> HIDE DEF indexes
    <3> QED BY <1>1 DEF Disk
  <2>3. RowBitmap(d, got).out = d.out
    <3>1. indexes \in SUBSET Chunk
      <4>1. rcv.buf \in SUBSET (Att \X Chunk)
        BY <1>1 DEF Rcv
      <4>2. \A x \in rcv.buf : x[2] \in Chunk
        BY <4>1
      <4> HIDE DEF alive, foreign
      <4> QED BY <4>2
    <3>2. d \in Disk
      <4> DEFINE idb == disk.idb \cup indexes
      <4>1. idb \in SUBSET Chunk
        BY <1>1, <3>1 DEF Disk
      <4>2. d = IF Streamed THEN [disk EXCEPT !.swap = indexes] ELSE [disk EXCEPT !.idb = idb]
        OBVIOUS
      <4> HIDE DEF indexes, idb, d
      <4> QED BY <1>1, <3>1, <4>1, <4>2 DEF Disk
    <3> HIDE DEF d, got
    <3> QED BY <1>2, <3>2
  <2> HIDE DEF d, got, res, indexes
  <2> QED BY <2>1, <2>2, <2>3
<1>6. ASSUME NEW w, NEW saveRow, PersistDone(w, saveRow)
      PROVE  disk'.out = disk.out
  <2> DEFINE d == Written(rcv, disk, w.i)
             got == rcv.got \cup {w.i}
  <2>1. w.i \in Chunk
    BY <1>1, <1>6 DEF PersistDone, Write
  <2>2. d \in Disk
    <3>1. d \in Disks(u)
      BY <1>1, <2>1, WrittenTyped
    <3> HIDE DEF d
    <3> QED BY <3>1 DEF Disks
  <2>3. d.out = disk.out
    <3>1. d \in {disk, [disk EXCEPT !.swap = @ \cup {w.i}], [disk EXCEPT !.idb = @ \cup {w.i}]}
      BY <1>1, ModeAssumption DEF Written
    <3> HIDE DEF d
    <3> QED BY <1>1, <3>1 DEF Disk
  <2>4. disk' = IF saveRow THEN RowBitmap(d, got) ELSE d
    BY <1>6 DEF PersistDone
  <2> HIDE DEF d, got
  <2> QED BY <1>2, <2>2, <2>3, <2>4
<1>7. ASSUME NEW x, AbortDrained(x) \/ AbortWiped(x)
      PROVE  disk'.out = disk.out
  <2>1. disk' = disk \/ disk' = RowStatus(disk, "failed") \/ disk' = [disk EXCEPT !.idb = {}, !.swap = {}]
    BY <1>7 DEF AbortDrained, AbortWiped
  <2> QED BY <1>1, <1>2, <2>1 DEF Disk
<1>8. \/ disk' = disk
      \/ \E h : RestoreDone(h)
      \/ \E t : PrepDone(t)
      \/ \E w, saveRow : PersistDone(w, saveRow)
      \/ \E x : AbortDrained(x) \/ AbortWiped(x)
  <2>1. CASE ReceiverGoesOn
    BY <2>1 DEF ReceiverGoesOn, FinJoin, SendResume
  <2>2. ASSUME NEW l, ReceiverHears(l)
        PROVE  disk' = disk
    BY <2>2 DEF ReceiverHears, OnMeta, OnFrame
  <2>3. ASSUME NEW w, PersistFails(w)
        PROVE  disk' = disk
    BY <2>3 DEF PersistFails
  <2> QED BY <2>1, <2>2, <2>3 DEF ReceiverActs, OnPeerCancel, UserPauseR, UserResumeR, UserCancelR
<1> QED BY <1>3, <1>4, <1>5, <1>6, <1>7, <1>8

(***************************************************************************)
(* The invariant: the state is well typed; before the file is stored       *)
(* nothing that says so exists; and until the transfer is started both     *)
(* ends are at rest.                                                       *)
(***************************************************************************)

Typed == SendOK(FALSE) /\ RecvOK(FALSE) /\ NetOK(FALSE)

Unstored == disk.out = "none" => SendOK(TRUE) /\ RecvOK(TRUE) /\ NetOK(TRUE)

FreshSender ==
    /\ snd.task = 0 /\ snd.asks = {} /\ ~snd.source /\ snd.card = "none" /\ ~snd.closing
    /\ \A a \in Att : eng[a].pc = "off"

FreshReceiver ==
    /\ rcv.ses = 0 /\ rcv.hs = {} /\ rcv.fly = {} /\ rcv.aborts = {} /\ rcv.fin = "no"
    /\ rcv.prep = Absent /\ rcv.res = "none"
    /\ disk.row.st = "none" /\ disk.out = "none"

Fresh == FreshSender /\ FreshReceiver /\ \A l \in Lane : net.out[l] = <<>>

Idle == snd.last = 0 => Fresh

TransferInv == Typed /\ Unstored /\ Idle

LEMMA InitTyped ==
  ASSUME Init, NEW u \in BOOLEAN
  PROVE  SendOK(u) /\ RecvOK(u) /\ NetOK(u)
<1>1. snd \in Senders(u)
  BY AttAssumption DEF Init, SendInit, Senders, Snd, Delivery, Card
<1>2. eng \in Attempts(u)
  <2>1. Off \in Eng /\ Fits(Off) /\ ~Off.acked /\ Off.pc = "off"
    BY OffTyped
  <2>2. eng = [a \in Att |-> Off]
    BY DEF Init, SendInit
  <2> QED BY <2>1, <2>2 DEF Attempts
<1>3. rcv \in Receivers(u)
  <2>1. rcv = Blank(0) /\ 0 \in Session
    BY AttAssumption DEF Init, RecvInit, Session
  <2> QED BY <2>1, BlankTyped
<1>4. disk \in Disks(u)
  <2>1. 0 \in Session
    BY AttAssumption DEF Session
  <2> QED BY <2>1 DEF Init, RecvInit, Disks, Disk, Row
<1>5. NetOK(u)
  <2>1. PICK v \in Versions : net = Quiet("open", v)
    BY DEF Init, WireInit
  <2>2. net \in Wires(u)
    BY <2>1, QuietTyped DEF Phase
  <2>3. spent \in [Disturbance -> Nat]
    BY DEF Init, WireInit
  <2> QED BY <2>2, <2>3 DEF NetOK, Wires
<1> QED BY <1>1, <1>2, <1>3, <1>4, <1>5 DEF SendOK, RecvOK

LEMMA InitIdle ==
  ASSUME Init
  PROVE  Idle
<1>1. FreshSender
  BY OffTyped DEF Init, SendInit, FreshSender
<1>2. FreshReceiver
  BY DEF Init, RecvInit, Blank, FreshReceiver
<1>3. \A l \in Lane : net.out[l] = <<>>
  BY DEF Init, WireInit, Quiet
<1> QED BY <1>1, <1>2, <1>3 DEF Idle, Fresh

\* A sender that has not started a transfer can only start it.
LEMMA FreshSends ==
  ASSUME NEW u \in BOOLEAN, SendOK(u), NetOK(u), FreshSender, SenderMoves
  PROVE  StartSend \/ (UNCHANGED sendVars /\ net'.out = net.out)
<1> DEFINE rests == UNCHANGED sendVars /\ net'.out = net.out
<1>1. /\ snd.task = 0 /\ snd.asks = {} /\ ~snd.source /\ snd.card = "none" /\ ~snd.closing /\ net \in Net
      /\ \A a \in Att : eng[a].pc = "off"
  BY DEF FreshSender, NetOK
<1>2. ~LiveTask
  BY <1>1 DEF LiveTask
<1>3. TakeControl.out = net.out /\ \A l \in Lane : TakeBack(l).out = net.out
  BY <1>1 DEF TakeControl, TakeBack, Net
<1>4. ASSUME NEW a \in Att, EngineStep(a) \/ Expires(a) \/ (\E l \in Lane : LaneDies(a, l)) \/ Refused(a)
      PROVE  FALSE
  <2>1. eng[a].pc = "off"
    BY <1>1
  <2> QED BY <1>4, <2>1 DEF EngineStep, Expires, SaveDone, RoundEnds, Drained, CancelSeen, GiveUpDone, SavedDone,
             Take, CanTake, SendChunk, ReadyTimeout, DrainFails, AckTimeout, LaneDies, Refused
<1>5. ASSUME NEW l \in Lane, OnReady(l)
      PROVE  rests
  <2>1. ASSUME OnReady(l)
        PROVE  Head(net.back[l]).a # 0
    <3>1. net.back \in [Lane -> Seq(Reply)] /\ net.back[l] # <<>> /\ Head(net.back[l]).t = "ready"
      BY <1>1, <2>1 DEF OnReady, Replied, Net
    <3>2. Head(net.back[l]) \in Reply
      BY <3>1
    <3> QED BY <3>1, <3>2 DEF Reply, Att
  <2> QED BY <1>1, <1>3, <1>5, <2>1 DEF OnReady
<1>6. CASE OnCancel \/ OnReject
  BY <1>1, <1>3, <1>6 DEF OnCancel, PeerCancels, OnReject, Rejected
<1>7. CASE OnRepair \/ OnDone
  BY <1>1, <1>3, <1>7 DEF OnRepair, OnDone
<1>8. CASE OnPause \/ OnGo
  BY <1>1, <1>3, <1>8 DEF OnPause, OnGo, sendVars
<1>9. CASE OnResume
  BY <1>1, <1>3, <1>9 DEF OnResume, sendVars
<1>10. ~Asked /\ ~UserPause /\ ~UserResume /\ ~CloseDone /\ ~Closing /\ ~UserCancel
  BY <1>1 DEF Asked, UserPause, UserResume, CloseDone, Closing, Neutralise, Detach, UserCancel
<1> QED BY <1>4, <1>5, <1>6, <1>7, <1>8, <1>9, <1>10 DEF SenderMoves, SenderActs, SenderHears

\* A receiver that has not heard of the transfer stays at rest.
LEMMA FreshReceives ==
  ASSUME NEW u \in BOOLEAN, RecvOK(u), NetOK(u), Fresh, ReceiverActs
  PROVE  FreshReceiver' /\ net'.out = net.out /\ ~FinRow
<1>1. /\ rcv.ses = 0 /\ rcv.hs = {} /\ rcv.fly = {} /\ rcv.aborts = {} /\ rcv.fin = "no"
      /\ rcv.prep = Absent /\ rcv.res = "none" /\ disk.row.st = "none" /\ disk.out = "none"
      /\ rcv \in Rcv /\ net \in Net /\ \A l \in Lane : net.out[l] = <<>>
  BY ReceiverFacts DEF Fresh, FreshReceiver
<1>2. ~FinRow /\ ~FinJoin /\ ~UserPauseR /\ ~UserResumeR /\ ~UserCancelR
  BY <1>1 DEF FinRow, FinJoin, UserPauseR, UserResumeR, UserCancelR, Carded
<1>3. ASSUME NEW l \in Lane
      PROVE  ~ReceiverHears(l)
  BY <1>1 DEF ReceiverHears, OnMeta, OnFrame, Arrives
<1>4. ASSUME NEW t \in Session
      PROVE  ~PrepDone(t)
  <2>1. t # Absent
    BY AttAssumption DEF Session, Absent
  <2> QED BY <1>1, <2>1 DEF PrepDone
<1>5. SendResume \/ OnPeerCancel
  BY <1>1, <1>2, <1>3, <1>4 DEF ReceiverActs, ReceiverGoesOn
<1>6. rcv' \in {rcv, [rcv EXCEPT !.due = FALSE]} /\ disk' = disk /\ net' \in {net, [net EXCEPT !.cancel = @ - 1]}
  BY <1>1, <1>5 DEF SendResume, OnPeerCancel
<1>7. FreshReceiver'
  BY <1>1, <1>6 DEF FreshReceiver, Rcv
<1>8. net'.out = net.out
  BY <1>1, <1>6 DEF Net
<1> QED BY <1>2, <1>7, <1>8

LEMMA FreshConnection ==
  ASSUME NEW u \in BOOLEAN, SendOK(u), RecvOK(u), NetOK(u), Fresh, Connection
  PROVE  Fresh'
<1>1. /\ rcv.ses = 0 /\ rcv.hs = {} /\ rcv.fly = {} /\ rcv.aborts = {} /\ rcv.fin = "no"
      /\ rcv.prep = Absent /\ rcv.res = "none" /\ disk.row.st = "none" /\ disk.out = "none"
      /\ rcv \in Rcv /\ net \in Net /\ disk \in Disk /\ \A l \in Lane : net.out[l] = <<>>
  BY ReceiverFacts DEF Fresh, FreshReceiver
<1>2. /\ snd.task = 0 /\ snd.asks = {} /\ ~snd.source /\ snd.card = "none" /\ ~snd.closing
      /\ \A a \in Att : eng[a].pc = "off" /\ eng[a] \in Eng
  BY DEF Fresh, FreshSender, SendOK, Attempts
<1>3. snd' = snd
  BY DEF Connection, Drop, Reload, Cleanup, Reopen, LaneCloses, sendVars
<1>4. eng' = eng \/ \E L : eng' = Without(L)
  BY DEF Connection, Drop, Reload, Cleanup, Reopen, LaneCloses, sendVars
<1>5. \A a \in Att : eng'[a].pc = "off"
  <2>1. ASSUME NEW L, NEW a \in Att
        PROVE  Without(L)[a].pc = "off"
    <3>1. Without(L)[a] = [eng[a] EXCEPT !.open = @ \ L]
      BY DEF Without
    <3>2. [eng[a] EXCEPT !.open = @ \ L].pc = eng[a].pc
      BY <1>2 DEF Eng
    <3> QED BY <1>2, <3>1, <3>2
  <2> QED BY <1>2, <1>4, <2>1
<1>6. FreshSender'
  BY <1>2, <1>3, <1>5 DEF FreshSender
<1>7. \A phase, version : \A l \in Lane : Quiet(phase, version).out[l] = <<>>
  BY DEF Quiet
<1>8. CASE Drop
  <2>1. FreshReceiver'
    BY <1>1, <1>8 DEF Drop, FreshReceiver, Rcv
  <2> QED BY <1>6, <1>7, <1>8, <2>1 DEF Drop, Fresh
<1>9. CASE Reload
  <2>1. FreshReceiver'
    <3>1. rcv' = Blank(rcv.minted) /\ disk' = [disk EXCEPT !.swap = {}]
      BY <1>9 DEF Reload
    <3> QED BY <1>1, <3>1 DEF FreshReceiver, Blank, Disk
  <2>2. \A l \in Lane : net'.out[l] = <<>>
    BY <1>1, <1>7, <1>9 DEF Reload
  <2> QED BY <1>6, <2>1, <2>2 DEF Fresh
<1>10. CASE Cleanup
  <2>1. FreshReceiver'
    <3> DEFINE hs == {[h EXCEPT !.st = TRUE] : h \in rcv.hs}
               fly == {[w EXCEPT !.ls = {}] : w \in rcv.fly}
    <3>1. hs = {} /\ fly = {}
      BY <1>1
    <3>2. rcv' = [rcv EXCEPT !.hs = hs, !.fly = fly, !.map = 0, !.ackq = FALSE, !.due = FALSE] /\ disk' = disk
      BY <1>10 DEF Cleanup, Detached
    <3> HIDE DEF hs, fly
    <3> QED BY <1>1, <3>1, <3>2 DEF FreshReceiver, Rcv
  <2> QED BY <1>6, <1>7, <1>10, <2>1 DEF Cleanup, Fresh
<1>11. CASE Reopen
  <2> DEFINE r == [rcv EXCEPT !.due = TRUE]
             w == Quiet("open", net.version)
  <2>1. rcv' = Flushed(r, w).r /\ net' = Flushed(r, w).w /\ disk' = disk
    BY <1>11 DEF Reopen
  <2>2. r \in Rcv /\ \A f \in BOOLEAN : [r EXCEPT !.ackq = f] \in Rcv
    <3>1. r \in Rcv
      BY <1>1 DEF Rcv
    <3> HIDE DEF r
    <3>2. ASSUME NEW f \in BOOLEAN
          PROVE  [r EXCEPT !.ackq = f] \in Rcv
      BY <3>1 DEF Rcv
    <3> QED BY <3>1, <3>2
  <2>3. /\ r.ses = 0 /\ r.hs = {} /\ r.fly = {} /\ r.aborts = {} /\ r.fin = "no"
        /\ r.prep = Absent /\ r.res = "none"
    BY <1>1 DEF Rcv
  <2>4. w.out = [l \in Lane |-> <<>>] /\ [w EXCEPT !.control = @ \o <<Ctl("done")>>].out = w.out
    BY DEF Quiet
  <2>5. rcv' \in {r, [r EXCEPT !.ackq = FALSE]} /\ net' \in {w, Say(w, <<Ctl("done")>>)}
    <3> HIDE DEF r, w
    <3> QED BY <2>1 DEF Flushed
  <2>6. FreshReceiver'
    <3> HIDE DEF r, w
    <3> DEFINE q == [r EXCEPT !.ackq = FALSE]
    <3>1. /\ q.ses = 0 /\ q.hs = {} /\ q.fly = {} /\ q.aborts = {} /\ q.fin = "no"
          /\ q.prep = Absent /\ q.res = "none"
      BY <2>2, <2>3 DEF Rcv
    <3>2. rcv' = r \/ rcv' = q
      BY <2>5
    <3> HIDE DEF q
    <3> QED BY <1>1, <2>1, <2>3, <3>1, <3>2 DEF FreshReceiver
  <2>7. net'.out = w.out
    <3> HIDE DEF r, w
    <3> QED BY <2>4, <2>5 DEF Say
  <2> HIDE DEF w
  <2> QED BY <1>6, <2>4, <2>6, <2>7 DEF Fresh
<1>12. ASSUME NEW k \in Lane, LaneCloses(k)
       PROVE  Fresh'
  <2> DEFINE lanes == net.lanes \ {k}
             out == [net.out EXCEPT ![k] = <<>>]
             back == [net.back EXCEPT ![k] = <<>>]
  <2>1. net' = [net EXCEPT !.lanes = lanes, !.out = out, !.back = back] /\ rcv' = rcv /\ disk' = disk
    BY <1>12 DEF LaneCloses, recvVars
  <2>2. net'.out = out
    <3> HIDE DEF lanes, out, back
    <3> QED BY <1>1, <2>1 DEF Net
  <2>3. \A l \in Lane : out[l] = <<>>
    BY <1>1 DEF Net
  <2>4. FreshReceiver'
    BY <1>1, <2>1 DEF FreshReceiver
  <2> HIDE DEF out
  <2> QED BY <1>6, <2>2, <2>3, <2>4 DEF Fresh
<1> QED BY <1>8, <1>9, <1>10, <1>11, <1>12 DEF Connection

(***************************************************************************)
(* The invariant is inductive.                                             *)
(***************************************************************************)

LEMMA Steps ==
  ASSUME [Next]_vars
  PROVE  \/ SenderMoves /\ UNCHANGED recvVars
         \/ ReceiverActs /\ UNCHANGED sendVars
         \/ Connection
         \/ UNCHANGED vars
BY DEF Next, Urgent, SenderMoves

LEMMA StepTyped ==
  ASSUME NEW u \in BOOLEAN, SendOK(u), RecvOK(u), NetOK(u), [Next]_vars, FinRow => ~u
  PROVE  SendOK(u)' /\ RecvOK(u)' /\ NetOK(u)'
<1>1. CASE SenderMoves /\ UNCHANGED recvVars
  <2>1. SenderGoesOn(u)
    BY <1>1, SenderTyped
  <2> QED BY <1>1, <2>1 DEF SenderGoesOn, RecvOK, recvVars
<1>2. CASE ReceiverActs /\ UNCHANGED sendVars
  <2>1. Receives(u)
    <3>1. CASE ~FinRow
      BY <1>2, <3>1, ReceiverTyped
    <3>2. CASE FinRow
      BY <3>2, FinRowTyped
    <3> QED BY <3>1, <3>2
  <2> QED BY <1>2, <2>1 DEF Receives, SendOK, sendVars
<1>3. CASE Connection
  BY <1>3, ConnectionTyped DEF Receives
<1>4. CASE UNCHANGED vars
  BY <1>4 DEF vars, sendVars, recvVars, wireVars, SendOK, RecvOK, NetOK
<1> QED BY <1>1, <1>2, <1>3, <1>4, Steps

\* What is stored stays stored.
LEMMA StoredStays ==
  ASSUME Typed, [Next]_vars, disk.out # "none"
  PROVE  disk'.out # "none"
<1>1. RecvOK(FALSE) /\ NetOK(FALSE) /\ SendOK(FALSE) /\ FALSE \in BOOLEAN
  BY DEF Typed
<1>2. CASE ReceiverActs /\ UNCHANGED sendVars
  <2>1. CASE FinRow
    BY <1>1, <2>1, FinRowTyped
  <2>2. CASE ~FinRow
    BY <1>1, <1>2, <2>2, OutKept
  <2> QED BY <2>1, <2>2
<1>3. CASE Connection
  BY <1>1, <1>3, ConnectionTyped
<1> QED BY <1>2, <1>3, Steps DEF vars, recvVars

LEMMA TypedKept ==
  ASSUME Typed, [Next]_vars
  PROVE  Typed'
<1>1. SendOK(FALSE) /\ RecvOK(FALSE) /\ NetOK(FALSE) /\ FALSE \in BOOLEAN
  BY DEF Typed
<1>2. SendOK(FALSE)' /\ RecvOK(FALSE)' /\ NetOK(FALSE)'
  BY <1>1, StepTyped
<1> QED BY <1>2 DEF Typed

LEMMA UnstoredKept ==
  ASSUME Typed, Unstored, [Next]_vars
  PROVE  Unstored'
<1> SUFFICES ASSUME disk'.out = "none"
             PROVE  SendOK(TRUE)' /\ RecvOK(TRUE)' /\ NetOK(TRUE)'
  BY DEF Unstored
<1>1. SendOK(TRUE) /\ RecvOK(TRUE) /\ NetOK(TRUE) /\ TRUE \in BOOLEAN
  BY StoredStays DEF Unstored
<1>2. ~FinRow
  BY FinRowTyped DEF Typed
<1> QED BY <1>1, <1>2, StepTyped

LEMMA IdleKept ==
  ASSUME Typed, Idle, [Next]_vars
  PROVE  Idle'
<1> SUFFICES ASSUME snd'.last = 0
             PROVE  Fresh'
  BY DEF Idle
<1>1. SendOK(FALSE) /\ RecvOK(FALSE) /\ NetOK(FALSE) /\ FALSE \in BOOLEAN /\ snd \in Snd
  BY DEF Typed, SendOK, Senders
<1>2. snd.last = 0
  <2>1. CASE SenderMoves
    BY <1>1, <2>1, SenderTyped DEF SenderGoesOn
  <2>2. CASE UNCHANGED sendVars
    BY <2>2 DEF sendVars
  <2>3. CASE Connection
    BY <1>1, <2>3, ConnectionTyped
  <2> QED BY <2>1, <2>2, <2>3, Steps DEF vars
<1>3. Fresh
  BY <1>2 DEF Idle
<1>4. CASE SenderMoves /\ UNCHANGED recvVars
  <2>1. FreshSender
    BY <1>3 DEF Fresh
  <2>2. ~StartSend
    <3> DEFINE s == [snd EXCEPT !.task = 1, !.active = 1, !.last = 1, !.source = TRUE, !.card = "moving"]
    <3>1. s.last = 1
      BY <1>1 DEF Snd
    <3>2. StartSend => snd' = s
      BY DEF StartSend
    <3> HIDE DEF s
    <3> QED BY <3>1, <3>2
  <2>3. UNCHANGED sendVars /\ net'.out = net.out
    BY <1>1, <1>4, <2>1, <2>2, FreshSends
  <2> QED BY <1>3, <1>4, <2>3 DEF Fresh, FreshSender, FreshReceiver, sendVars, recvVars
<1>5. CASE ReceiverActs /\ UNCHANGED sendVars
  <2>1. FreshReceiver' /\ net'.out = net.out
    BY <1>1, <1>3, <1>5, FreshReceives
  <2> QED BY <1>3, <1>5, <2>1 DEF Fresh, FreshSender, sendVars
<1>6. CASE Connection
  BY <1>1, <1>3, <1>6, FreshConnection
<1>7. CASE UNCHANGED vars
  BY <1>3, <1>7 DEF vars, sendVars, recvVars, wireVars, Fresh, FreshSender, FreshReceiver
<1> QED BY <1>4, <1>5, <1>6, <1>7, Steps

LEMMA TransferInductive == Spec => []TransferInv
<1>1. Init => TransferInv
  <2> SUFFICES ASSUME Init
               PROVE  TransferInv
    OBVIOUS
  <2>1. SendOK(FALSE) /\ RecvOK(FALSE) /\ NetOK(FALSE)
    BY InitTyped
  <2>2. SendOK(TRUE) /\ RecvOK(TRUE) /\ NetOK(TRUE)
    BY InitTyped
  <2> QED BY <2>1, <2>2, InitIdle DEF TransferInv, Typed, Unstored
<1>2. TransferInv /\ [Next]_vars => TransferInv'
  BY TypedKept, UnstoredKept, IdleKept DEF TransferInv
<1> QED BY <1>1, <1>2, PTL DEF Spec

(***************************************************************************)
(* The theorems.                                                           *)
(***************************************************************************)

\* The state of a transfer is well typed, whatever is lost, repeated or late
\* (TransferWire, SendEngine, ReceiveEngine).
THEOREM TransferTypeCorrect == Spec => []TypeOK
<1>1. TransferInv => TypeOK
  BY DEF TransferInv, Typed, SendOK, RecvOK, NetOK, TypeOK, SendType, RecvType, NetType, Senders, Attempts,
         Receivers, Disks
<1> QED BY <1>1, TransferInductive, PTL

\* A transfer is reported as saved only when the receiver has handed the file over,
\* for any number of chunks, lanes, attempts, sessions and disturbances (BUG-016).
THEOREM SavedOnlyStored == Spec => []SavedIsStored
<1>1. TransferInv => SavedIsStored
  BY DEF TransferInv, Unstored, SendOK, Senders, SavedIsStored
<1> QED BY <1>1, TransferInductive, PTL

\* Engines, sessions, losses and retries amount to the promise of TransferPromise,
\* step by step (send-engine.ts, receive-engine.ts, transfer-controller.ts).
THEOREM TransferKeepsPromise == Spec => Implements
<1> DEFINE stage == IF disk.out # "none" THEN "stored" ELSE IF snd.last # 0 THEN "offered" ELSE "idle"
           saved == snd.delivery = "saved"
<1>1. Init => Promise!Init
  BY DEF Init, SendInit, RecvInit, Promise!Init
<1>2. TransferInv /\ TransferInv' /\ [Next]_vars => [Promise!Next]_(Promise!promise)
  <2> SUFFICES ASSUME TransferInv, TransferInv', [Next]_vars
               PROVE  Promise!Next \/ UNCHANGED Promise!promise
    OBVIOUS
  <2>1. Typed /\ Unstored /\ Idle /\ Unstored' /\ Typed'
    BY DEF TransferInv
  <2>2. SendOK(FALSE) /\ RecvOK(FALSE) /\ NetOK(FALSE) /\ FALSE \in BOOLEAN
    BY <2>1 DEF Typed
  <2>3. disk.out = "none" => ~saved
    BY <2>1 DEF Unstored, SendOK, Senders
  <2>4. disk'.out = "none" => snd'.delivery # "saved"
    BY <2>1 DEF Unstored, SendOK, Senders
  <2>5. disk.out # "none" => disk'.out # "none"
    BY <2>1, StoredStays
  <2>6. snd.last = 0 => disk.out = "none"
    BY <2>1 DEF Idle, Fresh, FreshReceiver
  <2>7. CASE SenderMoves /\ UNCHANGED recvVars
    <3>1. snd.last # 0 => snd'.last # 0
      BY <2>2, <2>7, SenderTyped DEF SenderGoesOn
    <3>2. disk' = disk
      BY <2>7 DEF recvVars
    <3> QED BY <2>3, <2>4, <2>5, <2>6, <3>1, <3>2
        DEF Promise!Next, Promise!Offer, Promise!Store, Promise!Report, Promise!Retract, Promise!promise
  <2>8. CASE ReceiverActs /\ UNCHANGED sendVars
    <3>1. snd' = snd
      BY <2>8 DEF sendVars
    <3>2. FinRow => snd.last # 0
      BY <2>1, <2>2, <2>8, FreshReceives DEF Idle
    <3>3. ~FinRow => disk'.out = disk.out
      BY <2>2, <2>8, OutKept
    <3> QED BY <2>3, <2>4, <2>5, <2>6, <3>1, <3>2, <3>3
        DEF Promise!Next, Promise!Offer, Promise!Store, Promise!Report, Promise!Retract, Promise!promise
  <2>9. CASE Connection
    <3>1. snd' = snd /\ disk'.out = disk.out
      BY <2>2, <2>9, ConnectionTyped
    <3> QED BY <3>1 DEF Promise!promise
  <2>10. CASE UNCHANGED vars
    BY <2>10 DEF vars, sendVars, recvVars, Promise!promise
  <2> QED BY <2>7, <2>8, <2>9, <2>10, Steps
<1> QED BY <1>1, <1>2, TransferInductive, PTL DEF Spec, Implements, Promise!Spec

(***************************************************************************)
(* With the chunk store as the backend nothing is delivered with a hole:   *)
(* a file is found whole when it is assembled, or is not assembled.        *)
(***************************************************************************)

Unbroken == {r \in Receivers(FALSE) : r.fin # "broken"}

LEMMA AbortingUnbroken ==
  ASSUME NEW r \in Unbroken, NEW next \in {"nothing", "clear", "forget"}
  PROVE  Aborting(r, next) \in Unbroken /\ [r EXCEPT !.map = 0] \in Unbroken
<1>1. r \in Receivers(FALSE) /\ r \in Rcv /\ r.fin # "broken"
  BY DEF Unbroken, Receivers
<1>2. Aborting(r, next) \in Receivers(FALSE) /\ [r EXCEPT !.map = 0] \in Receivers(FALSE)
  BY <1>1, AbortingTyped, UnmappedTyped
<1>3. Aborting(r, next).fin = r.fin
  <2> DEFINE aborts == r.aborts \cup {[tok |-> r.tok, ph |-> "drain", next |-> next]}
  <2>1. Aborting(r, next) = [r EXCEPT !.cancelled = TRUE, !.paused = FALSE, !.aborts = aborts]
    BY DEF Aborting
  <2> HIDE DEF aborts
  <2> QED BY <1>1, <2>1 DEF Rcv
<1>4. [r EXCEPT !.map = 0].fin = r.fin
  BY <1>1 DEF Rcv
<1> QED BY <1>1, <1>2, <1>3, <1>4 DEF Unbroken

LEMMA EndedUnbroken ==
  ASSUME NEW r \in Rcv, NEW x \in Cleaning, r.fin # "broken"
  PROVE  Ended(r, x).fin # "broken"
<1> DEFINE signalled == [r EXCEPT !.paused = FALSE, !.cancelled = FALSE]
           fly == {[w EXCEPT !.live = FALSE] : w \in signalled.fly}
           dropped == [signalled EXCEPT !.ses = 0, !.tok = 0, !.short = 0, !.got = {}, !.buf = {},
                                        !.res = "none", !.fly = fly]
<1>1. signalled.fin = r.fin /\ DOMAIN signalled = DOMAIN r /\ "fin" \in DOMAIN r
  BY DEF Rcv
<1>2. dropped.fin = r.fin /\ "fin" \in DOMAIN dropped
  <2> HIDE DEF signalled, fly
  <2> QED BY <1>1
<1>3. [dropped EXCEPT !.prep = Absent].fin = r.fin
  <2> HIDE DEF dropped
  <2> QED BY <1>2
<1>4. DropSession(signalled) = dropped
  BY DEF DropSession
<1>5. x.next \in {"nothing", "clear", "forget"}
  BY DEF Cleaning
<1>6. Ended(r, x) \in {r, signalled, [dropped EXCEPT !.prep = Absent]}
  <2> HIDE DEF dropped
  <2> QED BY <1>4, <1>5 DEF Ended
<1> HIDE DEF signalled, dropped
<1> QED BY <1>1, <1>3, <1>6

LEMMA DeliverUnbroken ==
  ASSUME NEW r \in Unbroken
  PROVE  Deliver(r) \in Unbroken /\ DeliveryFailed(r) \in Unbroken
<1>1. r \in Receivers(FALSE) /\ r \in Rcv /\ r.fin # "broken" /\ r.delivered \in BOOLEAN
  BY DEF Unbroken, Receivers, Rcv
<1>2. Deliver(r) \in Receivers(FALSE) /\ DeliveryFailed(r) \in Receivers(FALSE)
  BY <1>1, DeliverTyped, DeliveryFailedTyped
<1>3. DeliveryFailed(r).fin = "no"
  <2> DEFINE s == [r EXCEPT !.delivered = FALSE, !.fin = "no", !.map = 0]
             aborts == s.aborts \cup {[tok |-> s.tok, ph |-> "drain", next |-> "clear"]}
  <2>1. s.fin = "no" /\ DOMAIN s = DOMAIN r
    BY <1>1 DEF Rcv
  <2>2. DeliveryFailed(r) = [s EXCEPT !.cancelled = TRUE, !.paused = FALSE, !.aborts = aborts]
    BY DEF DeliveryFailed, Aborting
  <2>3. "fin" \in DOMAIN s
    BY <1>1, <2>1 DEF Rcv
  <2> HIDE DEF s, aborts
  <2> QED BY <2>1, <2>2, <2>3
<1>4. [r EXCEPT !.delivered = TRUE, !.fin = "join"].fin = "join"
  BY <1>1 DEF Rcv
<1>5. Deliver(r) \in {r, DeliveryFailed(r), [r EXCEPT !.delivered = TRUE, !.fin = "join"]}
  BY <1>1 DEF Deliver
<1> QED BY <1>1, <1>2, <1>3, <1>4, <1>5 DEF Unbroken

LEMMA ToldUnbroken ==
  ASSUME NEW r \in Unbroken, NEW w, NEW H, NEW res
  PROVE  Told(r, w, H, res).r \in Unbroken
<1> DEFINE stale == {h \in H : h.st}
           current == H \ stale
           dead == IF res = "bad" THEN H ELSE stale
           answer == IF res = "bad" THEN <<"reject", "cancel">> ELSE <<"ready">>
           r1 == IF dead = {} THEN r ELSE Aborting(r, "nothing")
           r2 == IF \E h \in dead : h.a = r.map THEN [r1 EXCEPT !.map = 0] ELSE r1
           r3 == IF res = "full" /\ current # {} THEN Deliver(r2) ELSE r2
<1>1. Told(r, w, H, res) = [w |-> Answers(w, current, answer), r |-> r3]
  BY DEF Told
<1>2. r1 \in Unbroken
  BY AbortingUnbroken
<1>3. r2 \in Unbroken
  <2> HIDE DEF r1, dead
  <2> QED BY <1>2, AbortingUnbroken
<1>4. r3 \in Unbroken
  <2> HIDE DEF r2, current
  <2> QED BY <1>3, DeliverUnbroken
<1> HIDE DEF r3, current, answer
<1> QED BY <1>1, <1>4

LEMMA PrepareUnbroken ==
  ASSUME NEW r \in Unbroken, NEW w, NEW h \in Handler
  PROVE  Prepare(r, w, h).r \in Unbroken
<1>1. Joined(r, h) \in Unbroken
  <2> DEFINE t == IF r.prep = Absent THEN r.tok ELSE r.prep
             hs == r.hs \cup {[h EXCEPT !.ph = "prep", !.tok = t]}
  <2>1. r \in Rcv /\ r.fin # "broken" /\ Joined(r, h) \in Receivers(FALSE)
    BY JoinedTyped DEF Unbroken, Receivers
  <2>2. Joined(r, h) = [r EXCEPT !.prep = t, !.hs = hs]
    BY DEF Joined
  <2> HIDE DEF t, hs
  <2>3. Joined(r, h).fin = r.fin
    BY <2>1, <2>2 DEF Rcv
  <2> QED BY <2>1, <2>3 DEF Unbroken
<1>2. Told(r, w, {h}, r.res).r \in Unbroken
  BY ToldUnbroken
<1> QED BY <1>1, <1>2 DEF Prepare

LEMMA ChunkFailsUnbroken ==
  ASSUME NEW r \in Unbroken, NEW w, NEW L
  PROVE  ChunkFails(r, w, L).r \in Unbroken
<1> DEFINE s == Aborting(r, "nothing")
           back == Answers(w, {[l |-> l, a |-> r.map] : l \in L}, <<"cancel", "reject">>)
<1>1. s \in Unbroken
  BY AbortingUnbroken
<1>2. [s EXCEPT !.map = 0] \in Unbroken
  <2> HIDE DEF s
  <2> QED BY <1>1, AbortingUnbroken
<1>3. ChunkFails(r, w, L) = IF L = {} THEN [r |-> r, w |-> w] ELSE [r |-> [s EXCEPT !.map = 0], w |-> back]
  BY DEF ChunkFails
<1> HIDE DEF s, back
<1> QED BY <1>2, <1>3

LEMMA ReceiverUnbroken ==
  ASSUME ~Streamed, RecvOK(FALSE), NetOK(FALSE), rcv \in Unbroken, ReceiverActs, ~FinRow
  PROVE  rcv'.fin # "broken"
<1>1. /\ rcv \in Receivers(FALSE) /\ rcv \in Rcv /\ rcv.fin # "broken" /\ FALSE \in BOOLEAN
      /\ rcv.hs \in SUBSET Handler
  BY ReceiverFacts DEF Rcv, Unbroken
<1>2. \A r \in Unbroken : r.fin # "broken"
  BY DEF Unbroken
<1>3. ASSUME NEW l \in Lane, OnMeta(l)
      PROVE  rcv'.fin # "broken"
  <2> DEFINE a == Head(net.out[l]).a
             h == [l |-> l, a |-> a, ph |-> "read", ses |-> rcv.ses, tok |-> rcv.tok, st |-> FALSE]
             routed == [rcv EXCEPT !.map = a, !.short = a]
             m == rcv.minted + 1
             hs == routed.hs \cup {[h EXCEPT !.ses = m, !.tok = m]}
  <2>1. a \in Att /\ a \in 0 .. MaxAtt
    <3>1. Head(net.out[l]) \in Sent
      BY <1>3, OutTakenWires DEF OnMeta
    <3> QED BY <3>1 DEF Sent, Att
  <2>2. h \in Handler
    <3> HIDE DEF a
    <3> QED BY <1>1, <2>1 DEF Rcv, Handler
  <2>3. routed \in Unbroken /\ routed \in Rcv /\ routed.fin # "broken"
    <3> HIDE DEF a
    <3>1. routed \in Rcv /\ routed.hs = rcv.hs /\ routed.fin = rcv.fin
      BY <1>1, <2>1 DEF Rcv
    <3> HIDE DEF routed
    <3> QED BY <1>1, <3>1 DEF Unbroken, Receivers
  <2>4. \/ rcv' = Prepare(routed, TakeOut(l), h).r
        \/ rcv' = [routed EXCEPT !.ses = m, !.tok = m, !.minted = m, !.hs = hs]
    BY <1>3 DEF OnMeta
  <2> HIDE DEF routed, h, m, hs
  <2>5. Prepare(routed, TakeOut(l), h).r \in Unbroken
    BY <2>2, <2>3, PrepareUnbroken
  <2>6. [routed EXCEPT !.ses = m, !.tok = m, !.minted = m, !.hs = hs].fin = routed.fin
    BY <2>3 DEF Rcv
  <2> QED BY <1>2, <2>3, <2>4, <2>5, <2>6
<1>4. ASSUME NEW h \in rcv.hs, RestoreDone(h)
      PROVE  rcv'.fin # "broken"
  <2> DEFINE mine == rcv.ses = h.ses
             prior == IF disk.row.st = "none" THEN {} ELSE disk.row.bm \cup disk.idb
             tok == IF disk.row.st = "none" THEN h.tok ELSE disk.row.tok
             hs == rcv.hs \ {h}
             r0 == [rcv EXCEPT !.hs = hs]
             got == r0.got \cup prior
             r1 == IF mine THEN [r0 EXCEPT !.got = got, !.tok = tok] ELSE r0
  <2>1. hs \in SUBSET Handler /\ IsFiniteSet(hs) /\ h \in Handler
    BY <1>1, FS_Subset DEF Receivers
  <2>2. r0 \in Rcv /\ r0.hs = hs /\ r0.fin = rcv.fin
    <3> HIDE DEF hs
    <3> QED BY <1>1, <2>1 DEF Rcv
  <2>3. got \in SUBSET Chunk /\ tok \in Session
    <3>1. disk.row.bm \in SUBSET Chunk /\ disk.idb \in SUBSET Chunk /\ disk.row.tok \in Session
      BY ReceiverFacts DEF Disk, Row
    <3>2. h.tok \in Session /\ r0.got \in SUBSET Chunk
      <4> HIDE DEF r0
      <4> QED BY <2>1, <2>2 DEF Handler, Rcv
    <3> HIDE DEF r0
    <3> QED BY <3>1, <3>2
  <2>4. r1 \in Unbroken
    <3> DEFINE r2 == [r0 EXCEPT !.got = got, !.tok = tok]
    <3>2. r1 = IF mine THEN r2 ELSE r0
      OBVIOUS
    <3> HIDE DEF r0, got, tok, mine, hs, r1
    <3>3. r2 \in Rcv
      BY <2>2, <2>3 DEF Rcv
    <3>4. r2.hs = r0.hs /\ r2.fin = r0.fin
      BY <2>2 DEF Rcv
    <3> HIDE DEF r2
    <3>1. r1 \in Rcv /\ r1.hs = hs /\ r1.fin = rcv.fin
      BY <2>2, <3>2, <3>3, <3>4
    <3> QED BY <1>1, <2>1, <3>1 DEF Unbroken, Receivers
  <2>5. rcv' = Unmapped(Aborting(r1, "nothing"), h.a) \/ rcv' = Prepare(r1, net, h).r
    BY <1>4 DEF RestoreDone
  <2> HIDE DEF r1
  <2>6. Prepare(r1, net, h).r \in Unbroken
    BY <2>1, <2>4, PrepareUnbroken
  <2>7. Aborting(r1, "nothing") \in Unbroken
    BY <2>4, AbortingUnbroken
  <2>8. Unmapped(Aborting(r1, "nothing"), h.a) \in Unbroken
    BY <2>7, AbortingUnbroken DEF Unmapped
  <2> QED BY <1>2, <2>5, <2>6, <2>8
<1>5. ASSUME NEW t \in Session, PrepDone(t)
      PROVE  rcv'.fin # "broken"
  <2> DEFINE H == {h \in rcv.hs : h.ph = "prep" /\ h.tok = t}
             alive == rcv.ses # 0 /\ rcv.tok = t
             foreign == ~Legacy /\ \E x \in rcv.buf : x[1] # rcv.short
             indexes == IF alive /\ ~foreign THEN {x[2] : x \in rcv.buf} ELSE {}
             got == rcv.got \cup indexes
             res == CASE ~alive \/ foreign -> "bad" [] alive /\ ~foreign /\ got = Chunk -> "full" [] OTHER -> "ok"
             hs == rcv.hs \ H
             prep == IF rcv.prep = t THEN Absent ELSE rcv.prep
             handle == Streamed /\ alive
             r0 == [rcv EXCEPT !.hs = hs, !.prep = prep, !.handle = handle]
             r1 == IF alive THEN [r0 EXCEPT !.buf = {}, !.got = got, !.res = res] ELSE r0
  <2>1. rcv' = Told(r1, net, H, res).r
    BY <1>5 DEF PrepDone
  <2>2. got \in SUBSET Chunk
    <3>1. rcv.buf \in SUBSET (Att \X Chunk) /\ rcv.got \in SUBSET Chunk
      BY <1>1 DEF Rcv
    <3>2. \A x \in rcv.buf : x[2] \in Chunk
      BY <3>1
    <3>3. indexes \in SUBSET Chunk
      <4> HIDE DEF alive, foreign
      <4> QED BY <3>2
    <3> HIDE DEF indexes
    <3> QED BY <3>1, <3>3
  <2>3. res \in {"ok", "full", "bad"}
    <3> HIDE DEF alive, foreign, got
    <3> QED OBVIOUS
  <2>4. hs \in SUBSET Handler /\ IsFiniteSet(hs) /\ prep \in Session \cup {Absent} /\ handle \in BOOLEAN
    BY <1>1, FS_Subset DEF Receivers, Rcv
  <2>5. r0 \in Rcv /\ r0.hs = hs /\ r0.fin = rcv.fin
    <3> HIDE DEF hs, prep, handle
    <3> QED BY <1>1, <2>4 DEF Rcv
  <2>6. r1 \in Rcv /\ r1.hs = hs /\ r1.fin = rcv.fin
    <3> DEFINE s == [r0 EXCEPT !.buf = {}, !.got = got, !.res = res]
    <3>1. r1 = IF alive THEN s ELSE r0
      OBVIOUS
    <3> HIDE DEF r0, r1, got, res, alive, hs
    <3>2. s \in Rcv
      BY <2>2, <2>3, <2>5 DEF Rcv
    <3>3. s.hs = hs /\ s.fin = rcv.fin
      BY <2>5 DEF Rcv
    <3> QED BY <2>5, <3>1, <3>2, <3>3
  <2>7. r1 \in Unbroken
    <3> HIDE DEF r1, hs
    <3> QED BY <1>1, <2>4, <2>6 DEF Unbroken, Receivers
  <2> HIDE DEF r1, H, res
  <2> QED BY <1>2, <2>1, <2>7, ToldUnbroken
<1>6. ASSUME NEW w, NEW saveRow, PersistDone(w, saveRow)
      PROVE  rcv'.fin # "broken"
  <2> DEFINE got == rcv.got \cup {w.i}
             done == w.live /\ got = Chunk
             fly == rcv.fly \ {w}
             seen == IF w.live THEN got ELSE rcv.got
             r == [rcv EXCEPT !.fly = fly, !.got = seen]
  <2>1. rcv.fly \in SUBSET Write /\ rcv.got \in SUBSET Chunk
    BY <1>1 DEF Rcv
  <2>2. fly \in SUBSET Write /\ seen \in SUBSET Chunk
    BY <1>6, <2>1 DEF PersistDone, Write
  <2>3. r \in Unbroken
    <3> HIDE DEF fly, seen
    <3>1. r \in Rcv /\ r.hs = rcv.hs /\ r.fin = rcv.fin
      BY <1>1, <2>2 DEF Rcv
    <3> HIDE DEF r
    <3> QED BY <1>1, <3>1 DEF Unbroken, Receivers
  <2>4. rcv' = IF done /\ w.ls # {} THEN Deliver(r) ELSE r
    BY <1>6 DEF PersistDone
  <2> HIDE DEF r, done
  <2> QED BY <1>2, <2>3, <2>4, DeliverUnbroken
<1>7. ASSUME NEW w, PersistFails(w)
      PROVE  rcv'.fin # "broken"
  <2> DEFINE fly == rcv.fly \ {w}
             r == [rcv EXCEPT !.fly = fly]
  <2>1. fly \in SUBSET Write
    BY <1>1 DEF Rcv
  <2>2. r \in Unbroken
    <3> HIDE DEF fly
    <3>1. r \in Rcv /\ r.hs = rcv.hs /\ r.fin = rcv.fin
      BY <1>1, <2>1 DEF Rcv
    <3> HIDE DEF r
    <3> QED BY <1>1, <3>1 DEF Unbroken, Receivers
  <2>3. rcv' = ChunkFails(r, net, w.ls).r
    BY <1>7 DEF PersistFails
  <2> HIDE DEF r
  <2> QED BY <1>2, <2>2, <2>3, ChunkFailsUnbroken
<1>8. ASSUME NEW l \in Lane, OnFrame(l)
      PROVE  rcv'.fin # "broken"
  <2>1. \A fly, buf : [rcv EXCEPT !.fly = fly].fin = rcv.fin /\ [rcv EXCEPT !.buf = buf].fin = rcv.fin
    BY <1>1 DEF Rcv
  <2>2. ChunkFails(rcv, TakeOut(l), {l}).r \in Unbroken
    BY ChunkFailsUnbroken
  <2>3. \/ rcv' = rcv
        \/ \E fly : rcv' = [rcv EXCEPT !.fly = fly]
        \/ \E buf : rcv' = [rcv EXCEPT !.buf = buf]
        \/ rcv' = ChunkFails(rcv, TakeOut(l), {l}).r
    BY <1>8 DEF OnFrame
  <2> QED BY <1>1, <1>2, <2>1, <2>2, <2>3
<1>9. ASSUME FinJoin
      PROVE  rcv'.fin # "broken"
  <2>1. DeliveryFailed(rcv) \in Unbroken
    BY DeliverUnbroken
  <2>2. [rcv EXCEPT !.fin = "whole"].fin = "whole"
    BY <1>1 DEF Rcv
  <2>3. rcv' = DeliveryFailed(rcv) \/ rcv' = [rcv EXCEPT !.fin = "whole"]
    BY <1>9 DEF FinJoin, Durable
  <2> QED BY <1>2, <2>1, <2>2, <2>3
<1>10. ASSUME NEW x, AbortDrained(x) \/ AbortWiped(x)
       PROVE  rcv'.fin # "broken"
  <2> DEFINE left == rcv.aborts \ {x}
             rest == [rcv EXCEPT !.aborts = left]
             aborts == rest.aborts \cup {[x EXCEPT !.ph = "wipe"]}
             s == DropSession(rest)
             gone == [s EXCEPT !.handle = FALSE, !.fin = s.fin]
             free == [gone EXCEPT !.paused = FALSE, !.cancelled = FALSE, !.prep = Absent]
  <2>1. rest \in Rcv /\ rest.fin # "broken" /\ rest \in Receivers(FALSE)
    <3>1. left \in SUBSET Cleaning
      BY <1>1 DEF Rcv
    <3> HIDE DEF left
    <3> QED BY <1>1, <3>1 DEF Rcv, Receivers
  <2>2. s \in Rcv
    <3> HIDE DEF rest
    <3> QED BY <2>1, DropSessionTyped DEF Receivers
  <2>3. s.fin = rest.fin
    <3> DEFINE fly == {[w EXCEPT !.live = FALSE] : w \in rest.fly}
    <3>1. s = [rest EXCEPT !.ses = 0, !.tok = 0, !.short = 0, !.got = {}, !.buf = {}, !.res = "none", !.fly = fly]
      BY DEF DropSession
    <3> HIDE DEF fly, rest, s
    <3> QED BY <2>1, <3>1 DEF Rcv
  <2>4. gone.fin # "broken" /\ free.fin # "broken" /\ [gone EXCEPT !.paused = FALSE, !.cancelled = FALSE].fin # "broken"
    <3> HIDE DEF s, rest
    <3> QED BY <2>1, <2>2, <2>3 DEF Rcv
  <2>5. Ended(gone, x).fin # "broken" /\ Ended(free, x).fin # "broken" /\ Ended(rest, x).fin # "broken"
    <3>1. x \in Cleaning
      BY <1>1, <1>10 DEF AbortDrained, AbortWiped, Rcv
    <3>2. gone \in Rcv /\ free \in Rcv
      <4> HIDE DEF s
      <4>1. gone \in Rcv
        BY <2>2 DEF Rcv
      <4> HIDE DEF gone
      <4> QED BY <4>1 DEF Rcv
    <3> HIDE DEF rest, gone, free
    <3> QED BY <2>1, <2>4, <3>1, <3>2, EndedUnbroken
  <2>6. [rest EXCEPT !.aborts = aborts].fin # "broken"
    <3> HIDE DEF rest, aborts
    <3> QED BY <2>1 DEF Rcv
  <2>7. rcv' \in {[rest EXCEPT !.aborts = aborts], Ended(rest, x), Ended(gone, x), Ended(free, x)}
    BY <1>10 DEF AbortDrained, AbortWiped
  <2> HIDE DEF rest, aborts, gone, free
  <2> QED BY <2>4, <2>5, <2>6, <2>7
<1>11. ASSUME UserPauseR \/ UserResumeR \/ SendResume
       PROVE  rcv'.fin # "broken"
  <2>1. rcv' \in {[rcv EXCEPT !.paused = TRUE], [rcv EXCEPT !.paused = FALSE], [rcv EXCEPT !.due = FALSE]}
    BY <1>11 DEF UserPauseR, UserResumeR, SendResume
  <2> QED BY <1>1, <2>1 DEF Rcv
<1>12. ASSUME UserCancelR \/ OnPeerCancel
       PROVE  rcv'.fin # "broken"
  <2>1. rcv' \in {rcv, Aborting(rcv, "forget")}
    BY <1>12 DEF UserCancelR, OnPeerCancel
  <2> QED BY <1>1, <1>2, <2>1, AbortingUnbroken
<1>13. ASSUME ReceiverGoesOn
       PROVE  rcv'.fin # "broken"
  BY <1>4, <1>5, <1>6, <1>9, <1>10, <1>11, <1>13 DEF ReceiverGoesOn
<1> QED BY <1>3, <1>7, <1>8, <1>11, <1>12, <1>13 DEF ReceiverActs, ReceiverHears

LEMMA ConnectionUnbroken ==
  ASSUME RecvOK(FALSE), NetOK(FALSE), rcv.fin # "broken", Connection
  PROVE  rcv'.fin # "broken"
<1>1. rcv \in Rcv
  BY ReceiverFacts
<1>2. CASE Drop \/ Reload
  BY <1>1, <1>2 DEF Drop, Reload, Blank, Rcv
<1>3. CASE Cleanup
  <2> DEFINE hs == {[h EXCEPT !.st = TRUE] : h \in rcv.hs}
             fly == {[w EXCEPT !.ls = {}] : w \in rcv.fly}
  <2>1. rcv' = [rcv EXCEPT !.hs = hs, !.fly = fly, !.map = 0, !.ackq = FALSE, !.due = FALSE]
    BY <1>3 DEF Cleanup, Detached
  <2> HIDE DEF hs, fly
  <2> QED BY <1>1, <2>1 DEF Rcv
<1>4. CASE Reopen
  <2> DEFINE r == [rcv EXCEPT !.due = TRUE]
  <2>1. r.fin = rcv.fin /\ [r EXCEPT !.ackq = FALSE].fin = rcv.fin
    BY <1>1 DEF Rcv
  <2>2. rcv' \in {r, [r EXCEPT !.ackq = FALSE]}
    <3>1. rcv' = Flushed(r, Quiet("open", net.version)).r
      BY <1>4 DEF Reopen
    <3> HIDE DEF r
    <3> QED BY <3>1 DEF Flushed
  <2> HIDE DEF r
  <2> QED BY <2>1, <2>2
<1>5. ASSUME NEW l \in Lane, LaneCloses(l)
      PROVE  rcv'.fin # "broken"
  BY <1>5 DEF LaneCloses, recvVars
<1> QED BY <1>2, <1>3, <1>4, <1>5 DEF Connection

\* With the chunk store as the backend no delivered file has a hole, whatever is
\* lost, reloaded, aborted or written twice (BUG-017, receive-engine.ts
\* finalizeReceive).
THEOREM StoredIsWhole == ASSUME ~Streamed PROVE Spec => []NoHoles
<1>1. Init => NoHoles
  BY DEF Init, RecvInit, Blank, NoHoles
<1>2. ASSUME Typed, NoHoles, [Next]_vars
      PROVE  NoHoles'
  <2>1. /\ SendOK(FALSE) /\ RecvOK(FALSE) /\ NetOK(FALSE) /\ FALSE \in BOOLEAN /\ disk \in Disk
        /\ rcv.fin # "broken" /\ disk.out # "broken" /\ rcv \in Unbroken
    BY <1>2, ReceiverFacts DEF Typed, NoHoles, Unbroken
  <2>2. CASE SenderMoves /\ UNCHANGED recvVars
    BY <1>2, <2>2 DEF recvVars, NoHoles
  <2>3. CASE ReceiverActs /\ UNCHANGED sendVars /\ ~FinRow
    BY <2>1, <2>3, ReceiverUnbroken, OutKept DEF NoHoles
  <2>4. CASE FinRow
    <3> DEFINE s == DropSession(rcv)
               r == [s EXCEPT !.fin = "no", !.handle = FALSE, !.map = 0, !.ackq = TRUE,
                              !.paused = FALSE, !.cancelled = FALSE]
               d == RowStatus(disk, "completed")
    <3>1. s \in Rcv /\ d \in Disk
      <4>1. s \in Receivers(FALSE) /\ d \in Disks(FALSE)
        BY <2>1, ReceiverFacts, DropSessionTyped, DiskOps
      <4> HIDE DEF s, d
      <4> QED BY <4>1 DEF Receivers, Disks
    <3>2. r.fin = "no" /\ [r EXCEPT !.ackq = FALSE].fin = "no"
      <4> HIDE DEF s
      <4> QED BY <3>1 DEF Rcv
    <3>3. rcv' = Flushed(r, net).r /\ disk' = [d EXCEPT !.idb = {}, !.swap = {}, !.out = rcv.fin]
      BY <2>4 DEF FinRow
    <3>4. rcv'.fin = "no"
      <4> HIDE DEF r
      <4> QED BY <3>2, <3>3 DEF Flushed
    <3>5. disk'.out = rcv.fin
      <4> HIDE DEF d
      <4> QED BY <3>1, <3>3 DEF Disk
    <3> QED BY <2>1, <3>4, <3>5 DEF NoHoles
  <2>5. CASE Connection
    BY <2>1, <2>5, ConnectionUnbroken, ConnectionTyped DEF NoHoles
  <2>6. CASE UNCHANGED vars
    BY <1>2, <2>6 DEF vars, recvVars, NoHoles
  <2> QED BY <1>2, <2>2, <2>3, <2>4, <2>5, <2>6, Steps
<1>3. TransferInv => Typed
  BY DEF TransferInv
<1> QED BY <1>1, <1>2, <1>3, TransferInductive, PTL DEF Spec
=============================================================================
