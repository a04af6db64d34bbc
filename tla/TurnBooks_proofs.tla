-------------------------- MODULE TurnBooks_proofs --------------------------
(***************************************************************************)
(* What the books of the TURN service say of the credentials and of the    *)
(* usage confirmed for them, without the policy that sweeps every          *)
(* credential when the kill switch trips.                                  *)
(***************************************************************************)
EXTENDS TurnDurable_proofs

(***************************************************************************)
(* The copies of the books: in memory, in a write under way, on disk.      *)
(***************************************************************************)

Copies ==
    {books} \cup (IF On("turn") THEN {Snap("turn")} ELSE {})
            \cup (IF disk["turn"] = Torn THEN {} ELSE {disk["turn"]})

LEMMA CopiesTyped ==
  ASSUME Typed
  PROVE  \A d \in Copies : d \in Books
BY DEF Copies, Typed, Types, BooksTyped, FileTyped, Fitting, DiskTyped, On, Snap

\* A step makes no copy but of the books.
LEMMA CopiesMove ==
  ASSUME Typed, Chained, Next
  PROVE  \A d \in Copies' : d \in Copies \/ d = books'
<1>1. CASE Calm
  <2>1. disk' = disk /\ Moves
    BY <1>1 DEF Calm
  <2>2. \/ file'["turn"].write = file["turn"].write
        \/ file'["turn"].write = [on |-> TRUE, snap |-> books]
        \/ file'["turn"].write = [on |-> TRUE, snap |-> books']
    BY <2>1, FileNames, WriteMoves
  <2> QED BY <2>1, <2>2 DEF Copies, On, Snap
<1>2. CASE \/ \E a \in {"abuse", "sweep"} : Flushed(a)
           \/ \E a \in Revoker : ProviderRevokes(a)
           \/ LockAnswered \/ Exits
  BY <1>2 DEF Flushed, ProviderRevokes, LockAnswered, Exits, persistVars, Copies, On, Snap
<1>3. CASE Write /\ UNCHANGED <<cred, work, poll, cf, srv>>
  <2>1. PICK f \in File : WriteDone(f) \/ WriteFails(f)
    BY <1>3 DEF Write
  <2>2. PICK ok \in BOOLEAN, keep \in BOOLEAN : Ended(f, ok, keep)
    BY <2>1, WriteFacts DEF Typed
  <2>3. /\ On(f) /\ books' = books /\ disk' \in {disk, [disk EXCEPT ![f] = Snap(f)]}
        /\ disk \in [File -> Snapshot]
    BY <2>1, WriteFacts DEF Typed, Types, DiskTyped, On, Snap
  <2>0. Types /\ WritesOn /\ file[f].write.on
    BY <2>3 DEF Typed, On
  <2>4. \/ file'["turn"].write = file["turn"].write
        \/ file'["turn"].write = NoWrite
        \/ file'["turn"].write = [on |-> TRUE, snap |-> books]
    <3>1. CASE f = "turn"
      <4>1. file'[f].write = IF Tail(file[f].chain) = <<>> THEN NoWrite
                             ELSE [on |-> TRUE, snap |-> IF f = "turn" THEN books ELSE locks]
        BY <2>0, <2>2, EndedFacts
      <4> QED BY <3>1, <4>1
    <3>2. CASE f # "turn"
      <4>1. \A g \in File : g # f =>
               file'[g].write = IF (f = "turn" /\ Head(file[f].chain) # Tick /\ file["locks"].load = "ok")
                                   /\ file[g].chain = <<>> THEN [on |-> TRUE, snap |-> locks]
                                ELSE file[g].write
        BY <2>0, <2>2, EndedFacts
      <4> QED BY <3>2, <4>1, FileNames
    <3> QED BY <3>1, <3>2
  <2>5. disk'["turn"] = disk["turn"] \/ (On("turn") /\ disk'["turn"] = Snap("turn"))
    BY <2>3, FileNames
  <2> QED BY <2>3, <2>4, <2>5 DEF Copies, On, Snap, NoWrite
<1>4. CASE Crash \/ CrashTorn
  <2>1. PICK t \in Books \cup {Torn}, l \in BOOLEAN \cup {Torn} :
           Restarts([turn |-> t, locks |-> l]) /\ t \in Left("turn") \cup {Torn}
    BY <1>4, CrashFacts DEF Typed
  <2>2. disk' = [turn |-> t, locks |-> l = TRUE] /\ file'["turn"].write = NoWrite
    BY <2>1, FileNames, RestartsFacts DEF Typed
  <2>3. disk'["turn"] = t
    BY <2>2
  <2>4. t = Torn \/ t = disk["turn"] \/ (On("turn") /\ t = Snap("turn"))
    BY <2>1 DEF Left, On, Snap
  <2> QED BY <2>2, <2>3, <2>4 DEF Copies, On, Snap, NoWrite
<1> QED BY <1>1, <1>2, <1>3, <1>4, StepKinds

(***************************************************************************)
(* The inductive invariant.                                                *)
(***************************************************************************)

\* A reservation that is neither under way nor honoured any more.
Gone(r) == r <= cred.last /\ r \notin cf.live /\ \A c \in Cid : cred.issue[c].rid # r

\* An issue that is recorded has its entry, unless it is over or its session is denied or has
\* asked for a newer one.
Recorded(d) ==
    \A r \in d.issues :
       /\ cf.owner[r] \in Cid /\ r <= cred.last
       /\ \/ Gone(r) \/ ~Newest(r) \/ Denied(d, cf.owner[r])
          \/ d.active[cf.owner[r]].rid = r

\* An entry stands for a reservation of its session; what has expired is over; who is to be
\* revoked is denied.
Sound(d) ==
    /\ Recorded(d)
    /\ \A c \in Cid :
          LET e == d.active[c]
          IN  /\ e.rid # 0 => /\ cf.owner[e.rid] = c /\ e.rid <= cred.last
                              /\ e.age = "old" => Gone(e.rid)
              /\ e.pending => DeniedOn(d, PrincipalOf[c])

Accounted == \A d \in Copies : Sound(d)

\* What is under way is recorded, and so is what a client holds and no crash has forgotten.
Issued ==
    /\ \A c \in Cid :
          LET r == cred.issue[c].rid
          IN  r # 0 => /\ cf.owner[r] = c /\ r \notin cred.held /\ r \in books.issues
                       /\ books.active[c].rid = r => books.active[c].age = "fresh"
    /\ \A r \in Rid : r > cred.last => cf.owner[r] = NoCid /\ r \notin cf.live /\ r \notin cred.held
    /\ \A r \in cred.held : cf.owner[r] \in Cid
    /\ cred.held \ cred.lost \subseteq books.issues

\* Without the sweep, only the entries of denied sessions are revoked.
Revoked(a) == work[a].at \in {"revoke", "heard"} \/ (a = "abuse" /\ work[a].at = "flush")
Awaited ==
    /\ work["sweep"].at = "idle"
    /\ \A a \in {"abuse", "retry"} : Revoked(a) => DeniedOn(books, PrincipalOf[work[a].c])
    /\ \A c \in work["retry"].todo : DeniedOn(books, PrincipalOf[c])

OnTheBooks == Accounted /\ Issued /\ Awaited

(***************************************************************************)
(* Steps that issue nothing.                                               *)
(***************************************************************************)

\* Entries stay, or are dropped once they have expired or their session is denied.
Inherits(b, d) ==
    /\ \A c \in Cid :
          \/ /\ d.active[c].rid = b.active[c].rid /\ d.active[c].age = b.active[c].age
             /\ d.active[c].pending => b.active[c].pending \/ DeniedOn(d, PrincipalOf[c])
          \/ /\ d.active[c].rid = 0 /\ ~d.active[c].pending
             /\ (b.active[c].age = "old" /\ b.active[c].rid # 0) \/ DeniedOn(b, PrincipalOf[c])
    /\ \A c \in Cid : Denied(b, c) => Denied(d, c)
    /\ \A p \in Principal : DeniedOn(b, p) => DeniedOn(d, p)
    /\ d.issues = b.issues

LEMMA NoEntryFacts == NoEntry.rid = 0 /\ NoEntry.pending = FALSE
BY DEF NoEntry

LEMMA BannedIsDenied ==
  ASSUME NEW b, NEW c \in Cid, DeniedOn(b, PrincipalOf[c])
  PROVE  Denied(b, c)
BY DEF DeniedOn, Denied

LEMMA SameDenied ==
  ASSUME NEW b, NEW d, d.deny = b.deny
  PROVE  /\ \A c \in Cid : Denied(b, c) => Denied(d, c)
         /\ \A p \in Principal : DeniedOn(b, p) => DeniedOn(d, p)
BY DEF DeniedOn, Denied

LEMMA SameInherits ==
  ASSUME NEW b, NEW d, d.deny = b.deny, d.issues = b.issues,
         \A c \in Cid : /\ d.active[c].rid = b.active[c].rid /\ d.active[c].age = b.active[c].age
                        /\ d.active[c].pending => b.active[c].pending
  PROVE  Inherits(b, d)
BY SameDenied DEF Inherits

LEMMA InheritsFromSame ==
  ASSUME NEW a, NEW b, NEW d, b.active = a.active, b.deny = a.deny, b.issues = a.issues, Inherits(b, d)
  PROVE  Inherits(a, d)
BY DEF Inherits, Denied, DeniedOn

LEMMA PrunedInherits ==
  ASSUME NEW b \in Books
  PROVE  Inherits(b, Pruned(b))
<1>1. Pruned(b).deny = b.deny /\ Pruned(b).issues = b.issues
  BY PrunedFacts
<1>2. \A c \in Cid : IF c \in Expired(b) THEN Pruned(b).active[c] = NoEntry
                     ELSE /\ Pruned(b).active[c].rid = b.active[c].rid
                          /\ Pruned(b).active[c].age = b.active[c].age
                          /\ Pruned(b).active[c].pending = b.active[c].pending
  BY PrunedFacts
<1>3. \A c \in Expired(b) : b.active[c].age = "old" /\ b.active[c].rid # 0
  BY DEF Expired, Active
<1> DEFINE d == Pruned(b)
<1>4. /\ \A c \in Cid : Denied(b, c) => Denied(d, c)
      /\ \A p \in Principal : DeniedOn(b, p) => DeniedOn(d, p)
  BY <1>1, SameDenied
<1> QED BY <1>1, <1>2, <1>3, <1>4, NoEntryFacts DEF Inherits

LEMMA DroppedInherits ==
  ASSUME NEW b \in Books, NEW c \in Cid, DeniedOn(b, PrincipalOf[c])
  PROVE  Inherits(b, Dropped(b, {c}))
<1> DEFINE d == Dropped(b, {c})
<1>1. /\ d.deny = b.deny /\ d.active = [x \in Cid |-> IF x \in {c} THEN NoEntry ELSE b.active[x]]
      /\ d.issues = b.issues
  <2>1. {c} \in SUBSET Cid
    OBVIOUS
  <2> QED BY <2>1, DroppedFacts
<1>2. /\ \A x \in Cid : Denied(b, x) => Denied(d, x)
      /\ \A p \in Principal : DeniedOn(b, p) => DeniedOn(d, p)
  BY <1>1, SameDenied
<1> HIDE DEF d
<1>3. \A x \in Cid : d.active[x] = IF x = c THEN NoEntry ELSE b.active[x]
  BY <1>1
<1>4. Inherits(b, d)
  BY <1>1, <1>2, <1>3, NoEntryFacts DEF Inherits
<1> QED BY <1>4 DEF d

LEMMA WithDenyDenies ==
  ASSUME NEW b \in Books, NEW c \in Cid, NEW x \in Cid, Denied(b, x)
  PROVE  Denied(WithDeny(b, c), x)
<1> DEFINE i == IpOf[c]
           P == PrincipalOf[c]
           deny == {d \in b.deny : <<d[1], d[2]>> # <<"principal", P>>}
                      \cup {<<"principal", P, i>>, <<"cid", c, i>>}
<1>1. deny \subseteq WithDeny(b, c).deny
  BY DEF WithDeny, Books
<1>2. PICK d \in b.deny : <<d[1], d[2]>> \in
        {<<"ip", IpOf[x]>>, <<"principal", PrincipalOf[x]>>, <<"cid", x>>}
  BY DEF Denied
<1>3. CASE <<d[1], d[2]>> # <<"principal", P>>
  <2>1. d \in deny
    BY <1>2, <1>3
  <2> QED BY <1>1, <1>2, <2>1 DEF Denied
<1>4. CASE <<d[1], d[2]>> = <<"principal", P>>
  <2> DEFINE e == <<"principal", P, i>>
  <2>1. e \in deny /\ <<e[1], e[2]>> = <<d[1], d[2]>>
    BY <1>4
  <2> QED BY <1>1, <1>2, <2>1 DEF Denied
<1> QED BY <1>3, <1>4

LEMMA AbusedInherits ==
  ASSUME NEW b \in Books, NEW c \in Cid
  PROVE  Inherits(b, Abused(b, c))
<1> DEFINE s == Settled(b, {c})
           d == Abused(b, c)
<1>0. {c} \in SUBSET Cid
  OBVIOUS
<1>1. s \in Books /\ s.deny = b.deny
  BY <1>0, SettledFacts
<1>2. d.deny = WithDeny(s, c).deny
  BY <1>1, WithDenyFacts DEF Abused, Books
<1>3. ASSUME NEW x \in Cid, Denied(b, x) PROVE Denied(d, x)
  <2>1. Denied(s, x)
    BY <1>1, <1>3 DEF Denied
  <2>2. Denied(WithDeny(s, c), x)
    BY <1>1, <2>1, WithDenyDenies
  <2> QED BY <1>2, <2>2 DEF Denied
<1>4. /\ \A x \in Cid :
            /\ d.active[x].rid = b.active[x].rid
            /\ d.active[x].age = b.active[x].age
            /\ d.active[x].pending => x = c \/ b.active[x].pending
      /\ \A p \in Principal : DeniedOn(b, p) => DeniedOn(d, p)
      /\ DeniedOn(d, PrincipalOf[c]) /\ d.issues = b.issues
  BY AbusedFacts
<1> HIDE DEF d
<1>5. Inherits(b, d)
  BY <1>3, <1>4 DEF Inherits
<1> QED BY <1>5 DEF d

\* What can never become untrue again stays.
Ahead ==
    /\ cred.last <= cred'.last
    /\ \A r \in Rid : r <= cred.last => cf'.owner[r] = cf.owner[r]
    /\ \A r \in Rid : r <= cred.last /\ cf.owner[r] \in Cid /\ Newest(r)' => Newest(r)
    /\ \A r \in Rid : Gone(r) => Gone(r)'

LEMMA SoundStays ==
  ASSUME Typed, Typed', Ahead, NEW d \in Books, Sound(d)
  PROVE  Sound(d)'
<1>1. cred.last \in Nat /\ cred'.last \in Nat
  BY DEF Typed, Types, CredTyped, Creds, Rid
<1>2. ASSUME NEW c \in Cid, d.active[c].rid # 0
      PROVE  /\ cf'.owner[d.active[c].rid] = c /\ d.active[c].rid <= cred'.last
             /\ d.active[c].age = "old" => Gone(d.active[c].rid)'
  <2> DEFINE r == d.active[c].rid
  <2>1. r \in Rid /\ r \in Nat
    BY <1>2 DEF Books, Entries, Rid
  <2>2. cf.owner[r] = c /\ r <= cred.last /\ (d.active[c].age = "old" => Gone(r))
    BY <1>2 DEF Sound
  <2> HIDE DEF r
  <2>3. cf'.owner[r] = c /\ r <= cred'.last /\ (d.active[c].age = "old" => Gone(r)')
    BY <1>1, <2>1, <2>2 DEF Ahead
  <2> QED BY <2>3 DEF r
<1>3. ASSUME NEW r \in d.issues
      PROVE  /\ cf'.owner[r] \in Cid /\ r <= cred'.last
             /\ \/ Gone(r)' \/ ~Newest(r)' \/ Denied(d, cf'.owner[r])
                \/ d.active[cf'.owner[r]].rid = r
  <2>1. r \in Rid /\ r \in Nat
    BY <1>3 DEF Books, Rid
  <2>2. /\ cf.owner[r] \in Cid /\ r <= cred.last
        /\ Gone(r) \/ ~Newest(r) \/ Denied(d, cf.owner[r]) \/ d.active[cf.owner[r]].rid = r
    BY <1>3 DEF Sound, Recorded
  <2>3. cf'.owner[r] = cf.owner[r] /\ r <= cred'.last
    BY <1>1, <2>1, <2>2 DEF Ahead
  <2>4. (Gone(r) => Gone(r)') /\ (Newest(r)' => Newest(r))
    BY <2>1, <2>2 DEF Ahead
  <2> QED BY <2>2, <2>3, <2>4
<1>4. Recorded(d)'
  BY <1>3 DEF Recorded, Denied
<1> QED BY <1>2, <1>4 DEF Sound

LEMMA SoundInherits ==
  ASSUME NEW b, NEW d, Inherits(b, d), Sound(b)
  PROVE  Sound(d)
<1>1. ASSUME NEW c \in Cid
      PROVE  /\ d.active[c].rid # 0 => /\ cf.owner[d.active[c].rid] = c /\ d.active[c].rid <= cred.last
                                       /\ d.active[c].age = "old" => Gone(d.active[c].rid)
             /\ d.active[c].pending => DeniedOn(d, PrincipalOf[c])
  <2>1. /\ b.active[c].rid # 0 => /\ cf.owner[b.active[c].rid] = c /\ b.active[c].rid <= cred.last
                                  /\ b.active[c].age = "old" => Gone(b.active[c].rid)
        /\ b.active[c].pending => DeniedOn(b, PrincipalOf[c])
    BY DEF Sound
  <2>2. DeniedOn(b, PrincipalOf[c]) => DeniedOn(d, PrincipalOf[c])
    BY OwnerAssumption DEF Inherits
  <2> QED BY <2>1, <2>2 DEF Inherits
<1>2. ASSUME NEW r \in d.issues
      PROVE  /\ cf.owner[r] \in Cid /\ r <= cred.last
             /\ \/ Gone(r) \/ ~Newest(r) \/ Denied(d, cf.owner[r])
                \/ d.active[cf.owner[r]].rid = r
  <2>1. /\ cf.owner[r] \in Cid /\ r <= cred.last
        /\ Gone(r) \/ ~Newest(r) \/ Denied(b, cf.owner[r]) \/ b.active[cf.owner[r]].rid = r
    BY <1>2 DEF Sound, Recorded, Inherits
  <2> DEFINE c == cf.owner[r]
  <2>2. Denied(b, c) => Denied(d, c)
    BY <2>1 DEF Inherits
  <2>3. \/ d.active[c].rid = b.active[c].rid
        \/ b.active[c].age = "old" /\ b.active[c].rid # 0
        \/ Denied(b, c)
    BY <2>1, BannedIsDenied DEF Inherits
  <2>4. b.active[c].age = "old" /\ b.active[c].rid # 0 => Gone(b.active[c].rid)
    BY <2>1 DEF Sound
  <2> QED BY <2>1, <2>2, <2>3, <2>4
<1> QED BY <1>1, <1>2 DEF Sound, Recorded

LEMMA IssuedFacts ==
  ASSUME Typed, Issued
  PROVE  /\ \A c \in Cid : cred.issue[c].rid # 0 => cred.issue[c].rid \in Rid /\ cred.issue[c].rid <= cred.last
         /\ \A r \in cred.held : r \in Rid /\ r <= cred.last
         /\ cred.last \in Nat
<1>1. cred \in Creds
  BY DEF Typed, Types, CredTyped
<1>2. cred.last \in Nat /\ cred.held \subseteq Rid
  BY <1>1 DEF Creds, Rid
<1>3. ASSUME NEW c \in Cid, cred.issue[c].rid # 0
      PROVE  cred.issue[c].rid \in Rid /\ cred.issue[c].rid <= cred.last
  <2>1. cred.issue[c].rid \in Rid
    BY <1>1, <1>3 DEF Creds
  <2>2. cf.owner[cred.issue[c].rid] = c /\ c # NoCid
    BY <1>3, OwnerAssumption DEF Issued
  <2> QED BY <1>2, <2>1, <2>2 DEF Issued, Rid
<1>4. ASSUME NEW r \in cred.held PROVE r \in Rid /\ r <= cred.last
  BY <1>2, <1>4 DEF Issued, Rid
<1> QED BY <1>2, <1>3, <1>4

Passes ==
    /\ Inherits(books, books')
    /\ cred'.last = cred.last /\ cred'.issue = cred.issue /\ cred'.held = cred.held /\ cred'.lost = cred.lost
    /\ cf'.owner = cf.owner /\ cf'.live \subseteq cf.live

\* The part that steps share: every copy but the new books is an old one.
LEMMA AccountedMoves ==
  ASSUME Typed, Typed', Chained, Next, Accounted, Ahead, Sound(books)'
  PROVE  Accounted'
<1>1. ASSUME NEW d \in Copies' PROVE Sound(d)'
  <2>1. CASE d \in Copies
    <3>1. d \in Books /\ Sound(d)
      BY <2>1, CopiesTyped DEF Accounted
    <3> QED BY <3>1, SoundStays
  <2>2. CASE d = books'
    BY <2>2 DEF Sound
  <2> QED BY <1>1, <2>1, <2>2, CopiesMove
<1> QED BY <1>1 DEF Accounted

LEMMA BooksSound ==
  ASSUME Typed, Accounted
  PROVE  books \in Books /\ Sound(books)
BY DEF Typed, Types, BooksTyped, Accounted, Copies

LEMMA OnTheBooksPasses ==
  ASSUME Typed, Typed', Chained, Next, OnTheBooks, Passes, Awaited'
  PROVE  OnTheBooks'
<1>0. /\ books \in Books /\ books' \in Books /\ cred \in Creds /\ Sound(books)
  BY BooksSound DEF OnTheBooks, Typed, Types, BooksTyped, CredTyped
<1>1. cred.last \in Nat
  BY <1>0 DEF Creds, Rid
<1>2. Ahead
  BY <1>1 DEF Ahead, Passes, Gone, Newest
<1>3. Accounted'
  <2>1. Sound(books')
    BY <1>0, SoundInherits DEF Passes
  <2>2. PICK d \in Books : d = books' /\ Sound(d)
    BY <1>0, <2>1
  <2>3. Sound(d)'
    BY <1>2, <2>2, SoundStays
  <2>4. Sound(books)'
    BY <2>2, <2>3 DEF Sound, Recorded, Denied, DeniedOn
  <2> QED BY <1>2, <2>4, AccountedMoves DEF OnTheBooks
<1>4. \A c \in Cid : \/ /\ books'.active[c].rid = books.active[c].rid
                        /\ books'.active[c].age = books.active[c].age
                     \/ books'.active[c].rid = 0
  BY DEF Passes, Inherits
<1>5. books'.issues = books.issues
  BY DEF Passes, Inherits
<1>6. Issued'
  <2>1. ASSUME NEW c \in Cid, NEW r, r = cred.issue[c].rid, r # 0
        PROVE  /\ cf.owner[r] = c /\ r \notin cred.held /\ r \in books'.issues
               /\ books'.active[c].rid = r => books'.active[c].age = "fresh"
    BY <1>4, <1>5, <2>1 DEF OnTheBooks, Issued
  <2> QED BY <1>5, <2>1 DEF Issued, Passes, OnTheBooks
<1> QED BY <1>3, <1>6 DEF OnTheBooks

LEMMA PolicyStays ==
  ASSUME Typed, Next
  PROVE  srv'.policy = srv.policy
<1>0. Types /\ srv \in Servers
  BY DEF Typed, Types
<1>1. CASE Crash \/ CrashTorn
  <2>1. PICK t \in Books \cup {Torn}, l \in BOOLEAN \cup {Torn} : Restarts([turn |-> t, locks |-> l])
    BY <1>0, <1>1, CrashFacts
  <2>2. srv' = [srv EXCEPT !.at = "up"]
    BY <1>0, <2>1, RestartsFacts
  <2> QED BY <1>0, <2>2 DEF Servers
<1>2. CASE MonthTurns \/ Stops \/ LockAnswered \/ Exits \/ StopFlushes
  <2>1. CASE MonthTurns
    BY <1>0, <2>1 DEF MonthTurns, Servers
  <2>2. CASE Stops
    BY <1>0, <2>2 DEF Stops, Servers
  <2>3. CASE LockAnswered
    BY <1>0, <2>3 DEF LockAnswered, Servers
  <2>4. CASE Exits
    <3> DEFINE at == IF sec["stop"].ok /\ (\A f \in File : file[f].load = "ok") /\ ~Issuing THEN "clean"
                     ELSE IF sec["stop"].ok /\ (\A f \in File : file[f].load = "ok") /\ srv.at = "flushing"
                          THEN "late" ELSE "failed"
    <3>1. srv' = [srv EXCEPT !.at = at]
      BY <1>0, <2>4, ExitsFacts DEF Exits, Servers
    <3> HIDE DEF at
    <3> QED BY <1>0, <3>1 DEF Servers
  <2>5. CASE StopFlushes
    <3>1. PICK at \in {"flushing", "last"} : srv' = [srv EXCEPT !.at = at]
      BY <1>0, <2>5 DEF StopFlushes, Servers
    <3> QED BY <1>0, <3>1 DEF Servers
  <2> QED BY <1>2, <2>1, <2>2, <2>3, <2>4, <2>5
<1>3. CASE srv' = srv
  BY <1>3
<1> QED BY <1>1, <1>2, <1>3 DEF Next, Issue, IssueOld, IssueFresh, ProviderMakes, IssueDone, IssueFails,
      Revoke, ProviderRevokes, RevokeDone, RevokeFails, Flushed, SweepNext, RetryStarts, RetryNext,
      Poll, AbuseAsks, AbuseAskFails, AbuseRows, GlobalAsks, ProviderCounts, GlobalFails, GlobalStale,
      GlobalLowerBound, GlobalTotal, Persisting, World, LockEngages, Relays, Ages

LEMMA AwaitedKept ==
  ASSUME Typed, Awaited, work' = work, \A p \in Principal : DeniedOn(books, p) => DeniedOn(books', p)
  PROVE  Awaited'
<1>1. \A a \in {"abuse", "retry"} : Revoked(a) => work[a].c \in Cid /\ PrincipalOf[work[a].c] \in Principal
  BY OwnerAssumption DEF Revoked, Typed, Types, WorkTyped, WorkFine, Revoker
<1>2. work["retry"].todo \subseteq Cid
  BY DEF Typed, Types, WorkTyped, WorkFine, Works, WorkState, Revoker
<1>3. \A c \in Cid : PrincipalOf[c] \in Principal
  BY OwnerAssumption
<1> QED BY <1>1, <1>2, <1>3 DEF Awaited, Revoked

(***************************************************************************)
(* Issuing.                                                                *)
(***************************************************************************)

LEMMA BooksIssueOld ==
  ASSUME Typed, Typed', Chained, Next, OnTheBooks, NEW c \in Cid, IssueOld(c)
  PROVE  OnTheBooks'
<1>0. Types /\ WritesOn /\ books \in Books /\ srv \in Servers
  BY DEF Typed, Types, BooksTyped
<1>1. /\ books' = Pruned(Rolled(books)) /\ work' = work
      /\ cred'.issue = cred.issue /\ cred'.held = cred.held /\ cred'.lost = cred.lost /\ cred'.last = cred.last
  BY <1>0, IssueOldFacts
<1>2. /\ Rolled(books) \in Books /\ Rolled(books).active = books.active /\ Rolled(books).deny = books.deny
      /\ Rolled(books).issues = books.issues
  BY <1>0, RolledFacts
<1>3. Inherits(Rolled(books), books')
  BY <1>1, <1>2, PrunedInherits
<1>4. Inherits(books, books')
  BY <1>2, <1>3, InheritsFromSame
<1>5. cf' = cf
  BY DEF IssueOld
<1>6. Passes
  BY <1>1, <1>4, <1>5 DEF Passes
<1>7. Awaited'
  BY <1>1, <1>4, AwaitedKept DEF Inherits, OnTheBooks
<1> QED BY <1>6, <1>7, OnTheBooksPasses

LEMMA BooksIssueFresh ==
  ASSUME Typed, Typed', Chained, Next, OnTheBooks, ~srv.policy, NEW c \in Cid, IssueFresh(c)
  PROVE  OnTheBooks'
<1> DEFINE b == Pruned(Rolled(books))
           r == cred.last + 1
           d == Reserved(b, c, r)
<1>0. /\ Types /\ WritesOn /\ books \in Books /\ books' \in Books /\ srv \in Servers /\ cred \in Creds
      /\ cf \in Providers /\ Sound(books) /\ work \in Works
  BY BooksSound DEF Typed, Types, BooksTyped, CredTyped, OnTheBooks, WorkTyped, WorkFine
<1>1. /\ r \in Rid /\ b \in Books /\ Swept(d, books') /\ SweptOrKept(work, d)
      /\ cred'.last = r /\ cred'.held = cred.held /\ cred'.lost = cred.lost
      /\ cred'.issue = [cred.issue EXCEPT ![c] = [rid |-> r, made |-> FALSE]]
  BY <1>0, IssueFreshFacts
<1>2. cf' = [cf EXCEPT !.owner[r] = c]
  BY DEF IssueFresh
<1>3. /\ cf'.owner = [cf.owner EXCEPT ![r] = c] /\ cf'.live = cf.live
  BY <1>0, <1>1, <1>2 DEF Providers
<1>4. /\ Rolled(books) \in Books /\ Rolled(books).active = books.active /\ Rolled(books).deny = books.deny
      /\ Rolled(books).issues = books.issues
  BY <1>0, RolledFacts
<1>5. Inherits(Rolled(books), b)
  BY <1>4, PrunedInherits
<1>6. Inherits(books, b)
  BY <1>4, <1>5, InheritsFromSame
<1>7. /\ d.active = [b.active EXCEPT ![c] = Entry(r)] /\ d.deny = b.deny
      /\ Entry(r).rid = r /\ Entry(r).age = "fresh" /\ ~Entry(r).pending
  BY <1>1, ReservedFacts
<1>07. d.issues = b.issues \cup {r}
  BY <1>1, ReservedIssues
<1> HIDE DEF b, d
<1>8. /\ books'.active[c].rid = r /\ books'.active[c].age = "fresh" /\ ~books'.active[c].pending
      /\ \A x \in Cid : x # c => /\ books'.active[x].rid = b.active[x].rid
                                 /\ books'.active[x].age = b.active[x].age
                                 /\ books'.active[x].pending = b.active[x].pending
      /\ books'.deny = b.deny
  BY <1>1, <1>7 DEF Swept, Books
<1>08. books'.issues = books.issues \cup {r}
  BY <1>1, <1>6, <1>07 DEF Swept, Inherits
<1>9. \A x \in Cid : (Denied(b, x) <=> Denied(books', x))
  BY <1>8 DEF Denied
<1>10. \A p \in Principal : (DeniedOn(b, p) <=> DeniedOn(books', p))
  BY <1>8 DEF DeniedOn
<1>11. /\ \A x \in Cid : cred.issue[x].rid # 0 =>
              cred.issue[x].rid \in Rid /\ cred.issue[x].rid <= cred.last
       /\ \A n \in cred.held : n \in Rid /\ n <= cred.last
       /\ cred.last \in Nat
  BY IssuedFacts DEF OnTheBooks
<1>12. /\ cred'.issue[c].rid = r /\ \A x \in Cid : x # c => cred'.issue[x].rid = cred.issue[x].rid
       /\ cf'.owner[r] = c /\ \A n \in Rid : n # r => cf'.owner[n] = cf.owner[n]
       /\ r = cred.last + 1
  BY <1>0, <1>1, <1>3 DEF Creds, Providers
<1> HIDE DEF r
<1>13. /\ Rid \subseteq Nat /\ cred'.held = cred.held /\ cred'.lost = cred.lost
       /\ \A n \in Rid : n <= cred.last => n # r
  BY <1>1, <1>11, <1>12 DEF Rid
<1>19. \A n \in Rid : n > cred.last => cf.owner[n] = NoCid /\ n \notin cf.live /\ n \notin cred.held
  BY DEF OnTheBooks, Issued
<1>14. Ahead
  <2>1. ASSUME NEW n \in Rid, Gone(n) PROVE Gone(n)'
    <3>1. ASSUME NEW x \in Cid PROVE cred'.issue[x].rid # n
      BY <1>11, <1>12, <1>13, <2>1 DEF Gone
    <3> QED BY <1>1, <1>3, <1>11, <1>12, <1>13, <2>1, <3>1 DEF Gone
  <2>2. ASSUME NEW n \in Rid, n <= cred.last, cf.owner[n] \in Cid, Newest(n)'
        PROVE  Newest(n)
    <3>1. ASSUME NEW m \in Rid, m > n PROVE cf.owner[m] # cf.owner[n]
      <4>1. CASE m > cred.last
        BY <1>19, <2>2, <3>1, <4>1, OwnerAssumption
      <4>2. CASE ~(m > cred.last)
        <5>1. m # r /\ n # r
          BY <1>11, <1>12, <1>13, <2>2, <3>1, <4>2
        <5> QED BY <1>12, <2>2, <3>1, <5>1 DEF Newest
      <4> QED BY <4>1, <4>2
    <3> QED BY <3>1 DEF Newest
  <2>3. cred.last <= cred'.last /\ \A n \in Rid : n <= cred.last => cf'.owner[n] = cf.owner[n]
    BY <1>1, <1>11, <1>12, <1>13
  <2> QED BY <2>1, <2>2, <2>3 DEF Ahead
<1>15. Sound(books)'
  <2>1. Sound(b)
    BY <1>0, <1>6, SoundInherits
  <2>2. PICK e \in Books : e = b /\ Sound(e)
    BY <1>1, <2>1
  <2>3. Sound(e)'
    BY <1>14, <2>2, SoundStays
  <2>4. PICK f \in Books : f = books'
    BY <1>0
  <2>5. ASSUME NEW x \in Cid
        PROVE  /\ f.active[x].rid # 0 => /\ cf'.owner[f.active[x].rid] = x
                                         /\ f.active[x].rid <= cred'.last
                                         /\ f.active[x].age = "old" => Gone(f.active[x].rid)'
               /\ f.active[x].pending => DeniedOn(f, PrincipalOf[x])
    <3>1. CASE x = c
      BY <1>1, <1>8, <1>12, <1>13, <2>4, <3>1
    <3>2. CASE x # c
      <4>1. PrincipalOf[x] \in Principal
        BY OwnerAssumption
      <4>2. /\ f.active[x].rid = e.active[x].rid /\ f.active[x].age = e.active[x].age
            /\ f.active[x].pending = e.active[x].pending
        BY <1>8, <2>2, <2>4, <3>2
      <4>3. f.active[x].pending => DeniedOn(e, PrincipalOf[x])
        BY <2>3, <4>2 DEF Sound
      <4>4. f.active[x].rid # 0 => /\ cf'.owner[f.active[x].rid] = x
                                   /\ f.active[x].rid <= cred'.last
                                   /\ f.active[x].age = "old" => Gone(f.active[x].rid)'
        BY <2>3, <4>2 DEF Sound
      <4> QED BY <1>10, <2>2, <2>4, <4>1, <4>3, <4>4
    <3> QED BY <3>1, <3>2
  <2>6. ASSUME NEW n \in f.issues
        PROVE  /\ cf'.owner[n] \in Cid /\ n <= cred'.last
               /\ \/ Gone(n)' \/ ~Newest(n)' \/ Denied(f, cf'.owner[n])
                  \/ f.active[cf'.owner[n]].rid = n
    <3>1. CASE n = r
      BY <1>1, <1>8, <1>12, <1>13, <2>4, <3>1
    <3>2. CASE n # r
      <4>1. n \in e.issues /\ n \in Rid
        BY <1>0, <1>6, <1>08, <2>2, <2>4, <2>6, <3>2 DEF Inherits, Books
      <4>2. /\ cf'.owner[n] \in Cid /\ n <= cred'.last
            /\ \/ Gone(n)' \/ ~Newest(n)' \/ Denied(e, cf'.owner[n])
               \/ e.active[cf'.owner[n]].rid = n
        BY <2>3, <4>1 DEF Sound, Recorded, Denied
      <4>3. CASE cf'.owner[n] = c
        <5>1. n < r
          BY <1>1, <1>11, <1>12, <1>13, <3>2, <4>1, <4>2
        <5>2. ~Newest(n)'
          BY <1>1, <1>12, <4>3, <5>1 DEF Newest
        <5> QED BY <4>2, <5>2
      <4>4. CASE cf'.owner[n] # c
        BY <1>8, <1>9, <2>2, <2>4, <4>2, <4>4
      <4> QED BY <4>3, <4>4
    <3> QED BY <3>1, <3>2
  <2>7. Sound(f)'
    BY <2>5, <2>6 DEF Sound, Recorded, Denied
  <2> QED BY <2>4, <2>7 DEF Sound, Recorded, Denied, DeniedOn
<1>16. Accounted'
  BY <1>14, <1>15, AccountedMoves DEF OnTheBooks
<1>17. \A x \in Cid : x # c => \/ /\ books'.active[x].rid = books.active[x].rid
                                 /\ books'.active[x].age = books.active[x].age
                              \/ books'.active[x].rid = 0
  BY <1>6, <1>8 DEF Inherits
<1>21. Issued'
  <2>1. ASSUME NEW x \in Cid, NEW n, n = cred'.issue[x].rid, n # 0
        PROVE  /\ cf'.owner[n] = x /\ n \notin cred'.held /\ n \in books'.issues
               /\ books'.active[x].rid = n => books'.active[x].age = "fresh"
    <3>1. CASE x = c
      <4>1. n = r /\ r \notin cred'.held
        BY <1>1, <1>11, <1>12, <1>13, <2>1, <3>1
      <4> QED BY <1>08, <1>8, <1>12, <3>1, <4>1
    <3>2. CASE x # c
      <4>1. /\ n = cred.issue[x].rid /\ n \in Rid /\ n <= cred.last
        BY <1>11, <1>12, <2>1, <3>2
      <4>2. /\ cf.owner[n] = x /\ n \notin cred.held /\ n \in books.issues
            /\ books.active[x].rid = n => books.active[x].age = "fresh"
        BY <2>1, <4>1 DEF OnTheBooks, Issued
      <4>3. cf'.owner[n] = x /\ n \notin cred'.held
        BY <1>12, <1>13, <4>1, <4>2
      <4> QED BY <1>08, <1>17, <2>1, <3>2, <4>2, <4>3
    <3> QED BY <3>1, <3>2
  <2>2. \A n \in Rid : n > cred'.last => cf'.owner[n] = NoCid /\ n \notin cf'.live /\ n \notin cred'.held
    BY <1>1, <1>3, <1>11, <1>12, <1>13, <1>19
  <2>3. \A n \in cred'.held : cf'.owner[n] \in Cid
    BY <1>1, <1>11, <1>12, <1>13 DEF OnTheBooks, Issued
  <2>4. cred'.held \ cred'.lost \subseteq books'.issues
    BY <1>1, <1>08 DEF OnTheBooks, Issued
  <2> QED BY <2>1, <2>2, <2>3, <2>4 DEF Issued
<1>23. work' = work
  BY <1>1 DEF SweptOrKept
<1>24. Awaited'
  BY <1>6, <1>10, <1>23, AwaitedKept DEF Inherits, OnTheBooks
<1> QED BY <1>16, <1>21, <1>24 DEF OnTheBooks

\* What a step that leaves the books alone has to show.
LEMMA BooksStay ==
  ASSUME Typed, Typed', Chained, Next, OnTheBooks, books' = books, Ahead, Issued', Awaited'
  PROVE  OnTheBooks'
<1>1. PICK e \in Books : e = books /\ Sound(e)
  BY BooksSound DEF OnTheBooks
<1>2. Sound(e)'
  BY <1>1, SoundStays
<1>3. Sound(books)'
  BY <1>1, <1>2 DEF Sound, Recorded, Denied, DeniedOn
<1>4. Accounted'
  BY <1>3, AccountedMoves DEF OnTheBooks
<1> QED BY <1>4 DEF OnTheBooks

LEMMA BooksProviderMakes ==
  ASSUME Typed, Typed', Chained, Next, OnTheBooks, NEW c \in Cid, ProviderMakes(c)
  PROVE  OnTheBooks'
<1> DEFINE r == cred.issue[c].rid
<1>0. cred \in Creds /\ cf \in Providers
  BY DEF Typed, Types, CredTyped
<1>1. /\ cred'.last = cred.last /\ cred'.held = cred.held /\ cred'.lost = cred.lost
      /\ \A x \in Cid : cred'.issue[x].rid = cred.issue[x].rid
      /\ cf'.live = cf.live \cup {r} /\ cf'.owner = cf.owner
      /\ r # 0
  BY <1>0 DEF ProviderMakes, Creds, Providers
<1>2. books' = books /\ work' = work
  BY DEF ProviderMakes, persistVars
<1>3. /\ r \in Rid /\ r <= cred.last /\ r \notin cred.held /\ cred.last \in Nat
      /\ \A n \in cred.held : n \in Rid
  BY <1>1, IssuedFacts DEF OnTheBooks, Issued
<1> HIDE DEF r
<1>4. Ahead
  <2>1. ASSUME NEW n \in Rid, Gone(n) PROVE Gone(n)'
    <3>1. n # r
      BY <2>1 DEF Gone, r
    <3> QED BY <1>1, <2>1, <3>1 DEF Gone
  <2> QED BY <1>1, <1>3, <2>1 DEF Ahead, Newest
<1>6. Issued'
  <2>1. ASSUME NEW x \in Cid, NEW n, n = cred.issue[x].rid, n # 0
        PROVE  /\ cf.owner[n] = x /\ n \notin cred.held /\ n \in books.issues
               /\ books.active[x].rid = n => books.active[x].age = "fresh"
    BY <2>1 DEF OnTheBooks, Issued
  <2>2. \A n \in Rid : n > cred.last => cf.owner[n] = NoCid /\ n \notin cf'.live /\ n \notin cred.held
    BY <1>1, <1>3 DEF OnTheBooks, Issued, Rid
  <2>3. \A n \in cred.held : cf.owner[n] \in Cid
    BY DEF OnTheBooks, Issued
  <2> QED BY <1>1, <1>2, <2>1, <2>2, <2>3 DEF OnTheBooks, Issued
<1>8. Awaited'
  BY <1>2, AwaitedKept DEF OnTheBooks
<1> QED BY <1>2, <1>4, <1>6, <1>8, BooksStay

LEMMA BooksIssueDone ==
  ASSUME Typed, Typed', Chained, Next, OnTheBooks, NEW c \in Cid, IssueDone(c)
  PROVE  OnTheBooks'
<1> DEFINE r == cred.issue[c].rid
<1>0. cred \in Creds /\ cf \in Providers /\ r # 0
  BY DEF Typed, Types, CredTyped, IssueDone
<1>1. /\ cred'.last = cred.last /\ cred'.held = cred.held \cup {r} /\ cred'.lost = cred.lost
      /\ cred'.issue[c].rid = 0 /\ \A x \in Cid : x # c => cred'.issue[x].rid = cred.issue[x].rid
  BY <1>0 DEF IssueDone, Creds, NoIssue
<1>2. books' = books /\ work' = work /\ cf' = cf
  BY DEF IssueDone, persistVars
<1>3. /\ r \in Rid /\ r <= cred.last /\ cf.owner[r] = c /\ cred.last \in Nat
      /\ \A n \in cred.held : n \in Rid
      /\ r \in books.issues
  BY <1>0, IssuedFacts DEF OnTheBooks, Issued
<1> HIDE DEF r
<1>4. Ahead
  <2>1. ASSUME NEW n \in Rid, Gone(n) PROVE Gone(n)'
    <3>1. n # 0
      BY DEF Rid
    <3> QED BY <1>1, <1>2, <2>1, <3>1 DEF Gone
  <2> QED BY <1>1, <1>2, <1>3, <2>1 DEF Ahead, Newest
<1>6. Issued'
  <2>1. ASSUME NEW x \in Cid, NEW n, n = cred'.issue[x].rid, n # 0
        PROVE  /\ cf.owner[n] = x /\ n \notin cred'.held /\ n \in books.issues
               /\ books.active[x].rid = n => books.active[x].age = "fresh"
    <3>1. x # c /\ n = cred.issue[x].rid
      BY <1>1, <2>1
    <3>2. /\ cf.owner[n] = x /\ n \notin cred.held /\ n \in books.issues
          /\ books.active[x].rid = n => books.active[x].age = "fresh"
      BY <2>1, <3>1 DEF OnTheBooks, Issued
    <3> QED BY <1>1, <1>3, <3>1, <3>2
  <2>2. \A n \in Rid : n > cred.last => cf.owner[n] = NoCid /\ n \notin cf.live /\ n \notin cred'.held
    BY <1>1, <1>3 DEF OnTheBooks, Issued, Rid
  <2>3. \A n \in cred'.held : cf.owner[n] \in Cid
    BY <1>1, <1>3 DEF OnTheBooks, Issued
  <2>4. cred'.held \ cred'.lost \subseteq books.issues
    BY <1>1, <1>3 DEF OnTheBooks, Issued
  <2> QED BY <1>1, <1>2, <2>1, <2>2, <2>3, <2>4 DEF Issued
<1>8. Awaited'
  BY <1>2, AwaitedKept DEF OnTheBooks
<1> QED BY <1>2, <1>4, <1>6, <1>8, BooksStay

LEMMA BooksIssueFails ==
  ASSUME Typed, Typed', Chained, Next, OnTheBooks, NEW c \in Cid, IssueFails(c)
  PROVE  OnTheBooks'
<1> DEFINE r == cred.issue[c].rid
<1>0. /\ Types /\ WritesOn /\ cred \in Creds /\ cf \in Providers /\ books \in Books /\ books' \in Books
      /\ Sound(books)
  BY BooksSound DEF Typed, Types, CredTyped, BooksTyped, OnTheBooks
<1>1. /\ books'.active = [books.active EXCEPT ![c] = IF @.rid = r THEN NoEntry ELSE @]
      /\ books'.deny = books.deny /\ work' = work /\ r \in Rid
      /\ cred'.issue = [cred.issue EXCEPT ![c] = NoIssue]
      /\ cred'.held = cred.held /\ cred'.lost = cred.lost /\ cred'.last = cred.last
      /\ books'.issues = books.issues \ {r}
  BY <1>0, IssueFailsFacts
<1>2. cf' = cf
  BY DEF IssueFails
<1> HIDE DEF r
<1>3. /\ cred'.issue[c].rid = 0 /\ \A x \in Cid : x # c => cred'.issue[x].rid = cred.issue[x].rid
      /\ \A x \in Cid : x # c => books'.active[x] = books.active[x]
      /\ \/ books'.active[c] = books.active[c]
         \/ books.active[c].rid = r /\ books'.active[c].rid = 0 /\ ~books'.active[c].pending
  BY <1>0, <1>1, NoEntryFacts DEF Creds, NoIssue, Books
<1>4. /\ \A x \in Cid : (Denied(books, x) <=> Denied(books', x))
      /\ \A p \in Principal : (DeniedOn(books, p) <=> DeniedOn(books', p))
  BY <1>1 DEF Denied, DeniedOn
<1>5. cred.last \in Nat /\ \A n \in cred.held : n \in Rid
  BY IssuedFacts DEF OnTheBooks
<1>50. r # 0 /\ cf.owner[r] = c /\ r \notin cred.held
  <2>1. r # 0
    BY <1>1 DEF Rid
  <2> QED BY <2>1 DEF OnTheBooks, Issued, r
<1>6. Ahead
  <2>1. ASSUME NEW n \in Rid, Gone(n) PROVE Gone(n)'
    <3>1. n # 0
      BY DEF Rid
    <3> QED BY <1>1, <1>2, <1>3, <2>1, <3>1 DEF Gone
  <2> QED BY <1>1, <1>2, <1>5, <2>1 DEF Ahead, Newest
<1>7. Sound(books)'
  <2>1. PICK e \in Books, f \in Books : e = books /\ f = books' /\ Sound(e)
    BY <1>0
  <2>2. Sound(e)'
    BY <1>6, <2>1, SoundStays
  <2>3. Sound(f)'
    <3>1. \A x \in Cid : PrincipalOf[x] \in Principal
      BY OwnerAssumption
    <3>2. \A x \in Cid : f.active[x] = e.active[x] \/ (f.active[x].rid = 0 /\ ~f.active[x].pending)
      BY <1>3, <2>1
    <3>3. \A p \in Principal : DeniedOn(e, p) => DeniedOn(f, p)
      BY <1>4, <2>1
    <3>4. ASSUME NEW n \in f.issues
          PROVE  /\ cf'.owner[n] \in Cid /\ n <= cred'.last
                 /\ \/ Gone(n)' \/ ~Newest(n)' \/ Denied(f, cf'.owner[n])
                    \/ f.active[cf'.owner[n]].rid = n
      <4>1. n \in e.issues /\ n # r
        BY <1>1, <2>1, <3>4
      <4>2. /\ cf'.owner[n] \in Cid /\ n <= cred'.last
            /\ \/ Gone(n)' \/ ~Newest(n)' \/ Denied(e, cf'.owner[n])
               \/ e.active[cf'.owner[n]].rid = n
        BY <2>2, <4>1 DEF Sound, Recorded, Denied
      <4>3. e.active[cf'.owner[n]].rid = n => f.active[cf'.owner[n]].rid = n
        BY <1>3, <2>1, <4>1, <4>2
      <4> QED BY <1>4, <2>1, <4>2, <4>3
    <3>5. Recorded(f)'
      BY <3>4 DEF Recorded, Denied
    <3> QED BY <2>2, <3>1, <3>2, <3>3, <3>5 DEF Sound
  <2> QED BY <2>1, <2>3 DEF Sound, Recorded, Denied, DeniedOn
<1>8. Accounted'
  BY <1>6, <1>7, AccountedMoves DEF OnTheBooks
<1>10. Issued'
  <2>1. ASSUME NEW x \in Cid, NEW n, n = cred'.issue[x].rid, n # 0
        PROVE  /\ cf.owner[n] = x /\ n \notin cred.held /\ n \in books'.issues
               /\ books'.active[x].rid = n => books'.active[x].age = "fresh"
    <3>1. x # c /\ n = cred.issue[x].rid
      BY <1>3, <2>1
    <3>2. /\ cf.owner[n] = x /\ n \notin cred.held /\ n \in books.issues
          /\ books.active[x].rid = n => books.active[x].age = "fresh"
      BY <2>1, <3>1 DEF OnTheBooks, Issued
    <3> QED BY <1>1, <1>3, <1>50, <3>1, <3>2
  <2>2. \A n \in Rid : n > cred.last => cf.owner[n] = NoCid /\ n \notin cf.live /\ n \notin cred.held
    BY DEF OnTheBooks, Issued
  <2>3. \A n \in cred.held : cf.owner[n] \in Cid
    BY DEF OnTheBooks, Issued
  <2>4. cred.held \ cred.lost \subseteq books'.issues
    BY <1>1, <1>50 DEF OnTheBooks, Issued
  <2> QED BY <1>1, <1>2, <2>1, <2>2, <2>3, <2>4 DEF Issued
<1>12. Awaited'
  BY <1>1, <1>4, AwaitedKept DEF OnTheBooks
<1> QED BY <1>8, <1>10, <1>12 DEF OnTheBooks

\* A credential that expires is over: the issue under way is never that of an expired entry.
LEMMA BooksAges ==
  ASSUME Typed, Typed', Chained, Next, OnTheBooks, NEW c \in Cid, Ages(c)
  PROVE  OnTheBooks'
<1>0. /\ Types /\ WritesOn /\ cred \in Creds /\ cf \in Providers /\ books \in Books /\ books' \in Books
      /\ Sound(books)
  BY BooksSound DEF Typed, Types, CredTyped, BooksTyped, OnTheBooks
<1>3. PICK r \in Rid : r = books.active[c].rid /\ r # 0 /\ cred.issue[c].rid # r
  BY <1>0 DEF Ages, Books, Entries
<1>1. PICK k \in {"near", "old"} :
         /\ books'.active = [books.active EXCEPT ![c].age = k]
         /\ cf' = IF k = "old" THEN [cf EXCEPT !.live = @ \ {r}] ELSE cf
  BY <1>0, <1>3, AgesFacts
<1>2. books'.deny = books.deny /\ books'.issues = books.issues /\ cred' = cred /\ work' = work
  BY <1>0, AgesFacts DEF Ages
<1>4. cf.owner[r] = c /\ r <= cred.last
  BY <1>0, <1>3 DEF Sound
<1>5. /\ \A x \in Cid : x # c => books'.active[x] = books.active[x]
      /\ books'.active[c].rid = books.active[c].rid /\ books'.active[c].age = k
      /\ books'.active[c].pending = books.active[c].pending
  BY <1>0, <1>1 DEF Books, Entries
<1>6. /\ cf'.owner = cf.owner /\ cf'.live \subseteq cf.live /\ (k = "old" => r \notin cf'.live)
  BY <1>0, <1>1 DEF Providers
<1>7. /\ \A x \in Cid : (Denied(books, x) <=> Denied(books', x))
      /\ \A p \in Principal : (DeniedOn(books, p) <=> DeniedOn(books', p))
  BY <1>2 DEF Denied, DeniedOn
<1>8. cred.last \in Nat /\ \A n \in cred.held : n \in Rid
  BY IssuedFacts DEF OnTheBooks
<1>9. Ahead
  BY <1>2, <1>6, <1>8 DEF Ahead, Gone, Newest
<1>10. ASSUME k = "old" PROVE Gone(r)'
  <2>1. ASSUME NEW x \in Cid PROVE cred.issue[x].rid # r
    <3>1. CASE cred.issue[x].rid = r
      <4>1. cf.owner[r] = x
        BY <1>3, <3>1 DEF OnTheBooks, Issued, Rid
      <4> QED BY <1>3, <1>4, <3>1, <4>1
    <3> QED BY <3>1
  <2> QED BY <1>2, <1>4, <1>6, <1>10, <2>1 DEF Gone
<1>11. Sound(books)'
  <2>1. PICK e \in Books, f \in Books : e = books /\ f = books' /\ Sound(e)
    BY <1>0
  <2>2. Sound(e)'
    BY <1>9, <2>1, SoundStays
  <2>3. Sound(f)'
    <3>1. \A x \in Cid : PrincipalOf[x] \in Principal
      BY OwnerAssumption
    <3>2. \A x \in Cid : x # c => f.active[x] = e.active[x]
      BY <1>5, <2>1
    <3>3. /\ f.active[c].rid = r /\ e.active[c].rid = r /\ f.active[c].age = k
          /\ f.active[c].pending = e.active[c].pending
      BY <1>3, <1>5, <2>1
    <3>4. \A p \in Principal : DeniedOn(e, p) => DeniedOn(f, p)
      BY <1>7, <2>1
    <3>5. /\ f.issues = e.issues /\ \A x \in Cid : f.active[x].rid = e.active[x].rid
          /\ \A x \in Cid : Denied(e, x) => Denied(f, x)
      BY <1>2, <1>5, <1>7, <2>1
    <3>6. Recorded(f)'
      BY <2>2, <3>5 DEF Sound, Recorded, Denied
    <3> QED BY <1>10, <2>2, <3>1, <3>2, <3>3, <3>4, <3>6 DEF Sound
  <2> QED BY <2>1, <2>3 DEF Sound, Recorded, Denied, DeniedOn
<1>12. Accounted'
  BY <1>9, <1>11, AccountedMoves DEF OnTheBooks
<1>14. Issued'
  <2>1. ASSUME NEW x \in Cid, NEW n, n = cred.issue[x].rid, n # 0
        PROVE  /\ cf.owner[n] = x /\ n \notin cred.held /\ n \in books.issues
               /\ books'.active[x].rid = n => books'.active[x].age = "fresh"
    <3>2. /\ cf.owner[n] = x /\ n \notin cred.held /\ n \in books.issues
          /\ books.active[x].rid = n => books.active[x].age = "fresh"
      BY <2>1 DEF OnTheBooks, Issued
    <3>3. x = c => books.active[x].rid # n
      BY <1>3, <2>1
    <3> QED BY <1>5, <3>2, <3>3
  <2>2. \A n \in Rid : n > cred.last => cf.owner[n] = NoCid /\ n \notin cf'.live /\ n \notin cred.held
    BY <1>6 DEF OnTheBooks, Issued
  <2>3. /\ \A n \in cred.held : cf.owner[n] \in Cid
        /\ cred.held \ cred.lost \subseteq books.issues
    BY DEF OnTheBooks, Issued
  <2> QED BY <1>2, <1>6, <2>1, <2>2, <2>3 DEF Issued
<1>16. Awaited'
  BY <1>2, <1>7, AwaitedKept DEF OnTheBooks
<1> QED BY <1>12, <1>14, <1>16 DEF OnTheBooks

\* Entries and recorded issues only disappear, except when one is issued or a restart reads a
\* file.
RidsGo ==
    /\ \A c \in Cid : books'.active[c].rid \in {0, books.active[c].rid}
    /\ books'.issues \subseteq books.issues
Restarting == Crash \/ CrashTorn

LEMMA RidsMove ==
  ASSUME Typed, Next
  PROVE  (\E c \in Cid : IssueFresh(c)) \/ Restarting \/ RidsGo
<1>0. Types /\ WritesOn /\ books \in Books /\ srv \in Servers
  BY DEF Typed, Types, BooksTyped
<1>1. ASSUME NEW c \in Cid, IssueOld(c) PROVE RidsGo
  <2>1. books' = Pruned(Rolled(books))
    BY <1>0, <1>1, IssueOldFacts
  <2>2. /\ Rolled(books) \in Books /\ Rolled(books).active = books.active
        /\ Rolled(books).issues = books.issues
    BY <1>0, RolledFacts
  <2> QED BY <2>1, <2>2, PrunedFacts, NoEntryFacts DEF RidsGo
<1>2. ASSUME NEW c \in Cid, IssueFails(c) PROVE RidsGo
  <2>1. /\ books'.active = [books.active EXCEPT ![c] = IF @.rid = cred.issue[c].rid THEN NoEntry ELSE @]
        /\ books'.issues \subseteq books.issues
    BY <1>0, <1>2, IssueFailsFacts
  <2> QED BY <1>0, <2>1, NoEntryFacts DEF RidsGo, Books
<1>3. ASSUME NEW c \in Cid, books' = Dropped(books, {c}) PROVE RidsGo
  <2>1. {c} \in SUBSET Cid
    OBVIOUS
  <2>2. /\ books'.active = [x \in Cid |-> IF x \in {c} THEN NoEntry ELSE books.active[x]]
        /\ books'.issues = books.issues
    BY <1>0, <1>3, <2>1, DroppedFacts
  <2> QED BY <2>2, NoEntryFacts DEF RidsGo
<1>4. CASE Revoke
  <2>1. ASSUME NEW a \in Revoker, RevokeDone(a) PROVE RidsGo
    BY <1>0, <1>3, <2>1, RevokeDoneFacts
  <2>2. ASSUME NEW a \in Revoker, RevokeFails(a) PROVE RidsGo
    <3>1. books' = books
      BY <1>0, <2>2, RevokeFailsFacts
    <3> QED BY <3>1 DEF RidsGo
  <2>3. CASE SweepNext
    <3>1. books' = books
      BY <1>0, <2>3, SweepNextFacts
    <3> QED BY <3>1 DEF RidsGo
  <2>4. CASE RetryNext
    <3>1. books' = books \/ \E c \in Cid : books' = Dropped(books, {c})
      BY <1>0, <2>4, RetryNextFacts
    <3>2. CASE books' = books
      BY <3>2 DEF RidsGo
    <3> QED BY <1>3, <3>1, <3>2
  <2>5. CASE RetryStarts \/ (\E a \in Revoker : ProviderRevokes(a)) \/ \E a \in {"abuse", "sweep"} : Flushed(a)
    <3>1. books' = books
      BY <2>5 DEF RetryStarts, ProviderRevokes, Flushed, persistVars
    <3> QED BY <3>1 DEF RidsGo
  <2> QED BY <1>4, <2>1, <2>2, <2>3, <2>4, <2>5 DEF Revoke
<1>5. CASE AbuseRows
  <2>1. PICK S \in SUBSET Cid, rows \in [Cid -> Nat] : RowsRead(S, rows)
    BY <1>0, <1>5, AbuseRowsFacts
  <2> DEFINE d == WithRows(books, S, rows)
  <2>2. /\ d \in Books /\ d.issues = books.issues
        /\ \A c \in Cid : d.active[c].rid = books.active[c].rid
    BY <1>0, WithRowsFacts
  <2>3. \/ Swept(d, books')
        \/ \E c \in Cid : books' = Abused(d, c)
    BY <2>1 DEF RowsRead, Active
  <2> HIDE DEF d
  <2>4. books'.issues = d.issues /\ \A c \in Cid : books'.active[c].rid = d.active[c].rid
    BY <2>2, <2>3, AbusedFacts DEF Swept
  <2> QED BY <2>2, <2>4 DEF RidsGo
<1>6. ASSUME NEW timer \in BOOLEAN, GlobalAsks(timer) PROVE RidsGo
  <2>1. books' = Rolled(books)
    BY <1>0, <1>6, GlobalAsksFacts
  <2> QED BY <1>0, <2>1, RolledFacts DEF RidsGo
<1>7. ASSUME NEW p \in poll.polls, GlobalLowerBound(p) \/ GlobalTotal(p) PROVE RidsGo
  <2> DEFINE d == IF p.all THEN Reconciled(p.read) ELSE LowerBound(p.read)
  <2>1. p.read \in Nat /\ Swept(d, books')
    BY <1>0, <1>7, GlobalEndFacts
  <2>2. d.active = Pruned(books).active /\ d.issues = Pruned(books).issues
    BY <1>0, <2>1, ReconciledFacts, LowerBoundFacts
  <2> HIDE DEF d
  <2>3. d.issues = books.issues /\ \A c \in Cid : d.active[c].rid \in {0, books.active[c].rid}
    BY <1>0, <2>2, PrunedFacts, NoEntryFacts
  <2> QED BY <2>1, <2>3 DEF Swept, RidsGo
<1>8. ASSUME NEW c \in Cid, Ages(c) PROVE RidsGo
  <2>1. PICK k : books'.active = [books.active EXCEPT ![c].age = k]
    BY <1>0, <1>8, AgesFacts
  <2>2. books'.issues = books.issues
    BY <1>0, <1>8, AgesFacts
  <2> QED BY <1>0, <2>1, <2>2 DEF RidsGo, Books, Entries
<1>9. CASE Write
  <2>1. PICK f \in File : WriteDone(f) \/ WriteFails(f)
    BY <1>9 DEF Write
  <2>2. books' = books
    BY <1>0, <2>1, WriteFacts
  <2> QED BY <2>2 DEF RidsGo
<1>10. CASE books' = books
  BY <1>10 DEF RidsGo
<1>11. CASE Issue
  <2>1. ASSUME NEW c \in Cid, ProviderMakes(c) \/ IssueDone(c) PROVE books' = books
    BY <2>1 DEF ProviderMakes, IssueDone, persistVars
  <2> QED BY <1>1, <1>2, <1>10, <1>11, <2>1 DEF Issue
<1>12. CASE Poll
  <2>1. CASE AbuseAsks \/ AbuseAskFails
    BY <1>10, <2>1 DEF AbuseAsks, AbuseAskFails
  <2>2. ASSUME NEW p \in poll.polls, ProviderCounts(p) \/ GlobalFails(p) \/ GlobalStale(p)
        PROVE  books' = books
    BY <2>2 DEF ProviderCounts, GlobalFails, GlobalStale, persistVars
  <2> QED BY <1>5, <1>6, <1>7, <1>10, <1>12, <2>1, <2>2 DEF Poll
<1>13. CASE Persisting
  BY <1>9, <1>10, <1>13 DEF Persisting, FlushTick
<1>14. CASE World
  <2>1. CASE LockEngages \/ LockAnswered \/ MonthTurns \/ Stops \/ StopFlushes \/ Exits
             \/ \E r \in Rid : Relays(r)
    BY <1>10, <2>1 DEF LockEngages, LockAnswered, MonthTurns, Stops, StopFlushes, Exits, Relays
  <2> QED BY <1>8, <1>14, <2>1 DEF World, Restarting
<1> QED BY <1>4, <1>11, <1>12, <1>13, <1>14 DEF Next

\* Whatever is neither marked to be written nor queued for a write has every recorded issue on
\* disk, or in the write under way.
Synced ==
    LET f == file["turn"]
    IN  ~f.dirty => /\ f.chain = <<>> => disk["turn"] = Torn \/ books.issues \subseteq disk["turn"].issues
                    /\ Len(f.chain) = 1 => books.issues \subseteq Snap("turn").issues

LEMMA Links ==
  ASSUME NEW q \in Seq(Caller \cup {Tick}), NEW v \in Caller \cup {Tick}
  PROVE  /\ Len(q) \in Nat /\ (q = <<>> <=> Len(q) = 0)
         /\ Append(q, v) # <<>> /\ Len(Append(q, v)) = Len(q) + 1
         /\ q # <<>> => Len(Tail(q)) = Len(q) - 1 /\ Tail(q) \in Seq(Caller \cup {Tick})
OBVIOUS

LEMMA SyncedCalm ==
  ASSUME Typed, Synced, disk' = disk, Moves,
         RidsGo \/ file'["turn"].dirty
  PROVE  Synced'
<1> DEFINE f == file["turn"]
           g == file'["turn"]
<1>1. f.chain \in Seq(Caller \cup {Tick}) /\ (f.write.on <=> f.chain # <<>>)
  BY ChainTyped, FileNames DEF Typed, WritesOn
<1>2. CASE g.dirty
  BY <1>2 DEF Synced
<1>3. CASE RidsGo /\ ~g.dirty
  <2>1. books'.issues \subseteq books.issues
    BY <1>3 DEF RidsGo
  <2>2. CASE g.chain = f.chain /\ g.write = f.write /\ ~f.dirty
    BY <2>1, <2>2 DEF Synced, Snap
  <2>3. ASSUME NEW v \in Caller \cup {Tick}, NEW b \in {books, books'}, g.chain = Append(f.chain, v),
               g.write = IF f.chain = <<>> THEN [on |-> TRUE, snap |-> b] ELSE f.write
        PROVE  Synced'
    <3>1. /\ Len(f.chain) \in Nat /\ (f.chain = <<>> <=> Len(f.chain) = 0)
          /\ g.chain # <<>> /\ Len(g.chain) = Len(f.chain) + 1
      BY <1>1, <2>3, Links
    <3>2. Len(g.chain) = 1 => g.write.snap = b
      BY <2>3, <3>1, BegunFacts
    <3>3. books'.issues \subseteq b.issues
      BY <2>1, <2>3
    <3> QED BY <3>1, <3>2, <3>3 DEF Synced, Snap
  <2>4. CASE FilesKept
    BY <1>3, <2>2, <2>4, FileNames DEF FilesKept, Kept
  <2>5. CASE FilesTicked
    <3>1. \/ g.chain = f.chain /\ g.write = f.write /\ g.dirty = f.dirty
          \/ /\ g.chain = Append(f.chain, Tick)
             /\ g.write = IF f.chain = <<>> THEN [on |-> TRUE, snap |-> books] ELSE f.write
      BY <2>5, FileNames DEF FilesTicked
    <3> QED BY <1>3, <2>2, <2>3, <3>1
  <2>6. ASSUME NEW w \in Caller, FilesAsked(w) PROVE Synced'
    <3>1. PICK k \in {"turn", "locks", "end"} :
             /\ k = "turn" \/ (f.dirty => g.dirty)
             /\ g.chain = IF "turn" = k THEN Append(f.chain, w) ELSE f.chain
             /\ g.write = IF "turn" = k /\ f.chain = <<>> THEN [on |-> TRUE, snap |-> books']
                          ELSE f.write
      BY <2>6, FileNames DEF FilesAsked
    <3>2. CASE k = "turn"
      BY <2>3, <3>1, <3>2
    <3>3. CASE k # "turn"
      BY <1>3, <2>2, <3>1, <3>3
    <3> QED BY <3>2, <3>3
  <2> QED BY <2>4, <2>5, <2>6 DEF Moves
<1> QED BY <1>2, <1>3

LEMMA SyncedWrites ==
  ASSUME Typed, Synced, Write
  PROVE  Synced'
<1> DEFINE t == file["turn"]
           g == file'["turn"]
<1>1. PICK f \in File : WriteDone(f) \/ WriteFails(f)
  BY DEF Write
<1>2. /\ file[f].write.on /\ books' = books
      /\ disk' \in {disk, [disk EXCEPT ![f] = file[f].write.snap]}
  BY <1>1, WriteFacts DEF Typed
<1>3. PICK ok \in BOOLEAN, keep \in BOOLEAN :
         /\ Ended(f, ok, keep) /\ (ok \/ f # "turn" \/ keep)
         /\ ok => disk' = [disk EXCEPT ![f] = file[f].write.snap]
  BY <1>1, WriteFacts DEF Typed
<1>4. disk \in [File -> Snapshot] /\ t.chain \in Seq(Caller \cup {Tick})
  BY ChainTyped, FileNames DEF Typed, Types, DiskTyped
<1>5. t.dirty \/ (f = "turn" /\ keep) => g.dirty
  BY <1>2, <1>3, EndedFacts DEF Typed
<1>6. CASE f = "turn"
  <2>1. /\ t.chain # <<>> /\ g.chain = Tail(t.chain)
        /\ g.write = IF Tail(t.chain) = <<>> THEN NoWrite ELSE [on |-> TRUE, snap |-> books]
    BY <1>2, <1>3, <1>6, EndedFacts DEF Typed
  <2>2. SUFFICES ASSUME ~g.dirty PROVE Synced'
    BY DEF Synced
  <2>3. ok /\ ~t.dirty /\ disk'["turn"] = t.write.snap
    BY <1>3, <1>4, <1>5, <1>6, <2>2, FileNames
  <2>4. /\ Len(t.chain) \in Nat /\ Len(g.chain) = Len(t.chain) - 1
        /\ g.chain \in Seq(Caller \cup {Tick}) /\ (g.chain = <<>> <=> Len(g.chain) = 0)
    BY <1>4, <2>1, Links
  <2>5. g.chain = <<>> => Len(t.chain) = 1
    BY <2>4
  <2>6. g.chain = <<>> => books'.issues \subseteq disk'["turn"].issues
    BY <1>2, <2>3, <2>5 DEF Synced, Snap
  <2>7. Len(g.chain) = 1 => g.write.snap = books
    <3>1. Len(g.chain) = 1 => g.chain # <<>>
      BY <2>4
    <3>2. g.chain # <<>> => g.write = [on |-> TRUE, snap |-> books]
      BY <2>1
    <3> QED BY <3>1, <3>2
  <2>8. books' = books
    BY <1>2
  <2> HIDE DEF g
  <2>9. g = file'["turn"]
    BY DEF g
  <2>10. Len(g.chain) = 1 => books'.issues \subseteq g.write.snap.issues
    BY <2>7, <2>8
  <2> QED BY <2>6, <2>9, <2>10 DEF Synced, Snap
<1>7. CASE f = "locks"
  <2>1. g.chain = t.chain /\ g.write = t.write
    <3>1. "turn" \in File /\ "turn" # f
      BY <1>7, FileNames
    <3>2. \A h \in File : h # f => file'[h].chain = file[h].chain /\ file'[h].write = file[h].write
      <4>1. Types /\ WritesOn /\ f \in File /\ ok \in BOOLEAN /\ keep \in BOOLEAN
        BY DEF Typed
      <4>2. file[f].write.on /\ Ended(f, ok, keep)
        BY <1>2, <1>3
      <4>3. \A h \in File : h # f =>
              /\ file'[h].chain = IF f = "turn" /\ Head(file[f].chain) # Tick /\ file["locks"].load = "ok"
                                  THEN Append(file[h].chain, Head(file[f].chain)) ELSE file[h].chain
              /\ file'[h].write = IF (f = "turn" /\ Head(file[f].chain) # Tick /\ file["locks"].load = "ok")
                                     /\ file[h].chain = <<>>
                                  THEN [on |-> TRUE, snap |-> locks] ELSE file[h].write
        BY <4>1, <4>2, EndedFacts, Zenon
      <4> QED BY <1>7, <4>3
    <3> QED BY <3>1, <3>2
  <2>2. disk'["turn"] = disk["turn"]
    BY <1>2, <1>4, <1>7, FileNames
  <2> QED BY <1>2, <1>5, <2>1, <2>2 DEF Synced, Snap
<1> QED BY <1>6, <1>7 DEF File

LEMMA SyncedCrash ==
  ASSUME Typed, Restarting
  PROVE  Synced'
<1>1. srv \in Servers
  BY DEF Typed, Types
<1>2. PICK t \in Books \cup {Torn}, l \in BOOLEAN \cup {Torn} : Restarts([turn |-> t, locks |-> l])
  BY CrashFacts DEF Typed, Restarting
<1>3. /\ books' = IF t = Torn THEN EmptyBooks(srv.month) ELSE Rolled(t)
      /\ disk' = [turn |-> t, locks |-> l = TRUE] /\ file'["turn"].chain = <<>>
  BY <1>2, RestartsFacts, FileNames DEF Typed
<1>4. t # Torn => books'.issues = t.issues
  BY <1>1, <1>3, RolledFacts
<1>5. disk'["turn"] = t
  BY <1>3
<1>6. Len(file'["turn"].chain) = 0
  BY <1>3
<1> QED BY <1>3, <1>4, <1>5, <1>6 DEF Synced

LEMMA SyncedNext ==
  ASSUME Typed, Chained, Next, OnTheBooks, Synced, ~srv.policy
  PROVE  Synced'
<1>1. CASE Calm
  <2>1. disk' = disk /\ Moves
    BY <1>1 DEF Calm
  <2>2. ASSUME NEW c \in Cid, IssueFresh(c) PROVE file'["turn"].dirty
    <3>1. books \in Books /\ Sound(books) /\ cred.last \in Nat
      BY BooksSound, IssuedFacts DEF OnTheBooks
    <3>2. cred.last + 1 \notin books.issues
      BY <3>1 DEF Sound, Recorded, Books, Rid
    <3> QED BY <2>2, <3>2, IssueFreshFacts DEF Typed
  <2> QED BY <2>1, <2>2, RidsMove, SyncedCalm, SyncedCrash
<1>2. CASE UNCHANGED <<books, file, disk>>
  BY <1>2 DEF Synced, Snap
<1>3. CASE Write
  BY <1>3, SyncedWrites
<1>4. CASE Restarting
  BY <1>4, SyncedCrash
<1> QED BY <1>1, <1>2, <1>3, <1>4, StepKinds
      DEF Restarting, Flushed, ProviderRevokes, persistVars, LockAnswered, Exits

\* A restart loads a copy of the books, or starts empty; what it does not record, of what
\* clients hold, is forgotten.
LEMMA BooksCrash ==
  ASSUME Typed, Typed', Chained, Next, OnTheBooks, Synced, Crash \/ CrashTorn
  PROVE  OnTheBooks'
<1>0. Types /\ cred \in Creds /\ srv \in Servers /\ books' \in Books
  BY DEF Typed, Types, CredTyped, BooksTyped
<1>1. PICK t \in Books \cup {Torn}, l \in BOOLEAN \cup {Torn} :
         Restarts([turn |-> t, locks |-> l]) /\ t \in Left("turn") \cup {Torn}
  BY <1>0, CrashFacts
<1>2. /\ books' = IF t = Torn THEN EmptyBooks(srv.month) ELSE Rolled(t)
      /\ work' = [a \in Revoker |-> Idle] /\ cf' = cf
      /\ cred' = Reborn(t)
  BY <1>0, <1>1, RestartsFacts
<1>3. /\ cred'.last = cred.last /\ cred'.held = cred.held /\ \A c \in Cid : cred'.issue[c].rid = 0
      /\ cred'.lost = cred.lost \cup Forgotten(t)
  BY <1>2 DEF Reborn, NoCred, NoIssue
<1>4. cred.last \in Nat
  BY IssuedFacts DEF OnTheBooks
<1>5. Ahead
  <2>1. ASSUME NEW n \in Rid, Gone(n) PROVE Gone(n)'
    <3>1. n # 0
      BY DEF Rid
    <3> QED BY <1>2, <1>3, <2>1, <3>1 DEF Gone
  <2> QED BY <1>2, <1>3, <1>4, <2>1 DEF Ahead, Newest
<1>6. Sound(books)'
  <2>1. CASE t = Torn
    <3>1. books'.issues = {} /\ \A c \in Cid : books'.active[c] = NoEntry
      BY <1>2, <2>1 DEF EmptyBooks
    <3> QED BY <3>1, NoEntryFacts DEF Sound, Recorded
  <2>2. CASE t # Torn
    <3>1. t \in Copies /\ t \in Books
      BY <1>1, <2>2 DEF Left, Copies, On, Snap
    <3>2. Sound(t)'
      BY <1>5, <3>1, SoundStays DEF OnTheBooks, Accounted
    <3>3. books'.active = t.active /\ books'.deny = t.deny /\ books'.issues = t.issues
      BY <1>0, <1>2, <2>2, <3>1, RolledFacts
    <3> QED BY <3>2, <3>3 DEF Sound, Recorded, Denied, DeniedOn
  <2> QED BY <2>1, <2>2
<1>7. Accounted'
  BY <1>5, <1>6, AccountedMoves DEF OnTheBooks
<1>8. cred'.held \ cred'.lost \subseteq books'.issues
  <2>1. CASE t = Torn
    BY <1>3, <2>1 DEF Forgotten
  <2>2. CASE t # Torn
    <3>1. books'.issues = t.issues
      BY <1>0, <1>2, <2>2, RolledFacts
    <3>2. CASE Unflushed
      BY <1>3, <2>2, <3>1, <3>2 DEF Forgotten
    <3>3. CASE ~Unflushed
      <4>1. ~file["turn"].write.on
        BY <3>3, FileNames DEF Unflushed, Typed, WritesOn
      <4>2. t = disk["turn"]
        BY <1>1, <2>2, <4>1 DEF Left
      <4>3. books.issues \subseteq t.issues
        BY <2>2, <3>3, <4>2 DEF Unflushed, Synced
      <4> QED BY <1>3, <3>1, <4>3 DEF OnTheBooks, Issued
    <3> QED BY <3>2, <3>3
  <2> QED BY <2>1, <2>2
<1>9. Issued'
  BY <1>2, <1>3, <1>8 DEF Issued, OnTheBooks
<1>10. Awaited'
  BY <1>2 DEF Awaited, Revoked, Idle, Revoker
<1> QED BY <1>7, <1>9, <1>10 DEF OnTheBooks

LEMMA BooksIssue ==
  ASSUME Typed, Typed', Chained, Next, OnTheBooks, ~srv.policy, Issue
  PROVE  OnTheBooks'
BY BooksIssueOld, BooksIssueFresh, BooksProviderMakes, BooksIssueDone, BooksIssueFails DEF Issue

(***************************************************************************)
(* Revoking.                                                               *)
(***************************************************************************)

\* Books that stay are inherited.
LEMMA BooksInherit == Inherits(books, books)
BY DEF Inherits

LEMMA BooksRevoke ==
  ASSUME Typed, Typed', Chained, Next, OnTheBooks, Revoke
  PROVE  OnTheBooks'
<1>0. /\ Types /\ WritesOn /\ books \in Books /\ work \in Works /\ Awaited
      /\ work["sweep"].at = "idle" /\ Sound(books) /\ WorkFine(work)
  BY BooksSound DEF Typed, Types, BooksTyped, WorkTyped, WorkFine, OnTheBooks, Awaited
<1>01. \A c \in Cid : PrincipalOf[c] \in Principal
  BY OwnerAssumption
<1>1. ASSUME NEW a \in Revoker, ProviderRevokes(a) PROVE OnTheBooks'
  <2>1. /\ work[a].at = "revoke" /\ work' = [work EXCEPT ![a] = [work[a] EXCEPT !.at = "heard"]]
        /\ cf'.live \subseteq cf.live /\ cf'.owner = cf.owner
    BY <1>0, <1>1, ProviderRevokesFacts
  <2>2. books' = books /\ cred' = cred
    BY <1>1 DEF ProviderRevokes, persistVars
  <2>3. Passes
    BY <2>1, <2>2, BooksInherit DEF Passes
  <2>4. Awaited'
    BY <1>0, <2>1, <2>2 DEF Awaited, Revoked, Works, WorkState, Revoker
  <2> QED BY <2>3, <2>4, OnTheBooksPasses
<1>2. ASSUME NEW a \in Revoker, RevokeDone(a) PROVE OnTheBooks'
  <2>1. /\ work[a].c \in Cid /\ books' = Dropped(books, {work[a].c})
        /\ work' = [work EXCEPT ![a].at = "rows", ![a].c = NoCid]
        /\ cred'.issue = cred.issue /\ cred'.held = cred.held /\ cred'.lost = cred.lost /\ cred'.last = cred.last
    BY <1>0, <1>2, RevokeDoneFacts
  <2>2. cf' = cf /\ work[a].at = "heard"
    BY <1>2 DEF RevokeDone
  <2>3. a \in {"abuse", "retry"} /\ DeniedOn(books, PrincipalOf[work[a].c])
    BY <1>0, <2>2 DEF Awaited, Revoked, Revoker
  <2>4. Inherits(books, books')
    BY <1>0, <2>1, <2>3, DroppedInherits
  <2>5. Passes
    BY <2>1, <2>2, <2>4 DEF Passes
  <2>6. \A p \in Principal : DeniedOn(books, p) => DeniedOn(books', p)
    BY <2>4 DEF Inherits
  <2>7. /\ work'["sweep"] = work["sweep"] /\ work'[a].at = "rows" /\ work'[a].todo = work[a].todo
        /\ \A z \in Revoker : z # a => work'[z] = work[z]
    BY <1>0, <2>1, <2>3 DEF Works, WorkState, Revoker
  <2>8. /\ work["retry"].todo \subseteq Cid
        /\ \A z \in {"abuse", "retry"} : Revoked(z) => work[z].c \in Cid
    BY <1>0 DEF WorkFine, Works, WorkState, Revoker, Revoked
  <2>9. Awaited'
    BY <1>0, <1>01, <2>3, <2>6, <2>7, <2>8 DEF Awaited, Revoked, Revoker
  <2> QED BY <2>5, <2>9, OnTheBooksPasses
<1>3. ASSUME NEW a \in Revoker, RevokeFails(a) PROVE OnTheBooks'
  <2>1. /\ books' = books
        /\ \E at \in {"note", "rows"} : work' = [work EXCEPT ![a].at = at, ![a].c = NoCid]
    BY <1>0, <1>3, RevokeFailsFacts
  <2>2. cf' = cf /\ cred' = cred /\ work[a].at \in {"revoke", "heard"}
    BY <1>3 DEF RevokeFails
  <2>3. Passes
    BY <2>1, <2>2, BooksInherit DEF Passes
  <2>4. Awaited'
    BY <1>0, <2>1, <2>2 DEF Awaited, Revoked, Works, WorkState, Revoker
  <2> QED BY <2>3, <2>4, OnTheBooksPasses
<1>4. ASSUME NEW a \in {"abuse", "sweep"}, Flushed(a) PROVE OnTheBooks'
  <2>1. PICK w \in WorkState :
           /\ work' = [work EXCEPT ![a] = w]
           /\ w.at \in {"revoke", "rows", "idle"}
           /\ w.at = "revoke" => w.c = work[a].c /\ work[a].at = "flush"
    BY <1>0, <1>4, FlushedFacts
  <2>2. UNCHANGED <<books, cred, cf>> /\ work[a].at \in {"flush", "note"}
    BY <1>4 DEF Flushed
  <2>3. a = "abuse"
    BY <1>0, <2>2
  <2>4. Passes
    BY <2>2, BooksInherit DEF Passes
  <2>5. /\ work'["abuse"] = w /\ work'["sweep"] = work["sweep"] /\ work'["retry"] = work["retry"]
    BY <1>0, <2>1, <2>3 DEF Works, Revoker
  <2>6. Awaited'
    BY <1>0, <2>1, <2>2, <2>3, <2>5 DEF Awaited, Revoked
  <2> QED BY <2>4, <2>6, OnTheBooksPasses
<1>5. ~SweepNext
  BY <1>0 DEF SweepNext
<1>6. CASE RetryStarts
  <2> DEFINE T == {c \in Active(books) : books.active[c].pending}
             O == T \cap Expired(books)
  <2>1. work' = [work EXCEPT !["retry"] = [Idle EXCEPT !.at = "rows", !.todo = T, !.old = O]]
    BY <1>6 DEF RetryStarts
  <2>2. \A c \in T : DeniedOn(books, PrincipalOf[c])
    BY <1>0 DEF Sound, Active
  <2> HIDE DEF T, O
  <2>3. /\ work'["retry"].at = "rows" /\ work'["retry"].todo = T
        /\ work'["abuse"] = work["abuse"] /\ work'["sweep"] = work["sweep"]
    BY <1>0, <2>1 DEF Works, Revoker, Idle
  <2>4. UNCHANGED <<books, cred, cf>>
    BY <1>6 DEF RetryStarts, persistVars
  <2>5. Passes
    BY <2>4, BooksInherit DEF Passes
  <2>6. Awaited'
    BY <1>0, <2>2, <2>3, <2>4 DEF Awaited, Revoked
  <2> QED BY <2>5, <2>6, OnTheBooksPasses
<1>7. CASE RetryNext
  <2>1. /\ cred'.issue = cred.issue /\ cred'.held = cred.held /\ cred'.lost = cred.lost /\ cred'.last = cred.last
        /\ \/ books' = books /\ work' = [work EXCEPT !["retry"] = Idle]
           \/ \E c \in work["retry"].todo :
                 /\ c \in Cid /\ books' = Dropped(books, {c})
                 /\ work' = [work EXCEPT !["retry"].todo = @ \ {c}]
           \/ \E c \in work["retry"].todo :
                 /\ c \in Cid /\ books' = books
                 /\ work' = [work EXCEPT !["retry"] =
                       [work["retry"] EXCEPT !.at = "revoke", !.c = c, !.todo = @ \ {c}]]
    BY <1>0, <1>7, RetryNextFacts
  <2>2. cf' = cf /\ work["retry"].at = "rows"
    BY <1>7 DEF RetryNext
  <2>3. \A c \in work["retry"].todo : DeniedOn(books, PrincipalOf[c])
    BY <1>0 DEF Awaited
  <2>4. Inherits(books, books')
    BY <1>0, <2>1, <2>3, BooksInherit, DroppedInherits
  <2>5. Passes
    BY <2>1, <2>2, <2>4 DEF Passes
  <2>6. \A p \in Principal : DeniedOn(books, p) => DeniedOn(books', p)
    BY <2>4 DEF Inherits
  <2>7. /\ work'["sweep"] = work["sweep"] /\ work'["abuse"] = work["abuse"]
        /\ work'["retry"].todo \subseteq work["retry"].todo
        /\ \/ work'["retry"].at \in {"idle", "rows"}
           \/ work'["retry"].c \in work["retry"].todo
    <3>1. work["retry"] \in WorkState /\ "retry" \in Revoker
      BY <1>0 DEF Works, Revoker
    <3>2. PICK w \in WorkState :
            /\ work' = [work EXCEPT !["retry"] = w]
            /\ w.todo \subseteq work["retry"].todo
            /\ w.at \in {"idle", "rows"} \/ w.c \in work["retry"].todo
      <4>1. CASE work' = [work EXCEPT !["retry"] = Idle]
        BY <4>1, IdleType
      <4>2. ASSUME NEW c \in Cid, work' = [work EXCEPT !["retry"].todo = @ \ {c}]
            PROVE  \E w \in WorkState : /\ work' = [work EXCEPT !["retry"] = w]
                                        /\ w.todo \subseteq work["retry"].todo
                                        /\ w.at \in {"idle", "rows"}
        <5> DEFINE T == work["retry"].todo \ {c}
                   w == [work["retry"] EXCEPT !.todo = T]
        <5>1. T \subseteq work["retry"].todo /\ T \in SUBSET Cid
          BY <3>1 DEF WorkState
        <5>2. work' = [work EXCEPT !["retry"] = w]
          BY <1>0, <3>1, <4>2 DEF Works, WorkState
        <5> HIDE DEF T
        <5>3. w \in WorkState /\ w.todo = T /\ w.at = "rows"
          BY <2>2, <3>1, <5>1 DEF WorkState
        <5> QED BY <5>1, <5>2, <5>3
      <4>3. ASSUME NEW c \in Cid, c \in work["retry"].todo,
                   work' = [work EXCEPT !["retry"] =
                       [work["retry"] EXCEPT !.at = "revoke", !.c = c, !.todo = @ \ {c}]]
            PROVE  \E w \in WorkState : /\ work' = [work EXCEPT !["retry"] = w]
                                        /\ w.todo \subseteq work["retry"].todo
                                        /\ w.c \in work["retry"].todo
        <5> DEFINE T == work["retry"].todo \ {c}
                   w == [work["retry"] EXCEPT !.at = "revoke", !.c = c, !.todo = T]
        <5>1. T \subseteq work["retry"].todo /\ T \in SUBSET Cid
          BY <3>1 DEF WorkState
        <5>2. work' = [work EXCEPT !["retry"] = w]
          BY <3>1, <4>3 DEF WorkState
        <5> HIDE DEF T
        <5>3. w \in WorkState /\ w.todo = T /\ w.c = c
          BY <3>1, <5>1 DEF WorkState
        <5> QED BY <4>3, <5>1, <5>2, <5>3
      <4> QED BY <2>1, <4>1, <4>2, <4>3
    <3> QED BY <1>0, <3>1, <3>2 DEF Works, Revoker
  <2>8. /\ work["retry"].todo \subseteq Cid
        /\ Revoked("abuse") => work["abuse"].c \in Cid
    BY <1>0 DEF WorkFine, Works, WorkState, Revoker, Revoked
  <2>9. Awaited'
    BY <1>0, <1>01, <2>3, <2>6, <2>7, <2>8 DEF Awaited, Revoked
  <2> QED BY <2>5, <2>9, OnTheBooksPasses
<1> QED BY <1>1, <1>2, <1>3, <1>4, <1>5, <1>6, <1>7 DEF Revoke

(***************************************************************************)
(* The polls and the world.                                                *)
(***************************************************************************)

\* Without the policy, the kill switch leaves the entries and the revokers alone.
LEMMA SweptInherits ==
  ASSUME NEW b, NEW d, Swept(b, d), ~srv.policy
  PROVE  Inherits(b, d)
BY SameInherits DEF Swept

LEMMA InheritsChain ==
  ASSUME NEW a, NEW b, NEW d, d.active = b.active, d.deny = b.deny, d.issues = b.issues, Inherits(a, b)
  PROVE  Inherits(a, d)
BY DEF Inherits, Denied, DeniedOn

LEMMA SweptPruned ==
  ASSUME NEW b \in Books, NEW d, NEW e, d.active = Pruned(b).active, d.deny = Pruned(b).deny,
         d.issues = Pruned(b).issues, Swept(d, e), ~srv.policy
  PROVE  Inherits(b, e)
<1>1. Inherits(b, Pruned(b))
  BY PrunedInherits
<1> DEFINE p == Pruned(b)
<1>2. Inherits(b, p)
  BY <1>1
<1> HIDE DEF p
<1>3. d.active = p.active /\ d.deny = p.deny /\ d.issues = p.issues
  BY DEF p
<1>4. Inherits(b, d)
  BY <1>2, <1>3, InheritsChain
<1>5. /\ \A x \in Cid : (Denied(d, x) <=> Denied(e, x))
      /\ \A x \in Principal : (DeniedOn(d, x) <=> DeniedOn(e, x))
  BY DEF Swept, Denied, DeniedOn
<1>6. /\ \A c \in Cid : /\ e.active[c].rid = d.active[c].rid /\ e.active[c].age = d.active[c].age
                        /\ e.active[c].pending = d.active[c].pending
      /\ e.issues = d.issues
  BY DEF Swept
<1>7. \A c \in Cid : PrincipalOf[c] \in Principal
  BY OwnerAssumption
<1> QED BY <1>4, <1>5, <1>6, <1>7 DEF Inherits

LEMMA BooksPoll ==
  ASSUME Typed, Typed', Chained, Next, OnTheBooks, ~srv.policy, Poll
  PROVE  OnTheBooks'
<1>0. /\ Types /\ WritesOn /\ books \in Books /\ work \in Works /\ Awaited /\ srv \in Servers
      /\ work["sweep"].at = "idle" /\ WorkFine(work) /\ cred \in Creds
  BY DEF Typed, Types, BooksTyped, WorkTyped, WorkFine, OnTheBooks, Awaited, CredTyped
<1>01. /\ \A c \in Cid : PrincipalOf[c] \in Principal
       /\ work["retry"].todo \subseteq Cid
       /\ \A z \in {"abuse", "retry"} : Revoked(z) => work[z].c \in Cid
  BY <1>0, OwnerAssumption DEF WorkFine, Works, WorkState, Revoker, Revoked
<1>1. CASE AbuseAsks \/ AbuseAskFails
  <2>1. UNCHANGED <<books, cred, cf>>
    BY <1>1 DEF AbuseAsks, AbuseAskFails
  <2>2. /\ work'["sweep"] = work["sweep"] /\ work'["retry"] = work["retry"]
        /\ work'["abuse"].at \in {"ask", "idle"}
    BY <1>0, <1>1, IdleType DEF AbuseAsks, AbuseAskFails, Works, WorkState, Revoker
  <2>3. Passes
    BY <2>1, BooksInherit DEF Passes
  <2>4. Awaited'
    BY <1>0, <2>1, <2>2 DEF Awaited, Revoked
  <2> QED BY <2>3, <2>4, OnTheBooksPasses
<1>2. CASE AbuseRows
  <2>1. PICK S \in SUBSET Cid, rows \in [Cid -> Nat] : RowsRead(S, rows)
    BY <1>0, <1>2, AbuseRowsFacts
  <2>2. UNCHANGED <<cred, cf>>
    BY <1>2 DEF AbuseRows
  <2> DEFINE d == WithRows(books, S, rows)
  <2>3. /\ d \in Books /\ d.deny = books.deny /\ d.issues = books.issues
        /\ \A c \in Cid : /\ d.active[c].rid = books.active[c].rid
                          /\ d.active[c].age = books.active[c].age
                          /\ d.active[c].pending = books.active[c].pending
    BY <1>0, WithRowsFacts
  <2>4. CASE Swept(d, books') /\ SweptOrKept([work EXCEPT !["abuse"] = Idle], d)
    <3> HIDE DEF d
    <3>1. Inherits(books, books')
      <4>1. /\ \A c \in Cid : /\ books'.active[c].rid = books.active[c].rid
                              /\ books'.active[c].age = books.active[c].age
                              /\ books'.active[c].pending = books.active[c].pending
            /\ books'.deny = books.deny /\ books'.issues = books.issues
        BY <2>3, <2>4 DEF Swept
      <4> QED BY <4>1, SameInherits
    <3>2. work' = [work EXCEPT !["abuse"] = Idle]
      BY <2>4 DEF SweptOrKept
    <3>3. Passes
      BY <2>2, <3>1 DEF Passes
    <3>4. /\ work'["sweep"] = work["sweep"] /\ work'["retry"] = work["retry"]
          /\ work'["abuse"].at = "idle"
      BY <1>0, <3>2, IdleType DEF Works, Revoker
    <3>5. \A p \in Principal : DeniedOn(books, p) => DeniedOn(books', p)
      BY <3>1 DEF Inherits
    <3>6. Awaited'
      BY <1>0, <1>01, <3>4, <3>5 DEF Awaited, Revoked
    <3> QED BY <3>3, <3>6, OnTheBooksPasses
  <2>5. ASSUME NEW c \in Active(books), NEW T \in SUBSET Cid, books' = Abused(d, c),
               work' = [work EXCEPT !["abuse"] = [Idle EXCEPT !.at = "flush", !.c = c, !.todo = T]]
        PROVE  OnTheBooks'
    <3> HIDE DEF d
    <3>1. c \in Cid
      BY DEF Active
    <3>2. Inherits(d, books')
      BY <2>3, <2>5, <3>1, AbusedInherits
    <3>3. /\ \A x \in Cid : (Denied(d, x) <=> Denied(books, x))
          /\ \A p \in Principal : (DeniedOn(d, p) <=> DeniedOn(books, p))
      BY <2>3 DEF Denied, DeniedOn
    <3>4. Inherits(books, books')
      BY <1>01, <2>3, <3>2, <3>3 DEF Inherits
    <3>5. DeniedOn(books', PrincipalOf[c])
      BY <2>3, <2>5, <3>1, AbusedFacts
    <3>6. /\ work'["sweep"] = work["sweep"] /\ work'["retry"] = work["retry"]
          /\ work'["abuse"].c = c
      BY <1>0, <2>5 DEF Works, Revoker, Idle
    <3>7. Passes
      BY <2>2, <3>4 DEF Passes
    <3>8. \A p \in Principal : DeniedOn(books, p) => DeniedOn(books', p)
      BY <3>4 DEF Inherits
    <3>9. Awaited'
      BY <1>0, <1>01, <3>5, <3>6, <3>8 DEF Awaited, Revoked
    <3> QED BY <3>7, <3>9, OnTheBooksPasses
  <2> QED BY <2>1, <2>4, <2>5 DEF RowsRead
<1>3. ASSUME NEW timer \in BOOLEAN, GlobalAsks(timer) PROVE OnTheBooks'
  <2>1. books' = Rolled(books) /\ work' = work
    BY <1>0, <1>3, GlobalAsksFacts
  <2>2. UNCHANGED <<cred, cf>>
    BY <1>3 DEF GlobalAsks
  <2>3. Inherits(books, books')
    BY <1>0, <2>1, RolledFacts, SameInherits
  <2>4. Passes /\ \A p \in Principal : DeniedOn(books, p) => DeniedOn(books', p)
    BY <2>2, <2>3 DEF Passes, Inherits
  <2>5. Awaited'
    BY <1>0, <2>1, <2>4, AwaitedKept
  <2> QED BY <2>4, <2>5, OnTheBooksPasses
<1>4. ASSUME NEW p \in poll.polls, ProviderCounts(p) \/ GlobalStale(p) \/ GlobalFails(p)
      PROVE  OnTheBooks'
  <2>1. UNCHANGED <<books, cred, cf, work>>
    BY <1>4 DEF ProviderCounts, GlobalStale, GlobalFails, persistVars
  <2>2. Passes
    BY <2>1, BooksInherit DEF Passes
  <2>3. Awaited'
    BY <1>0, <2>1, AwaitedKept
  <2> QED BY <2>2, <2>3, OnTheBooksPasses
<1>5. ASSUME NEW p \in poll.polls, GlobalLowerBound(p) \/ GlobalTotal(p) PROVE OnTheBooks'
  <2> DEFINE d == IF p.all THEN Reconciled(p.read) ELSE LowerBound(p.read)
  <2>1. /\ p.read \in Nat /\ Swept(d, books') /\ SweptOrKept(work, d)
        /\ cred'.issue = cred.issue /\ cred'.held = cred.held /\ cred'.lost = cred.lost /\ cred'.last = cred.last
    BY <1>0, <1>5, GlobalEndFacts
  <2>2. cf' = cf
    BY <1>5 DEF GlobalLowerBound, GlobalTotal
  <2>3. /\ d.active = Pruned(books).active /\ d.deny = Pruned(books).deny
        /\ d.issues = Pruned(books).issues
    BY <1>0, <2>1, ReconciledFacts, LowerBoundFacts
  <2> HIDE DEF d
  <2>4. Inherits(books, books')
    BY <1>0, <2>1, <2>3, SweptPruned
  <2>5. work' = work
    BY <2>1 DEF SweptOrKept
  <2>6. Passes /\ \A x \in Principal : DeniedOn(books, x) => DeniedOn(books', x)
    BY <2>1, <2>2, <2>4 DEF Passes, Inherits
  <2>7. Awaited'
    BY <1>0, <2>5, <2>6, AwaitedKept
  <2> QED BY <2>6, <2>7, OnTheBooksPasses
<1> QED BY <1>1, <1>2, <1>3, <1>4, <1>5 DEF Poll

LEMMA BooksWorld ==
  ASSUME Typed, Typed', Chained, Next, OnTheBooks, Synced, Persisting \/ World
  PROVE  OnTheBooks'
<1>0. /\ Types /\ WritesOn /\ cf \in Providers
  BY DEF Typed, Types
<1>1. CASE \/ Persisting \/ LockEngages \/ LockAnswered \/ MonthTurns \/ Stops \/ StopFlushes \/ Exits
           \/ \E r \in Rid : Relays(r)
  <2>1. books' = books
    <3>1. CASE Write
      <4>1. PICK f \in File : WriteDone(f) \/ WriteFails(f)
        BY <3>1 DEF Write
      <4> QED BY <4>1, <1>0, WriteFacts
    <3> QED BY <1>1, <3>1 DEF Persisting, FlushTick, LockEngages, LockAnswered, MonthTurns, Stops,
                              StopFlushes, Exits, Relays
  <2>2. cred' = cred /\ work' = work
    BY <1>1 DEF Persisting, LockEngages, LockAnswered, MonthTurns, Stops, StopFlushes, Exits, Relays
  <2>3. cf'.owner = cf.owner /\ cf'.live = cf.live
    <3>1. CASE \E r \in Rid : Relays(r)
      <4>1. PICK r \in Rid : Relays(r)
        BY <3>1
      <4> DEFINE u == [cf.usage EXCEPT ![cf.owner[r]] = @ + 1]
                 n == cf.total + 1
      <4>2. cf' = [cf EXCEPT !.usage = u, !.total = n]
        BY <1>0, <4>1 DEF Relays, Providers
      <4> HIDE DEF u, n
      <4> QED BY <1>0, <4>2 DEF Providers
    <3>2. CASE MonthTurns
      BY <1>0, <3>2 DEF MonthTurns, Providers
    <3> QED BY <1>1, <3>1, <3>2 DEF Persisting, LockEngages, LockAnswered, Stops, StopFlushes, Exits
  <2>4. Passes
    BY <2>1, <2>2, <2>3, BooksInherit DEF Passes
  <2>5. Awaited'
    BY <2>1, <2>2, AwaitedKept DEF OnTheBooks
  <2> QED BY <2>4, <2>5, OnTheBooksPasses
<1> QED BY <1>1, BooksCrash, BooksAges DEF World

LEMMA BooksNext ==
  ASSUME Typed, Chained, ~srv.policy => OnTheBooks /\ Synced, [Next]_vars
  PROVE  (~srv.policy => OnTheBooks /\ Synced)'
<1>1. CASE UNCHANGED vars
  <2>1. UNCHANGED <<books, locks, file, sec, disk, cred, work, cf, srv>>
    BY <1>1 DEF vars, persistVars
  <2>2. Copies' = Copies
    BY <2>1 DEF Copies, On, Snap
  <2>3. \A d : Sound(d)' <=> Sound(d)
    BY <2>1 DEF Sound, Recorded, Gone, Newest, Denied, DeniedOn
  <2>4. ASSUME OnTheBooks, Synced PROVE OnTheBooks' /\ Synced'
    <3>1. Accounted'
      BY <2>2, <2>3, <2>4 DEF OnTheBooks, Accounted
    <3>2. Issued' /\ Awaited' /\ Synced'
      BY <2>1, <2>4 DEF OnTheBooks, Issued, Awaited, Revoked, Synced, Snap
    <3> QED BY <3>1, <3>2 DEF OnTheBooks
  <2> QED BY <2>1, <2>4
<1>2. CASE Next
  <2>1. SUFFICES ASSUME ~srv'.policy PROVE OnTheBooks' /\ Synced'
    OBVIOUS
  <2>2. ~srv.policy /\ OnTheBooks /\ Synced /\ Typed'
    BY <1>2, <2>1, PolicyStays, TypedNext
  <2> QED BY <1>2, <2>2, BooksIssue, BooksRevoke, BooksPoll, BooksWorld, SyncedNext DEF Next
<1> QED BY <1>1, <1>2

LEMMA BooksInit ==
  ASSUME Init
  PROVE  OnTheBooks /\ Synced
<1>1. /\ books = EmptyBooks(0) /\ disk = [turn |-> EmptyBooks(0), locks |-> FALSE]
      /\ cred = NoCred(0, {}, {}, {}) /\ work = [a \in Revoker |-> Idle]
      /\ cf.live = {} /\ cf.owner = [r \in Rid |-> NoCid]
      /\ ~file["turn"].write.on
  BY FileNames DEF Init, Clean, NoWrite
<1>2. Copies = {EmptyBooks(0)}
  BY <1>1, TypesInit, TornAssumption DEF Copies, On, Typed, Types, BooksTyped
<1>3. Sound(EmptyBooks(0))
  BY NoEntryFacts DEF Sound, Recorded, EmptyBooks
<1>4. Accounted
  BY <1>2, <1>3 DEF Accounted
<1>5. cred.held = {} /\ \A c \in Cid : cred.issue[c].rid = 0
  BY <1>1 DEF NoCred, NoIssue
<1>6. Issued
  BY <1>1, <1>5 DEF Issued
<1>7. Awaited
  BY <1>1 DEF Awaited, Revoked, Idle, Revoker
<1>8. Synced
  <2>1. disk["turn"] = EmptyBooks(0) /\ file["turn"].chain = <<>>
    BY <1>1, FileNames DEF Init, Clean
  <2> QED BY <1>1, <2>1 DEF Synced
<1> QED BY <1>4, <1>6, <1>7, <1>8 DEF OnTheBooks

LEMMA BooksAlways == Spec => [](Typed /\ Chained /\ (~srv.policy => OnTheBooks /\ Synced))
<1>1. Init => Typed /\ Chained /\ (~srv.policy => OnTheBooks /\ Synced)
  BY TypesInit, ChainedInit, BooksInit
<1>2. Typed /\ Chained /\ (~srv.policy => OnTheBooks /\ Synced) /\ [Next]_vars
      => (Typed /\ Chained /\ (~srv.policy => OnTheBooks /\ Synced))'
  BY TypedNext, ChainedNext, BooksNext
<1> QED BY <1>1, <1>2, PTL DEF Spec

\* What is on record, live and its session's newest has its entry.
LEMMA HonouredOnRecord ==
  ASSUME Typed, OnTheBooks, NEW r \in Honoured
  PROVE  /\ r \in Rid /\ r \in cred.held \ cred.lost /\ cf.owner[r] \in Cid
         /\ books.active[cf.owner[r]].rid = r
<1>1. r \in cred.held \ cred.lost /\ r \in cf.live /\ Newest(r) /\ ~Denied(books, cf.owner[r])
  BY DEF Honoured
<1>2. r \in books.issues /\ r \in Rid
  BY <1>1, IssuedFacts DEF OnTheBooks, Issued
<1>3. Sound(books)
  BY BooksSound DEF OnTheBooks
<1> QED BY <1>1, <1>2, <1>3 DEF Sound, Recorded, Gone

\* A credential that a client holds and the provider honours stays on the books, through
\* pruning, failed calls, late answers, restarts and unreadable files, unless its session is
\* banned or has asked for a newer one: only then may a revoke or its retry delete the entry.
\* The clients keep what they hold through a crash of the server; excepted is a credential
\* whose issue was still to be written at a crash, or whose file a crash made unreadable
\* (turn.ts issueFreshCredentials, rollbackReservation, pruneActiveCredentials,
\* revokeCustomIdentifier, persist.ts loadTurnState).
THEOREM HonouredIsOnTheBooks == Spec => []LiveIsOnTheBooks
<1>1. Typed /\ (~srv.policy => OnTheBooks /\ Synced) => LiveIsOnTheBooks
  BY HonouredOnRecord DEF LiveIsOnTheBooks
<1> QED BY <1>1, BooksAlways, PTL

(***************************************************************************)
(* The clean exit.                                                         *)
(***************************************************************************)

\* Of what clients hold the server has forgotten everything, and it is issuing nothing.
Nothing == cred.held \subseteq cred.lost /\ \A c \in Cid : cred.issue[c].rid = 0

LEMMA NothingStays ==
  ASSUME Typed, Next, Nothing, \A c \in Cid : ~IssueFresh(c)
  PROVE  Nothing'
<1>0. Types /\ WritesOn /\ cred \in Creds /\ \A c \in Cid : ~cred.issue[c].made
  BY DEF Typed, Types, CredTyped, Nothing
<1>1. CASE cred'.issue = cred.issue /\ cred'.held = cred.held /\ cred'.lost = cred.lost
  BY <1>1 DEF Nothing
<1>2. CASE cred' = cred
  BY <1>1, <1>2
<1>3. CASE Issue
  <2>1. ASSUME NEW c \in Cid, IssueOld(c) PROVE Nothing'
    BY <1>0, <1>1, <2>1, IssueOldFacts
  <2>2. ASSUME NEW c \in Cid, ProviderMakes(c) \/ IssueDone(c) \/ IssueFails(c) PROVE FALSE
    BY <1>0, <2>2 DEF ProviderMakes, IssueDone, IssueFails, Nothing
  <2> QED BY <1>3, <2>1, <2>2 DEF Issue
<1>4. CASE Revoke
  <2>1. ASSUME NEW a \in Revoker, RevokeDone(a) PROVE Nothing'
    BY <1>0, <1>1, <2>1, RevokeDoneFacts
  <2>2. CASE RetryNext
    BY <1>0, <1>1, <2>2, RetryNextFacts
  <2> QED BY <1>2, <1>4, <2>1, <2>2 DEF Revoke, ProviderRevokes, RevokeFails, Flushed, SweepNext, RetryStarts
<1>5. CASE Poll
  <2>1. ASSUME NEW p \in poll.polls, GlobalLowerBound(p) \/ GlobalTotal(p) PROVE Nothing'
    BY <1>0, <1>1, <2>1, GlobalEndFacts
  <2> QED BY <1>2, <1>5, <2>1 DEF Poll, AbuseAsks, AbuseAskFails, AbuseRows, GlobalAsks, ProviderCounts,
                                  GlobalFails, GlobalStale
<1>6. CASE Persisting
  BY <1>2, <1>6 DEF Persisting
<1>7. CASE World
  <2>1. CASE Crash \/ CrashTorn
    <3>1. PICK t \in Books \cup {Torn}, l \in BOOLEAN \cup {Torn} : Restarts([turn |-> t, locks |-> l])
      BY <1>0, <2>1, CrashFacts
    <3>2. cred' = Reborn(t)
      BY <1>0, <3>1, RestartsFacts
    <3> QED BY <3>2 DEF Nothing, Reborn, NoCred, NoIssue
  <2> QED BY <1>2, <1>7, <2>1 DEF World, LockEngages, LockAnswered, MonthTurns, Stops, StopFlushes, Exits,
                                  Relays, Ages
<1> QED BY <1>3, <1>4, <1>5, <1>6, <1>7 DEF Next

\* Only the flush of the shutdown leads to a clean exit, which is the end.
LEMMA CleanBy ==
  ASSUME Typed, Next, srv'.at = "clean"
  PROVE  Exits /\ sec["stop"].at = "end" /\ sec["stop"].ok
<1>0. Types /\ srv \in Servers /\ srv.at # "clean"
  BY DEF Typed, Types, Next, Running
<1>1. CASE srv' = srv
  BY <1>0, <1>1
<1>2. CASE Exits
  <2> DEFINE ok == sec["stop"].ok /\ \A f \in File : file[f].load = "ok"
             at == IF ok /\ ~Issuing THEN "clean" ELSE IF ok /\ srv.at = "flushing" THEN "late" ELSE "failed"
  <2>1. srv' = [srv EXCEPT !.at = at]
    BY <1>0, <1>2 DEF Exits, Servers
  <2>2. at = "clean" => ok
    OBVIOUS
  <2>3. ok => sec["stop"].ok
    OBVIOUS
  <2> HIDE DEF at, ok
  <2>4. at = "clean"
    BY <1>0, <2>1 DEF Servers
  <2> QED BY <1>2, <2>2, <2>3, <2>4 DEF Exits, Answered
<1>3. CASE \/ Crash \/ CrashTorn \/ MonthTurns \/ Stops \/ StopFlushes \/ LockAnswered
  <2>1. CASE Crash \/ CrashTorn
    <3>1. PICK t \in Books \cup {Torn}, l \in BOOLEAN \cup {Torn} : Restarts([turn |-> t, locks |-> l])
      BY <1>0, <2>1, CrashFacts
    <3>2. srv' = [srv EXCEPT !.at = "up"]
      BY <1>0, <3>1, RestartsFacts
    <3> QED BY <1>0, <3>2 DEF Servers
  <2>2. CASE MonthTurns
    BY <1>0, <2>2 DEF MonthTurns, Servers
  <2>3. CASE Stops
    BY <1>0, <2>3 DEF Stops, Servers
  <2>4. CASE StopFlushes
    <3>1. PICK at \in {"flushing", "last"} : srv' = [srv EXCEPT !.at = at]
      BY <1>0, <2>4 DEF StopFlushes, Servers
    <3> QED BY <1>0, <3>1 DEF Servers
  <2>5. CASE LockAnswered
    BY <1>0, <2>5 DEF LockAnswered, Servers
  <2> QED BY <1>3, <2>1, <2>2, <2>3, <2>4, <2>5
<1> QED BY <1>1, <1>2, <1>3 DEF Next, Issue, IssueOld, IssueFresh, ProviderMakes, IssueDone, IssueFails,
      Revoke, ProviderRevokes, RevokeDone, RevokeFails, Flushed, SweepNext, RetryStarts, RetryNext,
      Poll, AbuseAsks, AbuseAskFails, AbuseRows, GlobalAsks, ProviderCounts, GlobalFails, GlobalStale,
      GlobalLowerBound, GlobalTotal, Persisting, World, LockEngages, Relays, Ages

(***************************************************************************)
(* The inductive invariant of the shutdown: the flush that gracefulShutdown *)
(* asks for takes its snapshot when no credential can be issued any more,   *)
(* so what it writes, and every later write, covers the books.             *)
(***************************************************************************)

\* d has every entry of the books b.
Covers(d, b) == \A c \in Cid : b.active[c].rid # 0 => d.active[c].rid = b.active[c].rid

StopSnap == On("turn") /\ Head(file["turn"].chain) = "stop" => Covers(Snap("turn"), books)
Saved ==
    /\ disk["turn"] # Torn /\ Covers(disk["turn"], books)
    /\ On("turn") => Covers(Snap("turn"), books)
Finished == (sec["stop"].at \in {"locks", "end"} /\ sec["stop"].ok) \/ srv.at = "clean"
Parting ==
    /\ file["turn"].load # "ok" => Nothing
    /\ StopSnap
    /\ Finished => Nothing \/ Saved

LEMMA CoversStays ==
  ASSUME RidsGo
  PROVE  /\ Covers(books, books') /\ Covers(books', books')
         /\ \A d : Covers(d, books) => Covers(d, books')
BY DEF Covers, RidsGo

LEMMA PartingCrash ==
  ASSUME Typed, Restarting
  PROVE  Parting'
<1>1. PICK t \in Books \cup {Torn}, l \in BOOLEAN \cup {Torn} : Restarts([turn |-> t, locks |-> l])
  BY CrashFacts DEF Typed, Restarting
<1>2. /\ cred' = Reborn(t) /\ file'["turn"].write = NoWrite
      /\ file'["turn"].load = IF t = Torn THEN "failed" ELSE "ok"
      /\ sec' = [w \in Caller |-> Off] /\ srv' = [srv EXCEPT !.at = "up"] /\ srv \in Servers
  BY <1>1, RestartsFacts, FileNames DEF Typed, Types
<1>3. file'["turn"].load # "ok" => Nothing'
  BY <1>2 DEF Nothing, Reborn, NoCred, NoIssue, Forgotten
<1>4. ~On("turn")'
  BY <1>2 DEF On, NoWrite
<1>5. ~Finished'
  <2>1. sec'["stop"].at = "off" /\ srv'.at = "up"
    BY <1>2, CallerAssumption DEF Off, Servers
  <2> QED BY <2>1 DEF Finished
<1> QED BY <1>3, <1>4, <1>5 DEF Parting, StopSnap

LEMMA PartingSame ==
  ASSUME Parting, UNCHANGED <<books, file, disk, cred>>, Finished' => Finished
  PROVE  Parting'
BY DEF Parting, StopSnap, Saved, Nothing, On, Snap

\* A credential is issued only before the shutdown begins.
LEMMA FreshIsEarly ==
  ASSUME Typed, Chained, NEW c \in Cid, IssueFresh(c)
  PROVE  /\ file["turn"].load = "ok" /\ sec["stop"].at = "off" /\ srv' = srv /\ srv.at = "up"
         /\ On("turn") => Head(file["turn"].chain) # "stop"
<1>1. srv.at = "up" /\ file["turn"].load = "ok" /\ srv' = srv
  BY DEF IssueFresh, Asks
<1>2. sec["stop"].at = "off"
  BY <1>1 DEF Chained, Callers
<1>3. ASSUME On("turn"), Head(file["turn"].chain) = "stop" PROVE FALSE
  <2>1. sec[Head(file["turn"].chain)].at = "turn"
    BY <1>3, HeadWaits, FileNames, CallerAssumption
  <2> QED BY <1>2, <1>3, <2>1
<1> QED BY <1>1, <1>2, <1>3

LEMMA FinishedCalm ==
  ASSUME Typed, Chained, Parting, Next, Calm, Finished'
  PROVE  Finished \/ (Nothing /\ file["turn"].load # "ok")
<1>1. CASE srv'.at = "clean"
  BY <1>1, CleanBy DEF Finished
<1>2. CASE srv'.at # "clean"
  <2>1. sec'["stop"].at \in {"locks", "end"} /\ sec'["stop"].ok
    BY <1>2 DEF Finished
  <2>2. \/ sec'["stop"] = sec["stop"]
        \/ file["turn"].load = "ok" => sec'["stop"].at = "turn"
    BY SecMoves, CallerAssumption DEF Calm
  <2> QED BY <2>1, <2>2 DEF Finished, Parting
<1> QED BY <1>1, <1>2

LEMMA PartingCalm ==
  ASSUME Typed, Chained, Parting, Next, Calm
  PROVE  Parting'
<1>1. /\ disk' = disk /\ Moves /\ (file'["turn"].load # "ok" => file["turn"].load # "ok")
  BY FileNames DEF Calm
<1>2. \/ /\ file'["turn"].write = file["turn"].write
         /\ On("turn") => Head(file'["turn"].chain) = Head(file["turn"].chain)
      \/ /\ file'["turn"].write = [on |-> TRUE, snap |-> books]
         /\ Head(file'["turn"].chain) = Tick
      \/ /\ file'["turn"].write = [on |-> TRUE, snap |-> books']
  BY <1>1, WriteMoves, FileNames
<1>3. Tick # "stop"
  BY TickIsNoCaller, CallerAssumption
<1>4. CASE Restarting
  BY <1>4, PartingCrash
<1>5. ASSUME NEW c \in Cid, IssueFresh(c) PROVE Parting'
  <2>1. /\ file["turn"].load = "ok" /\ sec["stop"].at = "off" /\ srv' = srv /\ srv.at = "up"
        /\ On("turn") => Head(file["turn"].chain) # "stop"
    BY <1>5, FreshIsEarly
  <2>2. StopSnap'
    BY <1>2, <1>3, <2>1 DEF StopSnap, On, Snap, Covers
  <2>3. ~Finished
    BY <2>1 DEF Finished
  <2>4. ~Finished'
    BY <2>1, <2>3, FinishedCalm
  <2> QED BY <1>1, <2>1, <2>2, <2>4 DEF Parting
<1>6. CASE RidsGo /\ \A c \in Cid : ~IssueFresh(c)
  <2>1. Nothing => Nothing'
    BY <1>6, NothingStays
  <2>2. /\ Covers(books, books') /\ Covers(books', books')
        /\ \A d : Covers(d, books) => Covers(d, books')
    BY <1>6, CoversStays
  <2>3. StopSnap'
    BY <1>2, <1>3, <2>2 DEF Parting, StopSnap, On, Snap
  <2>4. Saved => Saved'
    BY <1>1, <1>2, <2>2 DEF Saved, On, Snap
  <2>5. Finished' => Nothing' \/ Saved'
    BY <2>1, <2>4, FinishedCalm DEF Parting
  <2> QED BY <1>1, <2>1, <2>3, <2>5 DEF Parting
<1> QED BY <1>4, <1>5, <1>6, RidsMove

LEMMA PartingWrites ==
  ASSUME Typed, Chained, Parting, Write, UNCHANGED <<cred, work, poll, cf, srv>>
  PROVE  Parting'
<1>1. PICK f \in File : WriteDone(f) \/ WriteFails(f)
  BY DEF Write
<1>2. /\ file[f].write.on /\ books' = books
      /\ disk' \in {disk, [disk EXCEPT ![f] = file[f].write.snap]}
  BY <1>1, WriteFacts DEF Typed
<1>3. PICK ok \in BOOLEAN, keep \in BOOLEAN :
         Ended(f, ok, keep) /\ (ok => disk' = [disk EXCEPT ![f] = file[f].write.snap])
  BY <1>1, WriteFacts DEF Typed
<1>4. Types /\ disk \in [File -> Snapshot] /\ Fitting(file) /\ "stop" \in Caller
  BY CallerAssumption DEF Typed, Types, DiskTyped, FileTyped
<1>5. \/ sec'["stop"] = sec["stop"]
      \/ /\ Head(file[f].chain) = "stop" /\ sec["stop"].at = f
         /\ sec'["stop"].ok => ok /\ sec["stop"].ok
  BY <1>2, <1>3, <1>4, EndedFlush
<1>6. /\ file'["turn"].load = file["turn"].load
      /\ f = "turn" => \/ file'["turn"].write = NoWrite
                       \/ file'["turn"].write = [on |-> TRUE, snap |-> books]
      /\ f # "turn" => /\ file'["turn"].write = file["turn"].write
                       /\ On("turn") => Head(file'["turn"].chain) = Head(file["turn"].chain)
  BY <1>2, <1>3, WritesAfter, FileNames DEF On
<1>7. Nothing' = Nothing
  BY DEF Nothing
<1>8. Covers(books, books)
  BY DEF Covers
<1>9. CASE f = "turn"
  <2>1. On("turn")' => Snap("turn")' = books
    BY <1>6, <1>9 DEF On, Snap, NoWrite
  <2>2. StopSnap'
    BY <1>2, <1>8, <2>1 DEF StopSnap
  <2>3. Snap("turn") # Torn /\ On("turn")
    BY <1>2, <1>4, <1>9, TornAssumption DEF Fitting, Snap, On
  <2>4. disk'["turn"] \in {disk["turn"], Snap("turn")} /\ (ok => disk'["turn"] = Snap("turn"))
    BY <1>2, <1>3, <1>4, <1>9 DEF Snap
  <2>5. ASSUME Finished', ~Nothing PROVE Saved'
    <3>1. CASE Finished
      <4>1. Saved
        BY <2>5, <3>1 DEF Parting
      <4> QED BY <1>2, <1>8, <2>1, <2>3, <2>4, <4>1 DEF Saved
    <3>2. CASE ~Finished
      <4>1. Head(file["turn"].chain) = "stop" /\ ok
        BY <1>5, <1>9, <2>5, <3>2 DEF Finished
      <4>2. Covers(Snap("turn"), books)
        BY <2>3, <4>1 DEF Parting, StopSnap
      <4> QED BY <1>2, <1>8, <2>1, <2>3, <2>4, <4>1, <4>2 DEF Saved
    <3> QED BY <3>1, <3>2
  <2> QED BY <1>6, <1>7, <2>2, <2>5 DEF Parting
<1>10. CASE f = "locks"
  <2>1. disk'["turn"] = disk["turn"]
    BY <1>2, <1>4, <1>10, FileNames
  <2>2. file'["turn"].write = file["turn"].write
        /\ (On("turn") => Head(file'["turn"].chain) = Head(file["turn"].chain))
    BY <1>6, <1>10, FileNames
  <2>3. Finished' => Finished
    BY <1>5, <1>10 DEF Finished
  <2>4. StopSnap'
    BY <1>2, <2>2 DEF Parting, StopSnap, On, Snap
  <2>5. Saved => Saved'
    BY <1>2, <2>1, <2>2 DEF Saved, On, Snap
  <2> QED BY <1>6, <1>7, <2>3, <2>4, <2>5 DEF Parting
<1> QED BY <1>9, <1>10 DEF File

LEMMA PartingNext ==
  ASSUME Typed, Chained, Parting, [Next]_vars
  PROVE  Parting'
<1>0. sec \in Flushes /\ "stop" \in Caller
  BY CallerAssumption DEF Typed, Types
<1>1. CASE UNCHANGED vars
  <2>1. UNCHANGED <<books, file, disk, cred, sec, srv>>
    BY <1>1 DEF vars, persistVars
  <2>2. Finished' => Finished
    BY <2>1 DEF Finished
  <2> QED BY <2>1, <2>2, PartingSame
<1>2. ASSUME Next, UNCHANGED <<books, file, disk, cred>>, sec'["stop"] \in {sec["stop"], Off} PROVE Parting'
  <2>1. CASE srv'.at = "clean"
    BY <1>2, <2>1, CleanBy, PartingSame DEF Finished
  <2>2. CASE srv'.at # "clean"
    <3>1. Finished' => Finished
      BY <1>2, <2>2 DEF Finished, Off
    <3> QED BY <1>2, <3>1, PartingSame
  <2> QED BY <2>1, <2>2
<1>3. ASSUME Next, NEW a \in {"abuse", "sweep"}, Flushed(a) PROVE Parting'
  <2>1. UNCHANGED <<books, file, disk, cred>>
    BY <1>3 DEF Flushed
  <2>2. sec' = [sec EXCEPT ![a] = Off]
    BY <1>3, FlushedFacts DEF Typed
  <2>3. sec'["stop"] = sec["stop"]
    BY <1>0, <2>2 DEF Flushes
  <2> QED BY <1>2, <1>3, <2>1, <2>3
<1>4. ASSUME Next, NEW a \in Revoker, ProviderRevokes(a) PROVE Parting'
  <2>1. UNCHANGED <<books, file, disk, cred, sec>>
    BY <1>4 DEF ProviderRevokes, persistVars
  <2> QED BY <1>2, <1>4, <2>1
<1>5. CASE Next /\ LockAnswered
  <2>1. UNCHANGED <<books, file, disk, cred>> /\ sec' = [sec EXCEPT !["lock"] = Off]
    BY <1>5 DEF LockAnswered
  <2>2. sec'["stop"] = sec["stop"]
    BY <1>0, <2>1 DEF Flushes
  <2> QED BY <1>2, <1>5, <2>1, <2>2
<1>6. CASE Next /\ Exits
  <2>1. UNCHANGED <<books, file, disk, cred>> /\ sec' = [sec EXCEPT !["stop"] = Off]
    BY <1>6 DEF Exits
  <2>2. sec'["stop"] = Off
    BY <1>0, <2>1 DEF Flushes
  <2> QED BY <1>2, <1>6, <2>1, <2>2
<1>7. CASE Next
  BY <1>3, <1>4, <1>5, <1>6, <1>7, StepKinds, PartingCalm, PartingWrites, PartingCrash DEF Restarting
<1> QED BY <1>1, <1>7

LEMMA PartingInit ==
  ASSUME Init
  PROVE  Parting
<1>1. ~On("turn") /\ file["turn"].load = "ok" /\ sec["stop"].at = "off" /\ srv.at # "clean"
  BY FileNames, CallerAssumption DEF Init, Clean, NoWrite, On, Off
<1> QED BY <1>1 DEF Parting, StopSnap, Finished

\* A server that exits with code 0 leaves every credential on disk that a client holds and the
\* provider honours: its flush is asked for after the last request was admitted, a later write
\* covers the books as well, and a flush that fails makes the exit code another one.  A shutdown
\* cannot bring back what an earlier crash made the server forget (index.ts gracefulShutdown,
\* persist.ts flushTurnState).
THEOREM CleanExitsAreComplete == Spec => []CleanExitKeepsBooks
<1> DEFINE Inv == Typed /\ Chained /\ Parting
<1>1. Init => Inv
  BY TypesInit, ChainedInit, PartingInit
<1>2. Inv /\ [Next]_vars => Inv'
  BY TypedNext, ChainedNext, PartingNext
<1>3. Inv /\ (~srv.policy => OnTheBooks /\ Synced) => CleanExitKeepsBooks
  <2>1. SUFFICES ASSUME Inv, ~srv.policy => OnTheBooks /\ Synced, srv.at = "clean", ~srv.policy, NEW r \in Honoured
                 PROVE  disk["turn"].active[cf.owner[r]].rid = r
    BY DEF CleanExitKeepsBooks
  <2>2. /\ r \in Rid /\ r \in cred.held \ cred.lost /\ cf.owner[r] \in Cid
        /\ books.active[cf.owner[r]].rid = r
    BY <2>1, HonouredOnRecord
  <2>3. Nothing \/ Saved
    BY <2>1 DEF Parting, Finished
  <2>4. r # 0
    BY <2>2 DEF Rid
  <2> QED BY <2>2, <2>3, <2>4 DEF Nothing, Saved, Covers
<1> QED BY <1>1, <1>2, <1>3, BooksAlways, PTL DEF Spec

(***************************************************************************)
(* The estimate covers the reservations.                                   *)
(***************************************************************************)

\* An entry counts at least the unit that its reservation estimates, no entry counts nothing,
\* and the estimate covers them all.
Balanced(d) ==
    /\ \A c \in Cid : IF d.active[c].rid = 0 THEN d.active[c].bytes = 0 ELSE d.active[c].bytes >= 1
    /\ Total(d) <= d.pess
    /\ d.month = 0

\* Entries stay or are dropped; the estimate stays.
Lightens(b, d) ==
    /\ \A c \in Cid : \/ d.active[c].rid = b.active[c].rid /\ d.active[c].bytes = b.active[c].bytes
                      \/ d.active[c].rid = 0 /\ d.active[c].bytes = 0
    /\ d.pess = b.pess /\ d.month = b.month

\* The total is a sum over all sessions, a number.
LEMMA TotalOfAll ==
  ASSUME NEW d \in Books, \A c \in Cid : d.active[c].rid = 0 => d.active[c].bytes = 0
  PROVE  /\ Total(d) = SumFunctionOnSet(Volume(d), Cid) /\ Total(d) \in Nat
         /\ \A c \in Cid : Volume(d)[c] = d.active[c].bytes /\ Volume(d)[c] \in Nat
<1>1. Active(d) \in SUBSET Cid /\ Volume(d) \in [Cid -> Nat] /\ Total(d) \in Nat
  BY TotalType
<1>2. \A c \in Cid : Volume(d)[c] = d.active[c].bytes /\ Volume(d)[c] \in Nat
  BY <1>1 DEF Volume
<1>3. \A c \in Cid \ Active(d) : Volume(d)[c] = 0
  BY <1>2 DEF Active
<1> DEFINE v == Volume(d)
           A == Active(d)
<1> HIDE DEF v, A
<1>4. SumFunctionOnSet(v, Cid) = SumFunctionOnSet(v, A)
  BY <1>1, <1>2, <1>3, FiniteAssumption, SumSupport DEF v, A
<1> QED BY <1>1, <1>2, <1>4 DEF Total, v, A

LEMMA LightensBalanced ==
  ASSUME NEW b \in Books, NEW d \in Books, Balanced(b), Lightens(b, d)
  PROVE  Balanced(d)
<1>1. \A c \in Cid : IF d.active[c].rid = 0 THEN d.active[c].bytes = 0 ELSE d.active[c].bytes >= 1
  BY DEF Balanced, Lightens
<1>2. /\ Total(d) = SumFunctionOnSet(Volume(d), Cid) /\ Total(d) \in Nat
      /\ \A c \in Cid : Volume(d)[c] = d.active[c].bytes /\ Volume(d)[c] \in Nat
  BY <1>1, TotalOfAll
<1>3. /\ Total(b) = SumFunctionOnSet(Volume(b), Cid) /\ Total(b) \in Nat
      /\ \A c \in Cid : Volume(b)[c] = b.active[c].bytes /\ Volume(b)[c] \in Nat
  BY TotalOfAll DEF Balanced
<1> DEFINE u == Volume(d)
           v == Volume(b)
<1>4. \A c \in Cid : u[c] \in Nat /\ v[c] \in Nat /\ u[c] <= v[c]
  BY <1>2, <1>3 DEF Lightens
<1> HIDE DEF u, v
<1>5. SumFunctionOnSet(u, Cid) <= SumFunctionOnSet(v, Cid)
  BY <1>4, FiniteAssumption, SumMonotone
<1>6. Total(d) <= Total(b)
  BY <1>2, <1>3, <1>5 DEF u, v
<1>7. b.pess \in Nat
  BY BooksFields
<1> QED BY <1>1, <1>2, <1>3, <1>6, <1>7 DEF Balanced, Lightens

LEMMA PrunedLightens ==
  ASSUME NEW b \in Books
  PROVE  Lightens(b, Pruned(b))
<1>1. NoEntry.rid = 0 /\ NoEntry.bytes = 0
  BY DEF NoEntry
<1>2. /\ \A c \in Cid : IF c \in Expired(b) THEN Pruned(b).active[c] = NoEntry
                        ELSE /\ Pruned(b).active[c].rid = b.active[c].rid
                             /\ Pruned(b).active[c].bytes = b.active[c].bytes
      /\ Pruned(b).pess = b.pess /\ Pruned(b).month = b.month
  BY PrunedFacts
<1> QED BY <1>1, <1>2 DEF Lightens

LEMMA DroppedLightens ==
  ASSUME NEW b \in Books, NEW S \in SUBSET Cid
  PROVE  Lightens(b, Dropped(b, S))
<1>1. NoEntry.rid = 0 /\ NoEntry.bytes = 0
  BY DEF NoEntry
<1>2. /\ Dropped(b, S).active = [c \in Cid |-> IF c \in S THEN NoEntry ELSE b.active[c]]
      /\ Dropped(b, S).pess = b.pess /\ Dropped(b, S).month = b.month
  BY DroppedFacts
<1> QED BY <1>1, <1>2 DEF Lightens

LEMMA SweptLightens ==
  ASSUME NEW b, NEW d, Swept(b, d)
  PROVE  Lightens(b, d)
BY DEF Swept, Lightens

LEMMA EmptyBalanced == Balanced(EmptyBooks(0)) /\ EmptyBooks(0) \in Books
<1> DEFINE d == EmptyBooks(0)
<1>1. d \in Books /\ d.pess = 0 /\ d.month = 0 /\ \A c \in Cid : d.active[c].rid = 0 /\ d.active[c].bytes = 0
  BY EmptyBooksFacts DEF EmptyBooks, NoEntry
<1> HIDE DEF d
<1>2. Active(d) = {}
  BY <1>1 DEF Active
<1>3. SumFunctionOnSet(Volume(d), {}) = 0
  BY SumStep, FS_EmptySet
<1> QED BY <1>1, <1>2, <1>3 DEF Balanced, Total, d

\* The sum when one session's volume is replaced.
LEMMA OneVolume ==
  ASSUME NEW b \in Books, NEW d \in Books, Balanced(b), NEW c \in Cid,
         \A x \in Cid : d.active[x].rid = 0 => d.active[x].bytes = 0,
         \A x \in Cid : x # c => d.active[x].bytes = b.active[x].bytes
  PROVE  /\ Total(d) \in Nat /\ Total(b) \in Nat
         /\ Total(d) + b.active[c].bytes = Total(b) + d.active[c].bytes
<1>1. /\ Total(d) = SumFunctionOnSet(Volume(d), Cid) /\ Total(d) \in Nat
      /\ \A x \in Cid : Volume(d)[x] = d.active[x].bytes /\ Volume(d)[x] \in Nat
  BY TotalOfAll
<1>2. /\ Total(b) = SumFunctionOnSet(Volume(b), Cid) /\ Total(b) \in Nat
      /\ \A x \in Cid : Volume(b)[x] = b.active[x].bytes /\ Volume(b)[x] \in Nat
  BY TotalOfAll DEF Balanced
<1> DEFINE u == Volume(d)
           v == Volume(b)
           R == Cid \ {c}
<1>3. \A x \in Cid : u[x] \in Nat /\ v[x] \in Nat
  BY <1>1, <1>2
<1>4. \A x \in R : u[x] = v[x]
  BY <1>1, <1>2
<1>5. u[c] = d.active[c].bytes /\ v[c] = b.active[c].bytes
  BY <1>1, <1>2
<1> HIDE DEF u, v
<1>6. SumFunctionOnSet(u, Cid) = u[c] + SumFunctionOnSet(u, R)
  BY <1>3, FiniteAssumption, SumRemove
<1>7. SumFunctionOnSet(v, Cid) = v[c] + SumFunctionOnSet(v, R)
  BY <1>3, FiniteAssumption, SumRemove
<1>8. IsFiniteSet(R)
  BY FiniteAssumption, FS_RemoveElement
<1>9. /\ SumFunctionOnSet(u, R) \in Nat /\ SumFunctionOnSet(v, R) \in Nat
  BY <1>3, <1>8, SumType
<1>10. /\ SumFunctionOnSet(u, R) <= SumFunctionOnSet(v, R)
       /\ SumFunctionOnSet(v, R) <= SumFunctionOnSet(u, R)
  BY <1>3, <1>4, <1>8, SumMonotone
<1> QED BY <1>1, <1>2, <1>3, <1>5, <1>6, <1>7, <1>9, <1>10 DEF u, v

\* A reservation adds its unit to the estimate.
LEMMA ReservedBalanced ==
  ASSUME NEW b \in Books, NEW c \in Cid, NEW r \in Rid, Balanced(b)
  PROVE  Balanced(Reserved(b, c, r))
<1> DEFINE d == Reserved(b, c, r)
<1>1. /\ d \in Books /\ d.active = [b.active EXCEPT ![c] = Entry(r)]
      /\ Entry(r).rid = r /\ Entry(r).bytes = 1
      /\ d.pess = b.pess + 1 /\ d.month = b.month
  BY ReservedFacts
<1> HIDE DEF d
<1>2. b.active \in [Cid -> Entries] /\ b.pess \in Nat /\ b.active[c].bytes \in Nat
  BY BooksFields DEF Entries
<1>3. /\ d.active[c].rid = r /\ d.active[c].bytes = 1
      /\ \A x \in Cid : x # c => d.active[x] = b.active[x]
  BY <1>1, <1>2
<1>4. \A x \in Cid : IF d.active[x].rid = 0 THEN d.active[x].bytes = 0 ELSE d.active[x].bytes >= 1
  BY <1>3 DEF Balanced, Rid
<1>5. /\ Total(d) \in Nat /\ Total(b) \in Nat
      /\ Total(d) + b.active[c].bytes = Total(b) + d.active[c].bytes
  <2>1. \A x \in Cid : d.active[x].rid = 0 => d.active[x].bytes = 0
    BY <1>4
  <2>2. \A x \in Cid : x # c => d.active[x].bytes = b.active[x].bytes
    BY <1>3
  <2> QED BY <1>1, <2>1, <2>2, OneVolume
<1>6. Total(b) <= b.pess
  BY DEF Balanced
<1>7. Total(d) <= d.pess
  BY <1>1, <1>2, <1>3, <1>5, <1>6
<1> QED BY <1>1, <1>4, <1>7 DEF Balanced, d

\* A refund goes with its entry.
LEMMA RefundedBalanced ==
  ASSUME NEW b \in Books, NEW d \in Books, NEW c \in Cid, Balanced(b), b.active[c].rid # 0,
         d.active = [b.active EXCEPT ![c] = NoEntry], d.pess = Larger(0, b.pess - 1), d.month = b.month
  PROVE  Balanced(d)
<1>1. b.active \in [Cid -> Entries] /\ b.pess \in Nat /\ b.active[c].bytes \in Nat
  BY BooksFields DEF Entries
<1>2. /\ d.active[c].rid = 0 /\ d.active[c].bytes = 0
      /\ \A x \in Cid : x # c => d.active[x] = b.active[x]
  BY <1>1 DEF NoEntry
<1>3. \A x \in Cid : IF d.active[x].rid = 0 THEN d.active[x].bytes = 0 ELSE d.active[x].bytes >= 1
  BY <1>2 DEF Balanced
<1>4. /\ Total(d) \in Nat /\ Total(b) \in Nat
      /\ Total(d) + b.active[c].bytes = Total(b) + d.active[c].bytes
  <2>1. \A x \in Cid : d.active[x].rid = 0 => d.active[x].bytes = 0
    BY <1>3
  <2>2. \A x \in Cid : x # c => d.active[x].bytes = b.active[x].bytes
    BY <1>2
  <2> QED BY <2>1, <2>2, OneVolume
<1>5. Total(b) <= b.pess /\ b.active[c].bytes >= 1
  BY DEF Balanced
<1>6. d.pess >= b.pess - 1
  BY <1>1 DEF Larger
<1>7. Total(d) <= d.pess
  BY <1>1, <1>2, <1>4, <1>5, <1>6 DEF Larger
<1> QED BY <1>3, <1>7 DEF Balanced

\* Rows raise the estimate by what they add to the entries.
LEMMA WithRowsBalanced ==
  ASSUME NEW b \in Books, NEW S \in SUBSET Cid, NEW rows \in [Cid -> Nat], Balanced(b), S \subseteq Active(b)
  PROVE  Balanced(WithRows(b, S, rows))
<1> DEFINE d == WithRows(b, S, rows)
           raise == Raise(b, S, rows)
<1>1. /\ d \in Books /\ d.month = b.month /\ d.pess = b.pess + SumFunctionOnSet(raise, Cid)
      /\ \A c \in Cid : d.active[c].rid = b.active[c].rid /\ d.active[c].bytes = b.active[c].bytes + raise[c]
  BY WithRowsFacts
<1>2. /\ \A c \in Cid : raise[c] \in Nat
      /\ \A c \in Cid \ S : raise[c] = 0
      /\ SumFunctionOnSet(raise, Cid) \in Nat
  BY RaiseFacts
<1> HIDE DEF d, raise
<1>3. \A c \in Cid : b.active[c].bytes \in Nat
  BY BooksFields DEF Entries
<1>4. \A c \in Cid : IF d.active[c].rid = 0 THEN d.active[c].bytes = 0 ELSE d.active[c].bytes >= 1
  <2> TAKE c \in Cid
  <2>1. CASE b.active[c].rid = 0
    <3>1. c \notin S
      BY <2>1 DEF Active
    <3> QED BY <1>1, <1>2, <2>1, <3>1 DEF Balanced
  <2>2. CASE b.active[c].rid # 0
    BY <1>1, <1>2, <1>3, <2>2 DEF Balanced
  <2> QED BY <2>1, <2>2
<1>5. /\ Total(d) = SumFunctionOnSet(Volume(d), Cid) /\ Total(d) \in Nat
      /\ \A c \in Cid : Volume(d)[c] = d.active[c].bytes /\ Volume(d)[c] \in Nat
  BY <1>1, <1>4, TotalOfAll
<1>6. /\ Total(b) = SumFunctionOnSet(Volume(b), Cid) /\ Total(b) \in Nat
      /\ \A c \in Cid : Volume(b)[c] = b.active[c].bytes /\ Volume(b)[c] \in Nat
  BY TotalOfAll DEF Balanced
<1> DEFINE u == Volume(d)
           v == Volume(b)
<1>7. \A c \in Cid : v[c] \in Nat /\ raise[c] \in Nat /\ u[c] = v[c] + raise[c]
  BY <1>1, <1>2, <1>5, <1>6
<1> HIDE DEF u, v
<1>8. SumFunctionOnSet(u, Cid) = SumFunctionOnSet(v, Cid) + SumFunctionOnSet(raise, Cid)
  BY <1>7, FiniteAssumption, SumAdd
<1>9. Total(b) <= b.pess /\ b.pess \in Nat
  BY BooksFields DEF Balanced
<1>10. Total(d) <= d.pess
  BY <1>1, <1>2, <1>5, <1>6, <1>8, <1>9 DEF u, v
<1> QED BY <1>1, <1>4, <1>10 DEF Balanced, d

(***************************************************************************)
(* The inductive invariant of the estimate.                                *)
(***************************************************************************)

Quiet == ~srv.policy /\ spent["month"] = 0 /\ cf.struck = {}

\* A reservation under way has its entry; the entries that the retry loop drops without asking
\* the provider have none under way; the provider has answered no revoke.
Reserves == \A c \in Cid : cred.issue[c].rid # 0 => books.active[c].rid = cred.issue[c].rid
Retries == \A c \in work["retry"].todo \cap work["retry"].old : cred.issue[c].rid = 0
Unheard == \A a \in Revoker : work[a].at # "heard"
Steady == Balanced(books) /\ Reserves /\ Retries /\ Unheard
Counts == srv.month = 0 /\ (\A d \in Copies : Balanced(d)) /\ Steady
Counted == Quiet => Counts

LEMMA StruckGrows ==
  ASSUME Typed, Chained, Next
  PROVE  cf.struck \subseteq cf'.struck
<1>1. CASE Calm
  BY <1>1 DEF Calm
<1>2. ASSUME NEW a \in Revoker, ProviderRevokes(a) PROVE cf.struck \subseteq cf'.struck
  BY <1>2, ProviderRevokesFacts DEF Typed
<1>3. CASE Crash \/ CrashTorn
  <2>1. PICK t \in Books \cup {Torn}, l \in BOOLEAN \cup {Torn} : Restarts([turn |-> t, locks |-> l])
    BY <1>3, CrashFacts DEF Typed
  <2> QED BY <2>1, RestartsFacts DEF Typed
<1>4. CASE \/ \E a \in {"abuse", "sweep"} : Flushed(a)
           \/ Write /\ UNCHANGED <<cred, work, poll, cf, srv>>
           \/ LockAnswered \/ Exits
  BY <1>4 DEF Flushed, LockAnswered, Exits
<1> QED BY <1>1, <1>2, <1>3, <1>4, StepKinds

\* The month stays while it does not turn.
LEMMA MonthStays ==
  ASSUME Typed, Next, spent'["month"] = 0
  PROVE  srv'.month = srv.month
<1>0. Types /\ srv \in Servers
  BY DEF Typed, Types
<1>1. CASE Crash \/ CrashTorn
  <2>1. PICK t \in Books \cup {Torn}, l \in BOOLEAN \cup {Torn} : Restarts([turn |-> t, locks |-> l])
    BY <1>0, <1>1, CrashFacts
  <2>2. srv' = [srv EXCEPT !.at = "up"]
    BY <1>0, <2>1, RestartsFacts
  <2> QED BY <1>0, <2>2 DEF Servers
<1>2. ~MonthTurns
  <2>1. SUFFICES ASSUME MonthTurns PROVE FALSE
    OBVIOUS
  <2>2. Spend("month") /\ "month" \in Disturbance /\ spent \in [Disturbance -> Nat]
    BY <1>0, <2>1 DEF MonthTurns, Disturbance, Types
  <2>3. spent'["month"] = spent["month"] + 1
    BY <2>2, SpendFacts
  <2> QED BY <2>2, <2>3
<1>3. CASE Stops \/ LockAnswered \/ Exits \/ StopFlushes
  <2>1. CASE Stops
    BY <1>0, <2>1 DEF Stops, Servers
  <2>2. CASE LockAnswered
    BY <1>0, <2>2 DEF LockAnswered, Servers
  <2>3. CASE Exits
    BY <1>0, <2>3, ExitsFacts
  <2>4. CASE StopFlushes
    <3>1. PICK at \in {"flushing", "last"} : srv' = [srv EXCEPT !.at = at]
      BY <1>0, <2>4 DEF StopFlushes, Servers
    <3> QED BY <1>0, <3>1 DEF Servers
  <2> QED BY <1>3, <2>1, <2>2, <2>3, <2>4
<1>4. CASE srv' = srv
  BY <1>4
<1> QED BY <1>1, <1>2, <1>3, <1>4 DEF Next, Issue, IssueOld, IssueFresh, ProviderMakes, IssueDone, IssueFails,
      Revoke, ProviderRevokes, RevokeDone, RevokeFails, Flushed, SweepNext, RetryStarts, RetryNext,
      Poll, AbuseAsks, AbuseAskFails, AbuseRows, GlobalAsks, ProviderCounts, GlobalFails, GlobalStale,
      GlobalLowerBound, GlobalTotal, Persisting, World, LockEngages, Relays, Ages

\* What a step that issues nothing has to show.
LEMMA SteadyKept ==
  ASSUME Steady, Balanced(books'),
         \A c \in Cid : cred'.issue[c].rid # 0 => /\ cred'.issue[c].rid = cred.issue[c].rid
                                                  /\ books'.active[c].rid = books.active[c].rid,
         work'["retry"].todo \cap work'["retry"].old \subseteq work["retry"].todo \cap work["retry"].old,
         work["retry"].todo \subseteq Cid, Unheard'
  PROVE  Steady'
BY DEF Steady, Reserves, Retries

LEMMA RolledStays ==
  ASSUME Typed, NEW b \in Books, srv.month = 0, Balanced(b)
  PROVE  Rolled(b) = b
BY RolledFacts DEF Typed, Types, Balanced

LEMMA CountsIssue ==
  ASSUME Typed, OnTheBooks, Counts, ~srv.policy, Issue
  PROVE  Steady'
<1>0. /\ Types /\ WritesOn /\ books \in Books /\ cred \in Creds /\ Steady /\ Balanced(books) /\ srv.month = 0
      /\ work["retry"].todo \subseteq Cid
  BY DEF Typed, Types, BooksTyped, CredTyped, Counts, Steady, WorkTyped, WorkFine, Works, WorkState, Revoker
<1>1. Rolled(books) = books
  BY <1>0, RolledStays
\* What is under way has not expired.
<1>2. \A c \in Cid : cred.issue[c].rid # 0 => Pruned(books).active[c].rid = books.active[c].rid
  <2>1. ASSUME NEW c \in Cid, cred.issue[c].rid # 0 PROVE c \notin Expired(books)
    <3>1. books.active[c].rid = cred.issue[c].rid
      BY <1>0, <2>1 DEF Steady, Reserves
    <3>2. books.active[c].age = "fresh"
      BY <2>1, <3>1 DEF OnTheBooks, Issued
    <3> QED BY <3>2 DEF Expired
  <2> QED BY <1>0, <2>1, PrunedFacts
<1>3. Pruned(books) \in Books /\ Balanced(Pruned(books))
  BY <1>0, PrunedFacts, PrunedLightens, LightensBalanced
<1>4. ASSUME NEW c \in Cid, IssueOld(c) PROVE Steady'
  <2>1. books' = Pruned(books) /\ work' = work /\ cred'.issue = cred.issue
    BY <1>0, <1>1, <1>4, IssueOldFacts
  <2>2. Balanced(books')
    BY <1>3, <2>1
  <2>3. Unheard'
    BY <1>0, <2>1 DEF Steady, Unheard
  <2>4. \A x \in Cid : cred'.issue[x].rid # 0 => /\ cred'.issue[x].rid = cred.issue[x].rid
                                                 /\ books'.active[x].rid = books.active[x].rid
    BY <1>2, <2>1
  <2> QED BY <1>0, <2>1, <2>2, <2>3, <2>4, SteadyKept
<1>5. ASSUME NEW c \in Cid, IssueFresh(c) PROVE Steady'
  <2> DEFINE b == Pruned(books)
             r == cred.last + 1
             d == Reserved(b, c, r)
  <2>1. /\ r \in Rid /\ Fresh(b, c) /\ d \in Books /\ books' \in Books /\ Swept(d, books')
        /\ SweptOrKept(work, d)
        /\ cred'.issue = [cred.issue EXCEPT ![c] = [rid |-> r, made |-> FALSE]]
    BY <1>0, <1>1, <1>5, IssueFreshFacts
  <2>2. Balanced(d)
    BY <1>3, <2>1, ReservedBalanced
  <2>3. d.active = [b.active EXCEPT ![c] = Entry(r)] /\ Entry(r).rid = r
    BY <1>3, <2>1, ReservedFacts
  <2> HIDE DEF d
  <2>4. Balanced(books')
    BY <2>1, <2>2, SweptLightens, LightensBalanced
  <2>5. work' = work
    BY <2>1 DEF SweptOrKept
  <2>6. /\ books'.active[c].rid = r
        /\ \A x \in Cid : x # c => books'.active[x].rid = b.active[x].rid
    BY <1>3, <2>1, <2>3 DEF Swept, Books
  <2>7. /\ cred'.issue[c].rid = r
        /\ \A x \in Cid : x # c => cred'.issue[x].rid = cred.issue[x].rid
    BY <1>0, <2>1 DEF Creds
  <2>8. Reserves'
    BY <1>0, <1>2, <2>6, <2>7 DEF Steady, Reserves
\* Who is to be revoked is denied.
  <2>9. c \notin work["retry"].todo
    <3>1. SUFFICES ASSUME DeniedOn(books, PrincipalOf[c]) PROVE FALSE
      BY DEF OnTheBooks, Awaited
    <3>2. Denied(books, c)
      BY <3>1, BannedIsDenied
    <3>3. Denied(b, c)
      BY <1>0, <3>2, PrunedFacts DEF Denied
    <3> QED BY <2>1, <3>3 DEF Fresh
  <2>10. Retries' /\ Unheard'
    BY <1>0, <2>5, <2>7, <2>9 DEF Steady, Retries, Unheard
  <2> QED BY <2>4, <2>8, <2>10 DEF Steady
<1>6. ASSUME NEW c \in Cid, ProviderMakes(c) \/ IssueDone(c) PROVE Steady'
  <2>1. books' = books /\ work' = work
    BY <1>6 DEF ProviderMakes, IssueDone, persistVars
  <2>2. \A x \in Cid : cred'.issue[x].rid \in {0, cred.issue[x].rid}
    <3>1. CASE ProviderMakes(c)
      BY <1>0, <3>1 DEF ProviderMakes, Creds
    <3>2. CASE IssueDone(c)
      BY <1>0, <3>2 DEF IssueDone, Creds, NoIssue
    <3> QED BY <1>6, <3>1, <3>2
  <2>3. Unheard'
    BY <1>0, <2>1 DEF Steady, Unheard
  <2> QED BY <1>0, <2>1, <2>2, <2>3, SteadyKept
\* The refund is of the session's own entry: nothing else has deleted it.
<1>7. ASSUME NEW c \in Cid, IssueFails(c) PROVE Steady'
  <2> DEFINE r == cred.issue[c].rid
  <2>1. /\ books' \in Books /\ r \in Rid /\ work' = work
        /\ books'.active = [books.active EXCEPT ![c] = IF @.rid = r THEN NoEntry ELSE @]
        /\ books'.pess = Larger(0, books.pess - 1) /\ books'.month = books.month
        /\ cred'.issue = [cred.issue EXCEPT ![c] = NoIssue]
    BY <1>0, <1>7, IssueFailsFacts
  <2>2. r # 0 /\ books.active[c].rid = r
    BY <1>0, <2>1 DEF Steady, Reserves, Rid
  <2>3. books'.active = [books.active EXCEPT ![c] = NoEntry]
    BY <2>1, <2>2
  <2> HIDE DEF r
  <2>4. Balanced(books')
    BY <1>0, <2>1, <2>2, <2>3, RefundedBalanced
  <2>5. /\ cred'.issue[c].rid = 0
        /\ \A x \in Cid : x # c => /\ cred'.issue[x].rid = cred.issue[x].rid
                                   /\ books'.active[x].rid = books.active[x].rid
    BY <1>0, <2>1, <2>3 DEF Creds, NoIssue, Books
  <2>6. Unheard'
    BY <1>0, <2>1 DEF Steady, Unheard
  <2> QED BY <1>0, <2>1, <2>4, <2>5, <2>6, SteadyKept
<1> QED BY <1>4, <1>5, <1>6, <1>7 DEF Issue

LEMMA CountsRevoke ==
  ASSUME Typed, OnTheBooks, Counts, Revoke, cf'.struck = {}
  PROVE  Steady'
<1>0. /\ Types /\ WritesOn /\ books \in Books /\ work \in Works /\ Steady /\ Balanced(books)
      /\ work["retry"].todo \subseteq Cid /\ work["sweep"].at = "idle" /\ Unheard
      /\ \A a \in Revoker : work[a].at = "revoke" => work[a].c \in Cid
  BY DEF Typed, Types, BooksTyped, Counts, Steady, WorkTyped, WorkFine, Works, WorkState, Revoker,
         OnTheBooks, Awaited
\* The provider cuts off only who is denied.
<1>1. ASSUME NEW a \in Revoker, ProviderRevokes(a) PROVE FALSE
  <2>1. work[a].at = "revoke" /\ a \in {"abuse", "retry"}
    BY <1>0, <1>1 DEF ProviderRevokes, Revoker
  <2>2. work[a].c \in Cid /\ DeniedOn(books, PrincipalOf[work[a].c])
    BY <1>0, <2>1 DEF OnTheBooks, Awaited, Revoked
  <2>3. Denied(books, work[a].c)
    BY <2>2, BannedIsDenied
  <2>4. <<PrincipalOf[work[a].c], a>> \in cf'.struck
    <3> DEFINE c == work[a].c
               live == {r \in cf.live : cf.owner[r] # c}
               struck == cf.struck \cup {<<PrincipalOf[c], a>>}
    <3>1. cf' = [cf EXCEPT !.live = live, !.struck = struck]
      BY <1>1, <2>3 DEF ProviderRevokes
    <3>2. cf \in Providers
      BY <1>0 DEF Types
    <3> HIDE DEF live, struck
    <3>3. cf'.struck = struck
      BY <3>1, <3>2 DEF Providers
    <3> QED BY <3>3 DEF struck
  <2> QED BY <2>4
<1>2. ASSUME NEW a \in Revoker, RevokeDone(a) PROVE FALSE
  BY <1>0, <1>2 DEF RevokeDone, Unheard
<1>3. ASSUME NEW a \in Revoker, RevokeFails(a) PROVE Steady'
  <2>1. PICK at \in {"note", "rows"} : work' = [work EXCEPT ![a].at = at, ![a].c = NoCid]
    BY <1>0, <1>3, RevokeFailsFacts
  <2>2. books' = books /\ cred' = cred
    BY <1>0, <1>3, RevokeFailsFacts DEF RevokeFails
  <2>3. /\ work'["retry"].todo = work["retry"].todo /\ work'["retry"].old = work["retry"].old
        /\ work'[a].at # "heard" /\ \A z \in Revoker : z # a => work'[z] = work[z]
    BY <1>0, <2>1 DEF Works, WorkState, Revoker
  <2>4. Unheard'
    BY <1>0, <2>3 DEF Unheard
  <2> QED BY <1>0, <2>2, <2>3, <2>4, SteadyKept
<1>4. ASSUME NEW a \in {"abuse", "sweep"}, Flushed(a) PROVE Steady'
  <2>1. PICK w \in WorkState : work' = [work EXCEPT ![a] = w] /\ w.at \in {"revoke", "rows", "idle"}
    BY <1>0, <1>4, FlushedFacts
  <2>2. UNCHANGED <<books, cred>>
    BY <1>4 DEF Flushed
  <2>3. /\ work'["retry"] = work["retry"]
        /\ work'[a].at # "heard" /\ \A z \in Revoker : z # a => work'[z] = work[z]
    BY <1>0, <2>1 DEF Works, Revoker
  <2>4. Unheard'
    BY <1>0, <2>3 DEF Unheard
  <2> QED BY <1>0, <2>2, <2>3, <2>4, SteadyKept
<1>5. ~SweepNext
  BY <1>0 DEF SweepNext
\* An entry that has expired has no reservation under way.
<1>6. CASE RetryStarts
  <2> DEFINE T == {c \in Active(books) : books.active[c].pending}
             O == T \cap Expired(books)
  <2>1. work' = [work EXCEPT !["retry"] = [Idle EXCEPT !.at = "rows", !.todo = T, !.old = O]]
    BY <1>6 DEF RetryStarts
  <2>2. \A c \in O : c \in Cid /\ books.active[c].age = "old"
    BY DEF Expired, Active
  <2> HIDE DEF T, O
  <2>3. /\ work'["retry"].at = "rows" /\ work'["retry"].old = O
        /\ work'["abuse"] = work["abuse"] /\ work'["sweep"] = work["sweep"]
    BY <1>0, <2>1 DEF Works, Revoker, Idle
  <2>4. UNCHANGED <<books, cred>>
    BY <1>6 DEF RetryStarts, persistVars
  <2>5. Retries'
    BY <1>0, <2>2, <2>3, <2>4 DEF Retries, Steady, Reserves, OnTheBooks, Issued
  <2>6. Unheard'
    BY <1>0, <2>3 DEF Unheard, Revoker
  <2> QED BY <1>0, <2>4, <2>5, <2>6 DEF Steady, Reserves
<1>7. CASE RetryNext
  <2>1. /\ books' \in Books /\ work' \in Works /\ cred'.issue = cred.issue
        /\ \/ books' = books /\ work' = [work EXCEPT !["retry"] = Idle]
           \/ \E c \in work["retry"].todo \cap work["retry"].old :
                 /\ c \in Cid /\ books' = Dropped(books, {c})
                 /\ work' = [work EXCEPT !["retry"].todo = @ \ {c}]
           \/ \E c \in work["retry"].todo :
                 /\ c \in Cid /\ books' = books
                 /\ work' = [work EXCEPT !["retry"] =
                       [work["retry"] EXCEPT !.at = "revoke", !.c = c, !.todo = @ \ {c}]]
    BY <1>0, <1>7, RetryNextFacts
  <2>2. CASE books' = books /\ work' = [work EXCEPT !["retry"] = Idle]
    <3>1. /\ work'["retry"].todo = {} /\ work'["retry"].at = "idle"
          /\ \A z \in Revoker : z # "retry" => work'[z] = work[z]
      BY <1>0, <2>2, IdleType DEF Works, Revoker
    <3>2. Unheard'
      BY <1>0, <3>1 DEF Unheard
    <3> QED BY <1>0, <2>1, <2>2, <3>1, <3>2, SteadyKept
  <2>3. ASSUME NEW c \in work["retry"].todo \cap work["retry"].old, c \in Cid, books' = Dropped(books, {c}),
               work' = [work EXCEPT !["retry"].todo = @ \ {c}]
        PROVE  Steady'
    <3> DEFINE T == work["retry"].todo \ {c}
    <3>1. work' = [work EXCEPT !["retry"] = [work["retry"] EXCEPT !.todo = T]]
      BY <1>0, <2>3 DEF Works, WorkState, Revoker
    <3>2. T \subseteq work["retry"].todo
      OBVIOUS
    <3> HIDE DEF T
    <3>3. /\ work'["retry"].todo = T /\ work'["retry"].old = work["retry"].old
          /\ \A z \in Revoker : work'[z].at = work[z].at
      BY <1>0, <3>1 DEF Works, WorkState, Revoker
    <3>4. {c} \in SUBSET Cid
      BY <2>3
    <3>5. Balanced(books')
      BY <1>0, <2>1, <2>3, <3>4, DroppedLightens, LightensBalanced
    <3>6. \A x \in Cid : x # c => books'.active[x] = books.active[x]
      <4>1. books'.active = [x \in Cid |-> IF x \in {c} THEN NoEntry ELSE books.active[x]]
        BY <1>0, <2>3, <3>4, DroppedFacts
      <4> QED BY <4>1
    <3>7. cred.issue[c].rid = 0
      BY <1>0, <2>3 DEF Steady, Retries
    <3>8. Unheard'
      BY <1>0, <3>3 DEF Unheard
    <3>9. \A x \in Cid : cred'.issue[x].rid # 0 => /\ cred'.issue[x].rid = cred.issue[x].rid
                                                   /\ books'.active[x].rid = books.active[x].rid
      BY <2>1, <3>6, <3>7
    <3> QED BY <1>0, <3>2, <3>3, <3>5, <3>8, <3>9, SteadyKept
  <2>4. ASSUME NEW c \in work["retry"].todo, c \in Cid, books' = books,
               work' = [work EXCEPT !["retry"] =
                   [work["retry"] EXCEPT !.at = "revoke", !.c = c, !.todo = @ \ {c}]]
        PROVE  Steady'
    <3> DEFINE T == work["retry"].todo \ {c}
    <3>1. work' = [work EXCEPT !["retry"] = [work["retry"] EXCEPT !.at = "revoke", !.c = c, !.todo = T]]
      BY <1>0, <2>4 DEF Works, WorkState, Revoker
    <3>2. T \subseteq work["retry"].todo
      OBVIOUS
    <3> HIDE DEF T
    <3>3. /\ work'["retry"].todo = T /\ work'["retry"].old = work["retry"].old
          /\ work'["retry"].at = "revoke"
          /\ \A z \in Revoker : z # "retry" => work'[z] = work[z]
      BY <1>0, <3>1 DEF Works, WorkState, Revoker
    <3>4. Unheard'
      BY <1>0, <3>3 DEF Unheard
    <3> QED BY <1>0, <2>1, <2>4, <3>2, <3>3, <3>4, SteadyKept
  <2> QED BY <2>1, <2>2, <2>3, <2>4
<1> QED BY <1>1, <1>2, <1>3, <1>4, <1>5, <1>6, <1>7 DEF Revoke

LEMMA CountsPoll ==
  ASSUME Typed, OnTheBooks, Counts, ~srv.policy, Poll
  PROVE  Steady'
<1>0. /\ Types /\ WritesOn /\ books \in Books /\ work \in Works /\ srv \in Servers /\ cred \in Creds
      /\ work["retry"].todo \subseteq Cid /\ Steady /\ Balanced(books) /\ Unheard /\ srv.month = 0
  BY DEF Typed, Types, BooksTyped, CredTyped, Counts, Steady, WorkTyped, WorkFine, Works, WorkState, Revoker
<1>1. CASE AbuseAsks \/ AbuseAskFails
  <2>1. UNCHANGED <<books, cred>>
    BY <1>1 DEF AbuseAsks, AbuseAskFails
  <2>2. /\ work'["sweep"] = work["sweep"] /\ work'["retry"] = work["retry"]
        /\ work'["abuse"].at \in {"ask", "idle"}
    BY <1>0, <1>1, IdleType DEF AbuseAsks, AbuseAskFails, Works, WorkState, Revoker
  <2>3. Unheard'
    BY <1>0, <2>2 DEF Unheard, Revoker
  <2> QED BY <1>0, <2>1, <2>2, <2>3, SteadyKept
<1>2. CASE AbuseRows
  <2>1. PICK S \in SUBSET Cid, rows \in [Cid -> Nat] : RowsRead(S, rows)
    BY <1>0, <1>2, AbuseRowsFacts
  <2>2. cred' = cred
    BY <1>2 DEF AbuseRows
  <2> DEFINE d == WithRows(books, S, rows)
  <2>3. /\ d \in Books /\ books' \in Books
        /\ \A c \in Cid : d.active[c].rid = books.active[c].rid
    <3>1. books' \in Books
      BY <1>0, <1>2, AbuseRowsFacts
    <3> QED BY <1>0, <3>1, WithRowsFacts
  <2>4. Balanced(d)
    BY <1>0, <2>1, WithRowsBalanced DEF RowsRead
  <2>5. CASE Swept(d, books') /\ SweptOrKept([work EXCEPT !["abuse"] = Idle], d)
    <3> HIDE DEF d
    <3>1. Balanced(books') /\ \A c \in Cid : books'.active[c].rid = books.active[c].rid
      <4>1. Balanced(books')
        BY <2>3, <2>4, <2>5, SweptLightens, LightensBalanced
      <4> QED BY <2>3, <2>5, <4>1 DEF Swept
    <3>2. work' = [work EXCEPT !["abuse"] = Idle]
      BY <2>5 DEF SweptOrKept
    <3>3. /\ work'["sweep"] = work["sweep"] /\ work'["retry"] = work["retry"]
          /\ work'["abuse"].at = "idle"
      BY <1>0, <3>2, IdleType DEF Works, Revoker
    <3>4. Unheard'
      BY <1>0, <3>3 DEF Unheard, Revoker
    <3> QED BY <1>0, <2>2, <3>1, <3>3, <3>4, SteadyKept
  <2>6. ASSUME NEW c \in Active(books), NEW T \in SUBSET Cid, books' = Abused(d, c),
               work' = [work EXCEPT !["abuse"] = [Idle EXCEPT !.at = "flush", !.c = c, !.todo = T]]
        PROVE  Steady'
    <3> HIDE DEF d
    <3>1. c \in Cid
      BY DEF Active
    <3>2. /\ \A x \in Cid : /\ books'.active[x].rid = d.active[x].rid
                            /\ books'.active[x].bytes = d.active[x].bytes
          /\ books'.pess = d.pess /\ books'.month = d.month
      BY <2>3, <2>6, <3>1, AbusedFacts
    <3>3. Lightens(d, books')
      BY <3>2 DEF Lightens
    <3>4. Balanced(books')
      BY <2>3, <2>4, <3>3, LightensBalanced
    <3>5. /\ work'["sweep"] = work["sweep"] /\ work'["retry"] = work["retry"]
          /\ work'["abuse"].at = "flush"
      BY <1>0, <2>6 DEF Works, Revoker, Idle
    <3>6. Unheard'
      BY <1>0, <3>5 DEF Unheard, Revoker
    <3> QED BY <1>0, <2>2, <2>3, <3>2, <3>4, <3>5, <3>6, SteadyKept
  <2> QED BY <2>1, <2>5, <2>6 DEF RowsRead
<1>3. ASSUME NEW timer \in BOOLEAN, GlobalAsks(timer) PROVE Steady'
  <2>1. books' = books /\ work' = work /\ cred' = cred
    BY <1>0, <1>3, RolledStays, GlobalAsksFacts DEF GlobalAsks
  <2>2. Unheard'
    BY <1>0, <2>1 DEF Unheard
  <2> QED BY <1>0, <2>1, <2>2, SteadyKept
<1>4. ASSUME NEW p \in poll.polls, ProviderCounts(p) \/ GlobalStale(p) \/ GlobalFails(p)
      PROVE  Steady'
  <2>1. UNCHANGED <<books, cred, work>>
    BY <1>4 DEF ProviderCounts, GlobalStale, GlobalFails, persistVars
  <2>2. Unheard'
    BY <1>0, <2>1 DEF Unheard
  <2> QED BY <1>0, <2>1, <2>2, SteadyKept
\* The month's total lowers the estimate to exactly what the entries count.
<1>5. ASSUME NEW p \in poll.polls, GlobalLowerBound(p) \/ GlobalTotal(p) PROVE Steady'
  <2> DEFINE d == IF p.all THEN Reconciled(p.read) ELSE LowerBound(p.read)
             b == Pruned(books)
  <2>1. /\ p.read \in Nat /\ d \in Books /\ books' \in Books /\ Swept(d, books') /\ SweptOrKept(work, d)
        /\ cred'.issue = cred.issue
    BY <1>0, <1>5, GlobalEndFacts
  <2>2. /\ d.active = b.active /\ d.month = b.month /\ d.pess = IF p.all THEN Total(b) ELSE b.pess
    BY <1>0, <2>1, ReconciledFacts, LowerBoundFacts
  <2>3. b \in Books /\ Balanced(b)
    BY <1>0, PrunedFacts, PrunedLightens, LightensBalanced
  <2>4. \A c \in Cid : cred.issue[c].rid # 0 => b.active[c].rid = books.active[c].rid
    <3>1. ASSUME NEW c \in Cid, cred.issue[c].rid # 0 PROVE c \notin Expired(books)
      <4>1. books.active[c].rid = cred.issue[c].rid
        BY <1>0, <3>1 DEF Steady, Reserves
      <4>2. books.active[c].age = "fresh"
        BY <3>1, <4>1 DEF OnTheBooks, Issued
      <4> QED BY <4>2 DEF Expired
    <3> QED BY <1>0, <3>1, PrunedFacts
  <2> HIDE DEF d, b
  <2>5. Balanced(d)
    <3>1. Total(d) = Total(b)
      BY <2>2 DEF Total, Volume, Active
    <3>2. Total(b) \in Nat
      BY <2>3, TotalType
    <3> QED BY <2>2, <2>3, <3>1, <3>2 DEF Balanced
  <2>6. Balanced(books')
    BY <2>1, <2>5, SweptLightens, LightensBalanced
  <2>7. work' = work /\ \A c \in Cid : books'.active[c].rid = b.active[c].rid
    BY <2>1, <2>2 DEF SweptOrKept, Swept
  <2>8. Unheard'
    BY <1>0, <2>7 DEF Unheard
  <2>9. \A x \in Cid : cred'.issue[x].rid # 0 => /\ cred'.issue[x].rid = cred.issue[x].rid
                                                 /\ books'.active[x].rid = books.active[x].rid
    BY <2>1, <2>4, <2>7
  <2> QED BY <1>0, <2>6, <2>7, <2>8, <2>9, SteadyKept
<1> QED BY <1>1, <1>2, <1>3, <1>4, <1>5 DEF Poll

LEMMA CountsWorld ==
  ASSUME Typed, OnTheBooks, Counts, ~srv.policy, Persisting \/ World
  PROVE  Steady'
<1>0. /\ Types /\ WritesOn /\ books \in Books /\ work \in Works /\ srv \in Servers /\ cred \in Creds
      /\ work["retry"].todo \subseteq Cid /\ Steady /\ Balanced(books) /\ Unheard /\ srv.month = 0
  BY DEF Typed, Types, BooksTyped, CredTyped, Counts, Steady, WorkTyped, WorkFine, Works, WorkState, Revoker
<1>1. CASE \/ Persisting \/ LockEngages \/ LockAnswered \/ MonthTurns \/ Stops \/ StopFlushes \/ Exits
           \/ \E r \in Rid : Relays(r)
  <2>1. books' = books
    <3>1. CASE Write
      <4>1. PICK f \in File : WriteDone(f) \/ WriteFails(f)
        BY <3>1 DEF Write
      <4> QED BY <4>1, <1>0, WriteFacts
    <3> QED BY <1>1, <3>1 DEF Persisting, FlushTick, LockEngages, LockAnswered, MonthTurns, Stops,
                              StopFlushes, Exits, Relays
  <2>2. cred' = cred /\ work' = work
    BY <1>1 DEF Persisting, LockEngages, LockAnswered, MonthTurns, Stops, StopFlushes, Exits, Relays
  <2>3. Unheard'
    BY <1>0, <2>2 DEF Unheard
  <2> QED BY <1>0, <2>1, <2>2, <2>3, SteadyKept
<1>2. ASSUME NEW c \in Cid, Ages(c) PROVE Steady'
  <2>1. PICK k \in {"near", "old"} : books'.active = [books.active EXCEPT ![c].age = k]
    BY <1>0, <1>2, AgesFacts
  <2>2. books' \in Books /\ books'.pess = books.pess /\ books'.month = books.month
    BY <1>0, <1>2, AgesFacts
  <2>3. \A x \in Cid : /\ books'.active[x].rid = books.active[x].rid
                       /\ books'.active[x].bytes = books.active[x].bytes
    BY <1>0, <2>1 DEF Books, Entries
  <2>4. Lightens(books, books')
    BY <2>2, <2>3 DEF Lightens
  <2>5. Balanced(books')
    BY <1>0, <2>2, <2>4, LightensBalanced
  <2>6. cred' = cred /\ work' = work
    BY <1>2 DEF Ages
  <2>7. Unheard'
    BY <1>0, <2>6 DEF Unheard
  <2> QED BY <1>0, <2>3, <2>5, <2>6, <2>7, SteadyKept
\* A restart reads balanced books back, or begins with empty ones.
<1>3. CASE Crash \/ CrashTorn
  <2>1. PICK t \in Books \cup {Torn}, l \in BOOLEAN \cup {Torn} :
           Restarts([turn |-> t, locks |-> l]) /\ t \in Left("turn") \cup {Torn}
    BY <1>0, <1>3, CrashFacts
  <2>2. /\ books' = IF t = Torn THEN EmptyBooks(0) ELSE Rolled(t)
        /\ work' = [a \in Revoker |-> Idle] /\ cred' = Reborn(t)
    BY <1>0, <2>1, RestartsFacts
  <2>3. Balanced(books')
    <3>1. CASE t = Torn
      BY <2>2, <3>1, EmptyBalanced
    <3>2. CASE t # Torn
      <4>1. t \in Copies /\ t \in Books
        BY <2>1, <3>2 DEF Left, Copies, On, Snap
      <4>2. Balanced(t)
        BY <4>1 DEF Counts
      <4>3. Rolled(t) = t
        BY <1>0, <4>1, <4>2, RolledStays
      <4> QED BY <2>2, <3>2, <4>2, <4>3
    <3> QED BY <3>1, <3>2
  <2>4. \A c \in Cid : cred'.issue[c].rid = 0
    BY <2>2 DEF Reborn, NoCred, NoIssue
  <2>5. \A a \in Revoker : work'[a].at = "idle" /\ work'[a].todo = {}
    BY <2>2, IdleType
  <2>6. Reserves' /\ Retries' /\ Unheard'
    BY <2>4, <2>5 DEF Reserves, Retries, Unheard, Revoker
  <2> QED BY <2>3, <2>6 DEF Steady
<1> QED BY <1>1, <1>2, <1>3 DEF World

LEMMA CountedNext ==
  ASSUME Typed, Chained, ~srv.policy => OnTheBooks /\ Synced, Counted, [Next]_vars
  PROVE  Counted'
<1>1. SUFFICES ASSUME Quiet' PROVE Counts'
  BY DEF Counted
<1>2. CASE UNCHANGED vars
  <2>1. UNCHANGED <<books, locks, file, sec, disk, spent, cred, work, cf, srv>>
    BY <1>2 DEF vars, persistVars
  <2>2. Quiet /\ Copies' = Copies
    BY <1>1, <2>1 DEF Quiet, Copies, On, Snap
  <2> QED BY <2>1, <2>2 DEF Counted, Counts, Steady, Reserves, Retries, Unheard
<1>3. CASE Next
  <2>1. srv'.policy = srv.policy /\ cf.struck \subseteq cf'.struck
    BY <1>3, PolicyStays, StruckGrows
  <2>2. "month" \in Disturbance /\ spent["month"] \in Nat
    BY DEF Disturbance, Typed, Types
  <2>3. spent'["month"] >= spent["month"] /\ spent'["month"] = 0
    BY <1>1, <2>2, SpentGrows DEF Quiet
  <2>4. Quiet /\ Counts /\ OnTheBooks /\ ~srv.policy /\ cf'.struck = {}
    BY <1>1, <2>1, <2>2, <2>3 DEF Quiet, Counted
  <2>5. srv'.month = 0
    BY <1>3, <2>3, <2>4, MonthStays DEF Counts
  <2>6. Steady'
    BY <1>3, <2>4, CountsIssue, CountsRevoke, CountsPoll, CountsWorld DEF Next
  <2>7. \A d \in Copies' : Balanced(d)
    BY <1>3, <2>4, <2>6, CopiesMove DEF Counts, Steady
  <2> QED BY <2>5, <2>6, <2>7 DEF Counts
<1> QED BY <1>2, <1>3

LEMMA CountedInit ==
  ASSUME Init
  PROVE  Counted
<1>1. /\ books = EmptyBooks(0) /\ disk = [turn |-> EmptyBooks(0), locks |-> FALSE]
      /\ cred = NoCred(0, {}, {}, {}) /\ work = [a \in Revoker |-> Idle] /\ srv.month = 0
      /\ ~file["turn"].write.on
  BY FileNames DEF Init, Clean, NoWrite
<1>2. Copies = {EmptyBooks(0)}
  BY <1>1, TypesInit, TornAssumption DEF Copies, On, Typed, Types, BooksTyped
<1>3. \A c \in Cid : cred.issue[c].rid = 0
  BY <1>1 DEF NoCred, NoIssue
<1>4. \A a \in Revoker : work[a].at = "idle" /\ work[a].todo = {}
  BY <1>1, IdleType
<1>5. Reserves /\ Retries /\ Unheard
  BY <1>3, <1>4 DEF Reserves, Retries, Unheard, Revoker
<1> QED BY <1>1, <1>2, <1>5, EmptyBalanced DEF Counted, Counts, Steady

\* Reservations stay counted: within a month, and until the provider has cut somebody off, the
\* estimate covers every entry of the books, in memory, in a write under way and on disk.  A
\* reservation under way has its entry, so a rollback refunds what that entry counts and nothing
\* else; rows raise both by the same volume; a reconciliation lowers the estimate to exactly what
\* the entries count (turn.ts issueFreshCredentials, rollbackReservation, pollGlobalUsage).
THEOREM ReservationsAreCounted == Spec => []ReservedIsCounted
<1>1. Init => Counted
  BY CountedInit
<1>2. Typed /\ Chained /\ (~srv.policy => OnTheBooks /\ Synced) /\ Counted /\ [Next]_vars => Counted'
  BY CountedNext
<1>3. Counted => ReservedIsCounted
  BY DEF Counted, Quiet, Counts, Steady, Balanced, ReservedIsCounted
<1> QED BY <1>1, <1>2, <1>3, BooksAlways, PTL DEF Spec

(***************************************************************************)
(* Confirmed bytes are in an entry or in the ledger.                       *)
(***************************************************************************)

InLedger(d, e) == \E n \in 1 .. e.actual : <<e.rid, n>> \in d.ledger

\* What an entry has settled is in the ledger, what is to be revoked has been settled, and
\* nothing was confirmed that the provider has not counted.
Booked(d) ==
    \A c \in Cid :
       LET e == d.active[c]
       IN  /\ e.rid = 0 => e.actual = 0
           /\ e.pending => e.settled
           /\ e.settled => InLedger(d, e)
           /\ e.actual <= cf.usage[c]

\* Who is about to be revoked.
Due(ws, c) ==
    \/ c \in ws["retry"].todo
    \/ ws["retry"].at \in {"revoke", "heard"} /\ ws["retry"].c = c
    \/ ws["abuse"].at \in {"flush", "revoke", "heard"} /\ ws["abuse"].c = c

\* The rows that the abuse poll works through are the latest.
Settling == \A c \in Cid : Due(work, c) => books.active[c].rid = 0 \/ books.active[c].settled
Counting == Busy(work) => \A c \in Cid : books.active[c].actual <= poll.rows[c] /\ poll.rows[c] <= cf.usage[c]

Uses == (\A d \in Copies : Booked(d)) /\ Settling /\ Counting

\* No bytes vanish.
NoLoss ==
    \A c \in Cid :
       LET e == books.active[c]
       IN  e.actual > 0 /\ cred.issue[c].rid # e.rid /\ books'.active[c].rid = 0 => InLedger(books', e)

\* Entries keep their bytes, or are dropped with their bytes in the ledger.
SameUse(e, f) == f.rid = e.rid /\ f.actual = e.actual /\ f.settled = e.settled /\ f.pending = e.pending
Keeps(b, d) ==
    /\ b.ledger \subseteq d.ledger
    /\ \A c \in Cid : \/ SameUse(b.active[c], d.active[c])
                      \/ d.active[c] = NoEntry /\ (b.active[c].actual > 0 => InLedger(d, b.active[c]))

LEMMA EntryTypes ==
  ASSUME NEW b \in Books, NEW c \in Cid
  PROVE  /\ b.active[c] \in Entries /\ b.active[c].rid \in Rid \cup {0} /\ b.active[c].actual \in Nat
         /\ b.active[c].settled \in BOOLEAN /\ b.active[c].pending \in BOOLEAN
BY DEF Books, Entries

LEMMA NoUse ==
  /\ NoEntry.rid = 0 /\ NoEntry.actual = 0 /\ NoEntry.settled = FALSE /\ NoEntry.pending = FALSE
BY DEF NoEntry

LEMMA KeepsBooked ==
  ASSUME NEW b \in Books, NEW d, cf \in Providers, Booked(b), Keeps(b, d)
  PROVE  Booked(d)
<1>1. SUFFICES ASSUME NEW c \in Cid
               PROVE  /\ d.active[c].rid = 0 => d.active[c].actual = 0
                      /\ d.active[c].pending => d.active[c].settled
                      /\ d.active[c].settled => InLedger(d, d.active[c])
                      /\ d.active[c].actual <= cf.usage[c]
  BY DEF Booked
<1>2. cf.usage[c] \in Nat
  BY DEF Providers
<1>3. CASE d.active[c] = NoEntry
  BY <1>2, <1>3, NoUse
<1>4. CASE SameUse(b.active[c], d.active[c])
  <2>1. /\ b.active[c].rid = 0 => b.active[c].actual = 0
        /\ b.active[c].pending => b.active[c].settled
        /\ b.active[c].settled => InLedger(b, b.active[c])
        /\ b.active[c].actual <= cf.usage[c]
    BY DEF Booked
  <2>2. InLedger(b, b.active[c]) => InLedger(d, d.active[c])
    BY <1>4 DEF InLedger, SameUse, Keeps
  <2> QED BY <1>4, <2>1, <2>2 DEF SameUse
<1> QED BY <1>3, <1>4 DEF Keeps

LEMMA SameKeeps ==
  ASSUME NEW b, NEW d, d.active = b.active, d.ledger = b.ledger
  PROVE  Keeps(b, d)
BY DEF Keeps, SameUse

LEMMA KeepsFromSame ==
  ASSUME NEW a, NEW b, NEW d, b.active = a.active, b.ledger = a.ledger, Keeps(b, d)
  PROVE  Keeps(a, d)
BY DEF Keeps

LEMMA KeepsToSame ==
  ASSUME NEW a, NEW b, NEW d, d.active = b.active, d.ledger = b.ledger, Keeps(a, b)
  PROVE  Keeps(a, d)
BY DEF Keeps, InLedger

LEMMA SettledUse ==
  ASSUME NEW b \in Books, NEW S \in SUBSET Cid
  PROVE  /\ b.ledger \subseteq Settled(b, S).ledger
         /\ \A c \in Cid :
               /\ Settled(b, S).active[c].rid = b.active[c].rid
               /\ Settled(b, S).active[c].actual = b.active[c].actual
               /\ Settled(b, S).active[c].pending = b.active[c].pending
               /\ Settled(b, S).active[c].settled = (b.active[c].settled \/ c \in S \cap Active(b))
               /\ c \in S \cap Active(b) /\ ~b.active[c].settled /\ b.active[c].actual > 0
                     => <<b.active[c].rid, b.active[c].actual>> \in Settled(b, S).ledger
<1> DEFINE due == {c \in S \cap Active(b) : ~b.active[c].settled}
           old == {<<b.active[c].rid, b.active[c].actual>> : c \in {d \in due : b.active[d].actual > 0}}
           act == [c \in Cid |-> IF c \in due THEN [b.active[c] EXCEPT !.settled = TRUE] ELSE b.active[c]]
<1>0. b.active \in [Cid -> Entries]
  BY DEF Books
<1>1. Settled(b, S) = [b EXCEPT !.ledger = b.ledger \cup old, !.active = act]
  BY <1>0 DEF Settled, Books
<1>2. \A c \in Cid : act[c].settled = (b.active[c].settled \/ c \in S \cap Active(b))
  BY <1>0 DEF Entries
<1>3. \A c \in S \cap Active(b) : ~b.active[c].settled /\ b.active[c].actual > 0
         => <<b.active[c].rid, b.active[c].actual>> \in old
  OBVIOUS
<1> HIDE DEF act, old
<1>4. Settled(b, S).active = act /\ Settled(b, S).ledger = b.ledger \cup old
  BY <1>1 DEF Books
<1> QED BY <1>2, <1>3, <1>4, SettledFacts

LEMMA PrunedKeeps ==
  ASSUME NEW b \in Books, Booked(b)
  PROVE  Keeps(b, Pruned(b))
<1> DEFINE E == Expired(b)
           s == Settled(b, E)
           d == Dropped(s, E)
<1>1. E \in SUBSET Cid /\ E \subseteq Active(b)
  BY DEF Expired, Active
<1> HIDE DEF E
<1>2. /\ s \in Books /\ b.ledger \subseteq s.ledger
      /\ \A c \in Cid :
            /\ s.active[c].rid = b.active[c].rid /\ s.active[c].actual = b.active[c].actual
            /\ s.active[c].pending = b.active[c].pending
            /\ s.active[c].settled = (b.active[c].settled \/ c \in E \cap Active(b))
            /\ c \in E \cap Active(b) /\ ~b.active[c].settled /\ b.active[c].actual > 0
                  => <<b.active[c].rid, b.active[c].actual>> \in s.ledger
  BY <1>1, SettledUse, SettledFacts
<1> HIDE DEF s
<1>3. d.active = [c \in Cid |-> IF c \in E THEN NoEntry ELSE s.active[c]] /\ d.ledger = s.ledger
  BY <1>1, <1>2, DroppedFacts
<1> HIDE DEF d
<1>4. ASSUME NEW c \in Cid
      PROVE  \/ SameUse(b.active[c], d.active[c])
             \/ d.active[c] = NoEntry /\ (b.active[c].actual > 0 => InLedger(d, b.active[c]))
  <2>1. CASE c \notin E
    <3>1. s.active[c].settled = b.active[c].settled
      BY <1>2, <2>1, EntryTypes
    <3>2. d.active[c] = s.active[c]
      BY <1>3, <2>1
    <3> QED BY <1>2, <3>1, <3>2 DEF SameUse
  <2>2. CASE c \in E /\ b.active[c].settled
    <3>1. InLedger(b, b.active[c])
      BY <2>2 DEF Booked
    <3> QED BY <1>2, <1>3, <2>2, <3>1 DEF InLedger
  <2>3. CASE c \in E /\ ~b.active[c].settled
    <3>1. b.active[c].actual > 0 => <<b.active[c].rid, b.active[c].actual>> \in d.ledger
      BY <1>1, <1>2, <1>3, <2>3
    <3>2. b.active[c].actual \in Nat
      BY EntryTypes
    <3>3. b.active[c].actual > 0 => InLedger(d, b.active[c])
      BY <3>1, <3>2 DEF InLedger
    <3> QED BY <1>3, <2>3, <3>3
  <2> QED BY <2>1, <2>2, <2>3
<1>5. Keeps(b, d)
  BY <1>2, <1>3, <1>4 DEF Keeps
<1> QED BY <1>5 DEF Pruned, d, s, E

LEMMA DroppedKeeps ==
  ASSUME NEW b \in Books, Booked(b), NEW c \in Cid, b.active[c].rid = 0 \/ b.active[c].settled
  PROVE  Keeps(b, Dropped(b, {c}))
<1> DEFINE d == Dropped(b, {c})
<1>1. d.ledger = b.ledger /\ d.active = [x \in Cid |-> IF x \in {c} THEN NoEntry ELSE b.active[x]]
  <2>1. {c} \in SUBSET Cid
    OBVIOUS
  <2> QED BY <2>1, DroppedFacts
<1> HIDE DEF d
<1>2. b.active[c].actual > 0 => InLedger(d, b.active[c])
  BY <1>1 DEF Booked, InLedger
<1>3. Keeps(b, d)
  BY <1>1, <1>2 DEF Keeps, SameUse
<1> QED BY <1>3 DEF d

\* The rows of a poll.
LEMMA WithRowsUse ==
  ASSUME NEW b \in Books, NEW S \in SUBSET Cid, NEW rows \in [Cid -> Nat]
  PROVE  /\ WithRows(b, S, rows).ledger = b.ledger
         /\ \A c \in Cid :
               /\ WithRows(b, S, rows).active[c].rid = b.active[c].rid
               /\ WithRows(b, S, rows).active[c].settled = b.active[c].settled
               /\ WithRows(b, S, rows).active[c].pending = b.active[c].pending
               /\ WithRows(b, S, rows).active[c].actual = IF c \in S THEN rows[c] ELSE b.active[c].actual
<1> DEFINE act == Raised(b, S, rows)
           sum == SumFunctionOnSet(Raise(b, S, rows), Cid)
<1>1. WithRows(b, S, rows) = [b EXCEPT !.active = act, !.pess = b.pess + sum]
  BY DEF WithRows
<1>2. ASSUME NEW c \in Cid
      PROVE  /\ act[c].rid = b.active[c].rid /\ act[c].settled = b.active[c].settled
             /\ act[c].pending = b.active[c].pending
             /\ act[c].actual = IF c \in S THEN rows[c] ELSE b.active[c].actual
  <2>1. b.active[c] \in Entries
    BY EntryTypes
  <2> DEFINE n == b.active[c].bytes + Raise(b, S, rows)[c]
  <2>2. act[c] = IF c \in S THEN [b.active[c] EXCEPT !.actual = rows[c], !.bytes = n] ELSE b.active[c]
    BY <2>1 DEF Raised, Entries
  <2> HIDE DEF act, n
  <2> QED BY <2>1, <2>2 DEF Entries
<1> HIDE DEF act, sum
<1> QED BY <1>1, <1>2 DEF Books

LEMMA AbusedUse ==
  ASSUME NEW b \in Books, NEW c \in Active(b)
  PROVE  /\ b.ledger \subseteq Abused(b, c).ledger
         /\ \A x \in Cid :
               /\ Abused(b, c).active[x].rid = b.active[x].rid
               /\ Abused(b, c).active[x].actual = b.active[x].actual
               /\ x # c => /\ Abused(b, c).active[x].settled = b.active[x].settled
                           /\ Abused(b, c).active[x].pending = b.active[x].pending
         /\ Abused(b, c).active[c].settled
         /\ ~b.active[c].settled /\ b.active[c].actual > 0
               => <<b.active[c].rid, b.active[c].actual>> \in Abused(b, c).ledger
<1> DEFINE s == Settled(b, {c})
           deny == WithDeny(s, c).deny
           act == [s.active EXCEPT ![c].pending = TRUE]
<1>0. c \in Cid /\ {c} \in SUBSET Cid
  BY DEF Active
<1>1. /\ s \in Books /\ b.ledger \subseteq s.ledger
      /\ \A x \in Cid :
            /\ s.active[x].rid = b.active[x].rid /\ s.active[x].actual = b.active[x].actual
            /\ s.active[x].pending = b.active[x].pending
            /\ s.active[x].settled = (b.active[x].settled \/ x \in {c} \cap Active(b))
            /\ x \in {c} \cap Active(b) /\ ~b.active[x].settled /\ b.active[x].actual > 0
                  => <<b.active[x].rid, b.active[x].actual>> \in s.ledger
  BY <1>0, SettledUse, SettledFacts
<1> HIDE DEF s
<1>2. WithDeny(s, c) = [s EXCEPT !.deny = deny]
  BY <1>0, <1>1, WithDenyFacts
<1>3. Abused(b, c) = [s EXCEPT !.deny = deny, !.active = act]
  BY <1>1, <1>2 DEF Abused, Books, s
<1> HIDE DEF deny
<1>4. s.active \in [Cid -> Entries] /\ \A x \in Cid : s.active[x] \in Entries
  BY <1>1 DEF Books
<1>5. /\ \A x \in Cid : x # c => act[x] = s.active[x]
      /\ act[c].rid = s.active[c].rid /\ act[c].actual = s.active[c].actual
      /\ act[c].settled = s.active[c].settled
  BY <1>0, <1>4 DEF Entries
<1> HIDE DEF act
<1>6. Abused(b, c).active = act /\ Abused(b, c).ledger = s.ledger
  BY <1>1, <1>3 DEF Books
<1>7. ASSUME NEW x \in Cid, x # c
      PROVE  s.active[x].settled = b.active[x].settled
  BY <1>1, <1>7, EntryTypes
<1>8. s.active[c].settled
  BY <1>0, <1>1
<1>9. /\ b.ledger \subseteq s.ledger
      /\ \A x \in Cid : s.active[x].rid = b.active[x].rid /\ s.active[x].actual = b.active[x].actual
      /\ \A x \in Cid : s.active[x].pending = b.active[x].pending
      /\ ~b.active[c].settled /\ b.active[c].actual > 0
            => <<b.active[c].rid, b.active[c].actual>> \in s.ledger
  BY <1>0, <1>1
<1>10. ASSUME NEW x \in Cid
       PROVE  /\ act[x].rid = b.active[x].rid /\ act[x].actual = b.active[x].actual
              /\ x # c => act[x].settled = b.active[x].settled /\ act[x].pending = b.active[x].pending
  <2>1. CASE x = c
    BY <1>0, <1>5, <1>9, <2>1
  <2>2. CASE x # c
    BY <1>5, <1>7, <1>9, <2>2
  <2> QED BY <2>1, <2>2
<1>11. act[c].settled
  BY <1>5, <1>8
<1> HIDE DEF deny
<1> QED BY <1>6, <1>9, <1>10, <1>11

(***************************************************************************)
(* Steps.                                                                  *)
(***************************************************************************)

\* The provider counts up.
LEMMA UsageGrows ==
  ASSUME Typed, Typed', Next
  PROVE  \A c \in Cid : cf.usage[c] \in Nat /\ cf'.usage[c] \in Nat /\ cf'.usage[c] >= cf.usage[c]
<1>0. /\ Types /\ cf \in Providers /\ cf' \in Providers
      /\ \A c \in Cid : cf.usage[c] \in Nat /\ cf'.usage[c] \in Nat
  BY DEF Typed, Types, Providers
<1>1. CASE Crash \/ CrashTorn
  <2>1. PICK t \in Books \cup {Torn}, l \in BOOLEAN \cup {Torn} : Restarts([turn |-> t, locks |-> l])
    BY <1>0, <1>1, CrashFacts
  <2>2. cf' = cf
    BY <1>0, <2>1, RestartsFacts
  <2> QED BY <1>0, <2>2
<1>2. ASSUME NEW c \in Cid, IssueFresh(c) PROVE cf'.usage = cf.usage
  <2>1. PICK o : cf' = [cf EXCEPT !.owner = o]
    BY <1>0, <1>2 DEF IssueFresh, Providers
  <2> QED BY <1>0, <2>1 DEF Providers
<1>3. ASSUME NEW c \in Cid, ProviderMakes(c) PROVE cf'.usage = cf.usage
  BY <1>0, <1>3 DEF ProviderMakes, Providers
<1>4. ASSUME NEW a \in Revoker, ProviderRevokes(a) PROVE cf'.usage = cf.usage
  BY <1>0, <1>4 DEF ProviderRevokes, Providers
<1>5. ASSUME NEW c \in Cid, Ages(c) PROVE cf'.usage = cf.usage
  BY <1>0, <1>5 DEF Ages, Providers
<1>6. MonthTurns => cf'.usage = cf.usage
  BY <1>0 DEF MonthTurns, Providers
<1>7. ASSUME NEW r \in Rid, Relays(r) PROVE \A c \in Cid : cf'.usage[c] >= cf.usage[c]
  <2> DEFINE u == [cf.usage EXCEPT ![cf.owner[r]] = @ + 1]
             n == cf.total + 1
  <2>1. cf' = [cf EXCEPT !.usage = u, !.total = n]
    BY <1>0, <1>7 DEF Relays, Providers
  <2>2. \A c \in Cid : u[c] >= cf.usage[c]
    BY <1>0 DEF Providers
  <2> HIDE DEF u, n
  <2>3. cf'.usage = u
    BY <1>0, <2>1 DEF Providers
  <2> QED BY <2>2, <2>3
<1>8. CASE cf' = cf
  BY <1>0, <1>8
<1>9. CASE cf'.usage = cf.usage
  BY <1>0, <1>9
<1> QED BY <1>0, <1>1, <1>2, <1>3, <1>4, <1>5, <1>6, <1>7, <1>8, <1>9
      DEF Next, Issue, IssueOld, IssueDone, IssueFails,
      Revoke, RevokeDone, RevokeFails, Flushed, SweepNext, RetryStarts, RetryNext,
      Poll, AbuseAsks, AbuseAskFails, AbuseRows, GlobalAsks, ProviderCounts, GlobalFails, GlobalStale,
      GlobalLowerBound, GlobalTotal, Persisting, World, LockEngages, LockAnswered, Stops, StopFlushes, Exits

LEMMA BookedStays ==
  ASSUME Typed, Typed', Next, NEW d \in Books, Booked(d)
  PROVE  Booked(d)'
<1>1. \A c \in Cid : cf.usage[c] \in Nat /\ cf'.usage[c] \in Nat /\ cf'.usage[c] >= cf.usage[c]
  BY UsageGrows
<1>2. \A c \in Cid : d.active[c].actual \in Nat
  BY EntryTypes
<1>3. \A c \in Cid : d.active[c].actual <= cf.usage[c] => d.active[c].actual <= cf'.usage[c]
  BY <1>1, <1>2
<1> QED BY <1>3 DEF Booked, InLedger

\* The part that steps share: every copy but the new books is an old one.
LEMMA BookedMoves ==
  ASSUME Typed, Typed', Chained, Next, Uses, Booked(books')
  PROVE  (\A d \in Copies : Booked(d))'
<1>1. ASSUME NEW d \in Copies' PROVE d \in Books /\ Booked(d)
  <2>1. CASE d \in Copies
    BY <2>1, CopiesTyped DEF Uses
  <2>2. CASE d = books'
    BY <2>2 DEF Typed, Types, BooksTyped
  <2> QED BY <1>1, <2>1, <2>2, CopiesMove
<1>2. \A d \in Copies' : Booked(d)'
  BY <1>1, BookedStays
<1> QED BY <1>2

LEMMA UsesFacts ==
  ASSUME Typed, Uses
  PROVE  books \in Books /\ Booked(books) /\ Settling /\ Counting
BY DEF Typed, Types, BooksTyped, Uses, Copies

LEMMA KeepsNoLoss ==
  ASSUME books \in Books, Booked(books), Keeps(books, books')
  PROVE  NoLoss
<1>1. SUFFICES ASSUME NEW c \in Cid, books.active[c].actual > 0, books'.active[c].rid = 0
               PROVE  InLedger(books', books.active[c])
  BY DEF NoLoss
<1>2. books.active[c].actual \in Nat
  BY EntryTypes
<1>3. books.active[c].rid # 0
  BY <1>1, <1>2 DEF Booked
<1>4. ~SameUse(books.active[c], books'.active[c])
  BY <1>1, <1>3 DEF SameUse
<1> QED BY <1>1, <1>4 DEF Keeps

Through(c) == books.active[c].rid = 0 \/ books.active[c].settled

LEMMA UsesKept ==
  ASSUME Typed, Typed', Chained, Next, Uses, Keeps(books, books'),
         \A c \in Cid : Due(work', c) => Due(work, c) \/ Through(c),
         Busy(work') => Busy(work) /\ poll'.rows = poll.rows
  PROVE  Uses' /\ NoLoss
<1>0. books \in Books /\ Booked(books) /\ Settling /\ Counting /\ cf \in Providers /\ books' \in Books
  BY UsesFacts DEF Typed, Types, BooksTyped
<1>1. Booked(books')
  BY <1>0, KeepsBooked
<1>2. (\A d \in Copies : Booked(d))'
  BY <1>1, BookedMoves
<1>3. \A c \in Cid : \/ SameUse(books.active[c], books'.active[c])
                     \/ books'.active[c] = NoEntry
  BY DEF Keeps
<1>4. Settling'
  <2>1. SUFFICES ASSUME NEW c \in Cid, Due(work', c)
                 PROVE  books'.active[c].rid = 0 \/ books'.active[c].settled
    BY DEF Settling
  <2>2. books.active[c].rid = 0 \/ books.active[c].settled
    BY <1>0, <2>1 DEF Settling, Through
  <2> QED BY <1>3, <2>2, NoUse DEF SameUse
<1>5. Counting'
  <2>1. SUFFICES ASSUME Busy(work'), NEW c \in Cid
                 PROVE  books'.active[c].actual <= poll'.rows[c] /\ poll'.rows[c] <= cf'.usage[c]
    BY DEF Counting
  <2>2. poll'.rows = poll.rows /\ books.active[c].actual <= poll.rows[c] /\ poll.rows[c] <= cf.usage[c]
    BY <1>0, <2>1 DEF Counting
  <2>3. /\ cf'.usage[c] \in Nat /\ cf.usage[c] \in Nat /\ cf'.usage[c] >= cf.usage[c]
        /\ poll.rows[c] \in Nat
    BY UsageGrows DEF Typed, Types, Polls
  <2>4. books'.active[c].actual \in {books.active[c].actual, 0}
    BY <1>3, NoUse DEF SameUse
  <2>5. books.active[c].actual \in Nat
    BY <1>0, EntryTypes
  <2> QED BY <2>2, <2>3, <2>4, <2>5
<1>6. NoLoss
  BY <1>0, KeepsNoLoss
<1> QED BY <1>2, <1>4, <1>5, <1>6 DEF Uses

\* Steps of nobody that revokes or reads rows.
LEMMA UsesStay ==
  ASSUME Typed, Typed', Chained, Next, Uses, Keeps(books, books'), work' = work, poll'.rows = poll.rows
  PROVE  Uses' /\ NoLoss
BY UsesKept

LEMMA UsesIssue ==
  ASSUME Typed, Typed', Chained, Next, OnTheBooks, Uses, ~srv.policy, Issue
  PROVE  Uses' /\ NoLoss
<1>0. /\ Types /\ WritesOn /\ books \in Books /\ Booked(books) /\ Settling /\ Counting
      /\ srv \in Servers /\ cf \in Providers /\ books' \in Books /\ poll \in Polls
  BY UsesFacts DEF Typed, Types, BooksTyped
<1>1. Rolled(books) \in Books /\ Keeps(books, Pruned(Rolled(books)))
  <2>1. PICK b \in Books : b = Rolled(books)
    BY <1>0, RolledFacts
  <2>2. b.active = books.active /\ b.ledger = books.ledger
    BY <1>0, <2>1, RolledFacts
  <2>3. Booked(b)
    BY <1>0, <2>2, SameKeeps, KeepsBooked
  <2> DEFINE d == Pruned(b)
  <2>4. Keeps(b, d)
    BY <2>3, PrunedKeeps
  <2> HIDE DEF d
  <2>5. Keeps(books, d)
    BY <2>2, <2>4, KeepsFromSame
  <2> QED BY <2>1, <2>5 DEF d
<1>2. ASSUME NEW c \in Cid, IssueOld(c) PROVE Uses' /\ NoLoss
  <2>1. books' = Pruned(Rolled(books)) /\ work' = work
    BY <1>0, <1>2, IssueOldFacts
  <2>2. poll' = poll
    BY <1>2 DEF IssueOld
  <2> QED BY <1>1, <2>1, <2>2, UsesStay
<1>3. ASSUME NEW c \in Cid, ProviderMakes(c) \/ IssueDone(c) PROVE Uses' /\ NoLoss
  <2>1. books' = books /\ work' = work /\ poll' = poll
    BY <1>3 DEF ProviderMakes, IssueDone, persistVars
  <2>2. Keeps(books, books')
    BY <2>1, SameKeeps
  <2> QED BY <2>1, <2>2, UsesStay
\* The entry of the session makes room for the next; nobody is about to revoke it.
<1>4. ASSUME NEW c \in Cid, IssueFresh(c) PROVE Uses' /\ NoLoss
  <2> DEFINE b == Pruned(Rolled(books))
             r == cred.last + 1
             d == Reserved(b, c, r)
  <2>1. /\ r \in Rid /\ Fresh(b, c) /\ b \in Books /\ d \in Books /\ Swept(d, books')
        /\ SweptOrKept(work, d)
    BY <1>0, <1>4, IssueFreshFacts
  <2>2. /\ d.active = [b.active EXCEPT ![c] = Entry(r)] /\ Entry(r).rid = r
        /\ Entry(r).actual = 0 /\ Entry(r).settled = FALSE /\ Entry(r).pending = FALSE
    <3>1. d.active = [b.active EXCEPT ![c] = Entry(r)]
      BY <2>1, ReservedFacts
    <3> HIDE DEF r, d, b
    <3> QED BY <3>1 DEF Entry, NoEntry
  <2>3. d.ledger = b.ledger
    BY <2>1 DEF Reserved, Books
  <2>4. poll' = poll
    BY <1>4 DEF IssueFresh
  <2>5. c \in Cid /\ b.deny = books.deny
    BY <1>0, <1>1, RolledFacts, PrunedFacts
  <2>6. ~Denied(b, c)
    BY <2>1 DEF Fresh
  <2>7. Keeps(books, b)
    BY <1>1
  <2> HIDE DEF d, b, r
  <2>8. /\ work' = work /\ books'.ledger = b.ledger
        /\ books'.active[c] = Entry(r)
        /\ \A x \in Cid : x # c => books'.active[x] = b.active[x]
    BY <1>0, <2>1, <2>2, <2>3 DEF Swept, SweptOrKept, Books
  <2>9. ~Due(work, c)
    <3>1. ~DeniedOn(books, PrincipalOf[c])
      BY <2>5, <2>6, BannedIsDenied DEF Denied
    <3> QED BY <3>1 DEF OnTheBooks, Awaited, Revoked, Due
  <2>10. Booked(b)
    BY <1>0, <2>1, <2>7, KeepsBooked
  <2>11. Booked(books')
    <3>1. cf.usage[c] \in Nat
      BY <1>0 DEF Providers
    <3> QED BY <2>1, <2>2, <2>8, <2>10, <3>1 DEF Booked, InLedger
  <2>12. (\A e \in Copies : Booked(e))'
    BY <2>11, BookedMoves
  <2>13. \A x \in Cid : x # c => \/ SameUse(books.active[x], books'.active[x])
                                 \/ books'.active[x] = NoEntry
    BY <2>7, <2>8 DEF Keeps
  <2>14. Settling'
    <3>1. SUFFICES ASSUME NEW x \in Cid, Due(work, x)
                   PROVE  books'.active[x].rid = 0 \/ books'.active[x].settled
      BY <2>8 DEF Settling
    <3>2. books.active[x].rid = 0 \/ books.active[x].settled
      BY <1>0, <3>1 DEF Settling
    <3> QED BY <2>9, <2>13, <3>1, <3>2, NoUse DEF SameUse
  <2>15. Counting'
    <3>1. SUFFICES ASSUME Busy(work), NEW x \in Cid
                   PROVE  books'.active[x].actual <= poll.rows[x] /\ poll.rows[x] <= cf'.usage[x]
      BY <2>4, <2>8 DEF Counting
    <3>2. books.active[x].actual <= poll.rows[x] /\ poll.rows[x] <= cf.usage[x] /\ poll.rows[x] \in Nat
      BY <1>0, <3>1 DEF Counting, Polls
    <3>3. cf'.usage[x] \in Nat /\ cf.usage[x] \in Nat /\ cf'.usage[x] >= cf.usage[x]
      BY UsageGrows
    <3>4. books'.active[x].actual \in {books.active[x].actual, 0}
      BY <2>2, <2>8, <2>13, NoUse DEF SameUse
    <3>5. books.active[x].actual \in Nat
      BY <1>0, EntryTypes
    <3> QED BY <3>2, <3>3, <3>4, <3>5
  <2>16. NoLoss
    <3>1. SUFFICES ASSUME NEW x \in Cid, books.active[x].actual > 0, books'.active[x].rid = 0
                   PROVE  InLedger(books', books.active[x])
      BY DEF NoLoss
    <3>2. x # c
      BY <2>1, <2>2, <2>8, <3>1 DEF Rid
    <3>3. books.active[x].actual \in Nat
      BY <1>0, EntryTypes
    <3>4. books.active[x].rid # 0
      BY <1>0, <3>1, <3>3 DEF Booked
    <3>5. ~SameUse(books.active[x], b.active[x])
      BY <2>8, <3>1, <3>2, <3>4 DEF SameUse
    <3>6. InLedger(b, books.active[x])
      BY <2>7, <3>1, <3>5 DEF Keeps
    <3> QED BY <2>8, <3>6 DEF InLedger
  <2> QED BY <2>12, <2>14, <2>15, <2>16 DEF Uses
\* A rollback drops the entry of its own reservation, whose bytes are its own to drop.
<1>5. ASSUME NEW c \in Cid, IssueFails(c) PROVE Uses' /\ NoLoss
  <2> DEFINE r == cred.issue[c].rid
  <2>1. /\ books' = RolledBack(c) /\ work' = work
        /\ books'.active = [books.active EXCEPT ![c] = IF @.rid = r THEN NoEntry ELSE @]
    BY <1>0, <1>5, IssueFailsFacts
  <2>2. books'.ledger = books.ledger
    <3> DEFINE act == [books.active EXCEPT ![c] = IF books.active[c].rid = r THEN NoEntry ELSE @]
               iss == books.issues \ {r}
               pess == Larger(0, books.pess - 1)
    <3>1. books' = [books EXCEPT !.active = act, !.issues = iss, !.pess = pess]
      BY <1>0, <2>1 DEF RolledBack, Books
    <3> HIDE DEF act, iss, pess
    <3> QED BY <1>0, <3>1 DEF Books
  <2>3. poll' = poll
    BY <1>5 DEF IssueFails
  <2>4. /\ \A x \in Cid : x # c => books'.active[x] = books.active[x]
        /\ books'.active[c] = books.active[c] \/ (books'.active[c] = NoEntry /\ books.active[c].rid = r)
    BY <1>0, <2>1 DEF Books
  <2> HIDE DEF r
  <2>5. Booked(books')
    <3>1. ASSUME NEW x \in Cid, books'.active[x] = NoEntry
          PROVE  /\ books'.active[x].rid = 0 => books'.active[x].actual = 0
                 /\ books'.active[x].pending => books'.active[x].settled
                 /\ books'.active[x].settled => InLedger(books', books'.active[x])
                 /\ books'.active[x].actual <= cf.usage[x]
      <4>1. cf.usage[x] \in Nat
        BY <1>0 DEF Providers
      <4> QED BY <3>1, <4>1, NoUse
    <3>2. ASSUME NEW x \in Cid, books'.active[x] = books.active[x]
          PROVE  /\ books'.active[x].rid = 0 => books'.active[x].actual = 0
                 /\ books'.active[x].pending => books'.active[x].settled
                 /\ books'.active[x].settled => InLedger(books', books'.active[x])
                 /\ books'.active[x].actual <= cf.usage[x]
      BY <1>0, <2>2, <3>2 DEF Booked, InLedger
    <3> QED BY <2>4, <3>1, <3>2 DEF Booked
  <2>6. (\A e \in Copies : Booked(e))'
    BY <2>5, BookedMoves
  <2>7. Settling'
    BY <1>0, <2>1, <2>4, NoUse DEF Settling
  <2>8. Counting'
    <3>1. SUFFICES ASSUME Busy(work), NEW x \in Cid
                   PROVE  books'.active[x].actual <= poll.rows[x] /\ poll.rows[x] <= cf'.usage[x]
      BY <2>1, <2>3 DEF Counting
    <3>2. books.active[x].actual <= poll.rows[x] /\ poll.rows[x] <= cf.usage[x] /\ poll.rows[x] \in Nat
      BY <1>0, <3>1 DEF Counting, Polls
    <3>3. cf'.usage[x] \in Nat /\ cf.usage[x] \in Nat /\ cf'.usage[x] >= cf.usage[x]
      BY UsageGrows
    <3>4. books'.active[x].actual \in {books.active[x].actual, 0}
      BY <2>4, NoUse
    <3> QED BY <3>2, <3>3, <3>4
  <2>9. NoLoss
    <3>1. SUFFICES ASSUME NEW x \in Cid, books.active[x].actual > 0, books'.active[x].rid = 0,
                          cred.issue[x].rid # books.active[x].rid
                   PROVE  InLedger(books', books.active[x])
      BY DEF NoLoss
    <3>2. books.active[x].actual \in Nat
      BY <1>0, EntryTypes
    <3>3. books.active[x].rid # 0
      BY <1>0, <3>1, <3>2 DEF Booked
    <3> QED BY <2>4, <3>1, <3>3 DEF r
  <2> QED BY <2>6, <2>7, <2>8, <2>9 DEF Uses
<1> QED BY <1>2, <1>3, <1>4, <1>5 DEF Issue

LEMMA UsesRevoke ==
  ASSUME Typed, Typed', Chained, Next, OnTheBooks, Uses, ~srv.policy, Revoke
  PROVE  Uses' /\ NoLoss
<1>0. /\ Types /\ WritesOn /\ books \in Books /\ work \in Works /\ Booked(books) /\ Settling
      /\ work["sweep"].at = "idle"
      /\ \A a \in Revoker : work[a].at \in {"revoke", "heard"} => work[a].c \in Cid
  BY UsesFacts DEF Typed, Types, BooksTyped, WorkTyped, WorkFine, OnTheBooks, Awaited
<1>1. ASSUME NEW a \in Revoker, ProviderRevokes(a) PROVE Uses' /\ NoLoss
  <2>1. /\ books' = books /\ poll' = poll /\ work[a].at = "revoke"
        /\ work' = [work EXCEPT ![a] = [work[a] EXCEPT !.at = "heard"]]
    BY <1>0, <1>1, ProviderRevokesFacts DEF ProviderRevokes, persistVars
  <2>2. /\ work'[a].at = "heard" /\ work'[a].c = work[a].c /\ work'[a].todo = work[a].todo
        /\ \A z \in Revoker : z # a => work'[z] = work[z]
    BY <1>0, <2>1 DEF Works, WorkState, Revoker
  <2>3. (\A c \in Cid : Due(work', c) => Due(work, c)) /\ (Busy(work') => Busy(work))
    BY <2>1, <2>2 DEF Due, Busy, Revoker
  <2> QED BY <2>1, <2>3, SameKeeps, UsesKept
\* What is deleted after the revoke has been settled before it.
<1>2. ASSUME NEW a \in Revoker, RevokeDone(a) PROVE Uses' /\ NoLoss
  <2>1. /\ work[a].c \in Cid /\ books' = Dropped(books, {work[a].c})
        /\ work' = [work EXCEPT ![a].at = "rows", ![a].c = NoCid]
    BY <1>0, <1>2, RevokeDoneFacts
  <2>2. poll' = poll /\ work[a].at = "heard" /\ a \in {"abuse", "retry"}
    BY <1>0, <1>2 DEF RevokeDone, Revoker
  <2>3. /\ work'[a].at = "rows" /\ work'[a].todo = work[a].todo
        /\ \A z \in Revoker : z # a => work'[z] = work[z]
    BY <1>0, <2>1, <2>2 DEF Works, WorkState, Revoker
  <2>4. (\A c \in Cid : Due(work', c) => Due(work, c)) /\ (Busy(work') => Busy(work))
    BY <2>2, <2>3 DEF Due, Busy, Revoker
  <2>5. Due(work, work[a].c)
    BY <2>2 DEF Due
  <2>6. Keeps(books, books')
    BY <1>0, <2>1, <2>5, DroppedKeeps DEF Settling
  <2> QED BY <2>2, <2>4, <2>6, UsesKept
<1>3. ASSUME NEW a \in Revoker, RevokeFails(a) PROVE Uses' /\ NoLoss
  <2>1. /\ books' = books
        /\ \E at \in {"note", "rows"} : work' = [work EXCEPT ![a].at = at, ![a].c = NoCid]
    BY <1>0, <1>3, RevokeFailsFacts
  <2>2. poll' = poll /\ work[a].at \in {"revoke", "heard"}
    BY <1>3 DEF RevokeFails
  <2>3. /\ work'[a].at \in {"note", "rows"} /\ work'[a].todo = work[a].todo
        /\ \A z \in Revoker : z # a => work'[z] = work[z]
    BY <1>0, <2>1 DEF Works, WorkState, Revoker
  <2>4. (\A c \in Cid : Due(work', c) => Due(work, c)) /\ (Busy(work') => Busy(work))
    BY <2>2, <2>3 DEF Due, Busy, Revoker
  <2> QED BY <2>1, <2>2, <2>4, SameKeeps, UsesKept
<1>4. ASSUME NEW a \in {"abuse", "sweep"}, Flushed(a) PROVE Uses' /\ NoLoss
  <2>1. PICK w \in WorkState :
           /\ work' = [work EXCEPT ![a] = w]
           /\ w.at \in {"revoke", "rows", "idle"}
           /\ w.at = "revoke" => w.c = work[a].c /\ work[a].at = "flush"
    BY <1>0, <1>4, FlushedFacts
  <2>2. UNCHANGED <<books, poll>> /\ work[a].at \in {"flush", "note"}
    BY <1>4 DEF Flushed
  <2>3. a = "abuse"
    BY <1>0, <2>2
  <2>4. /\ work'["abuse"] = w /\ work'["retry"] = work["retry"]
    BY <1>0, <2>1, <2>3 DEF Works, Revoker
  <2>5. (\A c \in Cid : Due(work', c) => Due(work, c)) /\ (Busy(work') => Busy(work))
    BY <2>1, <2>2, <2>3, <2>4 DEF Due, Busy
  <2> QED BY <2>2, <2>5, SameKeeps, UsesKept
<1>5. ~SweepNext
  BY <1>0 DEF SweepNext
\* What is pending has been settled.
<1>6. CASE RetryStarts
  <2> DEFINE T == {c \in Active(books) : books.active[c].pending}
             O == T \cap Expired(books)
  <2>1. work' = [work EXCEPT !["retry"] = [Idle EXCEPT !.at = "rows", !.todo = T, !.old = O]]
    BY <1>6 DEF RetryStarts
  <2>2. \A c \in T : Through(c)
    BY <1>0 DEF Booked, Active, Through
  <2> HIDE DEF T, O
  <2>3. /\ work'["retry"].at = "rows" /\ work'["retry"].todo = T
        /\ work'["abuse"] = work["abuse"]
    BY <1>0, <2>1 DEF Works, Revoker, Idle
  <2>4. UNCHANGED <<books, poll>>
    BY <1>6 DEF RetryStarts, persistVars
  <2>5. (\A c \in Cid : Due(work', c) => Due(work, c) \/ Through(c)) /\ (Busy(work') => Busy(work))
    BY <2>2, <2>3 DEF Due, Busy
  <2> QED BY <2>4, <2>5, SameKeeps, UsesKept
<1>7. CASE RetryNext
  <2>1. \/ books' = books /\ work' = [work EXCEPT !["retry"] = Idle]
        \/ \E c \in work["retry"].todo :
              /\ c \in Cid /\ books' = Dropped(books, {c})
              /\ work' = [work EXCEPT !["retry"].todo = @ \ {c}]
        \/ \E c \in work["retry"].todo :
              /\ c \in Cid /\ books' = books
              /\ work' = [work EXCEPT !["retry"] =
                    [work["retry"] EXCEPT !.at = "revoke", !.c = c, !.todo = @ \ {c}]]
    BY <1>0, <1>7, RetryNextFacts
  <2>2. poll' = poll
    BY <1>7 DEF RetryNext
  <2>3. CASE books' = books /\ work' = [work EXCEPT !["retry"] = Idle]
    <3>1. /\ work'["retry"].todo = {} /\ work'["retry"].at = "idle" /\ work'["abuse"] = work["abuse"]
      BY <1>0, <2>3, IdleType DEF Works, Revoker
    <3>2. (\A c \in Cid : Due(work', c) => Due(work, c)) /\ (Busy(work') => Busy(work))
      BY <3>1 DEF Due, Busy
    <3> QED BY <2>2, <2>3, <3>2, SameKeeps, UsesKept
  <2>4. ASSUME NEW c \in work["retry"].todo, c \in Cid, books' = Dropped(books, {c}),
               work' = [work EXCEPT !["retry"].todo = @ \ {c}]
        PROVE  Uses' /\ NoLoss
    <3>1. /\ work'["retry"].todo \subseteq work["retry"].todo /\ work'["retry"].at = work["retry"].at
          /\ work'["retry"].c = work["retry"].c /\ work'["abuse"] = work["abuse"]
      BY <1>0, <2>4 DEF Works, WorkState, Revoker
    <3>2. (\A x \in Cid : Due(work', x) => Due(work, x)) /\ (Busy(work') => Busy(work))
      BY <3>1 DEF Due, Busy
    <3>3. Due(work, c)
      BY <2>4 DEF Due
    <3>4. Keeps(books, books')
      BY <1>0, <2>4, <3>3, DroppedKeeps DEF Settling
    <3> QED BY <2>2, <3>2, <3>4, UsesKept
  <2>5. ASSUME NEW c \in work["retry"].todo, c \in Cid, books' = books,
               work' = [work EXCEPT !["retry"] =
                   [work["retry"] EXCEPT !.at = "revoke", !.c = c, !.todo = @ \ {c}]]
        PROVE  Uses' /\ NoLoss
    <3>1. /\ work'["retry"].todo \subseteq work["retry"].todo /\ work'["retry"].at = "revoke"
          /\ work'["retry"].c = c /\ work'["abuse"] = work["abuse"]
      BY <1>0, <2>5 DEF Works, WorkState, Revoker
    <3>2. (\A x \in Cid : Due(work', x) => Due(work, x)) /\ (Busy(work') => Busy(work))
      BY <2>5, <3>1 DEF Due, Busy
    <3> QED BY <2>2, <2>5, <3>2, SameKeeps, UsesKept
  <2> QED BY <2>1, <2>3, <2>4, <2>5
<1> QED BY <1>1, <1>2, <1>3, <1>4, <1>5, <1>6, <1>7 DEF Revoke

\* Rows only raise what is confirmed: what has been settled stays covered by its ledger entry.
LEMMA WithRowsBooked ==
  ASSUME NEW b \in Books, Booked(b), NEW S \in SUBSET Cid, NEW rows \in [Cid -> Nat],
         \A c \in Cid : b.active[c].actual <= rows[c] /\ rows[c] <= cf.usage[c],
         S \subseteq Active(b)
  PROVE  Booked(WithRows(b, S, rows))
<1> DEFINE d == WithRows(b, S, rows)
<1>1. /\ d.ledger = b.ledger
      /\ \A c \in Cid :
            /\ d.active[c].rid = b.active[c].rid /\ d.active[c].settled = b.active[c].settled
            /\ d.active[c].pending = b.active[c].pending
            /\ d.active[c].actual = IF c \in S THEN rows[c] ELSE b.active[c].actual
  BY WithRowsUse
<1> HIDE DEF d
<1>2. SUFFICES ASSUME NEW c \in Cid
               PROVE  /\ d.active[c].rid = 0 => d.active[c].actual = 0
                      /\ d.active[c].pending => d.active[c].settled
                      /\ d.active[c].settled => InLedger(d, d.active[c])
                      /\ d.active[c].actual <= cf.usage[c]
  BY DEF Booked, d
<1>3. /\ b.active[c].rid = 0 => b.active[c].actual = 0
      /\ b.active[c].pending => b.active[c].settled
      /\ b.active[c].settled => InLedger(b, b.active[c])
      /\ b.active[c].actual <= cf.usage[c]
  BY DEF Booked
<1>4. /\ b.active[c].actual <= rows[c] /\ rows[c] <= cf.usage[c]
      /\ b.active[c].actual \in Nat /\ rows[c] \in Nat
  BY EntryTypes
<1>5. c \in S => b.active[c].rid # 0
  BY DEF Active
<1>6. InLedger(b, b.active[c]) => InLedger(d, d.active[c])
  <2>1. b.active[c].actual <= d.active[c].actual /\ d.active[c].actual \in Nat
    BY <1>1, <1>4
  <2>2. \A n \in 1 .. b.active[c].actual : n \in 1 .. d.active[c].actual
    BY <1>4, <2>1
  <2> QED BY <1>1, <2>2 DEF InLedger
<1> QED BY <1>1, <1>3, <1>4, <1>5, <1>6

LEMMA AbusedBooked ==
  ASSUME NEW b \in Books, Booked(b), NEW c \in Active(b), b.active[c].actual > 0
  PROVE  Booked(Abused(b, c))
<1> DEFINE d == Abused(b, c)
<1>0. c \in Cid
  BY DEF Active
<1>1. /\ b.ledger \subseteq d.ledger
      /\ \A x \in Cid :
            /\ d.active[x].rid = b.active[x].rid /\ d.active[x].actual = b.active[x].actual
            /\ x # c => /\ d.active[x].settled = b.active[x].settled
                        /\ d.active[x].pending = b.active[x].pending
      /\ d.active[c].settled
      /\ ~b.active[c].settled /\ b.active[c].actual > 0
            => <<b.active[c].rid, b.active[c].actual>> \in d.ledger
  BY AbusedUse
<1> HIDE DEF d
<1>2. SUFFICES ASSUME NEW x \in Cid
               PROVE  /\ d.active[x].rid = 0 => d.active[x].actual = 0
                      /\ d.active[x].pending => d.active[x].settled
                      /\ d.active[x].settled => InLedger(d, d.active[x])
                      /\ d.active[x].actual <= cf.usage[x]
  BY DEF Booked, d
<1>3. /\ b.active[x].rid = 0 => b.active[x].actual = 0
      /\ b.active[x].pending => b.active[x].settled
      /\ b.active[x].settled => InLedger(b, b.active[x])
      /\ b.active[x].actual <= cf.usage[x]
  BY DEF Booked
<1>4. InLedger(b, b.active[x]) => InLedger(d, d.active[x])
  BY <1>1 DEF InLedger
<1>5. CASE x # c
  BY <1>1, <1>3, <1>4, <1>5
<1>6. CASE x = c
  <2>1. b.active[c].actual \in Nat
    BY <1>0, EntryTypes
  <2>2. b.active[c].actual \in 1 .. b.active[c].actual
    BY <2>1
  <2>3. InLedger(d, d.active[c])
    BY <1>0, <1>1, <1>3, <1>4, <1>6, <2>2 DEF InLedger
  <2> QED BY <1>0, <1>1, <1>3, <1>6, <2>3
<1> QED BY <1>5, <1>6

LEMMA UsesRows ==
  ASSUME Typed, Typed', Chained, Next, OnTheBooks, Uses, ~srv.policy, AbuseRows
  PROVE  Uses' /\ NoLoss
<1>0. /\ Types /\ WritesOn /\ books \in Books /\ books' \in Books /\ work \in Works
      /\ Booked(books) /\ Settling /\ Counting
      /\ cf' = cf /\ work["abuse"].at \in {"ask", "rows"} /\ poll \in Polls /\ cf \in Providers
  BY UsesFacts DEF Typed, Types, BooksTyped, WorkTyped, WorkFine, AbuseRows
<1>1. PICK S \in SUBSET Cid, rows \in [Cid -> Nat] : RowsRead(S, rows)
  BY <1>0, AbuseRowsFacts
<1> DEFINE d == WithRows(books, S, rows)
<1>2. d \in Books /\ S \subseteq Active(books)
  BY <1>1 DEF RowsRead
<1>3. \A x \in Cid : books.active[x].actual <= rows[x] /\ rows[x] <= cf.usage[x]
  <2>1. CASE work["abuse"].at = "ask"
    <3>1. rows = cf.usage
      BY <1>1, <2>1 DEF RowsRead
    <3>2. \A x \in Cid : cf.usage[x] \in Nat
      BY <1>0 DEF Providers
    <3> QED BY <1>0, <3>1, <3>2 DEF Booked
  <2>2. CASE work["abuse"].at = "rows"
    <3>1. rows = poll.rows /\ Busy(work)
      BY <1>1, <2>2 DEF RowsRead, Busy
    <3> QED BY <1>0, <3>1 DEF Counting
  <2> QED BY <1>0, <2>1, <2>2
<1>4. Booked(d)
  BY <1>0, <1>2, <1>3, WithRowsBooked
<1>5. \A x \in Cid :
         /\ d.active[x].rid = books.active[x].rid /\ d.active[x].settled = books.active[x].settled
         /\ d.active[x].actual = IF x \in S THEN rows[x] ELSE books.active[x].actual
  BY <1>0, WithRowsUse
<1>6. ASSUME \A x \in Cid : books'.active[x].rid = books.active[x].rid PROVE NoLoss
  <2>1. \A x \in Cid : books.active[x].actual \in Nat
    BY <1>0, EntryTypes
  <2> QED BY <1>0, <1>6, <2>1 DEF NoLoss, Booked
<1>7. CASE Swept(d, books') /\ SweptOrKept([work EXCEPT !["abuse"] = Idle], d)
  <2> HIDE DEF d
  <2>1. books'.active = d.active /\ books'.ledger = d.ledger
    BY <1>7 DEF Swept
  <2>2. work' = [work EXCEPT !["abuse"] = Idle]
    BY <1>7 DEF SweptOrKept
  <2>3. /\ work'["abuse"].at = "idle" /\ work'["retry"] = work["retry"]
    BY <1>0, <2>2, IdleType DEF Works, Revoker
  <2>4. Booked(books')
    BY <1>2, <1>4, <2>1, SameKeeps, KeepsBooked, <1>0
  <2>5. (\A e \in Copies : Booked(e))'
    BY <2>4, BookedMoves
  <2>6. Settling'
    BY <1>0, <1>5, <2>1, <2>3 DEF Settling, Due
  <2>7. Counting'
    BY <2>3 DEF Counting, Busy
  <2>8. NoLoss
    BY <1>5, <1>6, <2>1
  <2> QED BY <2>5, <2>6, <2>7, <2>8 DEF Uses
<1>8. ASSUME NEW c \in Active(books), NEW T \in SUBSET Cid, books' = Abused(d, c),
             c \in S, rows[c] >= Cap, poll'.rows = rows,
             work' = [work EXCEPT !["abuse"] = [Idle EXCEPT !.at = "flush", !.c = c, !.todo = T]]
      PROVE  Uses' /\ NoLoss
  <2> HIDE DEF d
  <2>1. c \in Cid /\ c \in Active(d) /\ d.active[c].actual > 0
    <3>1. rows[c] \in Nat /\ Cap \in Nat /\ Cap > 0
      BY <1>8, LimitAssumption
    <3> QED BY <1>5, <1>8, <3>1 DEF Active
  <2>2. Booked(books')
    BY <1>2, <1>4, <1>8, <2>1, AbusedBooked
  <2>3. (\A e \in Copies : Booked(e))'
    BY <2>2, BookedMoves
  <2>4. /\ \A x \in Cid :
              /\ books'.active[x].rid = d.active[x].rid /\ books'.active[x].actual = d.active[x].actual
              /\ x # c => books'.active[x].settled = d.active[x].settled
        /\ books'.active[c].settled
    BY <1>2, <1>8, <2>1, AbusedUse
  <2>5. /\ work'["abuse"].at = "flush" /\ work'["abuse"].c = c /\ work'["retry"] = work["retry"]
    BY <1>0, <1>8 DEF Works, Revoker, Idle
  <2>6. Settling'
    <3>1. \A x \in Cid : Due(work', x) => Due(work, x) \/ x = c
      BY <2>5 DEF Due
    <3> QED BY <1>0, <1>5, <2>4, <3>1 DEF Settling
  <2>7. Counting'
    <3>1. SUFFICES ASSUME NEW x \in Cid
                   PROVE  books'.active[x].actual <= rows[x] /\ rows[x] <= cf.usage[x]
      BY <1>0, <1>8 DEF Counting
    <3>2. books.active[x].actual \in Nat /\ rows[x] \in Nat
      BY <1>0, EntryTypes
    <3> QED BY <1>3, <1>5, <2>4, <3>2
  <2>8. NoLoss
    BY <1>5, <1>6, <2>4
  <2> QED BY <2>3, <2>6, <2>7, <2>8 DEF Uses
<1> QED BY <1>1, <1>7, <1>8 DEF RowsRead

LEMMA WithoutRows ==
  ASSUME Typed, NEW p
  PROVE  Without(p).rows = poll.rows
BY DEF Typed, Types, Polls, Without

LEMMA UsesPoll ==
  ASSUME Typed, Typed', Chained, Next, OnTheBooks, Uses, ~srv.policy, Poll
  PROVE  Uses' /\ NoLoss
<1>0. /\ Types /\ WritesOn /\ books \in Books /\ books' \in Books /\ work \in Works /\ Booked(books)
      /\ poll \in Polls /\ srv \in Servers
  BY UsesFacts DEF Typed, Types, BooksTyped, WorkTyped, WorkFine
<1>1. CASE AbuseAsks \/ AbuseAskFails
  <2>1. UNCHANGED <<books, poll>>
    BY <1>1 DEF AbuseAsks, AbuseAskFails
  <2>2. work'["retry"] = work["retry"] /\ work'["abuse"].at \in {"ask", "idle"}
    BY <1>0, <1>1, IdleType DEF AbuseAsks, AbuseAskFails, Works, WorkState, Revoker
  <2>3. (\A c \in Cid : Due(work', c) => Due(work, c)) /\ (Busy(work') => Busy(work))
    BY <2>2 DEF Due, Busy
  <2> QED BY <2>1, <2>3, SameKeeps, UsesKept
<1>2. ASSUME NEW timer \in BOOLEAN, GlobalAsks(timer) PROVE Uses' /\ NoLoss
  <2>1. books' = Rolled(books) /\ work' = work
    BY <1>0, <1>2, GlobalAsksFacts
  <2>2. poll'.rows = poll.rows
    BY <1>0, <1>2 DEF GlobalAsks, Polls
  <2>3. books'.active = books.active /\ books'.ledger = books.ledger
    BY <1>0, <2>1, RolledFacts
  <2>4. Keeps(books, books')
    BY <2>3, SameKeeps
  <2> QED BY <2>1, <2>2, <2>4, UsesStay
<1>3. ASSUME NEW p \in poll.polls, ProviderCounts(p) \/ GlobalStale(p) \/ GlobalFails(p)
      PROVE  Uses' /\ NoLoss
  <2>1. UNCHANGED <<books, work>>
    BY <1>3 DEF ProviderCounts, GlobalStale, GlobalFails, persistVars
  <2>2. poll'.rows = poll.rows
    <3>1. CASE ProviderCounts(p)
      BY <1>0, <3>1 DEF ProviderCounts, Without, Polls
    <3>2. CASE GlobalStale(p) \/ GlobalFails(p)
      BY <3>2, WithoutRows DEF GlobalStale, GlobalFails
    <3> QED BY <1>3, <3>1, <3>2
  <2> QED BY <2>1, <2>2, SameKeeps, UsesStay
<1>4. ASSUME NEW p \in poll.polls, GlobalLowerBound(p) \/ GlobalTotal(p) PROVE Uses' /\ NoLoss
  <2> DEFINE d == IF p.all THEN Reconciled(p.read) ELSE LowerBound(p.read)
             b == Pruned(books)
  <2>1. p.read \in Nat /\ Swept(d, books') /\ SweptOrKept(work, d) /\ poll' = Without(p)
    BY <1>0, <1>4, GlobalEndFacts
  <2>2. d.active = b.active /\ d.ledger = b.ledger
    BY <1>0, <2>1, ReconciledFacts, LowerBoundFacts
  <2>3. Keeps(books, b)
    BY <1>0, PrunedKeeps
  <2>4. poll'.rows = poll.rows
    BY <2>1, WithoutRows
  <2> HIDE DEF d, b
  <2>5. work' = work /\ books'.active = b.active /\ books'.ledger = b.ledger
    BY <2>1, <2>2 DEF SweptOrKept, Swept
  <2>6. Keeps(books, books')
    BY <2>3, <2>5, KeepsToSame
  <2> QED BY <2>4, <2>5, <2>6, UsesStay
<1> QED BY <1>1, <1>2, <1>3, <1>4, UsesRows DEF Poll

LEMMA UsesWorld ==
  ASSUME Typed, Typed', Chained, Next, Uses, Persisting \/ World
  PROVE  Uses' /\ (Crash \/ CrashTorn \/ NoLoss)
<1>0. /\ Types /\ WritesOn /\ books \in Books /\ books' \in Books /\ Booked(books) /\ srv \in Servers
      /\ cf \in Providers
  BY UsesFacts DEF Typed, Types, BooksTyped
<1>1. CASE \/ Persisting \/ LockEngages \/ LockAnswered \/ MonthTurns \/ Stops \/ StopFlushes \/ Exits
           \/ \E r \in Rid : Relays(r)
  <2>1. books' = books
    <3>1. CASE Write
      <4>1. PICK f \in File : WriteDone(f) \/ WriteFails(f)
        BY <3>1 DEF Write
      <4> QED BY <4>1, <1>0, WriteFacts
    <3> QED BY <1>1, <3>1 DEF Persisting, FlushTick, LockEngages, LockAnswered, MonthTurns, Stops,
                              StopFlushes, Exits, Relays
  <2>2. poll' = poll /\ work' = work
    BY <1>1 DEF Persisting, LockEngages, LockAnswered, MonthTurns, Stops, StopFlushes, Exits, Relays
  <2> QED BY <2>1, <2>2, SameKeeps, UsesStay
<1>2. ASSUME NEW c \in Cid, Ages(c) PROVE Uses' /\ NoLoss
  <2>1. PICK k \in {"near", "old"} : books'.active = [books.active EXCEPT ![c].age = k]
    BY <1>0, <1>2, AgesFacts
  <2>2. books'.ledger = books.ledger
    BY <1>0, <1>2, AgesFacts
  <2>3. poll' = poll /\ work' = work
    BY <1>2 DEF Ages
  <2>4. \A x \in Cid : SameUse(books.active[x], books'.active[x])
    BY <1>0, <2>1 DEF Books, Entries, SameUse
  <2>5. Keeps(books, books')
    BY <2>2, <2>4 DEF Keeps
  <2> QED BY <2>3, <2>5, UsesStay
\* A restart reads a copy back, or begins with empty books; nobody is about to revoke.
<1>3. CASE Crash \/ CrashTorn
  <2>1. PICK t \in Books \cup {Torn}, l \in BOOLEAN \cup {Torn} :
           Restarts([turn |-> t, locks |-> l]) /\ t \in Left("turn") \cup {Torn}
    BY <1>0, <1>3, CrashFacts
  <2>2. /\ books' = IF t = Torn THEN EmptyBooks(srv.month) ELSE Rolled(t)
        /\ work' = [a \in Revoker |-> Idle]
    BY <1>0, <2>1, RestartsFacts
  <2>3. Booked(books')
    <3>1. CASE t = Torn
      <4>1. \A x \in Cid : books'.active[x] = NoEntry
        BY <2>2, <3>1 DEF EmptyBooks
      <4>2. \A x \in Cid : cf.usage[x] \in Nat
        BY <1>0 DEF Providers
      <4>3. \A x \in Cid : 0 <= cf.usage[x]
        BY <4>2
      <4> QED BY <4>1, <4>3, NoUse DEF Booked
    <3>2. CASE t # Torn
      <4>1. t \in Copies /\ t \in Books
        BY <2>1, <3>2 DEF Left, Copies, On, Snap
      <4>2. Booked(t)
        BY <4>1 DEF Uses
      <4>3. books'.active = t.active /\ books'.ledger = t.ledger
        BY <1>0, <2>2, <3>2, <4>1, RolledFacts
      <4>4. Keeps(t, books')
        BY <4>3, SameKeeps
      <4> QED BY <1>0, <4>1, <4>2, <4>4, KeepsBooked
    <3> QED BY <3>1, <3>2
  <2>4. (\A e \in Copies : Booked(e))'
    BY <2>3, BookedMoves
  <2>5. \A a \in Revoker : work'[a].at = "idle" /\ work'[a].todo = {}
    BY <2>2, IdleType
  <2>6. Settling' /\ Counting'
    BY <2>5 DEF Settling, Counting, Due, Busy, Revoker
  <2> QED BY <1>3, <2>4, <2>6 DEF Uses
<1> QED BY <1>1, <1>2, <1>3 DEF World

LEMMA UsesNext ==
  ASSUME Typed, Chained, ~srv.policy => OnTheBooks /\ Uses, [Next]_vars
  PROVE  (~srv.policy => Uses)'
<1>1. CASE UNCHANGED vars
  <2>1. UNCHANGED <<books, locks, file, sec, disk, cred, work, cf, srv, poll>>
    BY <1>1 DEF vars, persistVars
  <2>2. Copies' = Copies
    BY <2>1 DEF Copies, On, Snap
  <2>3. \A d : Booked(d)' <=> Booked(d)
    BY <2>1 DEF Booked, InLedger
  <2>4. Settling' <=> Settling
    BY <2>1 DEF Settling, Due
  <2>5. Counting' <=> Counting
    BY <2>1 DEF Counting, Busy
  <2> QED BY <2>1, <2>2, <2>3, <2>4, <2>5 DEF Uses
<1>2. CASE Next
  <2>1. SUFFICES ASSUME ~srv'.policy PROVE Uses'
    OBVIOUS
  <2>2. ~srv.policy /\ OnTheBooks /\ Uses /\ Typed'
    BY <1>2, <2>1, PolicyStays, TypedNext
  <2> QED BY <1>2, <2>2, UsesIssue, UsesRevoke, UsesPoll, UsesWorld DEF Next
<1> QED BY <1>1, <1>2

LEMMA UsesInit ==
  ASSUME Init
  PROVE  Uses
<1>1. /\ books = EmptyBooks(0) /\ disk = [turn |-> EmptyBooks(0), locks |-> FALSE]
      /\ work = [a \in Revoker |-> Idle] /\ cf.usage = [c \in Cid |-> 0]
      /\ ~file["turn"].write.on
  BY FileNames DEF Init, Clean, NoWrite
<1>2. Copies = {EmptyBooks(0)}
  BY <1>1, TypesInit, TornAssumption DEF Copies, On, Typed, Types, BooksTyped
<1>3. Booked(EmptyBooks(0))
  BY <1>1, NoUse DEF Booked, EmptyBooks
<1>4. \A a \in Revoker : work[a].at = "idle" /\ work[a].todo = {}
  BY <1>1, IdleType
<1>5. Settling /\ Counting
  BY <1>4 DEF Settling, Counting, Due, Busy, Revoker
<1> QED BY <1>2, <1>3, <1>5 DEF Uses

(***************************************************************************)
(* The volume of the month.                                                *)
(***************************************************************************)

\* Within a month: no copy of the books counts more than the provider has, and of the polls under
\* way only the newest may lower the count, which it cannot, as it was answered after the last.
Volumes ==
    /\ srv.month = 0
    /\ \A d \in Copies : d.month = 0 /\ d.cf <= cf.total
    /\ \A p \in poll.polls :
          /\ p.gen <= poll.gen /\ p.read <= cf.total
          /\ p.gen = poll.gen /\ p.all /\ p.read >= 0 => p.read >= books.cf
    /\ \A p, q \in poll.polls : p.gen = q.gen => p = q

\* The month's total only grows while the month does not turn.
LEMMA TotalGrows ==
  ASSUME Typed, Typed', Next
  PROVE  /\ cf.total \in Nat /\ cf'.total \in Nat
         /\ MonthTurns \/ cf'.total >= cf.total
<1>0. /\ Types /\ cf \in Providers /\ cf' \in Providers /\ cf.total \in Nat /\ cf'.total \in Nat
  BY DEF Typed, Types, Providers
<1>1. CASE Crash \/ CrashTorn
  <2>1. PICK t \in Books \cup {Torn}, l \in BOOLEAN \cup {Torn} : Restarts([turn |-> t, locks |-> l])
    BY <1>0, <1>1, CrashFacts
  <2>2. cf' = cf
    BY <1>0, <2>1, RestartsFacts
  <2> QED BY <1>0, <2>2
<1>2. ASSUME NEW c \in Cid, IssueFresh(c) PROVE cf'.total = cf.total
  <2>1. PICK o : cf' = [cf EXCEPT !.owner = o]
    BY <1>0, <1>2 DEF IssueFresh, Providers
  <2> QED BY <1>0, <2>1 DEF Providers
<1>3. ASSUME NEW c \in Cid, ProviderMakes(c) PROVE cf'.total = cf.total
  BY <1>0, <1>3 DEF ProviderMakes, Providers
<1>4. ASSUME NEW a \in Revoker, ProviderRevokes(a) PROVE cf'.total = cf.total
  BY <1>0, <1>4 DEF ProviderRevokes, Providers
<1>5. ASSUME NEW c \in Cid, Ages(c) PROVE cf'.total = cf.total
  BY <1>0, <1>5 DEF Ages, Providers
<1>7. ASSUME NEW r \in Rid, Relays(r) PROVE cf'.total >= cf.total
  <2> DEFINE u == [cf.usage EXCEPT ![cf.owner[r]] = @ + 1]
  <2>1. cf' = [cf EXCEPT !.usage = u, !.total = cf.total + 1]
    BY <1>0, <1>7 DEF Relays, Providers
  <2> HIDE DEF u
  <2>3. cf'.total = cf.total + 1
    BY <1>0, <2>1 DEF Providers
  <2> QED BY <1>0, <2>3
<1>8. CASE cf' = cf
  BY <1>0, <1>8
<1>9. CASE cf'.total = cf.total
  BY <1>0, <1>9
<1> QED BY <1>0, <1>1, <1>2, <1>3, <1>4, <1>5, <1>7, <1>8, <1>9
      DEF Next, Issue, IssueOld, IssueDone, IssueFails,
      Revoke, RevokeDone, RevokeFails, Flushed, SweepNext, RetryStarts, RetryNext,
      Poll, AbuseAsks, AbuseAskFails, AbuseRows, GlobalAsks, ProviderCounts, GlobalFails, GlobalStale,
      GlobalLowerBound, GlobalTotal, Persisting, World, LockEngages, LockAnswered, Stops, StopFlushes, Exits

LEMMA NoTurn ==
  ASSUME Typed, MonthTurns
  PROVE  spent'["month"] # 0
<1>1. Spend("month") /\ "month" \in Disturbance /\ spent \in [Disturbance -> Nat]
  BY DEF MonthTurns, Disturbance, Typed, Types
<1>2. spent'["month"] = spent["month"] + 1
  BY <1>1, SpendFacts
<1> QED BY <1>1, <1>2

LEMMA VolumesFacts ==
  ASSUME Typed, Volumes
  PROVE  /\ books \in Books /\ books.month = 0 /\ books.cf \in Nat /\ books.cf <= cf.total
         /\ Rolled(books) = books /\ poll.gen \in Nat
         /\ \A p \in poll.polls : p \in GlobalPolls /\ p.gen \in Nat /\ p.read \in Int
<1>1. books \in Books /\ books.month = 0 /\ books.cf <= cf.total /\ srv \in Servers
  BY DEF Volumes, Copies, Typed, Types, BooksTyped
<1>2. books.cf \in Nat /\ Rolled(books) = books
  BY <1>1, BooksFields, RolledFacts DEF Volumes
<1>3. poll \in Polls
  BY DEF Typed, Types
<1> QED BY <1>1, <1>2, <1>3 DEF Polls, GlobalPolls

\* The part that steps share.
LEMMA VolumesMove ==
  ASSUME Typed, Typed', Chained, Next, Volumes, spent'["month"] = 0,
         books'.month = 0, books'.cf <= cf.total
  PROVE  /\ srv'.month = 0
         /\ \A d \in Copies' : d.month = 0 /\ d.cf <= cf'.total
<1>1. srv'.month = 0
  BY MonthStays DEF Volumes
<1>2. cf.total \in Nat /\ cf'.total \in Nat /\ cf'.total >= cf.total
  BY TotalGrows, NoTurn
<1>3. ASSUME NEW d \in Copies' PROVE d.month = 0 /\ d.cf <= cf'.total
  <2>1. d \in Copies \/ d = books'
    BY <1>3, CopiesMove
  <2>2. d \in Books /\ d.cf \in Nat
    BY <2>1, CopiesTyped, BooksFields DEF Typed, Types, BooksTyped
  <2>3. d.month = 0 /\ d.cf <= cf.total
    BY <2>1 DEF Volumes
  <2> QED BY <1>2, <2>2, <2>3
<1> QED BY <1>1, <1>3

LEMMA VolumesKept ==
  ASSUME Typed, Typed', Chained, Next, Volumes, spent'["month"] = 0,
         books'.cf = books.cf, books'.month = books.month,
         poll'.polls \subseteq poll.polls, poll'.gen = poll.gen
  PROVE  Volumes'
<1>0. /\ books.month = 0 /\ books.cf \in Nat /\ books.cf <= cf.total
      /\ \A p \in poll.polls : p.gen \in Nat /\ p.read \in Int
  BY VolumesFacts
<1>1. /\ srv'.month = 0
      /\ \A d \in Copies' : d.month = 0 /\ d.cf <= cf'.total
  BY <1>0, VolumesMove
<1>2. cf.total \in Nat /\ cf'.total \in Nat /\ cf'.total >= cf.total
  BY TotalGrows, NoTurn
<1>3. ASSUME NEW p \in poll'.polls
      PROVE  /\ p.gen <= poll'.gen /\ p.read <= cf'.total
             /\ p.gen = poll'.gen /\ p.all /\ p.read >= 0 => p.read >= books'.cf
  BY <1>0, <1>2 DEF Volumes
<1>4. \A p, q \in poll'.polls : p.gen = q.gen => p = q
  BY DEF Volumes
<1> QED BY <1>1, <1>3, <1>4 DEF Volumes

\* Most steps neither count nor poll.
LEMMA VolumeStays ==
  ASSUME Typed, Next, books.month = srv.month,
         Issue \/ Revoke \/ AbuseAsks \/ AbuseAskFails \/ AbuseRows \/ Persisting
            \/ (World /\ ~Crash /\ ~CrashTorn)
  PROVE  books'.cf = books.cf /\ books'.month = books.month
<1>0. /\ Types /\ WritesOn /\ books \in Books /\ srv \in Servers /\ Rolled(books) = books
  BY RolledFacts DEF Typed, Types, BooksTyped
<1>1. ASSUME NEW b \in Books, NEW S \in SUBSET Cid, books' = Dropped(b, S), b = books
      PROVE  books'.cf = books.cf /\ books'.month = books.month
  BY <1>1, DroppedFacts
<1>2. ASSUME NEW c \in Cid, IssueOld(c) PROVE books'.cf = books.cf /\ books'.month = books.month
  BY <1>0, <1>2, IssueOldFacts, PrunedFacts
<1>3. ASSUME NEW c \in Cid, IssueFresh(c) PROVE books'.cf = books.cf /\ books'.month = books.month
  <2> DEFINE b == Pruned(books)
             r == cred.last + 1
             d == Reserved(b, c, r)
  <2>1. r \in Rid /\ b \in Books /\ Swept(d, books')
    BY <1>0, <1>3, IssueFreshFacts
  <2>2. d.cf = b.cf /\ d.month = b.month
    BY <2>1, ReservedFacts
  <2>3. b.cf = books.cf /\ b.month = books.month
    BY <1>0, PrunedFacts
  <2> QED BY <2>1, <2>2, <2>3 DEF Swept
<1>4. ASSUME NEW c \in Cid, IssueFails(c) PROVE books'.cf = books.cf /\ books'.month = books.month
  BY <1>0, <1>4, IssueFailsFacts
<1>5. ASSUME NEW a \in Revoker, RevokeDone(a) PROVE books'.cf = books.cf /\ books'.month = books.month
  <2>1. work[a].c \in Cid /\ books' = Dropped(books, {work[a].c})
    BY <1>0, <1>5, RevokeDoneFacts
  <2>2. {work[a].c} \in SUBSET Cid
    BY <2>1
  <2> QED BY <1>0, <1>1, <2>1, <2>2
<1>6. ASSUME NEW a \in Revoker, RevokeFails(a) PROVE books' = books
  BY <1>0, <1>6, RevokeFailsFacts
<1>7. SweepNext => books' = books
  BY <1>0, SweepNextFacts
<1>8. CASE RetryNext
  <2>1. books' = books \/ \E c \in Cid : books' = Dropped(books, {c})
    BY <1>0, <1>8, RetryNextFacts
  <2>2. \A c \in Cid : {c} \in SUBSET Cid
    OBVIOUS
  <2> QED BY <1>0, <1>1, <2>1, <2>2
<1>9. CASE AbuseRows
  <2>1. PICK S \in SUBSET Cid, rows \in [Cid -> Nat] : RowsRead(S, rows)
    BY <1>0, <1>9, AbuseRowsFacts
  <2> DEFINE d == WithRows(books, S, rows)
  <2>2. d \in Books /\ d.cf = books.cf /\ d.month = books.month
    BY <1>0, WithRowsFacts
  <2>3. Swept(d, books') \/ \E c \in Cid : books' = Abused(d, c)
    BY <2>1 DEF RowsRead, Active
  <2> HIDE DEF d
  <2> QED BY <2>2, <2>3, AbusedFacts DEF Swept
<1>10. ASSUME NEW c \in Cid, Ages(c) PROVE books'.cf = books.cf /\ books'.month = books.month
  BY <1>0, <1>10, AgesFacts
<1>11. Write => books' = books
  <2>1. SUFFICES ASSUME Write PROVE books' = books
    OBVIOUS
  <2>2. PICK f \in File : WriteDone(f) \/ WriteFails(f)
    BY <2>1 DEF Write
  <2> QED BY <2>2, <1>0, WriteFacts
<1>12. CASE books' = books
  BY <1>12
<1> QED BY <1>2, <1>3, <1>4, <1>5, <1>6, <1>7, <1>8, <1>9, <1>10, <1>11, <1>12
      DEF Issue, ProviderMakes, IssueDone, Revoke, ProviderRevokes, Flushed, RetryStarts,
      AbuseAsks, AbuseAskFails, Persisting, FlushTick, World, LockEngages, LockAnswered, MonthTurns,
      Stops, StopFlushes, Exits, Relays, persistVars

\* None of them takes up or ends a poll.
LEMMA PollsStay ==
  ASSUME Typed,
         Issue \/ Revoke \/ AbuseAsks \/ AbuseAskFails \/ AbuseRows \/ Persisting
            \/ (World /\ ~Crash /\ ~CrashTorn)
  PROVE  poll'.polls = poll.polls /\ poll'.gen = poll.gen
<1>1. CASE AbuseRows
  <2>1. PICK rows : poll' = [poll EXCEPT !.rows = rows]
    BY <1>1 DEF AbuseRows
  <2> QED BY <2>1 DEF Typed, Types, Polls
<1>2. CASE poll' = poll
  BY <1>2
<1> QED BY <1>1, <1>2 DEF Issue, IssueOld, IssueFresh, ProviderMakes, IssueDone, IssueFails,
      Revoke, ProviderRevokes, RevokeDone, RevokeFails, Flushed, SweepNext, RetryStarts, RetryNext,
      AbuseAsks, AbuseAskFails, Persisting, World, LockEngages, LockAnswered, MonthTurns,
      Stops, StopFlushes, Exits, Relays, Ages

Raises == books'.cf >= books.cf
MonthOf == spent'["month"] = 0 => Volumes'

LEMMA VolumesPoll ==
  ASSUME Typed, Typed', Chained, Next, Volumes,
         NEW p \in poll.polls, GlobalLowerBound(p) \/ GlobalTotal(p)
  PROVE  MonthOf /\ Raises
<1>0. /\ Types /\ WritesOn /\ books \in Books /\ books' \in Books /\ books.cf \in Nat /\ books.month = 0
      /\ poll.gen \in Nat /\ \A q \in poll.polls : q.gen \in Nat /\ q.gen <= poll.gen /\ q.read \in Int
      /\ poll \in Polls /\ books.cf <= cf.total /\ p.read <= cf.total /\ cf.total \in Nat
      /\ p.gen = poll.gen /\ p.all /\ p.read >= 0 => p.read >= books.cf
      /\ \A q \in poll.polls : q.gen = p.gen => q = p
  BY VolumesFacts, TotalGrows DEF Typed, Types, BooksTyped, Volumes
<1> DEFINE d == IF p.all THEN Reconciled(p.read) ELSE LowerBound(p.read)
<1>1. /\ p.read \in Nat /\ p.gen = poll.gen /\ Swept(d, books') /\ poll' = Without(p)
  BY <1>0, GlobalEndFacts
<1>2. /\ d.month = Pruned(books).month /\ d.cf = IF p.all THEN p.read ELSE Larger(Pruned(books).cf, p.read)
  BY <1>0, <1>1, ReconciledFacts, LowerBoundFacts
<1>3. Pruned(books).cf = books.cf /\ Pruned(books).month = 0
  BY <1>0, PrunedFacts
<1> HIDE DEF d
<1>4. books'.month = 0 /\ books'.cf = IF p.all THEN p.read ELSE Larger(books.cf, p.read)
  BY <1>1, <1>2, <1>3 DEF Swept
<1>5. books'.cf >= books.cf /\ books'.cf <= cf.total
  BY <1>0, <1>1, <1>4 DEF Larger
<1>6. /\ poll'.polls = poll.polls \ {p} /\ poll'.gen = poll.gen
  BY <1>0, <1>1 DEF Without, Polls
<1>7. ASSUME spent'["month"] = 0 PROVE Volumes'
  <2>1. /\ srv'.month = 0
        /\ \A e \in Copies' : e.month = 0 /\ e.cf <= cf'.total
    BY <1>4, <1>5, <1>7, VolumesMove
  <2>2. cf'.total \in Nat /\ cf'.total >= cf.total
    BY <1>7, TotalGrows, NoTurn
  <2>3. ASSUME NEW q \in poll'.polls
        PROVE  /\ q.gen <= poll'.gen /\ q.read <= cf'.total /\ q.gen # poll'.gen
    <3>1. q \in poll.polls /\ q # p
      BY <1>6, <2>3
    <3>2. q.read <= cf.total
      BY <3>1 DEF Volumes
    <3> QED BY <1>0, <1>1, <1>6, <2>2, <3>1, <3>2
  <2>4. \A q, r \in poll'.polls : q.gen = r.gen => q = r
    BY <1>6 DEF Volumes
  <2> QED BY <2>1, <2>3, <2>4 DEF Volumes
<1> QED BY <1>5, <1>7 DEF MonthOf, Raises

\* The provider answers with no less than the books have counted.
LEMMA VolumesAnswer ==
  ASSUME Typed, Typed', Chained, Next, Volumes, NEW p \in poll.polls, ProviderCounts(p)
  PROVE  MonthOf /\ Raises
<1>0. /\ books.cf \in Nat /\ books.month = 0 /\ books.cf <= cf.total /\ cf.total \in Nat /\ poll \in Polls
      /\ p \in GlobalPolls
  BY VolumesFacts, TotalGrows DEF Typed, Types
<1>1. books' = books
  BY DEF ProviderCounts, persistVars
<1>2. PICK n \in 0 .. cf.total, all \in BOOLEAN :
         /\ all => n = cf.total
         /\ poll' = [Without(p) EXCEPT !.polls = @ \cup {[p EXCEPT !.read = n, !.all = all]}]
  BY DEF ProviderCounts
<1> DEFINE a == [p EXCEPT !.read = n, !.all = all]
<1>3. a.gen = p.gen /\ a.read = n /\ a.all = all
  BY <1>0 DEF GlobalPolls
<1> HIDE DEF a
<1>4. poll'.polls = (poll.polls \ {p}) \cup {a} /\ poll'.gen = poll.gen
  BY <1>0, <1>2 DEF Without, Polls, a
<1>5. ASSUME spent'["month"] = 0 PROVE Volumes'
  <2>1. /\ srv'.month = 0
        /\ \A e \in Copies' : e.month = 0 /\ e.cf <= cf'.total
    BY <1>0, <1>1, <1>5, VolumesMove
  <2>2. cf'.total \in Nat /\ cf'.total >= cf.total
    BY <1>5, TotalGrows, NoTurn
  <2>3. ASSUME NEW q \in poll'.polls
        PROVE  /\ q.gen <= poll'.gen /\ q.read <= cf'.total
               /\ q.gen = poll'.gen /\ q.all /\ q.read >= 0 => q.read >= books'.cf
    <3>1. CASE q = a
      <4>1. p.gen <= poll.gen
        BY DEF Volumes
      <4> QED BY <1>0, <1>1, <1>2, <1>3, <1>4, <2>2, <3>1, <4>1
    <3>2. CASE q \in poll.polls
      <4>1. /\ q.gen <= poll.gen /\ q.read <= cf.total /\ q.read \in Int
            /\ q.gen = poll.gen /\ q.all /\ q.read >= 0 => q.read >= books.cf
        BY <3>2, VolumesFacts DEF Volumes
      <4> QED BY <1>0, <1>1, <1>4, <2>2, <4>1
    <3> QED BY <1>4, <2>3, <3>1, <3>2
  <2>4. \A q, r \in poll'.polls : q.gen = r.gen => q = r
    BY <1>3, <1>4 DEF Volumes
  <2> QED BY <2>1, <2>3, <2>4 DEF Volumes
<1> QED BY <1>0, <1>1, <1>5 DEF MonthOf, Raises

\* A poll that begins overtakes those under way.
LEMMA VolumesAsk ==
  ASSUME Typed, Typed', Chained, Next, Volumes, NEW timer \in BOOLEAN, GlobalAsks(timer)
  PROVE  MonthOf /\ Raises
<1>0. /\ Types /\ WritesOn /\ books.cf \in Nat /\ books.month = 0 /\ books.cf <= cf.total
      /\ cf.total \in Nat /\ poll \in Polls /\ poll.gen \in Nat /\ Rolled(books) = books
      /\ \A q \in poll.polls : q.gen \in Nat /\ q.gen <= poll.gen /\ q.read \in Int /\ q.read <= cf.total
  BY VolumesFacts, TotalGrows DEF Typed, Types, Volumes
<1>1. books' = books
  BY <1>0, GlobalAsksFacts
<1> DEFINE a == [gen |-> poll.gen + 1, timer |-> timer, read |-> -1, all |-> TRUE]
<1>2. a.gen = poll.gen + 1 /\ a.read = -1
  OBVIOUS
<1>3. poll'.polls = poll.polls \cup {a} /\ poll'.gen = poll.gen + 1
  BY <1>0 DEF GlobalAsks, Polls
<1> HIDE DEF a
<1>4. ASSUME spent'["month"] = 0 PROVE Volumes'
  <2>1. /\ srv'.month = 0
        /\ \A e \in Copies' : e.month = 0 /\ e.cf <= cf'.total
    BY <1>0, <1>1, <1>4, VolumesMove
  <2>2. cf'.total \in Nat /\ cf'.total >= cf.total
    BY <1>4, TotalGrows, NoTurn
  <2>3. ASSUME NEW q \in poll'.polls
        PROVE  /\ q.gen <= poll'.gen /\ q.read <= cf'.total
               /\ q.gen = poll'.gen /\ q.all /\ q.read >= 0 => q.read >= books'.cf
    <3>1. CASE q = a
      BY <1>0, <1>2, <1>3, <2>2, <3>1
    <3>2. CASE q \in poll.polls
      BY <1>0, <1>3, <2>2, <3>2
    <3> QED BY <1>3, <2>3, <3>1, <3>2
  <2>4. \A q, r \in poll'.polls : q.gen = r.gen => q = r
    <3>1. \A q \in poll.polls : q.gen # a.gen
      BY <1>0, <1>2
    <3> QED BY <1>3, <3>1 DEF Volumes
  <2> QED BY <2>1, <2>3, <2>4 DEF Volumes
<1> QED BY <1>0, <1>1, <1>4 DEF MonthOf, Raises

LEMMA VolumesCrash ==
  ASSUME Typed, Typed', Chained, Next, Volumes, Crash \/ CrashTorn
  PROVE  MonthOf
<1>0. Types /\ WritesOn /\ srv \in Servers /\ cf.total \in Nat
  BY TotalGrows DEF Typed, Types
<1>1. PICK t \in Books \cup {Torn}, l \in BOOLEAN \cup {Torn} :
         Restarts([turn |-> t, locks |-> l]) /\ t \in Left("turn") \cup {Torn}
  BY <1>0, CrashFacts
<1>2. books' = IF t = Torn THEN EmptyBooks(srv.month) ELSE Rolled(t)
  BY <1>0, <1>1, RestartsFacts
<1>3. poll'.polls = {}
  BY <1>1 DEF Restarts, NoPoll
<1>4. books'.month = 0 /\ books'.cf <= cf.total
  <2>1. CASE t = Torn
    BY <1>0, <1>2, <2>1 DEF EmptyBooks, Volumes
  <2>2. CASE t # Torn
    <3>1. t \in Copies /\ t \in Books
      BY <1>1, <2>2 DEF Left, Copies, On, Snap
    <3>2. t.month = 0 /\ t.cf <= cf.total /\ srv.month = 0
      BY <3>1 DEF Volumes
    <3>3. Rolled(t) = t
      BY <1>0, <3>1, <3>2, RolledFacts
    <3> QED BY <1>2, <2>2, <3>2, <3>3
  <2> QED BY <2>1, <2>2
<1>5. ASSUME spent'["month"] = 0 PROVE Volumes'
  <2>1. /\ srv'.month = 0
        /\ \A e \in Copies' : e.month = 0 /\ e.cf <= cf'.total
    BY <1>4, <1>5, VolumesMove
  <2> QED BY <1>3, <2>1 DEF Volumes
<1> QED BY <1>5 DEF MonthOf

LEMMA VolumesStep ==
  ASSUME Typed, Typed', Chained, Next, Volumes
  PROVE  MonthOf /\ (Crash \/ CrashTorn \/ Raises)
<1>0. books.cf \in Nat /\ books.month = srv.month
  BY VolumesFacts DEF Volumes
<1>1. CASE Issue \/ Revoke \/ AbuseAsks \/ AbuseAskFails \/ AbuseRows \/ Persisting
              \/ (World /\ ~Crash /\ ~CrashTorn)
  <2>1. books'.cf = books.cf /\ books'.month = books.month
    BY <1>0, <1>1, VolumeStays
  <2>2. poll'.polls = poll.polls /\ poll'.gen = poll.gen
    BY <1>1, PollsStay
  <2>3. MonthOf
    BY <2>1, <2>2, VolumesKept DEF MonthOf
  <2> QED BY <1>0, <2>1, <2>3 DEF Raises
<1>2. ASSUME NEW p \in poll.polls, GlobalStale(p) \/ GlobalFails(p) PROVE MonthOf /\ Raises
  <2>1. books' = books /\ poll' = Without(p)
    BY <1>2 DEF GlobalStale, GlobalFails, persistVars
  <2>2. poll'.polls \subseteq poll.polls /\ poll'.gen = poll.gen
    BY <2>1 DEF Without, Typed, Types, Polls
  <2>3. MonthOf
    BY <2>1, <2>2, VolumesKept DEF MonthOf
  <2> QED BY <1>0, <2>1, <2>3 DEF Raises
<1>3. CASE Poll
  BY <1>1, <1>2, <1>3, VolumesPoll, VolumesAnswer, VolumesAsk DEF Poll
<1>4. CASE Crash \/ CrashTorn
  BY <1>4, VolumesCrash
<1> QED BY <1>1, <1>3, <1>4 DEF Next

LEMMA VolumesNext ==
  ASSUME Typed, Chained, spent["month"] = 0 => Volumes, [Next]_vars
  PROVE  (spent["month"] = 0 => Volumes)'
<1>1. CASE UNCHANGED vars
  <2>1. UNCHANGED <<books, file, disk, spent, cf, srv, poll>>
    BY <1>1 DEF vars, persistVars
  <2>2. Copies' = Copies
    BY <2>1 DEF Copies, On, Snap
  <2> QED BY <2>1, <2>2 DEF Volumes
<1>2. CASE Next
  <2>1. SUFFICES ASSUME spent'["month"] = 0 PROVE Volumes'
    OBVIOUS
  <2>2. spent["month"] \in Nat /\ spent'["month"] >= spent["month"] /\ "month" \in Disturbance
    BY SpentGrows DEF Disturbance, Typed, Types
  <2>3. Volumes /\ Typed'
    BY <1>2, <2>1, <2>2, TypedNext
  <2> QED BY <1>2, <2>1, <2>3, VolumesStep DEF MonthOf
<1> QED BY <1>1, <1>2

LEMMA VolumesInit ==
  ASSUME Init
  PROVE  Volumes
<1>1. /\ books = EmptyBooks(0) /\ disk = [turn |-> EmptyBooks(0), locks |-> FALSE]
      /\ srv.month = 0 /\ cf.total = 0 /\ poll.polls = {} /\ ~file["turn"].write.on
  BY FileNames DEF Init, Clean, NoWrite, NoPoll
<1>2. Copies = {EmptyBooks(0)}
  BY <1>1, TypesInit, TornAssumption DEF Copies, On, Typed, Types, BooksTyped
<1> QED BY <1>1, <1>2 DEF Volumes, EmptyBooks

\* A crash is a restart.
LEMMA CrashRestarts ==
  ASSUME Typed, Crash \/ CrashTorn
  PROVE  Restarted
<1>1. "crash" \in Disturbance /\ "torn" \in Disturbance /\ spent \in [Disturbance -> Nat]
  BY DEF Disturbance, Typed, Types
<1>2. Crash => spent'["crash"] = spent["crash"] + 1
  BY <1>1, SpendFacts DEF Crash
<1>3. CrashTorn => spent'["torn"] = spent["torn"] + 1
  BY <1>1, SpendFacts DEF CrashTorn
<1>4. spent["crash"] \in Nat /\ spent["torn"] \in Nat
  BY <1>1
<1> QED BY <1>2, <1>3, <1>4 DEF Restarted

\* Confirmed usage is not forgotten.  Within a month no poll lowers the volume, whichever order
\* the answers arrive in, as only the newest may and the provider answered it last; and without
\* the sweep the bytes of an entry that is gone are in the hourly ledger of the address, unless
\* the session's own next credential took its place or the entry was a reservation that was
\* rolled back: an entry is settled before it is due for a revoke, and what is settled is in the
\* ledger of every copy of the books (turn.ts globalPollGeneration, settleCredentialUsage,
\* pruneActiveCredentials, retryPendingRevokes, handleAbusiveCredential).
THEOREM UsageIsNotForgotten == Spec => UsageIsKept
<1> DEFINE Inv == /\ Typed /\ Chained /\ (~srv.policy => OnTheBooks /\ Synced)
                  /\ (~srv.policy => Uses) /\ (spent["month"] = 0 => Volumes)
           Recalled ==
                   ~Restarted =>
                     /\ spent["month"] = 0 => books'.cf >= books.cf
                     /\ \A c \in Cid :
                          LET e == books.active[c]
                          IN  /\ e.actual > 0 /\ cred.issue[c].rid # e.rid /\ ~srv.policy
                              /\ books'.active[c].rid = 0
                              => \E n \in 1 .. e.actual : <<e.rid, n>> \in books'.ledger
<1>1. Init => Inv
  BY TypesInit, ChainedInit, BooksInit, UsesInit, VolumesInit
<1>2. Inv /\ [Next]_vars => Inv'
  BY TypedNext, ChainedNext, BooksNext, UsesNext, VolumesNext
<1>3. Inv /\ [Next]_vars => [Recalled]_vars
  <2>1. SUFFICES ASSUME Inv, Next, ~Restarted
                 PROVE  /\ spent["month"] = 0 => Raises
                        /\ ~srv.policy => NoLoss
    BY DEF Raises, NoLoss, InLedger
  <2>2. Typed' /\ ~Crash /\ ~CrashTorn
    BY <2>1, TypedNext, CrashRestarts
  <2>3. spent["month"] = 0 => Raises
    BY <2>1, <2>2, VolumesStep
  <2>4. ~srv.policy => NoLoss
    BY <2>1, <2>2, UsesIssue, UsesRevoke, UsesPoll, UsesWorld DEF Next
  <2> QED BY <2>3, <2>4
<1> QED BY <1>1, <1>2, <1>3, PTL DEF Spec, UsageIsKept

=============================================================================
