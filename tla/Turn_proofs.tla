---------------------------- MODULE Turn_proofs ----------------------------
(***************************************************************************)
(* Types of the TURN service, and its kill switch, for every value of the  *)
(* constants.                                                              *)
(*                                                                         *)
(* TypeOK is not inductive: that the snapshot of a write under way may go  *)
(* to disk, that the step after an await finds its session and its         *)
(* reservation, and that a poll's rows are numbers, are parts of Typed.    *)
(* The lemmas named ...Facts say of one operator or action what the        *)
(* proofs of this module and the modules that extend it need of it.        *)
(***************************************************************************)
EXTENDS Turn, FiniteSums_proofs

(***************************************************************************)
(* Types.                                                                  *)
(***************************************************************************)

Snapshot == Books \cup BOOLEAN \cup {Torn}
FileState ==
    [load : {"ok", "failed"}, dirty : BOOLEAN, chain : Seq(Caller \cup {Tick}),
     write : [on : BOOLEAN, snap : Snapshot]]
Files == [File -> FileState]
Flushes == [Caller -> [at : {"off", "turn", "locks", "end"}, ok : BOOLEAN]]
WorkState ==
    [at : {"idle", "ask", "rows", "flush", "revoke", "heard", "note"},
     c : Cid \cup {NoCid}, todo : SUBSET Cid, old : SUBSET Cid]
Works == [Revoker -> WorkState]
Creds ==
    [last : Rid \cup {0}, seen : SUBSET Cid, dead : SUBSET Cid, cache : [Cid -> Rid \cup {0}],
     issue : [Cid -> [rid : Rid \cup {0}, made : BOOLEAN]], held : SUBSET Rid, lost : SUBSET Rid]
GlobalPolls == [gen : Nat, timer : BOOLEAN, read : Nat \cup {-1}, all : BOOLEAN]
Polls == [gen : Nat, polls : SUBSET GlobalPolls, rows : [Cid -> Nat]]
Providers ==
    [live : SUBSET Rid, owner : [Rid -> Cid \cup {NoCid}], usage : [Cid -> Nat], total : Nat,
     struck : SUBSET (Principal \X Revoker)]
Servers ==
    [at : {"up", "draining", "flushing", "late", "last", "clean", "failed"}, month : Nat,
     policy : BOOLEAN, told : BOOLEAN]

\* A write under way writes a snapshot of its own file.
Fitting(fs) ==
    /\ fs["turn"].write.on => fs["turn"].write.snap \in Books
    /\ fs["locks"].write.on => fs["locks"].write.snap \in BOOLEAN

BooksTyped == books \in Books /\ locks \in BOOLEAN
DiskTyped ==
    /\ disk \in [File -> Snapshot]
    /\ disk["turn"] \in Books \cup {Torn} /\ disk["locks"] \in BOOLEAN
FileTyped == file \in Files /\ Fitting(file)
WorkFine(ws) ==
    /\ ws \in Works
    /\ \A a \in Revoker :
          ws[a].at \in {"revoke", "heard"} \/ (a = "abuse" /\ ws[a].at = "flush") => ws[a].c \in Cid
WorkTyped == WorkFine(work)
CredTyped == cred \in Creds /\ \A c \in Cid : cred.issue[c].made => cred.issue[c].rid # 0

Types ==
    /\ BooksTyped /\ DiskTyped /\ FileTyped /\ sec \in Flushes /\ spent \in [Disturbance -> Nat]
    /\ WorkTyped /\ CredTyped /\ poll \in Polls /\ cf \in Providers /\ srv \in Servers

(***************************************************************************)
(* What the operators on the books do.                                     *)
(***************************************************************************)

LEMMA BooksFields ==
  ASSUME NEW b \in Books
  PROVE  /\ b = [active |-> b.active, issues |-> b.issues, ledger |-> b.ledger, deny |-> b.deny,
                 pess |-> b.pess, cf |-> b.cf, kill |-> b.kill, month |-> b.month]
         /\ b.active \in [Cid -> Entries] /\ b.issues \in SUBSET Rid
         /\ b.ledger \in SUBSET (Rid \X Nat) /\ b.deny \in SUBSET Denial
         /\ b.pess \in Nat /\ b.cf \in Nat /\ b.kill \in BOOLEAN /\ b.month \in Nat
BY DEF Books

LEMMA BooksMade ==
  ASSUME NEW active \in [Cid -> Entries], NEW issues \in SUBSET Rid,
         NEW ledger \in SUBSET (Rid \X Nat), NEW deny \in SUBSET Denial,
         NEW pess \in Nat, NEW volume \in Nat, NEW kill \in BOOLEAN, NEW month \in Nat
  PROVE  [active |-> active, issues |-> issues, ledger |-> ledger, deny |-> deny,
          pess |-> pess, cf |-> volume, kill |-> kill, month |-> month] \in Books
BY DEF Books

\* A new month leaves entries and denials alone.
LEMMA RolledFacts ==
  ASSUME NEW b \in Books, srv \in Servers
  PROVE  /\ Rolled(b) \in Books
         /\ Rolled(b).active = b.active /\ Rolled(b).deny = b.deny
         /\ Rolled(b).issues = b.issues /\ Rolled(b).ledger = b.ledger
         /\ Rolled(b) = b \/ (Rolled(b).pess = 0 /\ Rolled(b).cf = 0)
         /\ b.month = srv.month => Rolled(b) = b
         /\ Rolled(b).month = srv.month
<1>1. CASE b.month = srv.month
  BY <1>1 DEF Rolled
<1>2. CASE b.month # srv.month
  <2>2. PICK m \in Nat : m = srv.month
    BY DEF Servers
  <2>0. Rolled(b) = [b EXCEPT !.pess = 0, !.cf = 0, !.kill = FALSE, !.month = m]
    BY <1>2, <2>2 DEF Rolled
  <2>1. Rolled(b) = [active |-> b.active, issues |-> b.issues, ledger |-> b.ledger, deny |-> b.deny,
                     pess |-> 0, cf |-> 0, kill |-> FALSE, month |-> m]
    BY <2>0 DEF Books
  <2>3. Rolled(b) \in Books
    <3>1. \A k \in BOOLEAN :
             [active |-> b.active, issues |-> b.issues, ledger |-> b.ledger, deny |-> b.deny,
              pess |-> 0, cf |-> 0, kill |-> k, month |-> m] \in Books
      BY <2>2, BooksFields, BooksMade
    <3> QED BY <2>1, <3>1
  <2> QED BY <1>2, <2>1, <2>2, <2>3
<1> QED BY <1>1, <1>2

\* Settling touches the ledger and the settled flag only.
LEMMA SettledFacts ==
  ASSUME NEW b \in Books, NEW S \in SUBSET Cid
  PROVE  /\ Settled(b, S) \in Books
         /\ \A c \in Cid :
               /\ Settled(b, S).active[c].rid = b.active[c].rid
               /\ Settled(b, S).active[c].age = b.active[c].age
               /\ Settled(b, S).active[c].bytes = b.active[c].bytes
               /\ Settled(b, S).active[c].actual = b.active[c].actual
               /\ Settled(b, S).active[c].pending = b.active[c].pending
         /\ Settled(b, S).deny = b.deny /\ Settled(b, S).issues = b.issues
         /\ Settled(b, S).pess = b.pess /\ Settled(b, S).cf = b.cf
         /\ Settled(b, S).kill = b.kill /\ Settled(b, S).month = b.month
<1> DEFINE due == {c \in S \cap Active(b) : ~b.active[c].settled}
           old == {<<b.active[c].rid, b.active[c].actual>> : c \in {d \in due : b.active[d].actual > 0}}
           act == [c \in Cid |-> IF c \in due THEN [b.active[c] EXCEPT !.settled = TRUE] ELSE b.active[c]]
<1>0. b.active \in [Cid -> Entries] /\ b.ledger \in SUBSET (Rid \X Nat)
  BY DEF Books
<1>1. Settled(b, S) = [b EXCEPT !.ledger = b.ledger \cup old, !.active = act]
  BY <1>0 DEF Settled, Books
<1>2. old \in SUBSET (Rid \X Nat)
  <2>1. \A c \in due : b.active[c].rid \in Rid /\ b.active[c].actual \in Nat
    BY <1>0 DEF Active, Entries
  <2> QED BY <2>1
<1>3. act \in [Cid -> Entries]
  BY <1>0 DEF Entries
<1>4. \A c \in Cid : /\ act[c].rid = b.active[c].rid /\ act[c].age = b.active[c].age
                     /\ act[c].bytes = b.active[c].bytes /\ act[c].actual = b.active[c].actual
                     /\ act[c].pending = b.active[c].pending
  BY <1>0 DEF Entries
<1> HIDE DEF act, old
<1>6. Settled(b, S) = [active |-> act, issues |-> b.issues, ledger |-> b.ledger \cup old, deny |-> b.deny,
                       pess |-> b.pess, cf |-> b.cf, kill |-> b.kill, month |-> b.month]
  BY <1>1 DEF Books
<1>5. Settled(b, S) \in Books
  <2>1. b.ledger \cup old \in SUBSET (Rid \X Nat)
    BY <1>0, <1>2
  <2> QED BY <1>6, <2>1, <1>3, BooksFields, BooksMade
<1> QED BY <1>4, <1>5, <1>6

LEMMA NoEntryType == NoEntry \in Entries
BY DEF NoEntry, Entries

LEMMA EmptyBooksFacts ==
  ASSUME NEW m \in Nat
  PROVE  EmptyBooks(m) \in Books
BY NoEntryType, BooksMade DEF EmptyBooks

LEMMA DroppedFacts ==
  ASSUME NEW b \in Books, NEW S \in SUBSET Cid
  PROVE  /\ Dropped(b, S) \in Books
         /\ Dropped(b, S).active = [c \in Cid |-> IF c \in S THEN NoEntry ELSE b.active[c]]
         /\ Dropped(b, S).deny = b.deny /\ Dropped(b, S).issues = b.issues
         /\ Dropped(b, S).pess = b.pess /\ Dropped(b, S).cf = b.cf /\ Dropped(b, S).ledger = b.ledger
         /\ Dropped(b, S).kill = b.kill /\ Dropped(b, S).month = b.month
BY NoEntryType DEF Dropped, Books

LEMMA PrunedFacts ==
  ASSUME NEW b \in Books
  PROVE  /\ Pruned(b) \in Books
         /\ \A c \in Cid :
               IF c \in Expired(b) THEN Pruned(b).active[c] = NoEntry
               ELSE /\ Pruned(b).active[c].rid = b.active[c].rid
                    /\ Pruned(b).active[c].age = b.active[c].age
                    /\ Pruned(b).active[c].bytes = b.active[c].bytes
                    /\ Pruned(b).active[c].pending = b.active[c].pending
         /\ Pruned(b).deny = b.deny /\ Pruned(b).issues = b.issues
         /\ Pruned(b).pess = b.pess /\ Pruned(b).cf = b.cf
         /\ Pruned(b).kill = b.kill /\ Pruned(b).month = b.month
<1> DEFINE E == Expired(b)
           d == Settled(b, E)
<1>1. E \in SUBSET Cid
  BY DEF Expired, Active
<1>2. Pruned(b) = Dropped(d, E)
  BY DEF Pruned
<1> HIDE DEF E
<1>3. /\ d \in Books
      /\ \A c \in Cid : /\ d.active[c].rid = b.active[c].rid
                        /\ d.active[c].age = b.active[c].age
                        /\ d.active[c].bytes = b.active[c].bytes
                        /\ d.active[c].pending = b.active[c].pending
      /\ d.deny = b.deny /\ d.issues = b.issues /\ d.pess = b.pess
      /\ d.cf = b.cf /\ d.kill = b.kill /\ d.month = b.month
  BY <1>1, SettledFacts
<1> HIDE DEF d
<1>4. /\ Dropped(d, E) \in Books
      /\ Dropped(d, E).active = [c \in Cid |-> IF c \in E THEN NoEntry ELSE d.active[c]]
      /\ Dropped(d, E).deny = d.deny /\ Dropped(d, E).issues = d.issues
      /\ Dropped(d, E).pess = d.pess /\ Dropped(d, E).cf = d.cf
      /\ Dropped(d, E).kill = d.kill /\ Dropped(d, E).month = d.month
  BY <1>1, <1>3, DroppedFacts
<1> QED BY <1>2, <1>3, <1>4 DEF E

LEMMA LargerFacts ==
  ASSUME NEW x \in Int, NEW y \in Int
  PROVE  Larger(x, y) \in {x, y} /\ Larger(x, y) >= x /\ Larger(x, y) >= y
BY DEF Larger

LEMMA RaiseFacts ==
  ASSUME NEW b \in Books, NEW S \in SUBSET Cid, NEW rows \in [Cid -> Nat]
  PROVE  /\ Raise(b, S, rows) \in [Cid -> Nat] /\ \A c \in Cid \ S : Raise(b, S, rows)[c] = 0
         /\ SumFunctionOnSet(Raise(b, S, rows), Cid) \in Nat
<1>1. \A c \in Cid : Larger(0, rows[c] - b.active[c].bytes) \in Nat
  BY LargerFacts DEF Books, Entries
<1>2. Raise(b, S, rows) \in [Cid -> Nat] /\ \A c \in Cid \ S : Raise(b, S, rows)[c] = 0
  BY <1>1 DEF Raise
<1> QED BY <1>2, SumType, FiniteAssumption

\* The rows of the usage poll add to the estimate what they add to the entries.
LEMMA WithRowsFacts ==
  ASSUME NEW b \in Books, NEW S \in SUBSET Cid, NEW rows \in [Cid -> Nat]
  PROVE  /\ WithRows(b, S, rows) \in Books
         /\ \A c \in Cid :
               /\ WithRows(b, S, rows).active[c].rid = b.active[c].rid
               /\ WithRows(b, S, rows).active[c].age = b.active[c].age
               /\ WithRows(b, S, rows).active[c].pending = b.active[c].pending
               /\ WithRows(b, S, rows).active[c].bytes = b.active[c].bytes + Raise(b, S, rows)[c]
         /\ WithRows(b, S, rows).deny = b.deny /\ WithRows(b, S, rows).issues = b.issues
         /\ WithRows(b, S, rows).cf = b.cf /\ WithRows(b, S, rows).kill = b.kill
         /\ WithRows(b, S, rows).month = b.month
         /\ WithRows(b, S, rows).pess = b.pess + SumFunctionOnSet(Raise(b, S, rows), Cid)
<1> DEFINE raise == Raise(b, S, rows)
           sum == SumFunctionOnSet(raise, Cid)
           act == Raised(b, S, rows)
<1>1. raise \in [Cid -> Nat] /\ sum \in Nat /\ \A c \in Cid \ S : raise[c] = 0
  BY RaiseFacts
<1>2. WithRows(b, S, rows) = [b EXCEPT !.active = act, !.pess = b.pess + sum]
  BY DEF WithRows
<1>3. b.active \in [Cid -> Entries] /\ b.pess \in Nat
  BY DEF Books
<1>4. ASSUME NEW c \in Cid
      PROVE  /\ act[c] \in Entries
             /\ act[c].rid = b.active[c].rid /\ act[c].age = b.active[c].age
             /\ act[c].pending = b.active[c].pending /\ act[c].bytes = b.active[c].bytes + raise[c]
  <2>1. b.active[c] \in Entries /\ raise[c] \in Nat
    BY <1>1, <1>3
  <2>2. PICK n \in Nat : n = b.active[c].bytes + raise[c]
    BY <2>1 DEF Entries
  <2>3. act[c] = IF c \in S THEN [b.active[c] EXCEPT !.actual = rows[c], !.bytes = n] ELSE b.active[c]
    BY <2>1, <2>2 DEF Raised, Entries
  <2>4. c \notin S => n = b.active[c].bytes
    BY <1>1, <2>1, <2>2 DEF Entries
  <2> HIDE DEF act, raise
  <2>5. rows[c] \in Nat
    OBVIOUS
  <2> QED BY <2>1, <2>2, <2>3, <2>4, <2>5 DEF Entries
<1>5. act \in [Cid -> Entries]
  BY <1>4 DEF Raised
<1>6. \A c \in Cid :
         /\ act[c].rid = b.active[c].rid /\ act[c].age = b.active[c].age
         /\ act[c].pending = b.active[c].pending /\ act[c].bytes = b.active[c].bytes + raise[c]
  BY <1>4
<1> HIDE DEF act, raise, sum
<1>8. WithRows(b, S, rows) =
         [active |-> act, issues |-> b.issues, ledger |-> b.ledger, deny |-> b.deny,
          pess |-> b.pess + sum, cf |-> b.cf, kill |-> b.kill, month |-> b.month]
  BY <1>2 DEF Books
<1>7. WithRows(b, S, rows) \in Books
  <2>1. b.pess + sum \in Nat
    BY <1>1, <1>3
  <2>2. PICK n \in Nat : n = b.pess + sum
    BY <2>1
  <2>3. [active |-> act, issues |-> b.issues, ledger |-> b.ledger, deny |-> b.deny,
         pess |-> n, cf |-> b.cf, kill |-> b.kill, month |-> b.month] \in Books
    BY <1>5, BooksFields, BooksMade
  <2> QED BY <1>8, <2>2, <2>3
<1> QED BY <1>6, <1>7, <1>8 DEF raise, sum

\* A session is banned: its entry stays, and is due for a revoke.
LEMMA WithDenyFacts ==
  ASSUME NEW b \in Books, NEW c \in Cid
  PROVE  /\ WithDeny(b, c) = [b EXCEPT !.deny = WithDeny(b, c).deny]
         /\ WithDeny(b, c).deny \in SUBSET Denial
         /\ \A p \in Principal : DeniedOn(b, p) => DeniedOn(WithDeny(b, c), p)
         /\ DeniedOn(WithDeny(b, c), PrincipalOf[c])
<1> DEFINE i == IpOf[c]
           p == PrincipalOf[c]
           kept == {d \in b.deny : <<d[1], d[2]>> # <<"principal", p>>}
           deny == kept \cup {<<"principal", p, i>>, <<"cid", c, i>>}
           strikes == Cardinality({d \in deny : d[1] = "principal" /\ d[3] = i})
           ips == IF strikes >= Strikes THEN {<<"ip", i, i>>} ELSE {}
<1>1. WithDeny(b, c) = [b EXCEPT !.deny = deny \cup ips]
  BY DEF WithDeny
<1>2. i \in Ip /\ p \in Principal
  BY OwnerAssumption
<1>3. ips \in SUBSET Denial
  BY <1>2 DEF Denial
<1> HIDE DEF ips
<1>4. b.deny \in SUBSET Denial
  BY DEF Books
<1>5. deny \in SUBSET Denial
  BY <1>2, <1>4 DEF Denial
<1>6. WithDeny(b, c).deny = deny \cup ips
  BY <1>1 DEF Books
<1>7. \A q \in Principal : \A j : <<"principal", q, j>> \in b.deny /\ q # p => <<"principal", q, j>> \in deny
  OBVIOUS
<1>8. <<"principal", p, i>> \in deny
  OBVIOUS
<1> HIDE DEF deny, i, p
<1> QED BY <1>1, <1>2, <1>3, <1>5, <1>6, <1>7, <1>8 DEF DeniedOn, i, p

LEMMA AbusedFacts ==
  ASSUME NEW b \in Books, NEW c \in Cid
  PROVE  /\ Abused(b, c) \in Books
         /\ \A d \in Cid :
               /\ Abused(b, c).active[d].rid = b.active[d].rid
               /\ Abused(b, c).active[d].age = b.active[d].age
               /\ Abused(b, c).active[d].bytes = b.active[d].bytes
               /\ Abused(b, c).active[d].pending => d = c \/ b.active[d].pending
         /\ Abused(b, c).issues = b.issues /\ Abused(b, c).pess = b.pess /\ Abused(b, c).cf = b.cf
         /\ Abused(b, c).kill = b.kill /\ Abused(b, c).month = b.month
         /\ \A p \in Principal : DeniedOn(b, p) => DeniedOn(Abused(b, c), p)
         /\ DeniedOn(Abused(b, c), PrincipalOf[c])
<1> DEFINE s == Settled(b, {c})
           w == WithDeny(s, c)
           act == [s.active EXCEPT ![c].pending = TRUE]
<1>1. /\ s \in Books
      /\ \A d \in Cid :
            /\ s.active[d].rid = b.active[d].rid /\ s.active[d].age = b.active[d].age
            /\ s.active[d].bytes = b.active[d].bytes /\ s.active[d].pending = b.active[d].pending
      /\ s.deny = b.deny /\ s.issues = b.issues /\ s.pess = b.pess
      /\ s.cf = b.cf /\ s.kill = b.kill /\ s.month = b.month
  <2>1. {c} \in SUBSET Cid
    OBVIOUS
  <2> QED BY <2>1, SettledFacts
<1>2. Abused(b, c) = [w EXCEPT !.active[c].pending = TRUE]
  BY DEF Abused
<1> HIDE DEF s
<1>3. /\ w = [s EXCEPT !.deny = w.deny] /\ w.deny \in SUBSET Denial
      /\ \A p \in Principal : DeniedOn(s, p) => DeniedOn(w, p)
      /\ DeniedOn(w, PrincipalOf[c])
  BY <1>1, WithDenyFacts
<1> HIDE DEF w
<1>4. s.active \in [Cid -> Entries]
  BY <1>1, BooksFields
<1>5. act \in [Cid -> Entries]
  BY <1>4 DEF Entries
<1>6. \A d \in Cid : /\ act[d].rid = s.active[d].rid /\ act[d].age = s.active[d].age
                     /\ act[d].bytes = s.active[d].bytes
                     /\ act[d].pending => d = c \/ s.active[d].pending
  BY <1>4 DEF Entries
<1>7. Abused(b, c) = [active |-> act, issues |-> s.issues, ledger |-> s.ledger, deny |-> w.deny,
                      pess |-> s.pess, cf |-> s.cf, kill |-> s.kill, month |-> s.month]
  <2>1. /\ w \in Books /\ w.active = s.active /\ w.issues = s.issues /\ w.ledger = s.ledger
        /\ w.pess = s.pess /\ w.cf = s.cf /\ w.kill = s.kill /\ w.month = s.month
    BY <1>1, <1>3 DEF Books
  <2>2. Abused(b, c) = [w EXCEPT !.active = act]
    BY <1>2, <2>1 DEF Books
  <2> HIDE DEF act
  <2>3. w = [active |-> w.active, issues |-> w.issues, ledger |-> w.ledger, deny |-> w.deny,
             pess |-> w.pess, cf |-> w.cf, kill |-> w.kill, month |-> w.month]
    BY <2>1, BooksFields
  <2>4. [w EXCEPT !.active = act] =
           [active |-> act, issues |-> w.issues, ledger |-> w.ledger, deny |-> w.deny,
            pess |-> w.pess, cf |-> w.cf, kill |-> w.kill, month |-> w.month]
    BY <2>3
  <2> QED BY <2>1, <2>2, <2>4
<1> HIDE DEF act
<1>8. Abused(b, c) \in Books
  <2>1. /\ s.issues \in SUBSET Rid /\ s.ledger \in SUBSET (Rid \X Nat)
        /\ s.pess \in Nat /\ s.cf \in Nat /\ s.kill \in BOOLEAN /\ s.month \in Nat
    BY <1>1, BooksFields
  <2> QED BY <1>3, <1>5, <1>7, <2>1, BooksMade
<1> QED BY <1>1, <1>3, <1>6, <1>7, <1>8 DEF DeniedOn

(***************************************************************************)
(* What the operators on the files do.                                     *)
(***************************************************************************)

LEMMA FileNames == "turn" \in File /\ "locks" \in File /\ "turn" # "locks"
BY DEF File

\* Nothing is queued, no write begins, and what has to be written still has to be.
Kept(fs, gs) ==
    /\ \A f \in File : gs[f].chain = fs[f].chain /\ gs[f].write = fs[f].write
    /\ fs["turn"].dirty => gs["turn"].dirty

LEMMA MarkedFacts ==
  ASSUME NEW fs \in Files, Fitting(fs)
  PROVE  /\ MarkDirty(fs) \in Files /\ Fitting(MarkDirty(fs)) /\ Kept(fs, MarkDirty(fs))
         /\ \A f \in File : MarkDirty(fs)[f].load = fs[f].load
         /\ MarkDirty(fs)["turn"].dirty
BY DEF MarkDirty, Files, FileState, File, Fitting, Kept

LEMMA QueuedFacts ==
  ASSUME NEW fs \in Files, Fitting(fs), NEW f \in File, NEW w \in Caller \cup {Tick}
  PROVE  /\ Queued(fs, f, w) \in Files /\ Fitting(Queued(fs, f, w))
         /\ Queued(fs, f, w)[f].chain = Append(fs[f].chain, w)
         /\ \A g \in File :
               /\ g # f => /\ Queued(fs, f, w)[g].chain = fs[g].chain
                           /\ Queued(fs, f, w)[g].dirty = fs[g].dirty
               /\ Queued(fs, f, w)[g].write = fs[g].write
               /\ Queued(fs, f, w)[g].load = fs[g].load
<1>1. fs[f] \in FileState /\ Append(fs[f].chain, w) \in Seq(Caller \cup {Tick})
  BY DEF Files, FileState
<1>2. Queued(fs, f, w) = [fs EXCEPT ![f] = [@ EXCEPT !.dirty = FALSE, !.chain = Append(fs[f].chain, w)]]
  BY <1>1 DEF Queued, Files, FileState
<1>3. \A b \in BOOLEAN :
         [fs[f] EXCEPT !.dirty = b, !.chain = Append(fs[f].chain, w)] \in FileState
  BY <1>1 DEF FileState
<1> DEFINE s == [fs[f] EXCEPT !.dirty = FALSE, !.chain = Append(fs[f].chain, w)]
<1>4. s \in FileState /\ s.chain = Append(fs[f].chain, w) /\ s.write = fs[f].write /\ s.load = fs[f].load
  BY <1>1, <1>3 DEF FileState
<1>5. Queued(fs, f, w) = [fs EXCEPT ![f] = s]
  BY <1>2
<1> HIDE DEF s
<1> QED BY <1>4, <1>5 DEF Files, Fitting

LEMMA StartedFacts ==
  ASSUME NEW fs \in Files, Fitting(fs), NEW b \in Books, NEW l \in BOOLEAN
  PROVE  /\ Started(fs, b, l) \in Files /\ Fitting(Started(fs, b, l))
         /\ \A f \in File :
               /\ Started(fs, b, l)[f].chain = fs[f].chain /\ Started(fs, b, l)[f].dirty = fs[f].dirty
               /\ Started(fs, b, l)[f].load = fs[f].load
               /\ Started(fs, b, l)[f].write =
                     IF fs[f].chain = <<>> \/ fs[f].write.on THEN fs[f].write
                     ELSE [on |-> TRUE, snap |-> IF f = "turn" THEN b ELSE l]
<1> DEFINE new(f) == [on |-> TRUE, snap |-> IF f = "turn" THEN b ELSE l]
<1>1. \A f \in File : fs[f] \in FileState /\ new(f) \in [on : BOOLEAN, snap : Snapshot]
  BY DEF Files, Snapshot
<1>2. \A f \in File : /\ [fs[f] EXCEPT !.write = new(f)] \in FileState
                      /\ [fs[f] EXCEPT !.write = new(f)].chain = fs[f].chain
                      /\ [fs[f] EXCEPT !.write = new(f)].dirty = fs[f].dirty
                      /\ [fs[f] EXCEPT !.write = new(f)].load = fs[f].load
                      /\ [fs[f] EXCEPT !.write = new(f)].write = new(f)
  BY <1>1 DEF FileState
<1>3. \A f \in File : Started(fs, b, l)[f] =
         IF fs[f].chain = <<>> \/ fs[f].write.on THEN fs[f] ELSE [fs[f] EXCEPT !.write = new(f)]
  BY DEF Started
<1>4. Started(fs, b, l) \in Files
  BY <1>1, <1>2, <1>3 DEF Started, Files
<1>5. Fitting(Started(fs, b, l))
  <2>1. "turn" \in File /\ "locks" \in File
    BY DEF File
  <2>2. \A f \in File : Started(fs, b, l)[f].write = IF fs[f].chain = <<>> \/ fs[f].write.on THEN fs[f].write ELSE new(f)
    BY <1>2, <1>3
  <2>3. new("turn").snap = b /\ new("locks").snap = l
    OBVIOUS
  <2> HIDE DEF new
  <2> QED BY <2>1, <2>2, <2>3 DEF Fitting
<1> QED BY <1>2, <1>3, <1>4, <1>5

\* The caller w has asked for a security flush: it is queued once, for the books when they
\* are loaded.
Asked(fs, s, w, gs, t) ==
    \E g \in {"turn", "locks", "end"} :
       /\ t = [s EXCEPT ![w] = [at |-> g, ok |-> TRUE]]
       /\ fs["turn"].load = "ok" => g = "turn"
       /\ g = "turn" \/ gs["turn"].dirty = fs["turn"].dirty
       /\ \A f \in File :
             /\ gs[f].chain = IF f = g THEN Append(fs[f].chain, w) ELSE fs[f].chain
             /\ gs[f].write = fs[f].write /\ gs[f].load = fs[f].load

LEMMA SecurityFacts ==
  ASSUME NEW fs \in Files, Fitting(fs), NEW s \in Flushes, NEW w \in Caller
  PROVE  /\ Security(fs, s, w).file \in Files /\ Fitting(Security(fs, s, w).file)
         /\ Security(fs, s, w).sec \in Flushes
         /\ Asked(fs, s, w, Security(fs, s, w).file, Security(fs, s, w).sec)
<1> DEFINE g == IF fs["turn"].load = "ok" THEN "turn" ELSE IF fs["locks"].load = "ok" THEN "locks" ELSE "end"
<1>1. g \in {"turn", "locks", "end"} /\ (fs["turn"].load = "ok" => g = "turn") /\ (g # "end" => g \in File)
  BY DEF File
<1>2. /\ Security(fs, s, w).file = IF g = "end" THEN fs ELSE Queued(fs, g, w)
      /\ Security(fs, s, w).sec = [s EXCEPT ![w] = [at |-> g, ok |-> TRUE]]
  BY DEF Security
<1> HIDE DEF g
<1>3. Security(fs, s, w).sec \in Flushes
  BY <1>1, <1>2 DEF Flushes
<1>4. "end" \notin File
  BY DEF File
<1>5. CASE g = "end"
  BY <1>1, <1>2, <1>3, <1>4, <1>5 DEF Asked
<1>6. CASE g # "end"
  <2>1. /\ Queued(fs, g, w) \in Files /\ Fitting(Queued(fs, g, w))
        /\ Queued(fs, g, w)[g].chain = Append(fs[g].chain, w)
        /\ \A f \in File :
               /\ f # g => /\ Queued(fs, g, w)[f].chain = fs[f].chain
                           /\ Queued(fs, g, w)[f].dirty = fs[f].dirty
               /\ Queued(fs, g, w)[f].write = fs[f].write
               /\ Queued(fs, g, w)[f].load = fs[f].load
    BY <1>1, <1>6, QueuedFacts
  <2>2. Security(fs, s, w).file = Queued(fs, g, w)
    BY <1>2, <1>6
  <2> HIDE DEF g
  <2> DEFINE gs == Security(fs, s, w).file
             t == Security(fs, s, w).sec
  <2>3. t = [s EXCEPT ![w] = [at |-> g, ok |-> TRUE]]
    BY <1>2
  <2>4. /\ gs \in Files /\ Fitting(gs) /\ (g = "turn" \/ gs["turn"].dirty = fs["turn"].dirty)
        /\ \A f \in File :
              /\ gs[f].chain = IF f = g THEN Append(fs[f].chain, w) ELSE fs[f].chain
              /\ gs[f].write = fs[f].write /\ gs[f].load = fs[f].load
    BY <2>1, <2>2, FileNames
  <2>5. t \in Flushes
    BY <1>3
  <2> HIDE DEF gs, t
  <2>6. Asked(fs, s, w, gs, t)
    BY <1>1, <2>3, <2>4 DEF Asked
  <2> QED BY <2>4, <2>5, <2>6 DEF gs, t
<1> QED BY <1>5, <1>6

(***************************************************************************)
(* A synchronous stretch of code, and what a step makes of the files.      *)
(***************************************************************************)

Stretch(x) ==
    x \in [b : Books, fs : Files, sec : Flushes, work : Works] /\ Fitting(x.fs)

LEMMA ChangedFacts ==
  ASSUME NEW x, Stretch(x), NEW b \in Books
  PROVE  /\ Stretch(Changed(x, b)) /\ Changed(x, b).b = b
         /\ Changed(x, b).sec = x.sec /\ Changed(x, b).work = x.work
         /\ Kept(x.fs, Changed(x, b).fs)
         /\ \A f \in File : Changed(x, b).fs[f].load = x.fs[f].load
         /\ b # x.b => Changed(x, b).fs["turn"].dirty
<1>1. /\ MarkDirty(x.fs) \in Files /\ Fitting(MarkDirty(x.fs)) /\ Kept(x.fs, MarkDirty(x.fs))
      /\ \A f \in File : MarkDirty(x.fs)[f].load = x.fs[f].load
      /\ MarkDirty(x.fs)["turn"].dirty
  BY MarkedFacts DEF Stretch
<1>2. Kept(x.fs, x.fs)
  BY DEF Kept
<1>3. PICK fs \in {x.fs, MarkDirty(x.fs)} :
         Changed(x, b) = [x EXCEPT !.b = b, !.fs = fs] /\ (b # x.b => fs = MarkDirty(x.fs))
  BY DEF Changed, Stretch
<1> QED BY <1>1, <1>2, <1>3 DEF Stretch

LEMMA FlushingFacts ==
  ASSUME NEW x, Stretch(x), NEW w \in {"abuse", "sweep"}, NEW at \in {"flush", "note"}
  PROVE  /\ Stretch(Flushing(x, w, at)) /\ Flushing(x, w, at).b = x.b
         /\ Flushing(x, w, at).work = [x.work EXCEPT ![w].at = at]
         /\ Asked(x.fs, x.sec, w, Flushing(x, w, at).fs, Flushing(x, w, at).sec)
<1> DEFINE s == Security(x.fs, x.sec, w)
           ws == [x.work EXCEPT ![w].at = at]
<1>1. /\ s.file \in Files /\ Fitting(s.file) /\ s.sec \in Flushes
      /\ Asked(x.fs, x.sec, w, s.file, s.sec)
  <2>1. w \in Caller /\ x.fs \in Files /\ Fitting(x.fs) /\ x.sec \in Flushes
    BY CallerAssumption DEF Stretch
  <2> QED BY <2>1, SecurityFacts
<1>2. Flushing(x, w, at) = [x EXCEPT !.fs = s.file, !.sec = s.sec, !.work = ws]
  BY DEF Flushing, Stretch
<1>3. ws \in Works
  <2>1. x.work \in Works /\ w \in Revoker
    BY DEF Stretch, Revoker
  <2>2. x.work[w] \in WorkState
    BY <2>1 DEF Works
  <2>3. [x.work[w] EXCEPT !.at = at] \in WorkState
    BY <2>2 DEF WorkState
  <2> QED BY <2>1, <2>3 DEF Works
<1> HIDE DEF s, ws
<1>4. Stretch(Flushing(x, w, at)) /\ Flushing(x, w, at).b = x.b /\ Flushing(x, w, at).work = ws
      /\ Flushing(x, w, at).fs = s.file /\ Flushing(x, w, at).sec = s.sec
  BY <1>1, <1>2, <1>3 DEF Stretch
<1> QED BY <1>1, <1>4 DEF ws

\* Books that differ in what the kill switch and its sweep touch.
Swept(b, d) ==
    /\ \A c \in Cid : /\ d.active[c].rid = b.active[c].rid
                      /\ d.active[c].age = b.active[c].age
                      /\ d.active[c].bytes = b.active[c].bytes
                      /\ srv.policy \/ d.active[c].pending = b.active[c].pending
    /\ srv.policy \/ (d.active = b.active /\ d.ledger = b.ledger)
    /\ d.deny = b.deny /\ d.issues = b.issues
    /\ d.pess = b.pess /\ d.cf = b.cf /\ d.month = b.month

\* Marking for the revoke changes nothing but the mark.
LEMMA DueFacts ==
  ASSUME NEW b \in Books, NEW S \in SUBSET Cid
  PROVE  /\ DueForRevoke(b, S) \in Books
         /\ \A c \in Cid :
               /\ DueForRevoke(b, S).active[c].rid = b.active[c].rid
               /\ DueForRevoke(b, S).active[c].age = b.active[c].age
               /\ DueForRevoke(b, S).active[c].bytes = b.active[c].bytes
         /\ srv.policy => Swept(b, DueForRevoke(b, S))
         /\ DueForRevoke(b, S).kill = b.kill
<1> DEFINE act == [c \in Cid |-> IF c \in S THEN [b.active[c] EXCEPT !.pending = TRUE] ELSE b.active[c]]
<1>1. b.active \in [Cid -> Entries]
  BY DEF Books
<1>2. DueForRevoke(b, S) = [b EXCEPT !.active = act]
  BY <1>1 DEF DueForRevoke, Books
<1>3. act \in [Cid -> Entries] /\ \A c \in Cid : /\ act[c].rid = b.active[c].rid
                                                /\ act[c].age = b.active[c].age
                                                /\ act[c].bytes = b.active[c].bytes
  BY <1>1 DEF Entries
<1> HIDE DEF act
<1> QED BY <1>2, <1>3 DEF Books, Swept

\* The kill switch is on once the observed volume has reached the limit; the sweep, if it is
\* the policy, is the only thing it sets off.
LEMMA EvaluatedFacts ==
  ASSUME NEW x, Stretch(x), srv \in Servers
  PROVE  /\ Stretch(Evaluated(x)) /\ Swept(x.b, Evaluated(x).b)
         /\ Observed(x.b) >= Limit => Evaluated(x).b.kill
         /\ \/ /\ Evaluated(x).sec = x.sec /\ Evaluated(x).work = x.work
               /\ Kept(x.fs, Evaluated(x).fs)
               /\ \A f \in File : Evaluated(x).fs[f].load = x.fs[f].load
            \/ /\ srv.policy
               /\ Evaluated(x).work =
                     [x.work EXCEPT !["sweep"].at = "flush", !["sweep"].todo = Active(x.b)]
               /\ \E fs \in Files :
                     /\ Kept(x.fs, fs) /\ \A f \in File : fs[f].load = x.fs[f].load
                     /\ Asked(fs, x.sec, "sweep", Evaluated(x).fs, Evaluated(x).sec)
<1> DEFINE on == [x.b EXCEPT !.kill = TRUE]
<1>1. /\ x.b \in Books /\ x.b.cf \in Nat /\ x.b.pess \in Nat /\ Limit \in Nat
  BY LimitAssumption, BooksFields DEF Stretch
<1>2. ~(Observed(x.b) < Limit) <=> Observed(x.b) >= Limit
  BY <1>1, LargerFacts DEF Observed
<1>3. \A k \in BOOLEAN : [x.b EXCEPT !.kill = k] \in Books
  BY <1>1 DEF Books
<1>4. on \in Books /\ on.kill = TRUE /\ Swept(x.b, on)
  BY <1>1, <1>3 DEF Books, Swept
<1>5. CASE x.b.kill \/ Observed(x.b) < Limit
  <2>1. Evaluated(x) = x
    BY <1>5 DEF Evaluated
  <2> QED BY <1>2, <1>5, <2>1 DEF Kept, Swept
<1>6. CASE ~(x.b.kill \/ Observed(x.b) < Limit) /\ ~srv.policy
  <2>1. Evaluated(x) = Changed(x, on)
    BY <1>6 DEF Evaluated
  <2> HIDE DEF on
  <2> QED BY <1>4, <2>1, ChangedFacts
<1>7. CASE ~(x.b.kill \/ Observed(x.b) < Limit) /\ srv.policy
  <2> DEFINE all == Active(x.b)
             b == Settled(on, all)
             p == DueForRevoke(b, all)
             y == Changed(x, p)
             z == [y EXCEPT !.work["sweep"].todo = all]
  <2>1. Evaluated(x) = Flushing(z, "sweep", "flush")
    BY <1>7 DEF Evaluated
  <2>2. all \in SUBSET Cid
    BY DEF Active
  <2> HIDE DEF all, on
  <2>3. b \in Books /\ b.kill = on.kill /\ Swept(on, b)
    BY <1>4, <1>7, <2>2, SettledFacts DEF Swept
  <2> HIDE DEF b
  <2>5. p \in Books /\ p.kill = b.kill /\ Swept(b, p)
    BY <1>7, <2>2, <2>3, DueFacts
  <2> HIDE DEF p
  <2>6. /\ Stretch(y) /\ y.b = p /\ y.sec = x.sec /\ y.work = x.work /\ Kept(x.fs, y.fs)
        /\ \A f \in File : y.fs[f].load = x.fs[f].load
    BY <2>5, ChangedFacts
  <2> HIDE DEF y
  <2>7. Stretch(z) /\ z.b = p /\ z.sec = x.sec /\ z.fs = y.fs
        /\ z.work = [x.work EXCEPT !["sweep"].todo = all]
    <3>1. [y.work EXCEPT !["sweep"].todo = all] \in Works
      BY <2>2, <2>6 DEF Stretch, Works, WorkState, Revoker
    <3> QED BY <2>6, <3>1 DEF Stretch
  <2> HIDE DEF z
  <2>8. /\ Stretch(Evaluated(x)) /\ Evaluated(x).b = p
        /\ Evaluated(x).work = [z.work EXCEPT !["sweep"].at = "flush"]
        /\ Asked(z.fs, z.sec, "sweep", Evaluated(x).fs, Evaluated(x).sec)
    BY <2>1, <2>7, FlushingFacts
  <2>9. Evaluated(x).work = [x.work EXCEPT !["sweep"].at = "flush", !["sweep"].todo = Active(x.b)]
    BY <2>7, <2>8 DEF Stretch, Works, Revoker, all
  <2>10. y.fs \in Files
    BY <2>6 DEF Stretch
  <2>11. Swept(x.b, p)
    BY <1>4, <1>7, <2>3, <2>5 DEF Swept
  <2> QED BY <1>4, <1>7, <2>3, <2>5, <2>6, <2>7, <2>8, <2>9, <2>10, <2>11
<1> QED BY <1>5, <1>6, <1>7

\* A file's write is under way as long as its chain is not empty.
WritesOn == \A f \in File : file[f].write.on <=> file[f].chain # <<>>

\* What a step makes of the files and the flushes: nothing new is queued, or the caller w
\* asks for a flush, whose first write begins at once when the file's chain is idle.
FilesKept == sec' = sec /\ Kept(file, file')
FilesAsked(w) ==
    \E g \in {"turn", "locks", "end"} :
       /\ sec' = [sec EXCEPT ![w] = [at |-> g, ok |-> TRUE]]
       /\ file["turn"].load = "ok" => g = "turn"
       /\ g = "turn" \/ (file["turn"].dirty => file'["turn"].dirty)
       /\ \A f \in File :
             /\ file'[f].chain = IF f = g THEN Append(file[f].chain, w) ELSE file[f].chain
             /\ file'[f].write =
                   IF f = g /\ file[f].chain = <<>>
                   THEN [on |-> TRUE, snap |-> IF f = "turn" THEN books' ELSE locks']
                   ELSE file[f].write

LEMMA AppendFacts ==
  ASSUME NEW S, NEW q \in Seq(S), NEW v \in S
  PROVE  Append(q, v) \in Seq(S) /\ Append(q, v) # <<>>
<1>1. Append(q, v) \in Seq(S)
  OBVIOUS
<1>2. Len(Append(q, v)) = Len(q) + 1 /\ Len(q) \in Nat
  OBVIOUS
<1>3. Len(<<>>) = 0
  OBVIOUS
<1> QED BY <1>1, <1>2, <1>3

LEMMA BecomesKept ==
  ASSUME NEW x, Stretch(x), locks \in BOOLEAN, WritesOn, Becomes(x),
         x.sec = sec, Kept(file, x.fs)
  PROVE  /\ FilesKept /\ books' = x.b /\ work' = x.work /\ file' \in Files /\ Fitting(file')
         /\ \A f \in File : file'[f].load = x.fs[f].load /\ file'[f].dirty = x.fs[f].dirty
<1>1. /\ books' = x.b /\ work' = x.work /\ sec' = x.sec /\ file' = Started(x.fs, x.b, locks)
  BY DEF Becomes
<1>2. x.fs \in Files /\ Fitting(x.fs) /\ x.b \in Books
  BY DEF Stretch
<1>3. /\ file' \in Files /\ Fitting(file')
      /\ \A f \in File :
            /\ file'[f].chain = x.fs[f].chain /\ file'[f].load = x.fs[f].load
            /\ file'[f].dirty = x.fs[f].dirty
            /\ file'[f].write = IF x.fs[f].chain = <<>> \/ x.fs[f].write.on THEN x.fs[f].write
                                ELSE [on |-> TRUE, snap |-> IF f = "turn" THEN x.b ELSE locks]
  BY <1>1, <1>2, StartedFacts
<1>4. \A f \in File : /\ x.fs[f].chain = file[f].chain /\ x.fs[f].write = file[f].write
                      /\ file[f].write.on <=> file[f].chain # <<>>
  BY DEF Kept, WritesOn
<1>5. ASSUME NEW f \in File
      PROVE  file'[f].chain = file[f].chain /\ file'[f].write = file[f].write
  <2>1. x.fs[f].chain = <<>> \/ x.fs[f].write.on
    BY <1>4
  <2>2. file'[f].chain = x.fs[f].chain /\ file'[f].write = x.fs[f].write
    BY <1>3, <2>1
  <2> QED BY <1>4, <2>2
<1>6. file["turn"].dirty => file'["turn"].dirty
  BY <1>3, FileNames DEF Kept
<1>7. FilesKept
  BY <1>1, <1>5, <1>6 DEF Kept, FilesKept
<1> QED BY <1>1, <1>3, <1>7

\* A security flush is asked for at the end of a synchronous stretch.
LEMMA StartedAsked ==
  ASSUME WritesOn, file \in Files, NEW fs, Kept(file, fs),
         file["turn"].load = "ok" => fs["turn"].load = "ok",
         NEW gs \in Files, Fitting(gs), NEW w \in Caller, Asked(fs, sec, w, gs, sec'),
         books' \in Books, locks' \in BOOLEAN, file' = Started(gs, books', locks')
  PROVE  /\ FilesAsked(w) /\ file' \in Files /\ Fitting(file')
         /\ \A f \in File : file'[f].load = gs[f].load
<1>3. /\ file' \in Files /\ Fitting(file')
      /\ \A f \in File :
            /\ file'[f].chain = gs[f].chain /\ file'[f].load = gs[f].load
            /\ file'[f].dirty = gs[f].dirty
            /\ file'[f].write = IF gs[f].chain = <<>> \/ gs[f].write.on THEN gs[f].write
                                ELSE [on |-> TRUE, snap |-> IF f = "turn" THEN books' ELSE locks']
  BY StartedFacts
<1>4. PICK g \in {"turn", "locks", "end"} :
         /\ sec' = [sec EXCEPT ![w] = [at |-> g, ok |-> TRUE]]
         /\ fs["turn"].load = "ok" => g = "turn"
         /\ g = "turn" \/ gs["turn"].dirty = fs["turn"].dirty
         /\ \A f \in File :
               /\ gs[f].chain = IF f = g THEN Append(fs[f].chain, w) ELSE fs[f].chain
               /\ gs[f].write = fs[f].write /\ gs[f].load = fs[f].load
  BY Zenon DEF Asked
<1>5. \A f \in File : fs[f].chain = file[f].chain /\ fs[f].write = file[f].write
  BY DEF Kept
<1>6. \A f \in File : Append(file[f].chain, w) # <<>>
  <2>1. \A f \in File : file[f].chain \in Seq(Caller \cup {Tick})
    BY DEF Files, FileState
  <2>2. w \in Caller \cup {Tick}
    OBVIOUS
  <2> QED BY <2>1, <2>2, AppendFacts
<1>7. ASSUME NEW f \in File
      PROVE  /\ file'[f].chain = IF f = g THEN Append(file[f].chain, w) ELSE file[f].chain
             /\ file'[f].write =
                   IF f = g /\ file[f].chain = <<>>
                   THEN [on |-> TRUE, snap |-> IF f = "turn" THEN books' ELSE locks']
                   ELSE file[f].write
  <2>1. file[f].write.on <=> file[f].chain # <<>>
    BY DEF WritesOn
  <2>2. f = g => gs[f].chain # <<>>
    BY <1>4, <1>5, <1>6
  <2>3. gs[f].chain = IF f = g THEN Append(file[f].chain, w) ELSE file[f].chain
    BY <1>4, <1>5
  <2>4. gs[f].write = file[f].write
    BY <1>4, <1>5
  <2> QED BY <1>3, <2>1, <2>2, <2>3, <2>4
<1>8. g = "turn" \/ (file["turn"].dirty => file'["turn"].dirty)
  BY <1>3, <1>4, FileNames DEF Kept
<1> QED BY <1>3, <1>4, <1>7, <1>8 DEF FilesAsked

LEMMA BecomesAsked ==
  ASSUME NEW x, Stretch(x), locks \in BOOLEAN, WritesOn, Becomes(x), locks' = locks,
         NEW w \in Caller, NEW fs, Kept(file, fs), file["turn"].load = "ok" => fs["turn"].load = "ok",
         Asked(fs, sec, w, x.fs, x.sec), file \in Files
  PROVE  /\ FilesAsked(w) /\ books' = x.b /\ work' = x.work /\ file' \in Files /\ Fitting(file')
         /\ \A f \in File : file'[f].load = x.fs[f].load
<1>1. /\ books' = x.b /\ work' = x.work /\ sec' = x.sec /\ file' = Started(x.fs, x.b, locks)
  BY DEF Becomes
<1>2. x.fs \in Files /\ Fitting(x.fs) /\ x.b \in Books
  BY DEF Stretch
<1>3. FilesAsked(w) /\ file' \in Files /\ Fitting(file') /\ \A f \in File : file'[f].load = x.fs[f].load
  <2>1. Asked(fs, sec, w, x.fs, sec') /\ books' \in Books /\ locks' \in BOOLEAN
        /\ file' = Started(x.fs, books', locks')
    BY <1>1, <1>2
  <2> QED BY <1>2, <2>1, StartedAsked
<1> QED BY <1>1, <1>3

\* The kill switch is evaluated at the end of a stretch: either it changes nothing of the
\* files and of the revokers, or the sweep is set off and asks for its flush.
LEMMA BecomesEvaluated ==
  ASSUME NEW x, Stretch(x), srv \in Servers, locks \in BOOLEAN, locks' = locks, WritesOn,
         file \in Files, x.sec = sec, Kept(file, x.fs),
         file["turn"].load = "ok" => x.fs["turn"].load = "ok", Becomes(Evaluated(x))
  PROVE  /\ books' \in Books /\ Swept(x.b, books')
         /\ Observed(x.b) >= Limit => books'.kill
         /\ file' \in Files /\ Fitting(file') /\ \A f \in File : file'[f].load = x.fs[f].load
         /\ \/ FilesKept /\ work' = x.work
            \/ /\ srv.policy /\ FilesAsked("sweep")
               /\ work' = [x.work EXCEPT !["sweep"].at = "flush", !["sweep"].todo = Active(x.b)]
         /\ x.fs["turn"].dirty => srv.policy \/ file'["turn"].dirty
<1> DEFINE y == Evaluated(x)
<1>1. /\ Stretch(y) /\ Swept(x.b, y.b)
      /\ Observed(x.b) >= Limit => y.b.kill
      /\ \/ /\ y.sec = x.sec /\ y.work = x.work
            /\ Kept(x.fs, y.fs)
            /\ \A f \in File : y.fs[f].load = x.fs[f].load
         \/ /\ srv.policy
            /\ y.work = [x.work EXCEPT !["sweep"].at = "flush", !["sweep"].todo = Active(x.b)]
            /\ \E fs \in Files :
                  /\ Kept(x.fs, fs) /\ \A f \in File : fs[f].load = x.fs[f].load
                  /\ Asked(fs, x.sec, "sweep", y.fs, y.sec)
  BY EvaluatedFacts
<1>2. Becomes(y)
  OBVIOUS
<1> HIDE DEF y
<1>3. books' = y.b /\ y.b \in Books
  BY <1>1, <1>2 DEF Becomes, Stretch
<1>4. CASE y.sec = x.sec /\ y.work = x.work /\ Kept(x.fs, y.fs)
           /\ \A f \in File : y.fs[f].load = x.fs[f].load
  <2>1. Kept(file, y.fs) /\ y.sec = sec
    BY <1>4 DEF Kept
  <2>2. /\ FilesKept /\ books' = y.b /\ work' = y.work /\ file' \in Files /\ Fitting(file')
        /\ \A f \in File : file'[f].load = y.fs[f].load /\ file'[f].dirty = y.fs[f].dirty
    BY <1>1, <1>2, <2>1, BecomesKept
  <2>3. x.fs["turn"].dirty => file'["turn"].dirty
    BY <1>4, <2>2, FileNames DEF Kept
  <2> QED BY <1>1, <1>3, <1>4, <2>2, <2>3
<1>5. ASSUME srv.policy, NEW fs \in Files, Kept(x.fs, fs), \A f \in File : fs[f].load = x.fs[f].load,
             Asked(fs, x.sec, "sweep", y.fs, y.sec),
             y.work = [x.work EXCEPT !["sweep"].at = "flush", !["sweep"].todo = Active(x.b)]
      PROVE  /\ FilesAsked("sweep") /\ work' = y.work /\ file' \in Files /\ Fitting(file')
             /\ \A f \in File : file'[f].load = x.fs[f].load
  <2>1. Kept(file, fs) /\ "turn" \in File /\ "sweep" \in Caller
    BY <1>5, CallerAssumption DEF Kept, File
  <2>2. /\ FilesAsked("sweep") /\ books' = y.b /\ work' = y.work /\ file' \in Files /\ Fitting(file')
        /\ \A f \in File : file'[f].load = y.fs[f].load
    BY <1>1, <1>2, <1>5, <2>1, BecomesAsked
  <2>3. \A f \in File : y.fs[f].load = fs[f].load
    BY <1>5 DEF Asked
  <2> QED BY <1>5, <2>2, <2>3
<1> QED BY <1>1, <1>3, <1>4, <1>5

(***************************************************************************)
(* What each action does.                                                  *)
(***************************************************************************)

LEMMA SpendFacts ==
  ASSUME spent \in [Disturbance -> Nat], NEW k \in Disturbance, Spend(k)
  PROVE  /\ spent' \in [Disturbance -> Nat] /\ spent'[k] = spent[k] + 1
         /\ \A j \in Disturbance : j # k => spent'[j] = spent[j]
BY DEF Spend

LEMMA UncachedFacts ==
  ASSUME NEW m \in Creds, NEW S \in SUBSET Cid
  PROVE  /\ Uncached(m, S) \in Creds
         /\ Uncached(m, S).issue = m.issue /\ Uncached(m, S).held = m.held /\ Uncached(m, S).lost = m.lost
         /\ Uncached(m, S).last = m.last /\ Uncached(m, S).seen = m.seen /\ Uncached(m, S).dead = m.dead
BY DEF Uncached, Creds

LEMMA NowFacts ==
  ASSUME Types
  PROVE  /\ Stretch(Now) /\ Now.b = books /\ Now.fs = file /\ Now.sec = sec /\ Now.work = work
         /\ Kept(file, Now.fs) /\ srv \in Servers /\ locks \in BOOLEAN /\ file \in Files /\ books \in Books
         /\ cred \in Creds /\ work \in Works
BY DEF Types, BooksTyped, FileTyped, WorkTyped, WorkFine, CredTyped, Stretch, Now, Kept

\* What becomes of the books when nothing but the books change.
LEMMA ChangedNow ==
  ASSUME Types, WritesOn, NEW b \in Books, Becomes(Changed(Now, b))
  PROVE  /\ books' = b /\ FilesKept /\ work' = work /\ file' \in Files /\ Fitting(file')
         /\ \A f \in File : file'[f].load = file[f].load
<1>1. /\ Stretch(Now) /\ Now.fs = file /\ Now.sec = sec /\ Now.work = work
      /\ srv \in Servers /\ locks \in BOOLEAN /\ file \in Files
  BY NowFacts
<1>2. /\ Stretch(Changed(Now, b)) /\ Changed(Now, b).b = b
      /\ Changed(Now, b).sec = Now.sec /\ Changed(Now, b).work = Now.work
      /\ Kept(Now.fs, Changed(Now, b).fs)
      /\ \A f \in File : Changed(Now, b).fs[f].load = Now.fs[f].load
  BY <1>1, ChangedFacts
<1> DEFINE x == Changed(Now, b)
<1> HIDE DEF x
<1>3. /\ FilesKept /\ books' = x.b /\ work' = x.work /\ file' \in Files /\ Fitting(file')
      /\ \A f \in File : file'[f].load = x.fs[f].load
  BY <1>1, <1>2, BecomesKept DEF x
<1> QED BY <1>1, <1>2, <1>3 DEF x

FilesFit ==
    /\ file' \in Files /\ Fitting(file')
    /\ \A f \in File : file[f].load = "ok" => file'[f].load = "ok"

\* What the kill switch may make of the files and of the revokers.
SweptOrKept(ws, b) ==
    \/ FilesKept /\ work' = ws
    \/ /\ srv.policy /\ FilesAsked("sweep")
       /\ work' = [ws EXCEPT !["sweep"].at = "flush", !["sweep"].todo = Active(b)]

LEMMA IssueOldFacts ==
  ASSUME Types, WritesOn, NEW c \in Cid, IssueOld(c)
  PROVE  /\ books' = Pruned(Rolled(books)) /\ books' \in Books
         /\ FilesKept /\ FilesFit /\ work' = work
         /\ cred' \in Creds /\ cred'.issue = cred.issue /\ cred'.held = cred.held /\ cred'.lost = cred.lost /\ cred'.last = cred.last
<1>1. books \in Books /\ srv \in Servers /\ cred \in Creds
  BY NowFacts
<1>2. Pruned(Rolled(books)) \in Books
  BY <1>1, RolledFacts, PrunedFacts
<1>3. /\ books' = Pruned(Rolled(books)) /\ FilesKept /\ work' = work /\ file' \in Files /\ Fitting(file')
      /\ \A f \in File : file'[f].load = file[f].load
  <2> DEFINE b == Pruned(Rolled(books))
  <2>1. Becomes(Changed(Now, b))
    BY DEF IssueOld
  <2> HIDE DEF b
  <2> QED BY <1>2, <2>1, ChangedNow DEF b
<1>4. PICK S \in SUBSET Cid : cred' = [Uncached(cred, S) EXCEPT !.seen = @ \cup {c}]
  <2>1. Expired(books) \cup (IF Reusable(Pruned(Rolled(books)), c) THEN {} ELSE {c}) \in SUBSET Cid
    BY DEF Expired, Active
  <2> QED BY <2>1 DEF IssueOld
<1>5. /\ Uncached(cred, S) \in Creds
      /\ Uncached(cred, S).issue = cred.issue /\ Uncached(cred, S).held = cred.held /\ Uncached(cred, S).lost = cred.lost
      /\ Uncached(cred, S).last = cred.last
  BY <1>1, UncachedFacts
<1>6. /\ cred' \in Creds /\ cred'.issue = cred.issue /\ cred'.held = cred.held /\ cred'.lost = cred.lost /\ cred'.last = cred.last
  <2> DEFINE m == Uncached(cred, S)
  <2>1. cred' = [m EXCEPT !.seen = @ \cup {c}]
    BY <1>4
  <2> HIDE DEF m
  <2> QED BY <1>5, <2>1 DEF Creds, m
<1>7. "turn" \in File
  BY DEF File
<1> QED BY <1>2, <1>3, <1>6, <1>7 DEF FilesFit

\* The reservation.
Reserved(b, c, r) ==
    [b EXCEPT !.active[c] = Entry(r), !.issues = @ \cup {r}, !.pess = @ + 1]

LEMMA ReservedFacts ==
  ASSUME NEW b \in Books, NEW c \in Cid, NEW r \in Rid
  PROVE  /\ Reserved(b, c, r) \in Books
         /\ Reserved(b, c, r).active = [b.active EXCEPT ![c] = Entry(r)]
         /\ Entry(r).rid = r /\ Entry(r).age = "fresh" /\ Entry(r).bytes = 1 /\ ~Entry(r).pending
         /\ Reserved(b, c, r).deny = b.deny /\ Reserved(b, c, r).pess = b.pess + 1
         /\ Reserved(b, c, r).cf = b.cf /\ Reserved(b, c, r).month = b.month
<1>1. PICK no \in BOOLEAN : no = FALSE
  OBVIOUS
<1>2. Entry(r) = [[rid |-> 0, age |-> "fresh", bytes |-> 0, actual |-> 0, settled |-> no, pending |-> no]
                     EXCEPT !.rid = r, !.bytes = 1]
  BY <1>1 DEF Entry, NoEntry
<1>3. Entry(r) \in Entries /\ Entry(r).rid = r /\ Entry(r).age = "fresh" /\ Entry(r).bytes = 1 /\ ~Entry(r).pending
  <2>1. Entry(r) = [rid |-> r, age |-> "fresh", bytes |-> 1, actual |-> 0, settled |-> no, pending |-> no]
    BY <1>2
  <2>2. [rid |-> r, age |-> "fresh", bytes |-> 1, actual |-> 0, settled |-> no, pending |-> no] \in Entries
    BY DEF Entries
  <2> QED BY <1>1, <2>1, <2>2
<1> DEFINE e == Entry(r)
           act == [b.active EXCEPT ![c] = e]
<1>4. Reserved(b, c, r) = [b EXCEPT !.active = act, !.issues = b.issues \cup {r}, !.pess = b.pess + 1]
  BY DEF Reserved, Books
<1> HIDE DEF e
<1>5. act \in [Cid -> Entries]
  BY <1>3, BooksFields DEF e
<1> HIDE DEF act
<1>6. PICK n \in Nat : n = b.pess + 1
  BY BooksFields
<1>7. Reserved(b, c, r) = [active |-> act, issues |-> b.issues \cup {r}, ledger |-> b.ledger,
                           deny |-> b.deny, pess |-> n, cf |-> b.cf, kill |-> b.kill, month |-> b.month]
  BY <1>4, <1>6 DEF Books
<1>8. Reserved(b, c, r) \in Books
  <2>1. b.issues \cup {r} \in SUBSET Rid
    BY BooksFields
  <2> QED BY <1>5, <1>6, <1>7, <2>1, BooksFields, BooksMade
<1> QED BY <1>3, <1>6, <1>7, <1>8 DEF act, e

LEMMA ReservedIssues ==
  ASSUME NEW b \in Books, NEW c \in Cid, NEW r \in Rid
  PROVE  Reserved(b, c, r).issues = b.issues \cup {r}
BY DEF Reserved, Books

LEMMA IssueFreshFacts ==
  ASSUME Types, WritesOn, NEW c \in Cid, IssueFresh(c)
  PROVE  LET b == Pruned(Rolled(books))
             d == Reserved(b, c, cred.last + 1)
         IN  /\ cred.last + 1 \in Rid /\ Fresh(b, c) /\ b \in Books /\ d \in Books
             /\ books' \in Books /\ Swept(d, books') /\ (Observed(d) >= Limit => books'.kill)
             /\ FilesFit /\ SweptOrKept(work, d)
             /\ cred.last + 1 \notin books.issues => srv.policy \/ file'["turn"].dirty
             /\ cred' \in Creds /\ cred'.last = cred.last + 1 /\ cred'.held = cred.held /\ cred'.lost = cred.lost
             /\ cred'.issue = [cred.issue EXCEPT ![c] = [rid |-> cred.last + 1, made |-> FALSE]]
<1> DEFINE b == Pruned(Rolled(books))
           r == cred.last + 1
           d == Reserved(b, c, r)
<1>1. /\ Stretch(Now) /\ Now.fs = file /\ Now.sec = sec /\ Now.work = work
      /\ srv \in Servers /\ locks \in BOOLEAN /\ file \in Files /\ books \in Books /\ cred \in Creds
  BY NowFacts
<1>2. b \in Books
  BY <1>1, RolledFacts, PrunedFacts
<1>3. r \in Rid /\ Fresh(b, c) /\ locks' = locks
  BY DEF IssueFresh
<1>4. Becomes(Evaluated(Changed(Now, d)))
  BY DEF IssueFresh, Reserved
<1>5. cred' = [Uncached(cred, Expired(books) \cup {c}) EXCEPT
                  !.last = r, !.seen = @ \cup {c}, !.issue[c] = [rid |-> r, made |-> FALSE]]
  BY DEF IssueFresh
<1> HIDE DEF b, r
<1>6. d \in Books
  BY <1>2, <1>3, ReservedFacts
<1> HIDE DEF d
<1> DEFINE x == Changed(Now, d)
<1>7. /\ Stretch(x) /\ x.b = d /\ x.sec = sec /\ x.work = work /\ Kept(file, x.fs)
      /\ \A f \in File : x.fs[f].load = file[f].load
      /\ d # books => x.fs["turn"].dirty
  BY <1>1, <1>6, ChangedFacts DEF Now
<1>8. "turn" \in File
  BY DEF File
<1> HIDE DEF x
<1>9. /\ books' \in Books /\ Swept(x.b, books') /\ (Observed(x.b) >= Limit => books'.kill)
      /\ file' \in Files /\ Fitting(file') /\ \A f \in File : file'[f].load = x.fs[f].load
      /\ SweptOrKept(x.work, x.b)
      /\ x.fs["turn"].dirty => srv.policy \/ file'["turn"].dirty
  BY <1>1, <1>3, <1>4, <1>7, <1>8, BecomesEvaluated DEF x, SweptOrKept
<1>10. cred' \in Creds /\ cred'.last = r /\ cred'.held = cred.held /\ cred'.lost = cred.lost
       /\ cred'.issue = [cred.issue EXCEPT ![c] = [rid |-> r, made |-> FALSE]]
  <2> DEFINE S == Expired(books) \cup {c}
             m == Uncached(cred, S)
  <2>1. S \in SUBSET Cid
    BY DEF Expired, Active
  <2> HIDE DEF S
  <2>2. m \in Creds /\ m.issue = cred.issue /\ m.held = cred.held /\ m.lost = cred.lost /\ m.seen \in SUBSET Cid
    BY <1>1, <2>1, UncachedFacts DEF Creds
  <2>3. cred' = [m EXCEPT !.last = r, !.seen = @ \cup {c}, !.issue[c] = [rid |-> r, made |-> FALSE]]
    BY <1>5 DEF S
  <2> HIDE DEF m
  <2>4. PICK no \in BOOLEAN : no = FALSE
    OBVIOUS
  <2>5. [m.issue EXCEPT ![c] = [rid |-> r, made |-> no]] \in [Cid -> [rid : Rid \cup {0}, made : BOOLEAN]]
    BY <1>3, <2>2 DEF Creds
  <2>6. cred' = [m EXCEPT !.last = r, !.seen = m.seen \cup {c}, !.issue = [m.issue EXCEPT ![c] = [rid |-> r, made |-> no]]]
    BY <2>2, <2>3, <2>4 DEF Creds
  <2> QED BY <1>3, <2>2, <2>4, <2>5, <2>6 DEF Creds
<1>11. r \notin books.issues => srv.policy \/ file'["turn"].dirty
  <2>1. Reserved(b, c, r).issues = b.issues \cup {r}
    BY <1>2, <1>3, ReservedIssues
  <2>2. r \notin books.issues => d # books
    BY <2>1 DEF d
  <2> QED BY <1>7, <1>9, <2>2
<1> QED BY <1>2, <1>3, <1>6, <1>7, <1>8, <1>9, <1>10, <1>11 DEF FilesFit, b, r, d

\* The reservation of a call that fails is rolled back.
RolledBack(c) ==
    LET r == cred.issue[c].rid
        own == books.active[c].rid = r
    IN  [books EXCEPT !.active[c] = IF own THEN NoEntry ELSE @,
                      !.issues = @ \ {r}, !.pess = Larger(0, @ - 1)]

LEMMA IssueFailsFacts ==
  ASSUME Types, WritesOn, NEW c \in Cid, IssueFails(c)
  PROVE  /\ books' = RolledBack(c) /\ books' \in Books
         /\ books'.active = [books.active EXCEPT ![c] = IF @.rid = cred.issue[c].rid THEN NoEntry ELSE @]
         /\ books'.deny = books.deny /\ books'.pess = Larger(0, books.pess - 1)
         /\ books'.issues = books.issues \ {cred.issue[c].rid}
         /\ books'.cf = books.cf /\ books'.month = books.month /\ books'.kill = books.kill
         /\ FilesKept /\ FilesFit /\ work' = work /\ cred.issue[c].rid \in Rid
         /\ cred' \in Creds /\ cred'.issue = [cred.issue EXCEPT ![c] = NoIssue]
         /\ cred'.held = cred.held /\ cred'.lost = cred.lost /\ cred'.last = cred.last
<1>1. /\ Stretch(Now) /\ Now.b = books /\ Now.fs = file /\ Now.sec = sec /\ Now.work = work
      /\ srv \in Servers /\ locks \in BOOLEAN /\ file \in Files /\ books \in Books /\ cred \in Creds
  BY NowFacts
<1> DEFINE r == cred.issue[c].rid
           b == RolledBack(c)
           act == [books.active EXCEPT ![c] = IF @.rid = r THEN NoEntry ELSE @]
<1>2. r \in Rid
  BY <1>1 DEF IssueFails, Creds
<1>3. b = [books EXCEPT !.active = act, !.issues = books.issues \ {r}, !.pess = Larger(0, books.pess - 1)]
  BY <1>1 DEF RolledBack, Books
<1>4. act \in [Cid -> Entries]
  BY <1>1, NoEntryType, BooksFields
<1>5. PICK n \in Nat : n = Larger(0, books.pess - 1)
  <2>1. books.pess \in Nat
    BY <1>1, BooksFields
  <2> QED BY <2>1, LargerFacts
<1>6. [Now EXCEPT !.b = b, !.fs = MarkDirty(@)] = [Now EXCEPT !.b = b, !.fs = MarkDirty(file)]
  BY <1>1 DEF Stretch
<1>7. Becomes([Now EXCEPT !.b = b, !.fs = MarkDirty(@)])
  BY DEF IssueFails, RolledBack
<1>8. b.active = act
  BY <1>1, <1>3 DEF Books
<1> HIDE DEF act
<1>9. /\ b = [active |-> act, issues |-> books.issues \ {r}, ledger |-> books.ledger, deny |-> books.deny,
              pess |-> n, cf |-> books.cf, kill |-> books.kill, month |-> books.month]
  BY <1>1, <1>3, <1>5 DEF Books
<1>10. b \in Books
  <2>1. books.issues \ {r} \in SUBSET Rid
    BY <1>1, BooksFields
  <2> HIDE DEF b, r
  <2>2. PICK i \in SUBSET Rid : i = books.issues \ {r}
    BY <2>1
  <2>3. [active |-> act, issues |-> i, ledger |-> books.ledger, deny |-> books.deny,
         pess |-> n, cf |-> books.cf, kill |-> books.kill, month |-> books.month] \in Books
    <3>1. /\ books.ledger \in SUBSET (Rid \X Nat) /\ books.deny \in SUBSET Denial
          /\ books.cf \in Nat /\ books.kill \in BOOLEAN /\ books.month \in Nat
      BY <1>1, BooksFields
    <3> QED BY ONLY <1>4, <1>5, <2>2, <3>1, BooksMade
  <2> QED BY <1>9, <2>2, <2>3
<1> HIDE DEF b
<1> DEFINE x == [Now EXCEPT !.b = b, !.fs = MarkDirty(file)]
<1>11. /\ Stretch(x) /\ x.b = b /\ x.sec = sec /\ x.work = work /\ Kept(file, x.fs)
       /\ \A f \in File : x.fs[f].load = file[f].load
  <2>1. /\ MarkDirty(file) \in Files /\ Fitting(MarkDirty(file)) /\ Kept(file, MarkDirty(file))
        /\ \A f \in File : MarkDirty(file)[f].load = file[f].load
    BY <1>1, MarkedFacts DEF Stretch
  <2> QED BY <1>1, <1>10, <2>1 DEF Stretch
<1>12. Becomes(x)
  BY <1>6, <1>7
<1> HIDE DEF x
<1>13. /\ FilesKept /\ books' = x.b /\ work' = x.work /\ file' \in Files /\ Fitting(file')
       /\ \A f \in File : file'[f].load = x.fs[f].load
  BY <1>1, <1>11, <1>12, BecomesKept
<1>14. cred' \in Creds /\ cred'.issue = [cred.issue EXCEPT ![c] = NoIssue]
       /\ cred'.held = cred.held /\ cred'.lost = cred.lost /\ cred'.last = cred.last
  <2>1. PICK m \in Creds : /\ cred' = [m EXCEPT !.issue[c] = NoIssue]
                           /\ m.issue = cred.issue /\ m.held = cred.held /\ m.lost = cred.lost /\ m.last = cred.last
    <3>1. {c} \in SUBSET Cid
      OBVIOUS
    <3>2. /\ Uncached(cred, {c}) \in Creds /\ Uncached(cred, {c}).issue = cred.issue
          /\ Uncached(cred, {c}).held = cred.held /\ Uncached(cred, {c}).lost = cred.lost /\ Uncached(cred, {c}).last = cred.last
      BY <1>1, <3>1, UncachedFacts
    <3>3. cred' = [(IF books.active[c].rid = cred.issue[c].rid THEN Uncached(cred, {c}) ELSE cred)
                      EXCEPT !.issue[c] = NoIssue]
      BY DEF IssueFails
    <3> QED BY <1>1, <3>2, <3>3
  <2>2. [m.issue EXCEPT ![c] = NoIssue] \in [Cid -> [rid : Rid \cup {0}, made : BOOLEAN]]
    BY <2>1 DEF Creds, NoIssue
  <2>3. cred' = [m EXCEPT !.issue = [m.issue EXCEPT ![c] = NoIssue]]
    BY <2>1
  <2> HIDE DEF NoIssue
  <2> QED BY <2>1, <2>2, <2>3 DEF Creds
<1>15. "turn" \in File
  BY DEF File
<1> QED BY <1>2, <1>5, <1>8, <1>9, <1>10, <1>11, <1>13, <1>14, <1>15 DEF FilesFit, b, act, r

\* A stretch in which a revoker moves on.
LEMMA WorkMoves ==
  ASSUME work \in Works, NEW a \in Revoker, NEW w \in WorkState
  PROVE  [work EXCEPT ![a] = w] \in Works
BY DEF Works

LEMMA RevokeDoneFacts ==
  ASSUME Types, WritesOn, NEW a \in Revoker, RevokeDone(a)
  PROVE  /\ work[a].c \in Cid /\ books' = Dropped(books, {work[a].c}) /\ books' \in Books
         /\ FilesKept /\ FilesFit /\ work' = [work EXCEPT ![a].at = "rows", ![a].c = NoCid] /\ work' \in Works
         /\ cred' \in Creds /\ cred'.issue = cred.issue /\ cred'.held = cred.held /\ cred'.lost = cred.lost /\ cred'.last = cred.last
<1>1. /\ Stretch(Now) /\ Now.b = books /\ Now.fs = file /\ Now.sec = sec /\ Now.work = work
      /\ srv \in Servers /\ locks \in BOOLEAN /\ file \in Files /\ books \in Books
      /\ cred \in Creds /\ work \in Works
  BY NowFacts
<1> DEFINE c == work[a].c
           b == Dropped(books, {c})
<1>2. c \in Cid /\ {c} \in SUBSET Cid /\ work[a].at = "heard"
  BY DEF RevokeDone, Types, WorkTyped, WorkFine
<1>3. Becomes([Changed(Now, b) EXCEPT !.work[a].at = "rows", !.work[a].c = NoCid])
  BY DEF RevokeDone
<1>4. cred' = Uncached(cred, {c})
  BY DEF RevokeDone
<1> HIDE DEF c
<1>5. b \in Books
  BY <1>1, <1>2, DroppedFacts
<1> HIDE DEF b
<1> DEFINE y == Changed(Now, b)
           ws == [work EXCEPT ![a].at = "rows", ![a].c = NoCid]
           x == [y EXCEPT !.work = ws]
<1>6. /\ Stretch(y) /\ y.b = b /\ y.sec = sec /\ y.work = work /\ Kept(file, y.fs)
      /\ \A f \in File : y.fs[f].load = file[f].load
  BY <1>1, <1>5, ChangedFacts
<1>7. Becomes([y EXCEPT !.work[a].at = "rows", !.work[a].c = NoCid])
  BY <1>3
<1> HIDE DEF y
<1>8. [y EXCEPT !.work[a].at = "rows", !.work[a].c = NoCid] = x
  BY <1>6 DEF Stretch
<1>9. ws \in Works
  <2>1. work[a] \in WorkState
    BY <1>1 DEF Works
  <2>2. [work[a] EXCEPT !.at = "rows", !.c = NoCid] \in WorkState
    BY <2>1 DEF WorkState
  <2>3. ws = [work EXCEPT ![a] = [work[a] EXCEPT !.at = "rows", !.c = NoCid]]
    BY <1>1 DEF Works
  <2> QED BY <1>1, <2>2, <2>3, WorkMoves
<1> HIDE DEF ws
<1>10. Stretch(x) /\ x.b = b /\ x.sec = sec /\ x.work = ws /\ x.fs = y.fs
  BY <1>6, <1>9 DEF Stretch
<1>11. Becomes(x)
  BY <1>7, <1>8
<1> HIDE DEF x
<1>12. /\ FilesKept /\ books' = x.b /\ work' = x.work /\ file' \in Files /\ Fitting(file')
       /\ \A f \in File : file'[f].load = x.fs[f].load
  BY <1>1, <1>6, <1>10, <1>11, BecomesKept
<1>13. "turn" \in File
  BY DEF File
<1>14. /\ Uncached(cred, {c}) \in Creds /\ Uncached(cred, {c}).issue = cred.issue
       /\ Uncached(cred, {c}).held = cred.held /\ Uncached(cred, {c}).lost = cred.lost /\ Uncached(cred, {c}).last = cred.last
  BY <1>1, <1>2, UncachedFacts
<1> QED BY <1>2, <1>4, <1>5, <1>6, <1>9, <1>10, <1>12, <1>13, <1>14 DEF FilesFit, b, c, ws

\* A revoker asks for a flush of what it did.
LEMMA FlushingNow ==
  ASSUME Types, WritesOn, NEW w \in {"abuse", "sweep"}, NEW at \in {"flush", "note"},
         NEW x, Stretch(x), x.sec = sec, Kept(file, x.fs),
         \A f \in File : x.fs[f].load = file[f].load,
         locks' = locks, Becomes(Flushing(x, w, at))
  PROVE  /\ books' = x.b /\ books' \in Books /\ FilesAsked(w) /\ FilesFit
         /\ work' = [x.work EXCEPT ![w].at = at] /\ work' \in Works
<1> DEFINE y == Flushing(x, w, at)
<1>1. /\ Stretch(y) /\ y.b = x.b /\ y.work = [x.work EXCEPT ![w].at = at]
      /\ Asked(x.fs, x.sec, w, y.fs, y.sec)
  BY FlushingFacts
<1>2. Becomes(y)
  OBVIOUS
<1> HIDE DEF y
<1>3. locks \in BOOLEAN /\ file \in Files /\ w \in Caller /\ "turn" \in File
  BY NowFacts, CallerAssumption DEF File
<1>4. /\ FilesAsked(w) /\ books' = y.b /\ work' = y.work /\ file' \in Files /\ Fitting(file')
      /\ \A f \in File : file'[f].load = y.fs[f].load
  BY <1>1, <1>2, <1>3, BecomesAsked
<1>5. \A f \in File : y.fs[f].load = x.fs[f].load
  BY <1>1 DEF Asked
<1>6. y.b \in Books /\ y.work \in Works
  BY <1>1 DEF Stretch
<1> QED BY <1>1, <1>3, <1>4, <1>5, <1>6 DEF FilesFit

\* A stretch of code that changes the books, the flags of the files and the revokers.
Stepped(b, fs, ws) == [Now EXCEPT !.b = b, !.fs = fs, !.work = ws]

LEMMA SteppedFacts ==
  ASSUME Types, NEW ws \in Works, NEW fs, fs = file \/ fs = MarkDirty(file), NEW b \in Books
  PROVE  LET x == Stepped(b, fs, ws)
         IN  /\ Stretch(x) /\ x.b = b /\ x.fs = fs /\ x.sec = sec /\ x.work = ws
             /\ Kept(file, x.fs) /\ \A f \in File : x.fs[f].load = file[f].load
<1>1. Stretch(Now) /\ Now.sec = sec /\ work \in Works /\ file \in Files /\ Now.fs = file
  BY NowFacts
<1>2. fs \in Files /\ Fitting(fs) /\ Kept(file, fs) /\ \A f \in File : fs[f].load = file[f].load
  <2>1. Fitting(file)
    BY <1>1 DEF Stretch
  <2> QED BY <1>1, <2>1, MarkedFacts DEF Kept
<1> QED BY <1>1, <1>2 DEF Stretch, Stepped

LEMMA RevokeFailsFacts ==
  ASSUME Types, WritesOn, NEW a \in Revoker, RevokeFails(a)
  PROVE  /\ books' = books /\ FilesFit /\ work' \in Works
         /\ IF a = "abuse"
            THEN FilesAsked("abuse") /\ work' = [work EXCEPT ![a].at = "note", ![a].c = NoCid]
            ELSE FilesKept /\ work' = [work EXCEPT ![a].at = "rows", ![a].c = NoCid]
<1>1. /\ Stretch(Now) /\ Now.b = books /\ Now.fs = file /\ Now.sec = sec /\ Now.work = work
      /\ locks \in BOOLEAN /\ file \in Files /\ books \in Books /\ work \in Works
  BY NowFacts
<1> DEFINE w == [work[a] EXCEPT !.at = "rows", !.c = NoCid]
           ws == [work EXCEPT ![a] = w]
           x == Stepped(books, MarkDirty(file), ws)
<1>2. w \in WorkState
  BY <1>1 DEF Works, WorkState
<1>3. [Now EXCEPT !.fs = MarkDirty(@), !.work[a].at = "rows", !.work[a].c = NoCid] = x
  <2>1. ws = [work EXCEPT ![a].at = "rows", ![a].c = NoCid]
    BY <1>1 DEF Works, WorkState
  <2> HIDE DEF w, ws
  <2> QED BY <1>1, <2>1 DEF Stretch, Stepped
<1>4. Becomes(IF a = "abuse" THEN Flushing(x, "abuse", "note") ELSE x) /\ locks' = locks
  <2> DEFINE y == [Now EXCEPT !.fs = MarkDirty(@), !.work[a].at = "rows", !.work[a].c = NoCid]
  <2>1. Becomes(IF a = "abuse" THEN Flushing(y, "abuse", "note") ELSE y) /\ locks' = locks
    BY DEF RevokeFails
  <2>2. y = x
    BY <1>3
  <2> HIDE DEF x, y
  <2> QED BY <2>1, <2>2
<1> HIDE DEF w
<1>5. /\ Stretch(x) /\ x.b = books /\ x.sec = sec /\ x.work = ws
      /\ Kept(file, x.fs) /\ \A f \in File : x.fs[f].load = file[f].load
  <2>1. ws \in Works
    BY <1>1, <1>2, WorkMoves
  <2> HIDE DEF ws
  <2> QED BY <1>1, <2>1, SteppedFacts
<1>7. ws \in Works
  BY <1>5 DEF Stretch
<1> HIDE DEF x
<1>6. "turn" \in File
  BY DEF File
<1>8. CASE a # "abuse"
  <2>1. Becomes(x)
    BY <1>4, <1>8
  <2>2. /\ FilesKept /\ books' = x.b /\ work' = x.work /\ file' \in Files /\ Fitting(file')
        /\ \A f \in File : file'[f].load = x.fs[f].load
    BY <1>1, <1>5, <2>1, BecomesKept
  <2>3. ws = [work EXCEPT ![a].at = "rows", ![a].c = NoCid]
    BY <1>1 DEF Works, w
  <2> QED BY <1>5, <1>6, <1>7, <1>8, <2>2, <2>3 DEF FilesFit
<1>9. CASE a = "abuse"
  <2>1. Becomes(Flushing(x, "abuse", "note"))
    BY <1>4, <1>9
  <2>2. /\ books' = x.b /\ FilesAsked("abuse") /\ FilesFit
        /\ work' = [x.work EXCEPT !["abuse"].at = "note"] /\ work' \in Works
    BY <1>4, <1>5, <2>1, FlushingNow
  <2>3. [ws EXCEPT !["abuse"].at = "note"] = [work EXCEPT ![a].at = "note", ![a].c = NoCid]
    BY <1>1, <1>9 DEF Works, WorkState, w
  <2> QED BY <1>5, <1>9, <2>2, <2>3
<1> QED BY <1>8, <1>9

LEMMA SweepNextFacts ==
  ASSUME Types, WritesOn, SweepNext
  PROVE  /\ books' = books /\ FilesFit /\ work' \in Works /\ work["sweep"].at = "rows"
         /\ \/ FilesAsked("sweep") /\ work' = [work EXCEPT !["sweep"].at = "note"]
            \/ /\ FilesKept
               /\ \E c \in Cid, w \in WorkState :
                     /\ work' = [work EXCEPT !["sweep"] = w]
                     /\ w.at \in {"rows", "revoke"} /\ (w.at = "revoke" => w.c = c)
<1>1. /\ Stretch(Now) /\ Now.b = books /\ Now.fs = file /\ Now.sec = sec /\ Now.work = work
      /\ locks \in BOOLEAN /\ file \in Files /\ books \in Books /\ work \in Works
  BY NowFacts
<1>2. work["sweep"].at = "rows" /\ "sweep" \in Revoker /\ work["sweep"] \in WorkState /\ locks' = locks
  BY <1>1 DEF SweepNext, Revoker, Works
<1>3. CASE Becomes(Flushing([Now EXCEPT !.fs = MarkDirty(@)], "sweep", "note"))
  <2> DEFINE ws == [work EXCEPT !["sweep"] = work["sweep"]]
             x == Stepped(books, MarkDirty(file), ws)
  <2>1. ws = work
    BY <1>1 DEF Works
  <2> DEFINE y == [Now EXCEPT !.fs = MarkDirty(@)]
  <2>2. y = x
    <3> HIDE DEF ws
    <3> QED BY <1>1, <2>1 DEF Stretch, Stepped
  <2>3. Becomes(Flushing(x, "sweep", "note"))
    <3>1. Becomes(Flushing(y, "sweep", "note"))
      BY <1>3
    <3> HIDE DEF x, y
    <3> QED BY <2>2, <3>1
  <2>4. /\ Stretch(x) /\ x.b = books /\ x.sec = sec /\ x.work = ws
        /\ Kept(file, x.fs) /\ \A f \in File : x.fs[f].load = file[f].load
    <3>1. ws \in Works
      BY <1>1, <2>1
    <3> HIDE DEF ws
    <3> QED BY <1>1, <3>1, SteppedFacts
  <2> HIDE DEF x, ws
  <2>5. /\ books' = x.b /\ FilesAsked("sweep") /\ FilesFit
        /\ work' = [x.work EXCEPT !["sweep"].at = "note"] /\ work' \in Works
    BY <1>2, <2>3, <2>4, FlushingNow
  <2> QED BY <1>2, <2>1, <2>4, <2>5
<1>4. ASSUME NEW c \in work["sweep"].todo,
             work' = [work EXCEPT !["sweep"] =
                IF c \in Active(books)
                THEN [work["sweep"] EXCEPT !.at = "revoke", !.c = c, !.todo = @ \ {c}]
                ELSE [work["sweep"] EXCEPT !.todo = @ \ {c}]],
             UNCHANGED <<books, file, sec>>
      PROVE  /\ books' = books /\ FilesFit /\ work' \in Works /\ FilesKept
             /\ \E d \in Cid, w \in WorkState :
                     /\ work' = [work EXCEPT !["sweep"] = w]
                     /\ w.at \in {"rows", "revoke"} /\ (w.at = "revoke" => w.c = d)
  <2>1. c \in Cid
    BY <1>2 DEF WorkState
  <2> DEFINE w == IF c \in Active(books)
                  THEN [work["sweep"] EXCEPT !.at = "revoke", !.c = c, !.todo = @ \ {c}]
                  ELSE [work["sweep"] EXCEPT !.todo = @ \ {c}]
  <2>2. w \in WorkState /\ w.at \in {"rows", "revoke"} /\ (w.at = "revoke" => w.c = c)
    BY <1>2, <2>1 DEF WorkState
  <2>3. work' = [work EXCEPT !["sweep"] = w]
    BY <1>4
  <2> HIDE DEF w
  <2>4. work' \in Works
    BY <1>1, <1>2, <2>2, <2>3, WorkMoves
  <2>5. FilesKept /\ FilesFit
    BY <1>1, <1>4 DEF FilesKept, FilesFit, Kept, Stretch
  <2> QED BY <1>4, <2>1, <2>2, <2>3, <2>4, <2>5
<1> QED BY <1>2, <1>3, <1>4 DEF SweepNext

LEMMA IdleType == Idle \in WorkState /\ Idle.at = "idle" /\ Idle.todo = {}
BY DEF Idle, WorkState

LEMMA RetryNextFacts ==
  ASSUME Types, WritesOn, RetryNext
  PROVE  /\ books' \in Books /\ FilesFit /\ FilesKept /\ work' \in Works /\ work["retry"].at = "rows"
         /\ cred' \in Creds /\ cred'.issue = cred.issue /\ cred'.held = cred.held /\ cred'.lost = cred.lost /\ cred'.last = cred.last
         /\ \/ books' = books /\ work' = [work EXCEPT !["retry"] = Idle]
            \/ \E c \in work["retry"].todo \cap work["retry"].old :
                  /\ c \in Cid /\ books' = Dropped(books, {c})
                  /\ work' = [work EXCEPT !["retry"].todo = @ \ {c}]
            \/ \E c \in work["retry"].todo :
                  /\ c \in Cid /\ books' = books
                  /\ work' = [work EXCEPT !["retry"] =
                        [work["retry"] EXCEPT !.at = "revoke", !.c = c, !.todo = @ \ {c}]]
<1>1. /\ Stretch(Now) /\ Now.b = books /\ Now.fs = file /\ Now.sec = sec /\ Now.work = work
      /\ locks \in BOOLEAN /\ file \in Files /\ books \in Books /\ work \in Works /\ cred \in Creds
  BY NowFacts
<1>2. "retry" \in Revoker /\ work["retry"] \in WorkState /\ work["retry"].at = "rows" /\ "turn" \in File
  BY <1>1 DEF RetryNext, Revoker, Works, File
<1>3. ASSUME NEW ws \in Works, Becomes([Now EXCEPT !.work = ws])
      PROVE  /\ books' = books /\ FilesFit /\ FilesKept /\ work' = ws
  <2> DEFINE y == [Now EXCEPT !.work = ws]
             x == Stepped(books, file, ws)
  <2>1. y = x
    BY <1>1 DEF Stretch, Stepped
  <2>2. Becomes(y)
    BY <1>3
  <2>3. /\ Stretch(x) /\ x.b = books /\ x.sec = sec /\ x.work = ws
        /\ Kept(file, x.fs) /\ \A f \in File : x.fs[f].load = file[f].load
    BY <1>1, SteppedFacts
  <2> HIDE DEF x, y
  <2>4. /\ FilesKept /\ books' = x.b /\ work' = x.work /\ file' \in Files /\ Fitting(file')
        /\ \A f \in File : file'[f].load = x.fs[f].load
    BY <1>1, <2>1, <2>2, <2>3, BecomesKept
  <2> QED BY <1>2, <2>3, <2>4 DEF FilesFit
<1>4. CASE Becomes([Now EXCEPT !.work["retry"] = Idle]) /\ UNCHANGED cred
  <2> DEFINE ws == [work EXCEPT !["retry"] = Idle]
  <2>1. ws \in Works
    BY <1>1, <1>2, IdleType, WorkMoves
  <2>2. [Now EXCEPT !.work["retry"] = Idle] = [Now EXCEPT !.work = ws]
    BY <1>1 DEF Stretch
  <2> HIDE DEF ws
  <2>3. books' = books /\ FilesFit /\ FilesKept /\ work' = ws
    BY <1>3, <1>4, <2>1, <2>2
  <2> QED BY <1>1, <1>2, <1>4, <2>1, <2>3 DEF ws
<1>5. ASSUME NEW c \in work["retry"].todo \cap work["retry"].old,
             Becomes([Changed(Now, Dropped(books, {c})) EXCEPT !.work["retry"].todo = @ \ {c}]),
             cred' = Uncached(cred, {c})
      PROVE  /\ c \in Cid /\ books' = Dropped(books, {c}) /\ books' \in Books
             /\ FilesFit /\ FilesKept /\ work' = [work EXCEPT !["retry"].todo = @ \ {c}] /\ work' \in Works
             /\ cred' \in Creds /\ cred'.issue = cred.issue /\ cred'.held = cred.held /\ cred'.lost = cred.lost /\ cred'.last = cred.last
  <2>1. c \in Cid /\ {c} \in SUBSET Cid
    BY <1>2 DEF WorkState
  <2> DEFINE b == Dropped(books, {c})
             y == Changed(Now, b)
             ws == [work EXCEPT !["retry"].todo = @ \ {c}]
             x == [y EXCEPT !.work = ws]
  <2>2. b \in Books
    BY <1>1, <2>1, DroppedFacts
  <2>3. Becomes([y EXCEPT !.work["retry"].todo = @ \ {c}])
    BY <1>5
  <2> HIDE DEF b
  <2>4. /\ Stretch(y) /\ y.b = b /\ y.sec = sec /\ y.work = work /\ Kept(file, y.fs)
        /\ \A f \in File : y.fs[f].load = file[f].load
    BY <1>1, <2>2, ChangedFacts
  <2> HIDE DEF y
  <2>5. ws \in Works
    <3>1. [work["retry"] EXCEPT !.todo = @ \ {c}] \in WorkState
      BY <1>2 DEF WorkState
    <3>2. ws = [work EXCEPT !["retry"] = [work["retry"] EXCEPT !.todo = @ \ {c}]]
      BY <1>1
    <3> QED BY <1>1, <1>2, <3>1, <3>2, WorkMoves
  <2>6. [y EXCEPT !.work["retry"].todo = @ \ {c}] = x
    BY <2>4 DEF Stretch
  <2> HIDE DEF ws
  <2>7. Stretch(x) /\ x.b = b /\ x.sec = sec /\ x.work = ws /\ x.fs = y.fs
    BY <2>4, <2>5 DEF Stretch
  <2>8. Becomes(x)
    BY <2>3, <2>6
  <2> HIDE DEF x
  <2>9. /\ FilesKept /\ books' = x.b /\ work' = x.work /\ file' \in Files /\ Fitting(file')
        /\ \A f \in File : file'[f].load = x.fs[f].load
    BY <1>1, <2>4, <2>7, <2>8, BecomesKept
  <2>10. /\ Uncached(cred, {c}) \in Creds /\ Uncached(cred, {c}).issue = cred.issue
         /\ Uncached(cred, {c}).held = cred.held /\ Uncached(cred, {c}).lost = cred.lost /\ Uncached(cred, {c}).last = cred.last
    BY <1>1, <2>1, UncachedFacts
  <2> QED BY <1>2, <1>5, <2>1, <2>2, <2>4, <2>5, <2>7, <2>9, <2>10 DEF FilesFit, b, ws
<1>6. ASSUME NEW c \in work["retry"].todo \ work["retry"].old,
             Becomes([Now EXCEPT !.work["retry"] = [work["retry"] EXCEPT !.at = "revoke", !.c = c, !.todo = @ \ {c}]]),
             UNCHANGED cred
      PROVE  /\ c \in Cid /\ books' = books /\ FilesFit /\ FilesKept /\ work' \in Works /\ cred' = cred
             /\ work' = [work EXCEPT !["retry"] =
                   [work["retry"] EXCEPT !.at = "revoke", !.c = c, !.todo = @ \ {c}]]
  <2> DEFINE w == [work["retry"] EXCEPT !.at = "revoke", !.c = c, !.todo = @ \ {c}]
             ws == [work EXCEPT !["retry"] = w]
  <2>1. c \in Cid /\ w \in WorkState
    BY <1>2 DEF WorkState
  <2>2. [Now EXCEPT !.work["retry"] = w] = [Now EXCEPT !.work = ws]
    BY <1>1 DEF Stretch
  <2>3. ws \in Works
    <3> HIDE DEF w
    <3> QED BY <1>1, <1>2, <2>1, WorkMoves
  <2> HIDE DEF ws
  <2>4. books' = books /\ FilesFit /\ FilesKept /\ work' = ws
    BY <1>3, <1>6, <2>2, <2>3
  <2> QED BY <1>6, <2>1, <2>3, <2>4 DEF ws
<1> QED BY <1>1, <1>2, <1>4, <1>5, <1>6 DEF RetryNext

\* What the rows of the sessions S make of the books: the last row ends with the kill
\* switch, the first abusive session with a flush.
RowsRead(S, rows) ==
    LET d == WithRows(books, S, rows)
    IN  /\ S \subseteq Active(books) /\ d \in Books
        /\ rows = IF work["abuse"].at = "ask" THEN cf.usage ELSE poll.rows
        /\ \/ /\ Swept(d, books') /\ (Observed(d) >= Limit => books'.kill)
              /\ SweptOrKept([work EXCEPT !["abuse"] = Idle], d)
           \/ \E c \in Active(books), T \in SUBSET Cid :
                /\ books' = Abused(d, c) /\ FilesAsked("abuse")
                /\ c \in S /\ rows[c] >= Cap /\ poll'.rows = rows
                /\ work' = [work EXCEPT !["abuse"] = [Idle EXCEPT !.at = "flush", !.c = c, !.todo = T]]

LEMMA AbuseRowsFacts ==
  ASSUME Types, WritesOn, AbuseRows
  PROVE  /\ books' \in Books /\ FilesFit /\ poll' \in Polls /\ work["abuse"].at \in {"ask", "rows"}
         /\ \E S \in SUBSET Cid, rows \in [Cid -> Nat] : RowsRead(S, rows)
<1>1. /\ Stretch(Now) /\ Now.b = books /\ Now.fs = file /\ Now.sec = sec /\ Now.work = work
      /\ locks \in BOOLEAN /\ file \in Files /\ books \in Books /\ work \in Works /\ srv \in Servers
  BY NowFacts
<1> DEFINE w == work["abuse"]
           rows == IF w.at = "ask" THEN cf.usage ELSE poll.rows
           todo == IF w.at = "ask" THEN {c \in Cid : rows[c] > 0} ELSE w.todo
           abusive == {c \in todo \cap Active(books) : rows[c] >= Cap}
           raised(b) == IF b.pess = books.pess THEN file ELSE MarkDirty(file)
           goes(b, at) == [Now EXCEPT !.b = b, !.fs = raised(b), !.work["abuse"] = at]
           read(S) == WithRows(books, S \cap Active(books), rows)
<1>2. /\ w.at \in {"ask", "rows"} /\ locks' = locks
      /\ \/ /\ Becomes(Evaluated(goes(read(todo), Idle)))
            /\ poll' = [poll EXCEPT !.rows = NoPoll.rows]
         \/ \E S \in SUBSET todo, c \in abusive :
              /\ Becomes(Flushing(goes(Abused(read(S \cup {c}), c),
                     [Idle EXCEPT !.c = c, !.todo = todo \ (S \cup {c})]), "abuse", "flush"))
              /\ poll' = [poll EXCEPT !.rows = rows]
  BY DEF AbuseRows
<1>3. rows \in [Cid -> Nat] /\ todo \in SUBSET Cid /\ poll \in Polls /\ "abuse" \in Revoker
  BY <1>1 DEF Types, Providers, Polls, Works, WorkState, Revoker
<1>4. \A b, ws : goes(b, ws) = Stepped(b, raised(b), [work EXCEPT !["abuse"] = ws])
  <2> HIDE DEF raised
  <2> QED BY <1>1 DEF Stretch, Stepped
<1>5. \A b : raised(b) = file \/ raised(b) = MarkDirty(file)
  OBVIOUS
<1>13. /\ abusive \subseteq todo /\ abusive \subseteq Active(books) /\ \A c \in abusive : rows[c] >= Cap
       /\ rows = IF work["abuse"].at = "ask" THEN cf.usage ELSE poll.rows
  OBVIOUS
<1> HIDE DEF rows, todo, w, raised, goes, abusive
<1>6. Active(books) \in SUBSET Cid
  BY DEF Active
<1>7. \A S \in SUBSET Cid : read(S) \in Books
  <2> SUFFICES ASSUME NEW S \in SUBSET Cid PROVE read(S) \in Books
    OBVIOUS
  <2>1. S \cap Active(books) \in SUBSET Cid
    BY <1>6
  <2> QED BY <1>1, <1>3, <2>1, WithRowsFacts
<1>8. ASSUME Becomes(Evaluated(goes(read(todo), Idle))), poll' = [poll EXCEPT !.rows = NoPoll.rows]
      PROVE  /\ books' \in Books /\ FilesFit /\ poll' \in Polls
             /\ Swept(read(todo), books') /\ (Observed(read(todo)) >= Limit => books'.kill)
             /\ SweptOrKept([work EXCEPT !["abuse"] = Idle], read(todo))
  <2> DEFINE d == read(todo)
             ws == [work EXCEPT !["abuse"] = Idle]
             x == Stepped(d, raised(d), ws)
  <2>1. d \in Books /\ Becomes(Evaluated(x)) /\ (raised(d) = file \/ raised(d) = MarkDirty(file))
    BY <1>3, <1>4, <1>5, <1>7, <1>8
  <2>2. ws \in Works
    BY <1>1, <1>3, IdleType, WorkMoves
  <2> HIDE DEF d, ws
  <2>3. /\ Stretch(x) /\ x.b = d /\ x.sec = sec /\ x.work = ws
        /\ Kept(file, x.fs) /\ \A f \in File : x.fs[f].load = file[f].load
    BY <2>1, <2>2, SteppedFacts
  <2> HIDE DEF x
  <2>4. "turn" \in File
    BY DEF File
  <2>5. /\ books' \in Books /\ Swept(x.b, books') /\ (Observed(x.b) >= Limit => books'.kill)
        /\ file' \in Files /\ Fitting(file') /\ \A f \in File : file'[f].load = x.fs[f].load
        /\ SweptOrKept(x.work, x.b)
    BY <1>1, <1>2, <2>1, <2>3, <2>4, BecomesEvaluated DEF SweptOrKept
  <2>6. poll' \in Polls
    BY <1>3, <1>8 DEF Polls, NoPoll
  <2> QED BY <2>3, <2>4, <2>5, <2>6 DEF FilesFit, d, ws
<1>9. ASSUME NEW S \in SUBSET todo, NEW c \in abusive,
             Becomes(Flushing(goes(Abused(read(S \cup {c}), c),
                     [Idle EXCEPT !.c = c, !.todo = todo \ (S \cup {c})]), "abuse", "flush")),
             poll' = [poll EXCEPT !.rows = rows]
      PROVE  /\ books' \in Books /\ FilesFit /\ poll' \in Polls
             /\ books' = Abused(read(S \cup {c}), c) /\ FilesAsked("abuse")
             /\ work' = [work EXCEPT !["abuse"] =
                            [Idle EXCEPT !.at = "flush", !.c = c, !.todo = todo \ (S \cup {c})]]
  <2>1. c \in Cid /\ S \cup {c} \in SUBSET Cid /\ todo \ (S \cup {c}) \in SUBSET Cid
    BY <1>3, <1>13
  <2> DEFINE T == todo \ (S \cup {c})
             d == Abused(read(S \cup {c}), c)
             v == [Idle EXCEPT !.c = c, !.todo = T]
             ws == [work EXCEPT !["abuse"] = v]
             x == Stepped(d, raised(d), ws)
  <2>2. d \in Books
    BY <1>7, <2>1, AbusedFacts
  <2>3. Becomes(Flushing(x, "abuse", "flush")) /\ (raised(d) = file \/ raised(d) = MarkDirty(file))
    BY <1>4, <1>5, <1>9
  <2> HIDE DEF d, T
  <2>4. v \in WorkState
    BY <2>1, IdleType DEF WorkState, T
  <2>5. ws \in Works
    <3> HIDE DEF v
    <3> QED BY <1>1, <1>3, <2>4, WorkMoves
  <2>6. [ws EXCEPT !["abuse"].at = "flush"] = [work EXCEPT !["abuse"] = [Idle EXCEPT !.at = "flush", !.c = c, !.todo = T]]
    BY <1>1, <1>3, IdleType DEF Works, WorkState
  <2> HIDE DEF ws, v
  <2>7. /\ Stretch(x) /\ x.b = d /\ x.sec = sec /\ x.work = ws
        /\ Kept(file, x.fs) /\ \A f \in File : x.fs[f].load = file[f].load
    BY <2>2, <2>3, <2>5, SteppedFacts
  <2> HIDE DEF x
  <2>8. /\ books' = x.b /\ books' \in Books /\ FilesAsked("abuse") /\ FilesFit
        /\ work' = [x.work EXCEPT !["abuse"].at = "flush"] /\ work' \in Works
    BY <1>2, <2>3, <2>7, FlushingNow
  <2>9. poll' \in Polls
    BY <1>3, <1>9 DEF Polls
  <2> QED BY <2>6, <2>7, <2>8, <2>9 DEF d, T
<1>10. \A S \in SUBSET Cid : S \cap Active(books) \in SUBSET Cid /\ S \cap Active(books) \subseteq Active(books)
  BY <1>6
<1> HIDE DEF read
<1>11. CASE Becomes(Evaluated(goes(read(todo), Idle))) /\ poll' = [poll EXCEPT !.rows = NoPoll.rows]
  <2>1. /\ books' \in Books /\ FilesFit /\ poll' \in Polls
        /\ Swept(read(todo), books') /\ (Observed(read(todo)) >= Limit => books'.kill)
        /\ SweptOrKept([work EXCEPT !["abuse"] = Idle], read(todo))
    BY <1>8, <1>11
  <2>2. read(todo) = WithRows(books, todo \cap Active(books), rows)
    BY DEF read
  <2>3. RowsRead(todo \cap Active(books), rows)
    BY <1>3, <1>7, <1>10, <1>13, <2>1, <2>2 DEF RowsRead
  <2> QED BY <1>2, <1>3, <1>10, <2>1, <2>3 DEF w
<1>12. CASE \E S \in SUBSET todo, c \in abusive :
              /\ Becomes(Flushing(goes(Abused(read(S \cup {c}), c),
                     [Idle EXCEPT !.c = c, !.todo = todo \ (S \cup {c})]), "abuse", "flush"))
              /\ poll' = [poll EXCEPT !.rows = rows]
  <2>1. PICK S \in SUBSET todo, c \in abusive :
              /\ Becomes(Flushing(goes(Abused(read(S \cup {c}), c),
                     [Idle EXCEPT !.c = c, !.todo = todo \ (S \cup {c})]), "abuse", "flush"))
              /\ poll' = [poll EXCEPT !.rows = rows]
    BY <1>12
  <2>2. /\ books' \in Books /\ FilesFit /\ poll' \in Polls
        /\ books' = Abused(read(S \cup {c}), c) /\ FilesAsked("abuse")
        /\ work' = [work EXCEPT !["abuse"] =
                       [Idle EXCEPT !.at = "flush", !.c = c, !.todo = todo \ (S \cup {c})]]
    BY <1>9, <2>1
  <2>3. S \cup {c} \in SUBSET Cid /\ todo \ (S \cup {c}) \in SUBSET Cid
    BY <1>3, <1>13
  <2>4. read(S \cup {c}) = WithRows(books, (S \cup {c}) \cap Active(books), rows)
    BY DEF read
  <2>6. c \in (S \cup {c}) \cap Active(books) /\ rows[c] >= Cap /\ poll'.rows = rows
    BY <1>3, <1>13, <2>1 DEF Polls
  <2>5. RowsRead((S \cup {c}) \cap Active(books), rows)
    BY <1>3, <1>7, <1>10, <1>13, <2>1, <2>2, <2>3, <2>4, <2>6 DEF RowsRead
  <2> QED BY <1>2, <1>3, <1>10, <2>2, <2>3, <2>5 DEF w
<1> QED BY <1>2, <1>11, <1>12

LEMMA GlobalAsksFacts ==
  ASSUME Types, WritesOn, NEW timer \in BOOLEAN, GlobalAsks(timer)
  PROVE  /\ books' = Rolled(books) /\ books' \in Books
         /\ FilesKept /\ FilesFit /\ work' = work /\ poll' \in Polls
<1>1. books \in Books /\ srv \in Servers /\ poll \in Polls
  BY NowFacts DEF Types
<1>2. Rolled(books) \in Books
  BY <1>1, RolledFacts
<1>3. Becomes(Changed(Now, Rolled(books)))
  BY DEF GlobalAsks
<1>4. /\ books' = Rolled(books) /\ FilesKept /\ work' = work /\ file' \in Files /\ Fitting(file')
      /\ \A f \in File : file'[f].load = file[f].load
  <2> DEFINE b == Rolled(books)
  <2> HIDE DEF b
  <2> QED BY <1>2, <1>3, ChangedNow DEF b
<1>5. poll' \in Polls
  <2>1. PICK n \in Nat : n = poll.gen + 1
    BY <1>1 DEF Polls
  <2>2. PICK m \in Nat \cup {-1}, all \in BOOLEAN : m = -1 /\ all = TRUE
    OBVIOUS
  <2>3. [gen |-> n, timer |-> timer, read |-> m, all |-> all] \in GlobalPolls
    BY DEF GlobalPolls
  <2>4. poll' = [poll EXCEPT !.gen = n, !.polls = poll.polls \cup {[gen |-> n, timer |-> timer, read |-> m, all |-> all]}]
    BY <1>1, <2>1, <2>2 DEF GlobalAsks, Polls
  <2> QED BY <1>1, <2>3, <2>4 DEF Polls
<1>6. "turn" \in File
  BY DEF File
<1> QED BY <1>2, <1>4, <1>5, <1>6 DEF FilesFit

LEMMA WithoutType ==
  ASSUME poll \in Polls, NEW p
  PROVE  Without(p) \in Polls
BY DEF Without, Polls

LEMMA ProviderCountsFacts ==
  ASSUME Types, NEW p \in poll.polls, ProviderCounts(p)
  PROVE  poll' \in Polls
<1>1. poll \in Polls /\ cf \in Providers /\ p \in GlobalPolls
  BY DEF Types, Polls
<1>2. PICK n \in 0 .. cf.total, all \in BOOLEAN :
         poll' = [Without(p) EXCEPT !.polls = @ \cup {[p EXCEPT !.read = n, !.all = all]}]
  BY DEF ProviderCounts
<1>3. [p EXCEPT !.read = n, !.all = all] \in GlobalPolls
  <2>1. n \in Nat \cup {-1}
    BY <1>1 DEF Providers
  <2> QED BY <1>1, <2>1 DEF GlobalPolls
<1> DEFINE q == [p EXCEPT !.read = n, !.all = all]
           m == Without(p)
<1>4. m \in Polls /\ poll' = [m EXCEPT !.polls = @ \cup {q}] /\ q \in GlobalPolls
  BY <1>1, <1>2, <1>3, WithoutType
<1> HIDE DEF q, m
<1> QED BY <1>4 DEF Polls

\* The books at the end of a usage poll.
LowerBound(n) == [Pruned(books) EXCEPT !.cf = Larger(@, n)]
Reconciled(n) ==
    LET b == [Pruned(books) EXCEPT !.cf = n, !.pess = Total(Pruned(books))]
    IN  [b EXCEPT !.kill = @ /\ Observed(b) >= Limit]

LEMMA TotalType ==
  ASSUME NEW b \in Books
  PROVE  /\ Active(b) \in SUBSET Cid /\ IsFiniteSet(Active(b))
         /\ Volume(b) \in [Cid -> Nat] /\ Total(b) \in Nat
<1>1. Active(b) \in SUBSET Cid /\ IsFiniteSet(Active(b))
  BY FiniteAssumption, FS_Subset DEF Active
<1>2. Volume(b) \in [Cid -> Nat]
  BY DEF Volume, Books, Entries
<1>3. Total(b) \in Nat
  BY <1>1, <1>2, SumType DEF Total
<1> QED BY <1>1, <1>2, <1>3

LEMMA LowerBoundFacts ==
  ASSUME books \in Books, NEW n \in Nat
  PROVE  /\ LowerBound(n) \in Books
         /\ LowerBound(n).active = Pruned(books).active /\ LowerBound(n).deny = Pruned(books).deny
         /\ LowerBound(n).issues = Pruned(books).issues /\ LowerBound(n).pess = Pruned(books).pess
         /\ LowerBound(n).month = Pruned(books).month /\ LowerBound(n).ledger = Pruned(books).ledger
         /\ LowerBound(n).cf = Larger(Pruned(books).cf, n)
<1> DEFINE b == Pruned(books)
<1>1. b \in Books
  BY PrunedFacts
<1> HIDE DEF b
<1>2. b.cf \in Nat
  BY <1>1, BooksFields
<1>3. PICK m \in Nat : m = Larger(b.cf, n)
  BY <1>2, LargerFacts
<1>4. LowerBound(n) = [b EXCEPT !.cf = m]
  BY <1>1, <1>3 DEF LowerBound, Books, b
<1> QED BY <1>1, <1>3, <1>4 DEF Books, b

LEMMA ReconciledFacts ==
  ASSUME books \in Books, NEW n \in Nat
  PROVE  /\ Reconciled(n) \in Books
         /\ Reconciled(n).active = Pruned(books).active /\ Reconciled(n).deny = Pruned(books).deny
         /\ Reconciled(n).issues = Pruned(books).issues
         /\ Reconciled(n).pess = Total(Pruned(books)) /\ Reconciled(n).month = Pruned(books).month
         /\ Reconciled(n).ledger = Pruned(books).ledger /\ Reconciled(n).cf = n
<1> DEFINE b == Pruned(books)
<1>1. b \in Books
  BY PrunedFacts
<1> HIDE DEF b
<1>2. PICK t \in Nat : t = Total(b)
  BY <1>1, TotalType
<1> DEFINE d == [b EXCEPT !.cf = n, !.pess = t]
<1>3. d \in Books /\ d.active = b.active /\ d.deny = b.deny /\ d.issues = b.issues /\ d.pess = t
      /\ d.month = b.month /\ d.ledger = b.ledger /\ d.cf = n
  BY <1>1 DEF Books
<1>4. Reconciled(n) = [d EXCEPT !.kill = @ /\ Observed(d) >= Limit]
  BY <1>2 DEF Reconciled, b
<1> HIDE DEF d
<1>5. PICK k \in BOOLEAN : k = (d.kill /\ Observed(d) >= Limit)
  BY <1>3
<1>6. Reconciled(n) = [d EXCEPT !.kill = k]
  BY <1>3, <1>4, <1>5 DEF Books
<1> QED BY <1>2, <1>3, <1>6 DEF Books, b

\* The end of a usage poll, its total or its lower bound.
LEMMA GlobalEndFacts ==
  ASSUME Types, WritesOn, NEW p \in poll.polls, GlobalLowerBound(p) \/ GlobalTotal(p)
  PROVE  /\ p.read \in Nat /\ p.gen = poll.gen /\ poll' = Without(p) /\ poll' \in Polls
         /\ LET d == IF p.all THEN Reconciled(p.read) ELSE LowerBound(p.read)
            IN  /\ d \in Books /\ books' \in Books /\ Swept(d, books') /\ (Observed(d) >= Limit => books'.kill)
                /\ SweptOrKept(work, d)
         /\ FilesFit /\ SweepFree
         /\ cred' \in Creds /\ cred'.issue = cred.issue /\ cred'.held = cred.held /\ cred'.lost = cred.lost /\ cred'.last = cred.last
         /\ \A f \in File : file'[f].load = "ok" \/ file'[f].load = file[f].load
<1>1. /\ Stretch(Now) /\ Now.b = books /\ Now.fs = file /\ Now.sec = sec /\ Now.work = work
      /\ locks \in BOOLEAN /\ file \in Files /\ books \in Books /\ work \in Works /\ srv \in Servers
      /\ cred \in Creds /\ poll \in Polls /\ Fitting(file)
  BY NowFacts DEF Types, FileTyped
<1>2. p.read \in Nat /\ p.gen = poll.gen /\ poll' = Without(p) /\ SweepFree /\ locks' = locks
  BY <1>1 DEF GlobalLowerBound, GlobalTotal, Polls, GlobalPolls
<1>3. poll' \in Polls
  BY <1>1, <1>2, WithoutType
<1> DEFINE d == IF p.all THEN Reconciled(p.read) ELSE LowerBound(p.read)
           fs == IF p.all THEN [MarkDirty(file) EXCEPT !["turn"].load = "ok"] ELSE MarkDirty(file)
           x == Stepped(d, fs, work)
<1>4. Becomes(Evaluated(x))
  <2>1. CASE GlobalLowerBound(p)
    <3> DEFINE b == LowerBound(p.read)
               y == [Now EXCEPT !.b = b, !.fs = MarkDirty(@)]
    <3>1. Becomes(Evaluated(y)) /\ ~p.all
      BY <2>1 DEF GlobalLowerBound, LowerBound
    <3> HIDE DEF b
    <3>2. y = Stepped(b, MarkDirty(file), work)
      BY <1>1 DEF Stretch, Stepped
    <3> HIDE DEF y
    <3> QED BY <3>1, <3>2 DEF b
  <2>2. CASE GlobalTotal(p)
    <3> DEFINE b == Reconciled(p.read)
               gs == [MarkDirty(file) EXCEPT !["turn"].load = "ok"]
               y == [Now EXCEPT !.b = b, !.fs = gs]
    <3>1. Becomes(Evaluated(y)) /\ p.all
      BY <2>2 DEF GlobalTotal, Reconciled
    <3> HIDE DEF b, gs
    <3>2. y = Stepped(b, gs, work)
      BY <1>1 DEF Stretch, Stepped
    <3> HIDE DEF y
    <3> QED BY <3>1, <3>2 DEF b, gs
  <2> QED BY <2>1, <2>2
<1>5. d \in Books
  BY <1>1, <1>2, LowerBoundFacts, ReconciledFacts
<1>6. /\ fs \in Files /\ Fitting(fs) /\ Kept(file, fs)
      /\ \A f \in File : fs[f].load = "ok" \/ fs[f].load = file[f].load
  <2> DEFINE gs == MarkDirty(file)
  <2>1. gs \in Files /\ Fitting(gs) /\ Kept(file, gs) /\ \A f \in File : gs[f].load = file[f].load
    BY <1>1, MarkedFacts
  <2> HIDE DEF gs
  <2>2. [gs EXCEPT !["turn"].load = "ok"] \in Files
    BY <2>1 DEF Files, FileState, File
  <2>3. \A f \in File : /\ [gs EXCEPT !["turn"].load = "ok"][f].chain = gs[f].chain
                        /\ [gs EXCEPT !["turn"].load = "ok"][f].write = gs[f].write
                        /\ [gs EXCEPT !["turn"].load = "ok"][f].load \in {"ok", gs[f].load}
    BY <2>1 DEF Files, FileState, File
  <2>4. Fitting([gs EXCEPT !["turn"].load = "ok"]) /\ Kept(file, [gs EXCEPT !["turn"].load = "ok"])
    BY <2>1, <2>3 DEF Fitting, Kept, File
  <2>5. fs = IF p.all THEN [gs EXCEPT !["turn"].load = "ok"] ELSE gs
    BY DEF gs
  <2> HIDE DEF fs
  <2> QED BY <2>1, <2>2, <2>3, <2>4, <2>5
<1>7. cred' = Uncached(cred, Expired(books))
  BY DEF GlobalLowerBound, GlobalTotal
<1> HIDE DEF d, fs
<1>8. Stretch(x) /\ x.b = d /\ x.fs = fs /\ x.sec = sec /\ x.work = work
  BY <1>1, <1>5, <1>6 DEF Stretch, Stepped
<1> HIDE DEF x
<1>9. "turn" \in File
  BY DEF File
<1>10. /\ books' \in Books /\ Swept(x.b, books') /\ (Observed(x.b) >= Limit => books'.kill)
       /\ file' \in Files /\ Fitting(file') /\ \A f \in File : file'[f].load = x.fs[f].load
       /\ SweptOrKept(x.work, x.b)
  <2>1. Kept(file, x.fs) /\ (file["turn"].load = "ok" => x.fs["turn"].load = "ok")
    BY <1>6, <1>8, <1>9
  <2> QED BY <1>1, <1>2, <1>4, <1>8, <2>1, BecomesEvaluated DEF SweptOrKept
<1>11. /\ Uncached(cred, Expired(books)) \in Creds
       /\ Uncached(cred, Expired(books)).issue = cred.issue /\ Uncached(cred, Expired(books)).held = cred.held /\ Uncached(cred, Expired(books)).lost = cred.lost
       /\ Uncached(cred, Expired(books)).last = cred.last
  <2>1. Expired(books) \in SUBSET Cid
    BY DEF Expired, Active
  <2> QED BY <1>1, <2>1, UncachedFacts
<1> QED BY <1>2, <1>3, <1>5, <1>6, <1>7, <1>8, <1>9, <1>10, <1>11 DEF FilesFit, d

\* The end of a write: the chain moves on, and its caller goes on to the locks or has its
\* answer.
LEMMA EndedFacts ==
  ASSUME Types, WritesOn, NEW f \in File, NEW ok \in BOOLEAN, NEW keep \in BOOLEAN,
         file[f].write.on, Ended(f, ok, keep)
  PROVE  LET who == Head(file[f].chain)
             on == f = "turn" /\ who # Tick /\ file["locks"].load = "ok"
         IN  /\ file' \in Files /\ Fitting(file') /\ sec' \in Flushes
             /\ who \in Caller \cup {Tick} /\ file[f].chain # <<>>
             /\ sec' = IF who = Tick THEN sec
                       ELSE [sec EXCEPT ![who] = [at |-> IF on THEN "locks" ELSE "end", ok |-> @.ok /\ ok]]
             /\ file'[f].chain = Tail(file[f].chain)
             /\ file'[f].write = IF Tail(file[f].chain) = <<>> THEN NoWrite
                                 ELSE [on |-> TRUE, snap |-> IF f = "turn" THEN books ELSE locks]
             /\ \A g \in File : g # f =>
                   /\ file'[g].chain = IF on THEN Append(file[g].chain, who) ELSE file[g].chain
                   /\ file'[g].write = IF on /\ file[g].chain = <<>> THEN [on |-> TRUE, snap |-> locks]
                                       ELSE file[g].write
             /\ \A g \in File : file'[g].load = file[g].load
             /\ file["turn"].dirty \/ (f = "turn" /\ keep) => file'["turn"].dirty
<1> DEFINE who == Head(file[f].chain)
           on == f = "turn" /\ who # Tick /\ file["locks"].load = "ok"
           fs == [file EXCEPT ![f].chain = Tail(@), ![f].write = NoWrite, ![f].dirty = @ \/ keep]
           gs == IF on THEN Queued(fs, "locks", who) ELSE fs
<1>1. /\ file \in Files /\ Fitting(file) /\ sec \in Flushes /\ books \in Books /\ locks \in BOOLEAN
      /\ "turn" \in File /\ "locks" \in File
  BY DEF Types, FileTyped, BooksTyped, File
<1>2. file[f].chain \in Seq(Caller \cup {Tick}) /\ file[f].chain # <<>>
  BY <1>1 DEF Files, FileState, WritesOn
<1>3. who \in Caller \cup {Tick} /\ Tail(file[f].chain) \in Seq(Caller \cup {Tick})
  BY <1>2
<1>4. file' = Started(gs, books, locks)
  BY <1>1, CallerAssumption DEF Ended, File, Tick
<1>5. sec' = IF who = Tick THEN sec
             ELSE [sec EXCEPT ![who] = [at |-> IF on THEN "locks" ELSE "end", ok |-> @.ok /\ ok]]
  BY <1>1 DEF Ended, File
<1>6. sec' \in Flushes
  <2>1. CASE who = Tick
    BY <1>1, <1>5, <2>1
  <2>2. CASE who # Tick
    <3>1. who \in Caller /\ sec[who].ok \in BOOLEAN
      BY <1>1, <1>3, <2>2 DEF Flushes
    <3>2. PICK k \in BOOLEAN, t \in {"locks", "end"} :
             k = (sec[who].ok /\ ok) /\ t = IF on THEN "locks" ELSE "end"
      BY <3>1
    <3> HIDE DEF who, on
    <3>3. sec' = [sec EXCEPT ![who] = [at |-> t, ok |-> k]]
      BY <1>5, <2>2, <3>2
    <3> QED BY <1>1, <3>1, <3>3 DEF Flushes
  <2> QED BY <2>1, <2>2
<1> HIDE DEF on
<1>7. NoWrite \in [on : BOOLEAN, snap : Snapshot] /\ ~NoWrite.on
  BY DEF NoWrite, Snapshot
<1> DEFINE q == Tail(file[f].chain)
           s == [file[f] EXCEPT !.chain = q, !.write = NoWrite, !.dirty = @ \/ keep]
<1>8. file[f] \in FileState
  BY <1>1 DEF Files
<1>9. /\ s \in FileState /\ s.chain = q /\ s.write = NoWrite /\ s.load = file[f].load
      /\ file[f].dirty \/ keep => s.dirty
  <2>1. PICK k \in BOOLEAN : k = (file[f].dirty \/ keep)
    OBVIOUS
  <2>2. s = [file[f] EXCEPT !.chain = q, !.write = NoWrite, !.dirty = k]
    BY <1>8, <2>1 DEF FileState
  <2> HIDE DEF q, s
  <2>3. s \in FileState /\ s.chain = q /\ s.write = NoWrite /\ s.load = file[f].load /\ s.dirty = k
    BY <1>3, <1>7, <1>8, <2>2 DEF FileState, q
  <2> QED BY <2>1, <2>3
<1>10. fs = [file EXCEPT ![f] = s]
  BY <1>1, <1>8 DEF Files, FileState
<1> HIDE DEF q, s, fs
<1>11. fs \in Files /\ fs[f] = s /\ \A g \in File : g # f => fs[g] = file[g]
  BY <1>1, <1>9, <1>10 DEF Files
<1>12. Fitting(fs)
  BY <1>1, <1>7, <1>9, <1>11 DEF Fitting, File
<1>13. on => f # "locks" /\ who \in Caller
  BY <1>3 DEF on
<1>14. /\ gs \in Files /\ Fitting(gs) /\ gs[f] = s
       /\ \A g \in File :
             /\ g # f => gs[g].chain = IF on THEN Append(file[g].chain, who) ELSE file[g].chain
             /\ gs[g].load = file[g].load
             /\ g # f => gs[g].write = file[g].write
       /\ file["turn"].dirty \/ (f = "turn" /\ keep) => gs["turn"].dirty
  <2>1. CASE ~on
    BY <1>1, <1>9, <1>11, <1>12, <2>1
  <2>2. CASE on
    <3>1. /\ Queued(fs, "locks", who) \in Files /\ Fitting(Queued(fs, "locks", who))
          /\ Queued(fs, "locks", who)["locks"].chain = Append(fs["locks"].chain, who)
          /\ \A g \in File : /\ g # "locks" => Queued(fs, "locks", who)[g].chain = fs[g].chain
                             /\ Queued(fs, "locks", who)[g].write = fs[g].write
                             /\ Queued(fs, "locks", who)[g].load = fs[g].load
      <4>1. who \in Caller \cup {Tick} /\ "locks" \in File
        BY <1>1, <1>3
      <4> HIDE DEF who, gs
      <4> QED BY <4>1, <1>11, <1>12, QueuedFacts
    <3>2. Queued(fs, "locks", who)[f] = fs[f]
      <4>1. f # "locks" /\ fs \in [File -> FileState]
        BY <1>11, <1>13, <2>2 DEF Files
      <4> HIDE DEF who
      <4> QED BY <4>1 DEF Queued
    <3>3. \A g \in File : g = f \/ g = "locks"
      BY <1>13, <2>2 DEF File
    <3>4. f = "turn"
      BY <1>13, <2>2, <3>3 DEF on
    <3>5. gs = Queued(fs, "locks", who) /\ "locks" \in File
      BY <1>1, <2>2
    <3> HIDE DEF gs, who
    <3>6. gs \in Files /\ Fitting(gs) /\ gs[f] = s
      BY <1>11, <3>1, <3>2, <3>5
    <3>7. \A g \in File : g # f =>
            gs[g].chain = Append(file[g].chain, who) /\ gs[g].write = file[g].write /\ gs[g].load = file[g].load
      BY <1>11, <3>1, <3>3, <3>4, <3>5
    <3>8. gs[f].load = file[f].load /\ (file["turn"].dirty \/ (f = "turn" /\ keep) => gs["turn"].dirty)
      BY <1>9, <3>4, <3>6
    <3>9. \A g \in File : gs[g].load = file[g].load
      BY <3>7, <3>8
    <3> QED BY <2>2, <3>6, <3>7, <3>8, <3>9
  <2> QED BY <2>1, <2>2
<1> HIDE DEF gs
<1>15. /\ file' \in Files /\ Fitting(file')
       /\ \A g \in File :
             /\ file'[g].chain = gs[g].chain /\ file'[g].load = gs[g].load
             /\ file'[g].dirty = gs[g].dirty
             /\ file'[g].write = IF gs[g].chain = <<>> \/ gs[g].write.on THEN gs[g].write
                                 ELSE [on |-> TRUE, snap |-> IF g = "turn" THEN books ELSE locks]
  BY <1>1, <1>4, <1>14, StartedFacts
<1>16. file'[f].chain = q /\ file'[f].write = IF q = <<>> THEN NoWrite
                            ELSE [on |-> TRUE, snap |-> IF f = "turn" THEN books ELSE locks]
  BY <1>7, <1>9, <1>14, <1>15
<1>17. ASSUME NEW g \in File, g # f
       PROVE  file'[g].write = IF on /\ file[g].chain = <<>> THEN [on |-> TRUE, snap |-> locks]
                               ELSE file[g].write
  <2>1. file[g].chain \in Seq(Caller \cup {Tick}) /\ (file[g].write.on <=> file[g].chain # <<>>)
    BY <1>1 DEF Files, FileState, WritesOn
  <2>2. Append(file[g].chain, who) # <<>>
    BY <1>3, <2>1, AppendFacts
  <2>3. on => g # "turn"
    BY <1>17 DEF on
  <2>4. /\ gs[g].chain = IF on THEN Append(file[g].chain, who) ELSE file[g].chain
        /\ gs[g].write = file[g].write
    BY <1>14, <1>17
  <2>5. file'[g].write = IF gs[g].chain = <<>> \/ gs[g].write.on THEN gs[g].write
                         ELSE [on |-> TRUE, snap |-> IF g = "turn" THEN books ELSE locks]
    BY <1>15, <1>17
  <2> HIDE DEF who
  <2>6. CASE on
    BY <2>1, <2>2, <2>3, <2>4, <2>5, <2>6
  <2>7. CASE ~on
    BY <2>1, <2>4, <2>5, <2>7
  <2> QED BY <2>6, <2>7
<1>18. file'[f].load = file[f].load /\ file'[f].chain = Tail(file[f].chain)
  BY <1>1, <1>14, <1>15, <1>16 DEF q
<1>19. ASSUME NEW g \in File, g # f
       PROVE  /\ file'[g].chain = IF on THEN Append(file[g].chain, who) ELSE file[g].chain
              /\ file'[g].load = file[g].load
  BY <1>14, <1>15, <1>19
<1>20. file'[f].write = IF Tail(file[f].chain) = <<>> THEN NoWrite
                       ELSE [on |-> TRUE, snap |-> IF f = "turn" THEN books ELSE locks]
  BY <1>16 DEF q
<1>21. file' \in Files /\ Fitting(file')
  BY <1>15
<1>22. file["turn"].dirty \/ (f = "turn" /\ keep) => file'["turn"].dirty
  BY <1>1, <1>14, <1>15
<1> QED BY <1>2, <1>3, <1>5, <1>6, <1>17, <1>18, <1>19, <1>20, <1>21, <1>22 DEF on

\* The periodic flush queues a write of its own.
FilesTicked ==
    /\ sec' = sec
    /\ \A f \in File :
          \/ /\ file'[f].chain = file[f].chain /\ file'[f].write = file[f].write
             /\ file'[f].dirty = file[f].dirty
          \/ /\ file'[f].chain = Append(file[f].chain, Tick)
             /\ file'[f].write = IF file[f].chain = <<>>
                                 THEN [on |-> TRUE, snap |-> IF f = "turn" THEN books ELSE locks]
                                 ELSE file[f].write

LEMMA FlushTickFacts ==
  ASSUME Types, WritesOn, FlushTick
  PROVE  /\ FilesTicked /\ FilesFit /\ spent' \in [Disturbance -> Nat]
         /\ spent'["torn"] = spent["torn"] /\ spent'["crash"] = spent["crash"] /\ spent'["month"] = spent["month"]
<1>1. /\ file \in Files /\ Fitting(file) /\ sec \in Flushes /\ books \in Books /\ locks \in BOOLEAN
      /\ spent \in [Disturbance -> Nat]
  BY DEF Types, FileTyped, BooksTyped
<1> DEFINE wants(f) == file[f].load # "failed" /\ (f = "turn" => file[f].dirty)
           fs == [f \in File |-> IF wants(f) THEN Queued(file, f, Tick)[f] ELSE file[f]]
<1>2. Spend("tick") /\ sec' = sec /\ file' = Started(fs, books, locks)
  BY DEF FlushTick
<1> HIDE DEF wants
<1>3. ASSUME NEW f \in File
      PROVE  /\ Queued(file, f, Tick)[f] \in FileState
             /\ Queued(file, f, Tick)[f].chain = Append(file[f].chain, Tick)
             /\ Queued(file, f, Tick)[f].write = file[f].write
             /\ Queued(file, f, Tick)[f].load = file[f].load
             /\ file[f] \in FileState
  <2>1. Tick \in Caller \cup {Tick}
    OBVIOUS
  <2>2. /\ Queued(file, f, Tick) \in Files
        /\ Queued(file, f, Tick)[f].chain = Append(file[f].chain, Tick)
        /\ \A g \in File : /\ Queued(file, f, Tick)[g].write = file[g].write
                           /\ Queued(file, f, Tick)[g].load = file[g].load
    BY <1>1, <2>1, QueuedFacts
  <2> QED BY <1>1, <2>2 DEF Files
<1>4. /\ fs \in Files
      /\ \A f \in File :
            /\ fs[f].chain = IF wants(f) THEN Append(file[f].chain, Tick) ELSE file[f].chain
            /\ wants(f) \/ fs[f].dirty = file[f].dirty
            /\ fs[f].write = file[f].write /\ fs[f].load = file[f].load
  BY <1>3 DEF Files
<1>5. Fitting(fs)
  BY <1>1, <1>4 DEF Fitting, File
<1> HIDE DEF fs
<1>6. /\ file' \in Files /\ Fitting(file')
      /\ \A f \in File :
            /\ file'[f].chain = fs[f].chain /\ file'[f].load = fs[f].load
            /\ file'[f].dirty = fs[f].dirty
            /\ file'[f].write = IF fs[f].chain = <<>> \/ fs[f].write.on THEN fs[f].write
                                ELSE [on |-> TRUE, snap |-> IF f = "turn" THEN books ELSE locks]
  BY <1>1, <1>2, <1>4, <1>5, StartedFacts
<1>7. ASSUME NEW f \in File
      PROVE  \/ /\ file'[f].chain = file[f].chain /\ file'[f].write = file[f].write
                /\ file'[f].dirty = file[f].dirty
             \/ /\ file'[f].chain = Append(file[f].chain, Tick)
                /\ file'[f].write = IF file[f].chain = <<>>
                                    THEN [on |-> TRUE, snap |-> IF f = "turn" THEN books ELSE locks]
                                    ELSE file[f].write
  <2>1. file[f].chain \in Seq(Caller \cup {Tick}) /\ (file[f].write.on <=> file[f].chain # <<>>)
    BY <1>1 DEF Files, FileState, WritesOn
  <2>2. Append(file[f].chain, Tick) # <<>>
    BY <2>1, AppendFacts
  <2> QED BY <1>4, <1>6, <2>1, <2>2
<1>8. /\ spent' \in [Disturbance -> Nat] /\ spent'["torn"] = spent["torn"] /\ spent'["crash"] = spent["crash"]
      /\ spent'["month"] = spent["month"]
  BY <1>1, <1>2, SpendFacts DEF Disturbance
<1>9. "turn" \in File
  BY DEF File
<1> QED BY <1>2, <1>4, <1>6, <1>7, <1>8, <1>9 DEF FilesTicked, FilesFit

LEMMA BegunFacts ==
  ASSUME NEW s
  PROVE  [on |-> TRUE, snap |-> s].on /\ [on |-> TRUE, snap |-> s].snap = s
OBVIOUS

LEMMA KeptOn ==
  ASSUME WritesOn, FilesKept, sec \in Flushes
  PROVE  WritesOn' /\ sec' \in Flushes
BY DEF WritesOn, FilesKept, Kept

LEMMA AskedOn ==
  ASSUME WritesOn, NEW w \in Caller, FilesAsked(w), sec \in Flushes, file \in Files
  PROVE  WritesOn' /\ sec' \in Flushes
<1>1. PICK g \in {"turn", "locks", "end"} :
         /\ sec' = [sec EXCEPT ![w] = [at |-> g, ok |-> TRUE]]
         /\ \A f \in File :
               /\ file'[f].chain = IF f = g THEN Append(file[f].chain, w) ELSE file[f].chain
               /\ file'[f].write =
                     IF f = g /\ file[f].chain = <<>>
                     THEN [on |-> TRUE, snap |-> IF f = "turn" THEN books' ELSE locks']
                     ELSE file[f].write
  BY DEF FilesAsked
<1>2. sec' \in Flushes
  BY <1>1 DEF Flushes
<1>3. ASSUME NEW f \in File PROVE file'[f].write.on <=> file'[f].chain # <<>>
  <2>1. file[f].chain \in Seq(Caller \cup {Tick}) /\ (file[f].write.on <=> file[f].chain # <<>>)
    BY DEF Files, FileState, WritesOn
  <2>2. w \in Caller \cup {Tick}
    OBVIOUS
  <2>3. Append(file[f].chain, w) # <<>>
    BY <2>1, <2>2, AppendFacts
  <2>4. CASE f = g /\ file[f].chain = <<>>
    <3> DEFINE new == IF f = "turn" THEN books' ELSE locks'
    <3>1. file'[f].write = [on |-> TRUE, snap |-> new] /\ file'[f].chain # <<>>
      BY <1>1, <2>3, <2>4
    <3> HIDE DEF new
    <3> QED BY <3>1, BegunFacts
  <2>5. CASE ~(f = g /\ file[f].chain = <<>>)
    BY <1>1, <2>1, <2>3, <2>5
  <2> QED BY <2>4, <2>5
<1> QED BY <1>2, <1>3 DEF WritesOn

LEMMA TickedOn ==
  ASSUME WritesOn, FilesTicked, file \in Files
  PROVE  WritesOn'
<1>1. ASSUME NEW f \in File PROVE file'[f].write.on <=> file'[f].chain # <<>>
  <2>1. file[f].chain \in Seq(Caller \cup {Tick}) /\ (file[f].write.on <=> file[f].chain # <<>>)
    BY DEF Files, FileState, WritesOn
  <2>2. Append(file[f].chain, Tick) # <<>>
    BY <2>1, AppendFacts
  <2> DEFINE new == IF f = "turn" THEN books ELSE locks
  <2>3. \/ file'[f].chain = file[f].chain /\ file'[f].write = file[f].write
        \/ /\ file'[f].chain = Append(file[f].chain, Tick)
           /\ file'[f].write = IF file[f].chain = <<>> THEN [on |-> TRUE, snap |-> new] ELSE file[f].write
    BY DEF FilesTicked
  <2> HIDE DEF new
  <2>4. [on |-> TRUE, snap |-> new].on
    BY BegunFacts
  <2> QED BY <2>1, <2>2, <2>3, <2>4
<1> QED BY <1>1 DEF WritesOn

LEMMA SweptOrKeptOn ==
  ASSUME WritesOn, sec \in Flushes, file \in Files, NEW ws, WorkFine(ws), NEW b, SweptOrKept(ws, b)
  PROVE  WritesOn' /\ sec' \in Flushes /\ WorkFine(work)'
<1>1. CASE FilesKept /\ work' = ws
  BY <1>1, KeptOn DEF WorkFine
<1>2. CASE FilesAsked("sweep") /\ work' = [ws EXCEPT !["sweep"].at = "flush", !["sweep"].todo = Active(b)]
  <2>1. Active(b) \in SUBSET Cid /\ "sweep" \in Caller /\ "sweep" \in Revoker
    BY CallerAssumption DEF Active, Revoker
  <2>2. work' \in Works
    <3>1. ws["sweep"] \in WorkState
      BY <2>1 DEF WorkFine, Works
    <3>2. [ws["sweep"] EXCEPT !.at = "flush", !.todo = Active(b)] \in WorkState
      BY <2>1, <3>1 DEF WorkState
    <3>3. work' = [ws EXCEPT !["sweep"] = [ws["sweep"] EXCEPT !.at = "flush", !.todo = Active(b)]]
      BY <1>2, <2>1, <3>1 DEF WorkFine, Works
    <3> QED BY <2>1, <3>2, <3>3 DEF WorkFine, Works
  <2>3. \A a \in Revoker : work'[a].at \in {"revoke", "heard"} \/ (a = "abuse" /\ work'[a].at = "flush") => work'[a].c \in Cid
    BY <1>2, <2>1 DEF WorkFine, Works, WorkState
  <2> QED BY <1>2, <2>1, <2>2, <2>3, AskedOn DEF WorkFine
<1> QED BY <1>1, <1>2 DEF SweptOrKept

LEMMA AgesFacts ==
  ASSUME Types, NEW c \in Cid, Ages(c)
  PROVE  /\ books' \in Books
         /\ \E k \in {"near", "old"} :
               /\ books' = [books EXCEPT !.active[c].age = k]
               /\ books'.active = [books.active EXCEPT ![c].age = k]
               /\ cf' = IF k = "old" THEN [cf EXCEPT !.live = @ \ {books.active[c].rid}] ELSE cf
         /\ books'.deny = books.deny /\ books'.issues = books.issues /\ books'.ledger = books.ledger
         /\ books'.pess = books.pess /\ books'.cf = books.cf /\ books'.kill = books.kill
         /\ books'.month = books.month
<1>1. books \in Books /\ books.active \in [Cid -> Entries]
  BY NowFacts, BooksFields
<1>2. PICK k \in {"near", "old"} :
         /\ books' = [books EXCEPT !.active[c].age = k]
         /\ cf' = IF k = "old" THEN [cf EXCEPT !.live = @ \ {books.active[c].rid}] ELSE cf
  BY DEF Ages
<1> DEFINE act == [books.active EXCEPT ![c].age = k]
<1>3. act \in [Cid -> Entries]
  BY <1>1 DEF Entries
<1>4. books' = [books EXCEPT !.active = act]
  BY <1>1, <1>2
<1> HIDE DEF act
<1>5. /\ books' \in Books /\ books'.active = act
      /\ books'.deny = books.deny /\ books'.issues = books.issues /\ books'.ledger = books.ledger
      /\ books'.pess = books.pess /\ books'.cf = books.cf /\ books'.kill = books.kill
      /\ books'.month = books.month
  BY <1>1, <1>3, <1>4 DEF Books
<1> QED BY <1>2, <1>5 DEF act

\* The clients keep their credentials over a restart, the server nothing but the last number.
Reborn(t) == NoCred(cred.last, cred.dead \cup cred.seen, cred.held, cred.lost \cup Forgotten(t))

\* After a restart the books are those of the disk, or empty when they are lost.
LEMMA RestartsFacts ==
  ASSUME Types, NEW t \in Books \cup {Torn}, NEW l \in BOOLEAN \cup {Torn},
         Restarts([turn |-> t, locks |-> l])
  PROVE  /\ books' = IF t = Torn THEN EmptyBooks(srv.month) ELSE Rolled(t)
         /\ books' \in Books /\ locks' = (l = TRUE) /\ locks' \in BOOLEAN
         /\ disk' = [turn |-> t, locks |-> l = TRUE] /\ disk' \in [File -> Snapshot]
         /\ file' \in Files /\ Fitting(file')
         /\ \A f \in File : /\ file'[f].chain = <<>> /\ file'[f].write = NoWrite
         /\ file'["turn"].load = IF t = Torn THEN "failed" ELSE "ok"
         /\ file'["locks"].load = IF l = Torn THEN "failed" ELSE "ok"
         /\ sec' = [w \in Caller |-> Off] /\ sec' \in Flushes
         /\ work' = [a \in Revoker |-> Idle] /\ WorkFine(work') /\ poll' \in Polls
         /\ cred' = Reborn(t) /\ cred' \in Creds /\ cf' = cf
         /\ srv' = [srv EXCEPT !.at = "up"] /\ srv' \in Servers
<1>1. srv \in Servers /\ cred \in Creds /\ disk \in [File -> Snapshot]
  BY NowFacts DEF Types, DiskTyped
<1> DEFINE d == [turn |-> t, locks |-> l]
<1>2. d["turn"] = t /\ d["locks"] = l /\ d.turn = t /\ d.locks = l
  OBVIOUS
<1>3. /\ books' = IF t = Torn THEN EmptyBooks(srv.month) ELSE Rolled(t)
      /\ locks' = IF l = Torn THEN FALSE ELSE l
      /\ file' = [Loaded(d) EXCEPT !["turn"].dirty = t # Torn /\ t.month # srv.month]
      /\ disk' = [d EXCEPT !["locks"] = IF @ = Torn THEN FALSE ELSE @]
  BY <1>2 DEF Restarts
<1>4. books' \in Books
  <2>1. srv.month \in Nat
    BY <1>1 DEF Servers
  <2> QED BY <1>1, <1>3, <2>1, EmptyBooksFacts, RolledFacts
<1>5. locks' \in BOOLEAN /\ locks' = (l = TRUE)
  <2>1. CASE l = Torn
    BY <1>3, <2>1, TornAssumption
  <2>2. CASE l \in BOOLEAN
    BY <1>3, <2>2, TornAssumption
  <2> QED BY <2>1, <2>2
<1>6. disk' = [turn |-> t, locks |-> l = TRUE] /\ disk' \in [File -> Snapshot]
  <2>1. PICK k \in BOOLEAN : k = (l = TRUE)
    OBVIOUS
  <2>2. k = IF l = Torn THEN FALSE ELSE l
    BY <1>3, <1>5, <2>1
  <2>3. disk' = [d EXCEPT !["locks"] = k]
    BY <1>2, <1>3, <2>2
  <2>4. disk' = [turn |-> t, locks |-> k]
    BY <2>3
  <2>5. [turn |-> t, locks |-> k] \in [File -> Snapshot]
    BY DEF File, Snapshot
  <2> QED BY <2>1, <2>4, <2>5
<1>7. /\ file' \in Files /\ \A f \in File : file'[f].chain = <<>> /\ file'[f].write = NoWrite
      /\ file'["turn"].load = IF t = Torn THEN "failed" ELSE "ok"
      /\ file'["locks"].load = IF l = Torn THEN "failed" ELSE "ok"
  <2>1. Clean \in FileState /\ Clean.chain = <<>> /\ Clean.write = NoWrite
    BY DEF Clean, FileState, NoWrite, Snapshot
  <2>2. "turn" \in File /\ "locks" \in File
    BY DEF File
  <2> DEFINE fs == Loaded(d)
  <2> HIDE DEF Clean, d
  <2>3. \A f \in File : fs[f] = [Clean EXCEPT !.load = IF d[f] = Torn THEN "failed" ELSE "ok"]
    BY DEF Loaded
  <2>4. \A f \in File : /\ fs[f] \in FileState /\ fs[f].chain = <<>> /\ fs[f].write = NoWrite
                        /\ fs[f].load = IF d[f] = Torn THEN "failed" ELSE "ok"
    <3> SUFFICES ASSUME NEW f \in File
                 PROVE  /\ fs[f] \in FileState /\ fs[f].chain = <<>> /\ fs[f].write = NoWrite
                        /\ fs[f].load = IF d[f] = Torn THEN "failed" ELSE "ok"
      OBVIOUS
    <3>1. PICK k \in {"ok", "failed"} : k = IF d[f] = Torn THEN "failed" ELSE "ok"
      OBVIOUS
    <3>2. fs[f] = [Clean EXCEPT !.load = k]
      BY <2>3, <3>1
    <3> HIDE DEF fs
    <3> QED BY <2>1, <3>1, <3>2 DEF FileState
  <2>5. fs \in Files
    <3>1. fs = [f \in File |-> fs[f]]
      BY DEF Loaded
    <3> HIDE DEF fs
    <3> QED BY <2>4, <3>1 DEF Files
  <2>6. PICK k \in BOOLEAN : k = (t # Torn /\ t.month # srv.month)
    OBVIOUS
  <2>7. file' = [fs EXCEPT !["turn"].dirty = k]
    BY <1>3, <2>6
  <2> HIDE DEF fs
  <2> QED BY <1>2, <2>2, <2>4, <2>5, <2>7 DEF Files, FileState
<1>8. Fitting(file')
  BY <1>7 DEF Fitting, NoWrite, File
<1>9. sec' = [w \in Caller |-> Off] /\ sec' \in Flushes
  BY DEF Restarts, Off, Flushes
<1>10. work' = [a \in Revoker |-> Idle] /\ WorkFine(work')
  BY IdleType DEF Restarts, WorkFine, Works
<1>11. poll' \in Polls
  BY DEF Restarts, NoPoll, Polls
<1>12. cred' = Reborn(t) /\ cred' \in Creds /\ cf' = cf
  <2>1. PICK no \in BOOLEAN : no = FALSE
    OBVIOUS
  <2>2. [rid |-> 0, made |-> no] \in [rid : Rid \cup {0}, made : BOOLEAN]
    OBVIOUS
  <2>3. NoIssue \in [rid : Rid \cup {0}, made : BOOLEAN]
    BY <2>1, <2>2 DEF NoIssue
  <2>4. cred.held \in SUBSET Rid /\ cred.lost \cup Forgotten(t) \in SUBSET Rid
    BY <1>1 DEF Creds, Forgotten
  <2>5. cred' = Reborn(t) /\ cf' = cf
    BY <1>2 DEF Restarts, Reborn
  <2>6. Reborn(t) \in Creds
    BY <1>1, <2>3, <2>4 DEF Reborn, NoCred, Creds
  <2> QED BY <2>5, <2>6
<1>13. srv' = [srv EXCEPT !.at = "up"] /\ srv' \in Servers
  BY <1>1 DEF Restarts, Servers
<1> QED BY <1>3, <1>4, <1>5, <1>6, <1>7, <1>8, <1>9, <1>10, <1>11, <1>12, <1>13

LEMMA CrashFacts ==
  ASSUME Types, Crash \/ CrashTorn
  PROVE  /\ \E t \in Books \cup {Torn}, l \in BOOLEAN \cup {Torn} :
               /\ Restarts([turn |-> t, locks |-> l])
               /\ t \in Left("turn") \cup {Torn} /\ l \in Left("locks") \cup {Torn}
               /\ Crash => t \in Left("turn") /\ l \in Left("locks")
         /\ spent' \in [Disturbance -> Nat]
         /\ Crash => spent'["crash"] > 0 /\ spent'["torn"] = spent["torn"]
         /\ CrashTorn => spent'["torn"] > 0
         /\ spent'["torn"] >= spent["torn"] /\ spent'["month"] = spent["month"]
<1>1. /\ disk["turn"] \in Books \cup {Torn} /\ disk["locks"] \in BOOLEAN /\ Fitting(file)
      /\ spent \in [Disturbance -> Nat]
  BY DEF Types, DiskTyped, FileTyped
<1>2. Left("turn") \subseteq Books \cup {Torn} /\ Left("locks") \subseteq BOOLEAN \cup {Torn}
  BY <1>1 DEF Left, Fitting
<1>3. /\ spent' \in [Disturbance -> Nat]
      /\ Crash => spent'["crash"] = spent["crash"] + 1 /\ spent'["torn"] = spent["torn"]
      /\ CrashTorn => spent'["torn"] = spent["torn"] + 1
      /\ spent'["month"] = spent["month"]
  BY <1>1, SpendFacts DEF Crash, CrashTorn, Disturbance
<1>4. /\ spent["crash"] \in Nat /\ spent["torn"] \in Nat
  BY <1>1 DEF Disturbance
<1>5. \E t \in Books \cup {Torn}, l \in BOOLEAN \cup {Torn} :
               /\ Restarts([turn |-> t, locks |-> l])
               /\ t \in Left("turn") \cup {Torn} /\ l \in Left("locks") \cup {Torn}
               /\ Crash => t \in Left("turn") /\ l \in Left("locks")
  <2>1. CASE Crash
    BY <1>2, <2>1, Zenon DEF Crash
  <2>2. CASE CrashTorn /\ ~Crash
    BY <1>2, <2>2, Zenon DEF CrashTorn
  <2> QED BY <2>1, <2>2
<1> QED BY <1>3, <1>4, <1>5

(***************************************************************************)
(* Type correctness.                                                       *)
(***************************************************************************)

Typed == Types /\ WritesOn

LEMMA TypesInit ==
  ASSUME Init
  PROVE  Typed
<1>1. books = EmptyBooks(0) /\ EmptyBooks(0) \in Books /\ locks = FALSE
  BY EmptyBooksFacts DEF Init
<1>2. DiskTyped
  <2>1. PICK no \in BOOLEAN : no = FALSE
    OBVIOUS
  <2>2. disk = [turn |-> books, locks |-> no]
    BY <1>1, <2>1 DEF Init
  <2> QED BY <1>1, <2>2 DEF DiskTyped, Snapshot, File
<1>3. file \in Files /\ \A f \in File : file[f].chain = <<>> /\ file[f].write = NoWrite
  <2>1. Clean \in FileState /\ Clean.chain = <<>> /\ Clean.write = NoWrite
    BY DEF Clean, FileState, NoWrite, Snapshot
  <2> HIDE DEF Clean
  <2> QED BY <2>1 DEF Init, Files
<1>4. FileTyped /\ WritesOn
  BY <1>3 DEF FileTyped, Fitting, NoWrite, WritesOn, File
<1>5. sec \in Flushes /\ WorkTyped /\ poll \in Polls
  <2>1. sec \in Flushes
    BY DEF Init, Flushes, Off
  <2>2. WorkTyped
    BY IdleType DEF Init, WorkTyped, WorkFine, Works
  <2>3. poll \in Polls
    BY DEF Init, NoPoll, Polls
  <2> QED BY <2>1, <2>2, <2>3
<1>6. spent \in [Disturbance -> Nat] /\ srv \in Servers
  <2>1. spent \in [Disturbance -> Nat]
    BY DEF Init
  <2>2. srv \in [at : {"up"}, month : {0}, policy : BOOLEAN, told : {FALSE}]
    BY DEF Init
  <2>3. {FALSE} \subseteq BOOLEAN /\ {0} \subseteq Nat
    OBVIOUS
  <2> QED BY <2>1, <2>2, <2>3 DEF Servers
<1>7. CredTyped
  <2>1. PICK no \in BOOLEAN : no = FALSE
    OBVIOUS
  <2>2. [rid |-> 0, made |-> no] \in [rid : Rid \cup {0}, made : BOOLEAN] /\ ~[rid |-> 0, made |-> no].made
    BY <2>1
  <2>3. NoIssue \in [rid : Rid \cup {0}, made : BOOLEAN] /\ ~NoIssue.made
    BY <2>1, <2>2 DEF NoIssue
  <2> QED BY <2>3 DEF Init, CredTyped, Creds, NoCred
<1>8. cf \in Providers
  BY DEF Init, Providers
<1> QED BY <1>1, <1>2, <1>4, <1>5, <1>6, <1>7, <1>8 DEF Typed, Types, BooksTyped

\* A step that leaves what it does not name as it is.
LEMMA TypesIssue ==
  ASSUME Typed, Issue
  PROVE  Typed'
<1>1. /\ Types /\ WritesOn /\ books \in Books /\ srv \in Servers /\ cred \in Creds /\ cf \in Providers
      /\ sec \in Flushes /\ file \in Files /\ WorkFine(work) /\ spent \in [Disturbance -> Nat]
      /\ \A c \in Cid : cred.issue[c].made => cred.issue[c].rid # 0
  BY NowFacts DEF Typed, Types, CredTyped, WorkTyped
<1>2. ASSUME NEW c \in Cid, IssueOld(c) PROVE Typed'
  <2>1. /\ books' \in Books /\ FilesKept /\ FilesFit /\ work' = work
        /\ cred' \in Creds /\ cred'.issue = cred.issue
    BY <1>1, <1>2, IssueOldFacts
  <2>2. UNCHANGED <<locks, disk, poll, cf, srv>> /\ spent' \in [Disturbance -> Nat]
    BY <1>1, <1>2, SpendFacts DEF IssueOld, Asks, Disturbance
  <2>3. WritesOn' /\ sec' \in Flushes
    BY <1>1, <2>1, KeptOn
  <2> QED BY <1>1, <2>1, <2>2, <2>3
          DEF Typed, Types, BooksTyped, DiskTyped, FileTyped, WorkTyped, WorkFine, CredTyped, FilesFit
<1>3. ASSUME NEW c \in Cid, IssueFresh(c) PROVE Typed'
  <2> DEFINE d == Reserved(Pruned(Rolled(books)), c, cred.last + 1)
  <2>1. /\ cred.last + 1 \in Rid /\ books' \in Books /\ FilesFit /\ SweptOrKept(work, d)
        /\ cred' \in Creds
        /\ cred'.issue = [cred.issue EXCEPT ![c] = [rid |-> cred.last + 1, made |-> FALSE]]
    BY <1>1, <1>3, IssueFreshFacts
  <2> HIDE DEF d
  <2>2. UNCHANGED <<locks, disk, poll, srv>> /\ spent' \in [Disturbance -> Nat]
    BY <1>1, <1>3, SpendFacts DEF IssueFresh, Asks, Disturbance
  <2>3. cf' \in Providers
    BY <1>1, <1>3, <2>1 DEF IssueFresh, Providers
  <2>4. WritesOn' /\ sec' \in Flushes /\ WorkFine(work)'
    BY <1>1, <2>1, SweptOrKeptOn
  <2>5. \A e \in Cid : cred'.issue[e].made => cred'.issue[e].rid # 0
    BY <1>1, <2>1 DEF Creds
  <2> QED BY <1>1, <2>1, <2>2, <2>3, <2>4, <2>5
          DEF Typed, Types, BooksTyped, DiskTyped, FileTyped, WorkTyped, WorkFine, CredTyped, FilesFit
<1>4. ASSUME NEW c \in Cid, ProviderMakes(c) PROVE Typed'
  <2>1. UNCHANGED <<persistVars, work, poll, srv>>
    BY <1>4 DEF ProviderMakes
  <2>2. cf' \in Providers
    BY <1>1, <1>4 DEF ProviderMakes, Providers, Creds
  <2>3. CredTyped'
    BY <1>1, <1>4 DEF ProviderMakes, CredTyped, Creds
  <2> QED BY <1>1, <2>1, <2>2, <2>3
          DEF Typed, Types, BooksTyped, DiskTyped, FileTyped, Fitting, WorkTyped, WorkFine, WritesOn, persistVars
<1>5. ASSUME NEW c \in Cid, IssueDone(c) PROVE Typed'
  <2>1. UNCHANGED <<persistVars, work, poll, cf, srv>>
    BY <1>5 DEF IssueDone
  <2>2. CredTyped'
    <3>1. cred.issue[c].rid \in Rid
      BY <1>1, <1>5 DEF IssueDone, Creds
    <3>2. NoIssue \in [rid : Rid \cup {0}, made : BOOLEAN] /\ ~NoIssue.made
      BY DEF NoIssue
    <3> HIDE DEF NoIssue
    <3> QED BY <1>1, <1>5, <3>1, <3>2 DEF IssueDone, CredTyped, Creds
  <2> QED BY <1>1, <2>1, <2>2
          DEF Typed, Types, BooksTyped, DiskTyped, FileTyped, Fitting, WorkTyped, WorkFine, WritesOn, persistVars
<1>6. ASSUME NEW c \in Cid, IssueFails(c) PROVE Typed'
  <2>1. /\ books' \in Books /\ FilesKept /\ FilesFit /\ work' = work
        /\ cred' \in Creds /\ cred'.issue = [cred.issue EXCEPT ![c] = NoIssue]
    BY <1>1, <1>6, IssueFailsFacts
  <2>2. UNCHANGED <<locks, disk, poll, cf, srv>> /\ spent' \in [Disturbance -> Nat]
    BY <1>1, <1>6, SpendFacts DEF IssueFails, Disturbance
  <2>3. WritesOn' /\ sec' \in Flushes
    BY <1>1, <2>1, KeptOn
  <2>4. \A e \in Cid : cred'.issue[e].made => cred'.issue[e].rid # 0
    BY <1>1, <2>1 DEF Creds, NoIssue
  <2> QED BY <1>1, <2>1, <2>2, <2>3, <2>4
          DEF Typed, Types, BooksTyped, DiskTyped, FileTyped, WorkTyped, WorkFine, CredTyped, FilesFit
<1> QED BY <1>2, <1>3, <1>4, <1>5, <1>6 DEF Issue

\* The flush that a revoker awaited has ended.
LEMMA FlushedFacts ==
  ASSUME Types, NEW a \in {"abuse", "sweep"}, Flushed(a)
  PROVE  /\ work[a].at \in {"flush", "note"} /\ sec[a].at = "end"
         /\ sec' = [sec EXCEPT ![a] = Off] /\ sec' \in Flushes
         /\ WorkFine(work)'
         /\ \E w \in WorkState :
               /\ work' = [work EXCEPT ![a] = w]
               /\ w.at \in {"revoke", "rows", "idle"}
               /\ w.at = "revoke" => a = "abuse" /\ w.c = work[a].c /\ work[a].at = "flush" /\ sec[a].ok
<1>1. work \in Works /\ sec \in Flushes /\ WorkFine(work) /\ a \in Revoker /\ a \in Caller
  BY CallerAssumption DEF Types, WorkTyped, WorkFine, Revoker
<1> DEFINE on == work[a].at = "flush" /\ sec[a].ok
           w == IF a = "abuse" THEN [work[a] EXCEPT !.at = IF on THEN "revoke" ELSE "rows"]
                ELSE IF on THEN [work[a] EXCEPT !.at = "rows"] ELSE Idle
<1>2. work[a].at \in {"flush", "note"} /\ sec[a].at = "end" /\ sec' = [sec EXCEPT ![a] = Off]
  BY DEF Flushed, Answered
<1>3. work' = [work EXCEPT ![a] = w]
  BY DEF Flushed
<1>4. work[a] \in WorkState
  BY <1>1 DEF Works
<1>5. /\ w \in WorkState /\ w.at \in {"revoke", "rows", "idle"}
      /\ w.at = "revoke" => a = "abuse" /\ w.c = work[a].c /\ work[a].at = "flush" /\ sec[a].ok
  <2>1. PICK at \in {"revoke", "rows"} : at = IF on THEN "revoke" ELSE "rows"
    OBVIOUS
  <2>2. w = IF a = "abuse" THEN [work[a] EXCEPT !.at = at]
            ELSE IF on THEN [work[a] EXCEPT !.at = "rows"] ELSE Idle
    BY <2>1
  <2> HIDE DEF w
  <2>3. /\ [work[a] EXCEPT !.at = at] \in WorkState /\ [work[a] EXCEPT !.at = at].at = at
        /\ [work[a] EXCEPT !.at = at].c = work[a].c
        /\ [work[a] EXCEPT !.at = "rows"] \in WorkState /\ [work[a] EXCEPT !.at = "rows"].at = "rows"
    BY <1>4 DEF WorkState
  <2> QED BY <2>1, <2>2, <2>3, IdleType
<1> HIDE DEF w
<1>6. work' \in Works
  BY <1>1, <1>3, <1>5, WorkMoves
<1>7. sec' \in Flushes
  BY <1>1, <1>2 DEF Flushes, Off
<1>8. \A x \in Revoker : work'[x].at \in {"revoke", "heard"} \/ (x = "abuse" /\ work'[x].at = "flush") => work'[x].c \in Cid
  BY <1>1, <1>3, <1>5 DEF WorkFine, Works
<1> QED BY <1>2, <1>3, <1>5, <1>6, <1>7, <1>8 DEF WorkFine

LEMMA WorkStays ==
  ASSUME WorkFine(work), NEW a \in Revoker, NEW w \in WorkState, work' = [work EXCEPT ![a] = w],
         w.at \in {"revoke", "heard"} \/ (a = "abuse" /\ w.at = "flush") => w.c \in Cid
  PROVE  WorkFine(work)'
<1>1. work' \in Works
  BY WorkMoves DEF WorkFine
<1> QED BY <1>1 DEF WorkFine, Works

LEMMA ProviderRevokesFacts ==
  ASSUME Types, NEW a \in Revoker, ProviderRevokes(a)
  PROVE  /\ work[a].at = "revoke" /\ work[a].c \in Cid
         /\ work' = [work EXCEPT ![a] = [work[a] EXCEPT !.at = "heard"]] /\ WorkFine(work)'
         /\ cf' \in Providers /\ cf'.live \subseteq cf.live /\ cf'.owner = cf.owner
         /\ cf.struck \subseteq cf'.struck
         /\ \A s \in cf'.struck \ cf.struck : s = <<PrincipalOf[work[a].c], a>> /\ Denied(books, work[a].c)
<1>1. work \in Works /\ WorkFine(work) /\ work[a] \in WorkState /\ cf \in Providers
  BY DEF Types, WorkTyped, WorkFine, Works
<1>2. work[a].at = "revoke" /\ work[a].c \in Cid
  BY <1>1 DEF ProviderRevokes, WorkFine
<1>3. work' = [work EXCEPT ![a] = [work[a] EXCEPT !.at = "heard"]]
  BY <1>1 DEF ProviderRevokes, Works
<1>4. [work[a] EXCEPT !.at = "heard"] \in WorkState /\ [work[a] EXCEPT !.at = "heard"].c = work[a].c
  BY <1>1 DEF WorkState
<1>5. WorkFine(work)'
  <2> DEFINE w == [work[a] EXCEPT !.at = "heard"]
  <2>1. w \in WorkState /\ w.c \in Cid /\ work' = [work EXCEPT ![a] = w]
    BY <1>2, <1>3, <1>4
  <2> HIDE DEF w
  <2> QED BY <1>1, <2>1, WorkStays
<1> DEFINE c == work[a].c
           new == IF Denied(books, c) THEN {<<PrincipalOf[c], a>>} ELSE {}
           live == {r \in cf.live : cf.owner[r] # c}
<1>6. cf' = [cf EXCEPT !.live = live, !.struck = @ \cup new]
  BY <1>1 DEF ProviderRevokes, Providers
<1>7. new \in SUBSET (Principal \X Revoker) /\ \A s \in new : s = <<PrincipalOf[c], a>> /\ Denied(books, c)
  BY <1>2, OwnerAssumption
<1>8. live \in SUBSET Rid /\ live \subseteq cf.live
  BY <1>1 DEF Providers
<1> HIDE DEF new, live
<1>9. cf' \in Providers /\ cf'.live = live /\ cf'.owner = cf.owner /\ cf'.struck = cf.struck \cup new
  BY <1>1, <1>6, <1>7, <1>8 DEF Providers
<1> QED BY <1>2, <1>3, <1>5, <1>7, <1>8, <1>9

LEMMA TypesRevoke ==
  ASSUME Typed, Revoke
  PROVE  Typed'
<1>1. /\ Types /\ WritesOn /\ books \in Books /\ srv \in Servers /\ cred \in Creds /\ cf \in Providers
      /\ sec \in Flushes /\ file \in Files /\ WorkFine(work) /\ spent \in [Disturbance -> Nat]
      /\ work \in Works /\ \A c \in Cid : cred.issue[c].made => cred.issue[c].rid # 0
  BY NowFacts DEF Typed, Types, CredTyped, WorkTyped
<1>2. ASSUME NEW a \in Revoker, ProviderRevokes(a) PROVE Typed'
  <2>1. UNCHANGED <<persistVars, cred, poll, srv>>
    BY <1>2 DEF ProviderRevokes
  <2>2. WorkFine(work)' /\ cf' \in Providers
    BY <1>1, <1>2, ProviderRevokesFacts
  <2> QED BY <1>1, <2>1, <2>2
          DEF Typed, Types, BooksTyped, DiskTyped, FileTyped, Fitting, WorkTyped, CredTyped, WritesOn, persistVars
<1>3. ASSUME NEW a \in Revoker, RevokeDone(a) PROVE Typed'
  <2>1. /\ books' \in Books /\ FilesKept /\ FilesFit
        /\ work' = [work EXCEPT ![a].at = "rows", ![a].c = NoCid]
        /\ cred' \in Creds /\ cred'.issue = cred.issue
    BY <1>1, <1>3, RevokeDoneFacts
  <2>2. UNCHANGED <<locks, disk, spent, poll, cf, srv>>
    BY <1>3 DEF RevokeDone
  <2>3. WritesOn' /\ sec' \in Flushes
    BY <1>1, <2>1, KeptOn
  <2>4. WorkFine(work)'
    <3> DEFINE w == [work[a] EXCEPT !.at = "rows", !.c = NoCid]
    <3>1. w \in WorkState /\ w.at = "rows"
      BY <1>1 DEF Works, WorkState
    <3>2. work' = [work EXCEPT ![a] = w]
      BY <1>1, <2>1 DEF Works
    <3> HIDE DEF w
    <3> QED BY <1>1, <3>1, <3>2, WorkStays
  <2> QED BY <1>1, <2>1, <2>2, <2>3, <2>4
          DEF Typed, Types, BooksTyped, DiskTyped, FileTyped, WorkTyped, CredTyped, FilesFit
<1>4. ASSUME NEW a \in Revoker, RevokeFails(a) PROVE Typed'
  <2>1. /\ books' = books /\ FilesFit
        /\ IF a = "abuse"
           THEN FilesAsked("abuse") /\ work' = [work EXCEPT ![a].at = "note", ![a].c = NoCid]
           ELSE FilesKept /\ work' = [work EXCEPT ![a].at = "rows", ![a].c = NoCid]
    BY <1>1, <1>4, RevokeFailsFacts
  <2>2. UNCHANGED <<locks, disk, cred, poll, cf, srv>> /\ spent' \in [Disturbance -> Nat]
    BY <1>1, <1>4, SpendFacts DEF RevokeFails, Disturbance
  <2>3. WritesOn' /\ sec' \in Flushes
    BY <1>1, <2>1, KeptOn, AskedOn, CallerAssumption
  <2>4. WorkFine(work)'
    <3>1. PICK at \in {"note", "rows"} : work' = [work EXCEPT ![a].at = at, ![a].c = NoCid]
      BY <2>1
    <3> DEFINE w == [work[a] EXCEPT !.at = at, !.c = NoCid]
    <3>2. w \in WorkState /\ w.at = at
      BY <1>1 DEF Works, WorkState
    <3>3. work' = [work EXCEPT ![a] = w]
      BY <1>1, <3>1 DEF Works
    <3> HIDE DEF w
    <3> QED BY <1>1, <3>2, <3>3, WorkStays
  <2> QED BY <1>1, <2>1, <2>2, <2>3, <2>4
          DEF Typed, Types, BooksTyped, DiskTyped, FileTyped, WorkTyped, CredTyped, FilesFit
<1>5. ASSUME NEW a \in {"abuse", "sweep"}, Flushed(a) PROVE Typed'
  <2>1. sec' \in Flushes /\ WorkFine(work)'
    BY <1>1, <1>5, FlushedFacts
  <2>2. UNCHANGED <<books, locks, file, disk, spent, cred, poll, cf, srv>>
    BY <1>5 DEF Flushed
  <2> QED BY <1>1, <2>1, <2>2
          DEF Typed, Types, BooksTyped, DiskTyped, FileTyped, Fitting, WorkTyped, CredTyped, WritesOn
<1>6. CASE SweepNext
  <2>1. /\ books' = books /\ FilesFit /\ work' \in Works
        /\ \/ FilesAsked("sweep") /\ work' = [work EXCEPT !["sweep"].at = "note"]
           \/ /\ FilesKept
              /\ \E c \in Cid, w \in WorkState :
                    /\ work' = [work EXCEPT !["sweep"] = w]
                    /\ w.at \in {"rows", "revoke"} /\ (w.at = "revoke" => w.c = c)
    BY <1>1, <1>6, SweepNextFacts
  <2>2. UNCHANGED <<locks, disk, spent, cred, poll, cf, srv>>
    BY <1>6 DEF SweepNext
  <2>3. WritesOn' /\ sec' \in Flushes
    BY <1>1, <2>1, KeptOn, AskedOn, CallerAssumption
  <2>4. WorkFine(work)'
    <3>1. \E w \in WorkState : /\ work' = [work EXCEPT !["sweep"] = w]
                               /\ w.at \in {"note", "rows", "revoke"} /\ (w.at = "revoke" => w.c \in Cid)
      <4>1. CASE work' = [work EXCEPT !["sweep"].at = "note"]
        <5>1. "sweep" \in Revoker
          BY DEF Revoker
        <5>2. [work["sweep"] EXCEPT !.at = "note"] \in WorkState /\ [work["sweep"] EXCEPT !.at = "note"].at = "note"
          BY <1>1, <5>1 DEF Works, WorkState
        <5>3. work' = [work EXCEPT !["sweep"] = [work["sweep"] EXCEPT !.at = "note"]]
          BY <1>1, <4>1, <5>1 DEF Works
        <5> QED BY <5>2, <5>3
      <4> QED BY <2>1, <4>1
    <3>2. "sweep" \in Revoker
      BY DEF Revoker
    <3> QED BY <1>1, <3>1, <3>2, WorkStays
  <2> QED BY <1>1, <2>1, <2>2, <2>3, <2>4
          DEF Typed, Types, BooksTyped, DiskTyped, FileTyped, WorkTyped, CredTyped, FilesFit
<1>7. CASE RetryStarts
  <2> DEFINE pending == {c \in Active(books) : books.active[c].pending}
             w == [Idle EXCEPT !.at = "rows", !.todo = pending, !.old = pending \cap Expired(books)]
  <2>1. UNCHANGED <<persistVars, cred, poll, cf, srv>> /\ work' = [work EXCEPT !["retry"] = w]
    BY <1>7 DEF RetryStarts
  <2>2. pending \in SUBSET Cid /\ "retry" \in Revoker
    BY DEF Active, Revoker
  <2> HIDE DEF pending
  <2>3. w \in WorkState /\ w.at = "rows"
    BY <2>2, IdleType DEF WorkState
  <2> HIDE DEF w
  <2>4. WorkFine(work)'
    BY <1>1, <2>1, <2>2, <2>3, WorkStays
  <2> QED BY <1>1, <2>1, <2>4
          DEF Typed, Types, BooksTyped, DiskTyped, FileTyped, Fitting, WorkTyped, CredTyped, WritesOn, persistVars
<1>8. CASE RetryNext
  <2>1. /\ books' \in Books /\ FilesFit /\ FilesKept /\ cred' \in Creds /\ cred'.issue = cred.issue
        /\ work["retry"].at = "rows"
        /\ \/ books' = books /\ work' = [work EXCEPT !["retry"] = Idle]
           \/ \E c \in work["retry"].todo \cap work["retry"].old :
                 /\ c \in Cid /\ books' = Dropped(books, {c})
                 /\ work' = [work EXCEPT !["retry"].todo = @ \ {c}]
           \/ \E c \in work["retry"].todo :
                 /\ c \in Cid /\ books' = books
                 /\ work' = [work EXCEPT !["retry"] =
                       [work["retry"] EXCEPT !.at = "revoke", !.c = c, !.todo = @ \ {c}]]
    BY <1>1, <1>8, RetryNextFacts
  <2>2. UNCHANGED <<locks, disk, spent, poll, cf, srv>>
    BY <1>8 DEF RetryNext
  <2>3. WritesOn' /\ sec' \in Flushes
    BY <1>1, <2>1, KeptOn
  <2>4. "retry" \in Revoker /\ work["retry"] \in WorkState
    BY <1>1 DEF Revoker, Works
  <2>5. \E w \in WorkState : /\ work' = [work EXCEPT !["retry"] = w]
                             /\ w.at \in {"idle", "rows", "revoke"} /\ (w.at = "revoke" => w.c \in Cid)
    <3>1. ASSUME NEW c \in Cid, work' = [work EXCEPT !["retry"].todo = @ \ {c}]
          PROVE  \E w \in WorkState : work' = [work EXCEPT !["retry"] = w] /\ w.at = "rows"
      <4> DEFINE w == [work["retry"] EXCEPT !.todo = @ \ {c}]
      <4>1. w \in WorkState /\ w.at = "rows"
        BY <2>1, <2>4 DEF WorkState
      <4>2. work' = [work EXCEPT !["retry"] = w]
        BY <1>1, <2>4, <3>1 DEF Works
      <4> QED BY <4>1, <4>2
    <3>2. ASSUME NEW c \in Cid,
                 work' = [work EXCEPT !["retry"] =
                       [work["retry"] EXCEPT !.at = "revoke", !.c = c, !.todo = @ \ {c}]]
          PROVE  \E w \in WorkState : work' = [work EXCEPT !["retry"] = w] /\ w.at = "revoke" /\ w.c \in Cid
      <4> DEFINE w == [work["retry"] EXCEPT !.at = "revoke", !.c = c, !.todo = @ \ {c}]
      <4>1. w \in WorkState /\ w.at = "revoke" /\ w.c = c
        BY <2>4 DEF WorkState
      <4> QED BY <3>2, <4>1
    <3> QED BY <2>1, <3>1, <3>2, IdleType
  <2>6. WorkFine(work)'
    BY <1>1, <2>4, <2>5, WorkStays
  <2> QED BY <1>1, <2>1, <2>2, <2>3, <2>6
          DEF Typed, Types, BooksTyped, DiskTyped, FileTyped, WorkTyped, CredTyped, FilesFit
<1> QED BY <1>2, <1>3, <1>4, <1>5, <1>6, <1>7, <1>8 DEF Revoke

LEMMA TypesPoll ==
  ASSUME Typed, Poll
  PROVE  Typed'
<1>1. /\ Types /\ WritesOn /\ books \in Books /\ srv \in Servers /\ cred \in Creds /\ cf \in Providers
      /\ sec \in Flushes /\ file \in Files /\ WorkFine(work) /\ spent \in [Disturbance -> Nat]
      /\ work \in Works /\ poll \in Polls /\ Fitting(file)
      /\ \A c \in Cid : cred.issue[c].made => cred.issue[c].rid # 0
  BY NowFacts DEF Typed, Types, CredTyped, WorkTyped, FileTyped
<1>2. "abuse" \in Revoker /\ "abuse" \in Caller
  BY CallerAssumption DEF Revoker
<1>3. CASE AbuseAsks
  <2>1. UNCHANGED <<books, locks, file, sec, disk, cred, poll, cf, srv>> /\ spent' \in [Disturbance -> Nat]
    BY <1>1, <1>3, SpendFacts DEF AbuseAsks, Disturbance
  <2> DEFINE w == [work["abuse"] EXCEPT !.at = "ask"]
  <2>2. w \in WorkState /\ w.at = "ask"
    BY <1>1, <1>2 DEF Works, WorkState
  <2>3. work' = [work EXCEPT !["abuse"] = w]
    BY <1>1, <1>2, <1>3 DEF AbuseAsks, Works
  <2> HIDE DEF w
  <2>4. WorkFine(work)'
    BY <1>1, <1>2, <2>2, <2>3, WorkStays
  <2> QED BY <1>1, <2>1, <2>4
          DEF Typed, Types, BooksTyped, DiskTyped, FileTyped, Fitting, WorkTyped, CredTyped, WritesOn
<1>4. CASE AbuseAskFails
  <2>1. /\ UNCHANGED <<books, locks, sec, disk, cred, poll, cf, srv>> /\ spent' \in [Disturbance -> Nat]
        /\ work' = [work EXCEPT !["abuse"] = Idle] /\ file' = MarkDirty(file)
    BY <1>1, <1>4, SpendFacts DEF AbuseAskFails, Disturbance
  <2>2. WorkFine(work)'
    BY <1>1, <1>2, <2>1, IdleType, WorkStays
  <2>3. file' \in Files /\ Fitting(file') /\ Kept(file, file')
    BY <1>1, <2>1, MarkedFacts
  <2>4. WritesOn'
    BY <1>1, <2>3 DEF WritesOn, Kept
  <2> QED BY <1>1, <2>1, <2>2, <2>3, <2>4
          DEF Typed, Types, BooksTyped, DiskTyped, FileTyped, WorkTyped, CredTyped
<1>5. CASE AbuseRows
  <2>1. books' \in Books /\ FilesFit /\ poll' \in Polls
    BY <1>1, <1>5, AbuseRowsFacts
  <2>2. UNCHANGED <<locks, disk, spent, cred, cf, srv>>
    BY <1>5 DEF AbuseRows
  <2>3. PICK S \in SUBSET Cid, rows \in [Cid -> Nat] : RowsRead(S, rows)
    BY <1>1, <1>5, AbuseRowsFacts
  <2>4. CASE SweptOrKept([work EXCEPT !["abuse"] = Idle], WithRows(books, S, rows))
    <3> DEFINE ws == [work EXCEPT !["abuse"] = Idle]
               d == WithRows(books, S, rows)
    <3>1. WorkFine(ws)
      BY <1>1, <1>2, IdleType, WorkMoves DEF WorkFine, Works
    <3> HIDE DEF ws, d
    <3>2. SweptOrKept(ws, d)
      BY <2>4 DEF ws, d
    <3>3. WritesOn' /\ sec' \in Flushes /\ WorkFine(work)'
      BY <1>1, <3>1, <3>2, SweptOrKeptOn
    <3> QED BY <1>1, <2>1, <2>2, <3>3
            DEF Typed, Types, BooksTyped, DiskTyped, FileTyped, WorkTyped, CredTyped, FilesFit
  <2>5. ASSUME NEW c \in Active(books), NEW T \in SUBSET Cid, FilesAsked("abuse"),
               work' = [work EXCEPT !["abuse"] = [Idle EXCEPT !.at = "flush", !.c = c, !.todo = T]]
        PROVE  Typed'
    <3> DEFINE w == [Idle EXCEPT !.at = "flush", !.c = c, !.todo = T]
    <3>1. w \in WorkState /\ w.c \in Cid
      BY IdleType DEF WorkState, Active
    <3>2. work' = [work EXCEPT !["abuse"] = w]
      BY <2>5
    <3> HIDE DEF w
    <3>3. WorkFine(work)'
      BY <1>1, <1>2, <3>1, <3>2, WorkStays
    <3>4. WritesOn' /\ sec' \in Flushes
      BY <1>1, <1>2, <2>5, AskedOn
    <3> QED BY <1>1, <2>1, <2>2, <3>3, <3>4
            DEF Typed, Types, BooksTyped, DiskTyped, FileTyped, WorkTyped, CredTyped, FilesFit
  <2> QED BY <2>3, <2>4, <2>5 DEF RowsRead
<1>6. ASSUME NEW timer \in BOOLEAN, GlobalAsks(timer) PROVE Typed'
  <2>1. books' \in Books /\ FilesKept /\ FilesFit /\ work' = work /\ poll' \in Polls
    BY <1>1, <1>6, GlobalAsksFacts
  <2>2. UNCHANGED <<locks, disk, cred, cf, srv>> /\ spent' \in [Disturbance -> Nat]
    BY <1>1, <1>6, SpendFacts DEF GlobalAsks, Disturbance
  <2>3. WritesOn' /\ sec' \in Flushes
    BY <1>1, <2>1, KeptOn
  <2> QED BY <1>1, <2>1, <2>2, <2>3
          DEF Typed, Types, BooksTyped, DiskTyped, FileTyped, WorkTyped, WorkFine, CredTyped, FilesFit
<1>7. ASSUME NEW p \in poll.polls, ProviderCounts(p) PROVE Typed'
  <2>1. poll' \in Polls /\ UNCHANGED <<persistVars, cred, work, cf, srv>>
    BY <1>1, <1>7, ProviderCountsFacts DEF ProviderCounts
  <2> QED BY <1>1, <2>1
          DEF Typed, Types, BooksTyped, DiskTyped, FileTyped, Fitting, WorkTyped, WorkFine, CredTyped, WritesOn, persistVars
<1>8. ASSUME NEW p \in poll.polls, GlobalFails(p) PROVE Typed'
  <2>1. /\ UNCHANGED <<books, locks, sec, disk, cred, work, cf, srv>> /\ spent' \in [Disturbance -> Nat]
        /\ poll' \in Polls /\ (file' = file \/ file' = MarkDirty(file))
    BY <1>1, <1>8, SpendFacts, WithoutType DEF GlobalFails, Disturbance
  <2>2. file' \in Files /\ Fitting(file') /\ Kept(file, file')
    BY <1>1, <2>1, MarkedFacts DEF Kept
  <2>3. WritesOn'
    BY <1>1, <2>2 DEF WritesOn, Kept
  <2> QED BY <1>1, <2>1, <2>2, <2>3
          DEF Typed, Types, BooksTyped, DiskTyped, FileTyped, WorkTyped, WorkFine, CredTyped
<1>9. ASSUME NEW p \in poll.polls, GlobalStale(p) PROVE Typed'
  <2>1. poll' \in Polls /\ UNCHANGED <<persistVars, cred, work, cf, srv>>
    BY <1>1, <1>9, WithoutType DEF GlobalStale
  <2> QED BY <1>1, <2>1
          DEF Typed, Types, BooksTyped, DiskTyped, FileTyped, Fitting, WorkTyped, WorkFine, CredTyped, WritesOn, persistVars
<1>10. ASSUME NEW p \in poll.polls, GlobalLowerBound(p) \/ GlobalTotal(p) PROVE Typed'
  <2> DEFINE d == IF p.all THEN Reconciled(p.read) ELSE LowerBound(p.read)
  <2>1. /\ poll' \in Polls /\ books' \in Books /\ SweptOrKept(work, d) /\ FilesFit
        /\ cred' \in Creds /\ cred'.issue = cred.issue
    BY <1>1, <1>10, GlobalEndFacts
  <2> HIDE DEF d
  <2>2. UNCHANGED <<locks, disk, spent, cf, srv>>
    BY <1>10 DEF GlobalLowerBound, GlobalTotal
  <2>3. WritesOn' /\ sec' \in Flushes /\ WorkFine(work)'
    BY <1>1, <2>1, SweptOrKeptOn
  <2> QED BY <1>1, <2>1, <2>2, <2>3
          DEF Typed, Types, BooksTyped, DiskTyped, FileTyped, WorkTyped, CredTyped, FilesFit
<1> QED BY <1>3, <1>4, <1>5, <1>6, <1>7, <1>8, <1>9, <1>10 DEF Poll

\* A write of a file ends: it is on disk, or it failed before or after the rename.
LEMMA WriteFacts ==
  ASSUME Types, WritesOn, NEW f \in File, WriteDone(f) \/ WriteFails(f)
  PROVE  /\ file[f].write.on /\ books' = books /\ locks' = locks
         /\ \E ok \in BOOLEAN, keep \in BOOLEAN :
               /\ Ended(f, ok, keep) /\ (ok \/ f # "turn" \/ keep)
               /\ ok => disk' = [disk EXCEPT ![f] = file[f].write.snap]
         /\ disk' \in {disk, [disk EXCEPT ![f] = file[f].write.snap]} /\ DiskTyped'
         /\ spent' \in [Disturbance -> Nat] /\ spent'["torn"] = spent["torn"]
         /\ spent'["crash"] = spent["crash"] /\ spent'["month"] = spent["month"]
<1>1. /\ spent \in [Disturbance -> Nat] /\ DiskTyped /\ Fitting(file) /\ file \in Files
  BY DEF Types, FileTyped
<1>2. file[f].write.on /\ books' = books /\ locks' = locks
  BY DEF WriteDone, WriteFails
<1>3. \E ok \in BOOLEAN, keep \in BOOLEAN :
               /\ Ended(f, ok, keep) /\ (ok \/ f # "turn" \/ keep)
               /\ ok => disk' = [disk EXCEPT ![f] = file[f].write.snap]
  <2>1. CASE WriteDone(f)
    <3>1. Ended(f, TRUE, FALSE) /\ disk' = [disk EXCEPT ![f] = file[f].write.snap]
      BY <2>1 DEF WriteDone
    <3> QED BY <3>1, Zenon
  <2>2. CASE WriteFails(f)
    <3>1. Ended(f, FALSE, f = "turn")
      BY <2>2 DEF WriteFails
    <3> QED BY <3>1, Zenon
  <2> QED BY <2>1, <2>2
<1>4. disk' \in {disk, [disk EXCEPT ![f] = file[f].write.snap]}
  BY DEF WriteDone, WriteFails
<1>5. DiskTyped'
  <2>1. file[f].write.snap \in Snapshot
    BY <1>1 DEF Files, FileState
  <2>2. disk \in [File -> Snapshot] /\ "turn" \in File /\ "locks" \in File /\ (f = "turn" \/ f = "locks")
    BY <1>1 DEF DiskTyped, File
  <2> QED BY <1>1, <1>2, <1>4, <2>1, <2>2 DEF DiskTyped, Fitting
<1>6. /\ spent' \in [Disturbance -> Nat] /\ spent'["torn"] = spent["torn"]
      /\ spent'["crash"] = spent["crash"] /\ spent'["month"] = spent["month"]
  <2>1. CASE WriteDone(f)
    BY <1>1, <2>1 DEF WriteDone
  <2>2. CASE WriteFails(f)
    BY <1>1, <2>2, SpendFacts DEF WriteFails, Disturbance
  <2> QED BY <2>1, <2>2
<1> QED BY <1>2, <1>3, <1>4, <1>5, <1>6

LEMMA TypesPersist ==
  ASSUME Typed, Persisting
  PROVE  Typed'
<1>1. /\ Types /\ WritesOn /\ books \in Books /\ locks \in BOOLEAN /\ srv \in Servers
      /\ file \in Files /\ WorkFine(work)
      /\ \A c \in Cid : cred.issue[c].made => cred.issue[c].rid # 0
  BY NowFacts DEF Typed, Types, CredTyped, WorkTyped
<1>2. UNCHANGED <<cred, work, poll, cf, srv>>
  BY DEF Persisting
<1>3. CASE FlushTick
  <2>1. FilesTicked /\ FilesFit /\ spent' \in [Disturbance -> Nat] /\ UNCHANGED <<books, locks, sec, disk>>
    BY <1>1, <1>3, FlushTickFacts DEF FlushTick
  <2>2. WritesOn'
    BY <1>1, <2>1, TickedOn
  <2> QED BY <1>1, <1>2, <2>1, <2>2
          DEF Typed, Types, BooksTyped, DiskTyped, FileTyped, WorkTyped, WorkFine, CredTyped, FilesFit
<1>4. ASSUME NEW f \in File, WriteDone(f) \/ WriteFails(f) PROVE Typed'
  <2>1. /\ file[f].write.on /\ books' = books /\ locks' = locks /\ DiskTyped' /\ spent' \in [Disturbance -> Nat]
    BY <1>1, <1>4, WriteFacts
  <2>2. PICK ok \in BOOLEAN, keep \in BOOLEAN : Ended(f, ok, keep)
    BY <1>1, <1>4, WriteFacts
  <2> DEFINE who == Head(file[f].chain)
             on == f = "turn" /\ who # Tick /\ file["locks"].load = "ok"
             q == Tail(file[f].chain)
             new == IF f = "turn" THEN books ELSE locks
  <2>3. /\ file' \in Files /\ Fitting(file') /\ sec' \in Flushes
        /\ who \in Caller \cup {Tick}
        /\ file'[f].chain = q
        /\ file'[f].write = IF q = <<>> THEN NoWrite ELSE [on |-> TRUE, snap |-> new]
        /\ \A g \in File : g # f =>
              /\ file'[g].chain = IF on THEN Append(file[g].chain, who) ELSE file[g].chain
              /\ file'[g].write = IF on /\ file[g].chain = <<>> THEN [on |-> TRUE, snap |-> locks]
                                  ELSE file[g].write
    BY <1>1, <2>1, <2>2, EndedFacts
  <2> HIDE DEF who, on, q, new
  <2>4. ~NoWrite.on /\ [on |-> TRUE, snap |-> new].on /\ [on |-> TRUE, snap |-> locks].on
    BY BegunFacts DEF NoWrite
  <2>5. WritesOn'
    <3>1. ASSUME NEW g \in File PROVE file'[g].write.on <=> file'[g].chain # <<>>
      <4>1. file[g].chain \in Seq(Caller \cup {Tick}) /\ (file[g].write.on <=> file[g].chain # <<>>)
        BY <1>1 DEF Files, FileState, WritesOn
      <4>2. Append(file[g].chain, who) # <<>>
        BY <2>3, <4>1, AppendFacts
      <4>3. CASE g = f
        BY <2>3, <2>4, <4>3
      <4>4. CASE g # f
        BY <2>3, <2>4, <4>1, <4>2, <4>4
      <4> QED BY <4>3, <4>4
    <3> QED BY <3>1 DEF WritesOn
  <2> QED BY <1>1, <1>2, <2>1, <2>3, <2>5
          DEF Typed, Types, BooksTyped, FileTyped, WorkTyped, WorkFine, CredTyped
<1> QED BY <1>3, <1>4 DEF Persisting, Write

\* A lock is engaged, or the shutdown flushes: the files and the caller's flush.
LEMMA LockEngagesFacts ==
  ASSUME Types, WritesOn, LockEngages
  PROVE  /\ locks' = TRUE /\ ~locks /\ sec["lock"].at = "off" /\ FilesAsked("lock") /\ FilesFit
         /\ books' = books /\ disk' = disk /\ srv' = srv /\ spent' \in [Disturbance -> Nat]
         /\ spent'["torn"] = spent["torn"] /\ spent'["crash"] = spent["crash"]
         /\ spent'["month"] = spent["month"] /\ UNCHANGED <<cred, work, poll, cf>>
<1>1. /\ file \in Files /\ Fitting(file) /\ sec \in Flushes /\ books \in Books
      /\ spent \in [Disturbance -> Nat] /\ "lock" \in Caller /\ "turn" \in File
  BY CallerAssumption DEF Types, FileTyped, BooksTyped, File
<1> DEFINE gs == Security(file, sec, "lock").file
<1>2. /\ locks' = TRUE /\ ~locks /\ sec["lock"].at = "off" /\ books' = books /\ disk' = disk
      /\ UNCHANGED <<cred, work, poll, cf, srv>> /\ Spend("lock")
      /\ file' = Started(gs, books, TRUE) /\ sec' = Security(file, sec, "lock").sec
  BY DEF LockEngages
<1>3. /\ gs \in Files /\ Fitting(gs) /\ Asked(file, sec, "lock", gs, sec')
  BY <1>1, <1>2, SecurityFacts
<1> HIDE DEF gs
<1>4. Kept(file, file)
  BY DEF Kept
<1>5. file' = Started(gs, books', locks') /\ books' \in Books /\ locks' \in BOOLEAN
  BY <1>1, <1>2
<1>6. /\ FilesAsked("lock") /\ file' \in Files /\ Fitting(file')
      /\ \A f \in File : file'[f].load = gs[f].load
  BY <1>1, <1>3, <1>4, <1>5, StartedAsked
<1>7. \A f \in File : gs[f].load = file[f].load
  BY <1>3 DEF Asked
<1>8. /\ spent' \in [Disturbance -> Nat] /\ spent'["torn"] = spent["torn"] /\ spent'["crash"] = spent["crash"]
      /\ spent'["month"] = spent["month"]
  BY <1>1, <1>2, SpendFacts DEF Disturbance
<1> QED BY <1>1, <1>2, <1>6, <1>7, <1>8 DEF FilesFit

LEMMA StopFlushesFacts ==
  ASSUME Types, WritesOn, StopFlushes
  PROVE  /\ FilesAsked("stop") /\ FilesFit /\ sec["stop"].at = "off"
         /\ srv.at \in {"draining", "late"}
         /\ srv' = [srv EXCEPT !.at = IF @ = "draining" THEN "flushing" ELSE "last"]
         /\ srv' \in Servers /\ srv'.at \in {"flushing", "last"}
         /\ UNCHANGED <<books, locks, disk, spent, cred, work, poll, cf>>
<1>1. /\ file \in Files /\ Fitting(file) /\ sec \in Flushes /\ books \in Books /\ locks \in BOOLEAN
      /\ "stop" \in Caller /\ "turn" \in File /\ srv \in Servers
  BY CallerAssumption DEF Types, FileTyped, BooksTyped, File
<1> DEFINE gs == Security(file, sec, "stop").file
<1>2. /\ srv.at \in {"draining", "late"} /\ sec["stop"].at = "off"
      /\ srv' = [srv EXCEPT !.at = IF @ = "draining" THEN "flushing" ELSE "last"]
      /\ UNCHANGED <<books, locks, disk, spent, cred, work, poll, cf>>
      /\ file' = Started(gs, books, locks) /\ sec' = Security(file, sec, "stop").sec
  BY DEF StopFlushes
<1>3. /\ gs \in Files /\ Fitting(gs) /\ Asked(file, sec, "stop", gs, sec')
  BY <1>1, <1>2, SecurityFacts
<1> HIDE DEF gs
<1>4. Kept(file, file)
  BY DEF Kept
<1>5. file' = Started(gs, books', locks') /\ books' \in Books /\ locks' \in BOOLEAN
  BY <1>1, <1>2
<1>6. /\ FilesAsked("stop") /\ file' \in Files /\ Fitting(file')
      /\ \A f \in File : file'[f].load = gs[f].load
  BY <1>1, <1>3, <1>4, <1>5, StartedAsked
<1>7. \A f \in File : gs[f].load = file[f].load
  BY <1>3 DEF Asked
<1>8. srv' \in Servers /\ srv'.at \in {"flushing", "last"}
  <2>1. PICK at \in {"flushing", "last"} : srv' = [srv EXCEPT !.at = at]
    BY <1>2
  <2> QED BY <1>1, <2>1 DEF Servers
<1> QED BY <1>1, <1>2, <1>6, <1>7, <1>8 DEF FilesFit

LEMMA ExitsFacts ==
  ASSUME Types, Exits
  PROVE  /\ srv.at \in {"flushing", "last"} /\ sec["stop"].at = "end"
         /\ sec' = [sec EXCEPT !["stop"] = Off] /\ sec' \in Flushes
         /\ srv' \in Servers /\ srv'.at \in {"clean", "late", "failed"}
         /\ srv'.at = "clean" => /\ sec["stop"].ok /\ ~Issuing
                                 /\ \A f \in File : file[f].load = "ok"
         /\ srv'.policy = srv.policy /\ srv'.told = srv.told /\ srv'.month = srv.month
         /\ UNCHANGED <<books, locks, file, disk, spent, cred, work, poll, cf>>
<1>1. srv \in Servers /\ sec \in Flushes
  BY DEF Types
<1> DEFINE ok == sec["stop"].ok /\ \A f \in File : file[f].load = "ok"
           next == IF ok /\ ~Issuing THEN "clean" ELSE IF ok /\ srv.at = "flushing" THEN "late" ELSE "failed"
<1>2. /\ srv.at \in {"flushing", "last"} /\ sec["stop"].at = "end"
      /\ sec' = [sec EXCEPT !["stop"] = Off] /\ srv' = [srv EXCEPT !.at = next]
      /\ UNCHANGED <<books, locks, file, disk, spent, cred, work, poll, cf>>
  BY DEF Exits, Answered
<1>3. next \in {"clean", "late", "failed"} /\ (next = "clean" => ok /\ ~Issuing)
  OBVIOUS
<1> HIDE DEF next
<1>4. sec' \in Flushes
  BY <1>1, <1>2 DEF Flushes, Off
<1> QED BY <1>1, <1>2, <1>3, <1>4 DEF Servers

LEMMA TypesWorld ==
  ASSUME Typed, World
  PROVE  Typed'
<1>1. /\ Types /\ WritesOn /\ books \in Books /\ locks \in BOOLEAN /\ srv \in Servers /\ cred \in Creds
      /\ cf \in Providers /\ sec \in Flushes /\ file \in Files /\ WorkFine(work)
      /\ spent \in [Disturbance -> Nat] /\ DiskTyped
      /\ \A c \in Cid : cred.issue[c].made => cred.issue[c].rid # 0
  BY NowFacts DEF Typed, Types, CredTyped, WorkTyped
<1>2. CASE LockEngages
  <2>1. /\ locks' = TRUE /\ FilesAsked("lock") /\ FilesFit /\ books' = books /\ disk' = disk
        /\ spent' \in [Disturbance -> Nat] /\ UNCHANGED <<cred, work, poll, cf, srv>>
    BY <1>1, <1>2, LockEngagesFacts
  <2>2. WritesOn' /\ sec' \in Flushes
    BY <1>1, <2>1, AskedOn, CallerAssumption
  <2> QED BY <1>1, <2>1, <2>2
          DEF Typed, Types, BooksTyped, DiskTyped, FileTyped, WorkTyped, WorkFine, CredTyped, FilesFit
<1>3. CASE LockAnswered
  <2>1. /\ UNCHANGED <<books, locks, file, disk, spent, cred, work, poll, cf>>
        /\ sec' = [sec EXCEPT !["lock"] = Off] /\ srv' = [srv EXCEPT !.told = @ \/ sec["lock"].ok]
    BY <1>3 DEF LockAnswered
  <2>2. sec' \in Flushes
    BY <1>1, <2>1 DEF Flushes, Off
  <2>3. srv' \in Servers
    BY <1>1, <2>1, CallerAssumption DEF Servers, Flushes
  <2> QED BY <1>1, <2>1, <2>2, <2>3
          DEF Typed, Types, BooksTyped, DiskTyped, FileTyped, Fitting, WorkTyped, WorkFine, CredTyped, WritesOn
<1>4. CASE MonthTurns
  <2>1. /\ UNCHANGED <<books, locks, file, sec, disk, cred, work, poll>> /\ spent' \in [Disturbance -> Nat]
        /\ srv' = [srv EXCEPT !.month = @ + 1] /\ cf' = [cf EXCEPT !.total = 0]
    BY <1>1, <1>4, SpendFacts DEF MonthTurns, Disturbance
  <2>2. srv' \in Servers /\ cf' \in Providers
    BY <1>1, <2>1 DEF Servers, Providers
  <2> QED BY <1>1, <2>1, <2>2
          DEF Typed, Types, BooksTyped, DiskTyped, FileTyped, Fitting, WorkTyped, WorkFine, CredTyped, WritesOn
<1>5. CASE Crash \/ CrashTorn
  <2>1. spent' \in [Disturbance -> Nat]
    BY <1>1, <1>5, CrashFacts
  <2>2. PICK t \in Books \cup {Torn}, l \in BOOLEAN \cup {Torn} : Restarts([turn |-> t, locks |-> l])
    BY <1>1, <1>5, CrashFacts
  <2>3. /\ books' \in Books /\ locks' \in BOOLEAN
        /\ disk' = [turn |-> t, locks |-> l = TRUE] /\ disk' \in [File -> Snapshot]
        /\ file' \in Files /\ Fitting(file')
        /\ \A f \in File : /\ file'[f].chain = <<>> /\ file'[f].write = NoWrite
        /\ sec' \in Flushes /\ WorkFine(work') /\ poll' \in Polls
        /\ cred' = Reborn(t) /\ cred' \in Creds /\ cf' = cf
        /\ srv' \in Servers
    BY <1>1, <2>2, RestartsFacts
  <2>4. WritesOn'
    BY <2>3 DEF WritesOn, NoWrite
  <2>5. CredTyped'
    <3>1. ~NoIssue.made
      <4>1. PICK no \in BOOLEAN : no = FALSE
        OBVIOUS
      <4> QED BY <4>1 DEF NoIssue
    <3>2. \A c \in Cid : cred'.issue[c] = NoIssue
      BY <2>3 DEF Reborn, NoCred
    <3> QED BY <2>3, <3>1, <3>2 DEF CredTyped
  <2>6. disk'["turn"] = t /\ disk'["locks"] \in BOOLEAN
    BY <2>3
  <2> QED BY <1>1, <2>1, <2>3, <2>4, <2>5, <2>6
          DEF Typed, Types, BooksTyped, DiskTyped, FileTyped, WorkTyped, WorkFine
<1>6. CASE Stops
  <2>1. /\ UNCHANGED <<books, locks, file, sec, disk, cred, work, poll, cf>> /\ spent' \in [Disturbance -> Nat]
        /\ srv' = [srv EXCEPT !.at = "draining"]
    BY <1>1, <1>6, SpendFacts DEF Stops, Disturbance
  <2>2. srv' \in Servers
    BY <1>1, <2>1 DEF Servers
  <2> QED BY <1>1, <2>1, <2>2
          DEF Typed, Types, BooksTyped, DiskTyped, FileTyped, Fitting, WorkTyped, WorkFine, CredTyped, WritesOn
<1>7. CASE StopFlushes
  <2>1. /\ FilesAsked("stop") /\ FilesFit /\ srv' \in Servers
        /\ UNCHANGED <<books, locks, disk, spent, cred, work, poll, cf>>
    BY <1>1, <1>7, StopFlushesFacts
  <2>2. WritesOn' /\ sec' \in Flushes
    BY <1>1, <2>1, AskedOn, CallerAssumption
  <2> QED BY <1>1, <2>1, <2>2
          DEF Typed, Types, BooksTyped, DiskTyped, FileTyped, WorkTyped, WorkFine, CredTyped, FilesFit
<1>8. CASE Exits
  <2>1. sec' \in Flushes /\ srv' \in Servers /\ UNCHANGED <<books, locks, file, disk, spent, cred, work, poll, cf>>
    BY <1>1, <1>8, ExitsFacts
  <2> QED BY <1>1, <2>1
          DEF Typed, Types, BooksTyped, DiskTyped, FileTyped, Fitting, WorkTyped, WorkFine, CredTyped, WritesOn
<1>9. ASSUME NEW r \in Rid, Relays(r) PROVE Typed'
  <2>1. /\ UNCHANGED <<books, locks, file, sec, disk, cred, work, poll, srv>> /\ spent' \in [Disturbance -> Nat]
        /\ cf' = [cf EXCEPT !.usage[cf.owner[r]] = @ + 1, !.total = @ + 1]
    BY <1>1, <1>9, SpendFacts DEF Relays, Disturbance
  <2>2. cf' \in Providers
    <3>1. [cf.usage EXCEPT ![cf.owner[r]] = @ + 1] \in [Cid -> Nat] /\ cf.total + 1 \in Nat
      <4> DEFINE v == cf.usage   n == cf.total   o == cf.owner[r]
      <4>1. v \in [Cid -> Nat] /\ n \in Nat
        BY <1>1 DEF Providers
      <4> HIDE DEF v, n, o
      <4>2. [v EXCEPT ![o] = @ + 1] \in [Cid -> Nat]
        <5>1. CASE o \in Cid
          <6>1. v[o] + 1 \in Nat
            BY <4>1, <5>1
          <6> DEFINE m == v[o] + 1
          <6> HIDE DEF m
          <6>2. [v EXCEPT ![o] = m] \in [Cid -> Nat]
            BY <4>1, <6>1 DEF m
          <6> QED BY <6>2 DEF m
        <5>2. CASE o \notin Cid
          <6> DEFINE m == v[o] + 1
          <6> HIDE DEF m
          <6>1. [v EXCEPT ![o] = m] \in [Cid -> Nat]
            BY <4>1, <5>2
          <6> QED BY <6>1 DEF m
        <5> QED BY <5>1, <5>2
      <4>3. n + 1 \in Nat
        BY <4>1
      <4> QED BY <4>2, <4>3 DEF v, n, o
    <3>2. cf' = [cf EXCEPT !.usage = [cf.usage EXCEPT ![cf.owner[r]] = @ + 1], !.total = cf.total + 1]
      BY <1>1, <2>1 DEF Providers
    <3> DEFINE u == [cf.usage EXCEPT ![cf.owner[r]] = @ + 1]
    <3> HIDE DEF u
    <3> QED BY <1>1, <3>1, <3>2 DEF Providers, u
  <2> QED BY <1>1, <2>1, <2>2
          DEF Typed, Types, BooksTyped, DiskTyped, FileTyped, Fitting, WorkTyped, WorkFine, CredTyped, WritesOn
<1>10. ASSUME NEW c \in Cid, Ages(c) PROVE Typed'
  <2>1. /\ UNCHANGED <<locks, file, sec, disk, cred, work, poll, srv>> /\ spent' \in [Disturbance -> Nat]
    BY <1>1, <1>10, SpendFacts DEF Ages, Disturbance
  <2>2. books' \in Books
    BY <1>1, <1>10, AgesFacts
  <2>3. PICK k \in {"near", "old"} : cf' = IF k = "old" THEN [cf EXCEPT !.live = @ \ {books.active[c].rid}] ELSE cf
    BY <1>1, <1>10, AgesFacts
  <2>4. cf' \in Providers
    BY <1>1, <2>3 DEF Providers
  <2> QED BY <1>1, <2>1, <2>2, <2>4
          DEF Typed, Types, BooksTyped, DiskTyped, FileTyped, Fitting, WorkTyped, WorkFine, CredTyped, WritesOn
<1> QED BY <1>2, <1>3, <1>4, <1>5, <1>6, <1>7, <1>8, <1>9, <1>10 DEF World

LEMMA TypedNext ==
  ASSUME Typed, [Next]_vars
  PROVE  Typed'
<1>1. CASE UNCHANGED vars
  BY <1>1 DEF vars, persistVars, Typed, Types, BooksTyped, DiskTyped, FileTyped, Fitting, WorkTyped,
              WorkFine, CredTyped, WritesOn
<1> QED BY <1>1, TypesIssue, TypesRevoke, TypesPoll, TypesPersist, TypesWorld DEF Next

LEMMA TypedAlways == Spec => []Typed
BY TypesInit, TypedNext, PTL DEF Spec

\* The service's state is well-formed in every reachable state: what is on disk is a
\* snapshot or unreadable, every queued write has a caller, credentials are reservations.
THEOREM TypesHold == Spec => []TypeOK
<1>1. Typed => TypeOK
  BY DEF Typed, Types, TypeOK, BooksTyped, DiskTyped, FileTyped, Files, FileState, Flushes, WorkTyped,
         WorkFine, Works, WorkState, CredTyped, Creds, Providers
<1> QED BY <1>1, TypedAlways, PTL

(***************************************************************************)
(* What is spent is never handed back.                                     *)
(***************************************************************************)

LEMMA SpendGrows ==
  ASSUME spent \in [Disturbance -> Nat], NEW k \in Disturbance, Spend(k)
  PROVE  \A j \in Disturbance : spent'[j] \in Nat /\ spent'[j] >= spent[j]
<1>1. /\ spent' \in [Disturbance -> Nat] /\ spent'[k] = spent[k] + 1
      /\ \A j \in Disturbance : j # k => spent'[j] = spent[j]
  BY SpendFacts
<1> QED BY <1>1

LEMMA SpentSteps ==
  ASSUME Next
  PROVE  spent' = spent \/ \E k \in Disturbance : Spend(k)
<1>0. {"issue", "relay", "fail", "disk", "crash", "torn", "month", "age", "lock", "stop", "poll", "tick"}
         \subseteq Disturbance
  BY DEF Disturbance
<1>1. CASE Issue
  BY <1>0, <1>1 DEF Issue, IssueOld, IssueFresh, IssueDone, IssueFails, ProviderMakes, Asks, persistVars
<1>2. CASE Revoke
  <2>1. ASSUME NEW a \in Revoker, ProviderRevokes(a) \/ RevokeDone(a) \/ RevokeFails(a)
        PROVE  spent' = spent \/ \E k \in Disturbance : Spend(k)
    BY <1>0, <2>1 DEF ProviderRevokes, RevokeDone, RevokeFails, persistVars
  <2>2. ASSUME NEW a, Flushed(a) PROVE spent' = spent
    BY <2>2 DEF Flushed
  <2>3. SweepNext \/ RetryStarts \/ RetryNext => spent' = spent
    BY DEF SweepNext, RetryStarts, RetryNext, persistVars
  <2> QED BY <1>2, <2>1, <2>2, <2>3 DEF Revoke
<1>3. CASE Poll
  <2>1. AbuseAsks \/ AbuseAskFails \/ AbuseRows => spent' = spent \/ \E k \in Disturbance : Spend(k)
    BY <1>0 DEF AbuseAsks, AbuseAskFails, AbuseRows
  <2>2. ASSUME NEW timer, GlobalAsks(timer) PROVE \E k \in Disturbance : Spend(k)
    BY <1>0, <2>2 DEF GlobalAsks
  <2>3. ASSUME NEW p, ProviderCounts(p) \/ GlobalFails(p) \/ GlobalStale(p) \/ GlobalLowerBound(p) \/ GlobalTotal(p)
        PROVE  spent' = spent \/ \E k \in Disturbance : Spend(k)
    BY <1>0, <2>3 DEF ProviderCounts, GlobalFails, GlobalStale, GlobalLowerBound, GlobalTotal, persistVars
  <2> QED BY <1>3, <2>1, <2>2, <2>3 DEF Poll
<1>4. CASE Persisting
  BY <1>0, <1>4 DEF Persisting, FlushTick, Write, WriteDone, WriteFails
<1>5. CASE World
  <2>1. LockEngages \/ LockAnswered \/ MonthTurns \/ Crash \/ CrashTorn \/ Stops \/ StopFlushes \/ Exits
           => spent' = spent \/ \E k \in Disturbance : Spend(k)
    BY <1>0 DEF LockEngages, LockAnswered, MonthTurns, Crash, CrashTorn, Stops, StopFlushes, Exits
  <2>2. ASSUME NEW r, Relays(r) PROVE \E k \in Disturbance : Spend(k)
    BY <1>0, <2>2 DEF Relays
  <2>3. ASSUME NEW c, Ages(c) PROVE \E k \in Disturbance : Spend(k)
    BY <1>0, <2>3 DEF Ages
  <2> QED BY <1>5, <2>1, <2>2, <2>3 DEF World
<1> QED BY <1>1, <1>2, <1>3, <1>4, <1>5 DEF Next

LEMMA SpentGrows ==
  ASSUME Typed, [Next]_vars
  PROVE  \A j \in Disturbance : spent'[j] \in Nat /\ spent'[j] >= spent[j]
<1>1. spent \in [Disturbance -> Nat]
  BY DEF Typed, Types
<1>2. CASE spent' = spent
  BY <1>1, <1>2
<1>3. ASSUME NEW k \in Disturbance, Spend(k)
      PROVE  \A j \in Disturbance : spent'[j] \in Nat /\ spent'[j] >= spent[j]
  BY <1>1, <1>3, SpendGrows
<1> QED BY <1>2, <1>3, SpentSteps DEF vars, persistVars

(***************************************************************************)
(* The kill switch.                                                        *)
(***************************************************************************)

\* Who is at its rows, or beyond, evaluates the kill switch when it is through.
Busy(w) == w["abuse"].at \notin {"idle", "ask"}

\* The observed volume has reached the limit only with the kill switch on, a poll under way,
\* or books that a crash has read back.
Tripped ==
    Observed(books) >= Limit => books.kill \/ Busy(work) \/ spent["crash"] + spent["torn"] > 0

LEMMA ObservedFacts ==
  ASSUME NEW b \in Books, NEW d \in Books, d.cf <= b.cf, d.pess <= b.pess
  PROVE  Observed(d) <= Observed(b) /\ Observed(d) \in Nat /\ Observed(b) \in Nat
<1>1. b.cf \in Nat /\ b.pess \in Nat /\ d.cf \in Nat /\ d.pess \in Nat
  BY BooksFields
<1> QED BY <1>1 DEF Observed, Larger

LEMMA LimitFacts == Limit \in Nat /\ Limit > 0
BY LimitAssumption

\* The volume does not grow, and the switch stays on.
LEMMA TrippedCalm ==
  ASSUME Typed, [Next]_vars, Tripped, books' \in Books,
         books'.cf <= books.cf, books'.pess <= books.pess, books.kill => books'.kill,
         Busy(work) => Busy(work')
  PROVE  Tripped'
<1>1. books \in Books
  BY DEF Typed, Types, BooksTyped
<1>2. Observed(books') <= Observed(books) /\ Observed(books') \in Nat /\ Observed(books) \in Nat
  BY <1>1, ObservedFacts
<1>3. /\ spent'["crash"] \in Nat /\ spent'["torn"] \in Nat /\ spent["crash"] \in Nat /\ spent["torn"] \in Nat
      /\ spent'["crash"] >= spent["crash"] /\ spent'["torn"] >= spent["torn"]
  BY SpentGrows DEF Typed, Types, Disturbance
<1>4. Observed(books') >= Limit => Observed(books) >= Limit
  BY <1>2, LimitFacts
<1> QED BY <1>3, <1>4 DEF Tripped

LEMMA TrippedNow ==
  ASSUME books' \in Books, NEW d, d.cf = books'.cf, d.pess = books'.pess, Observed(d) >= Limit => books'.kill
  PROVE  Tripped'
BY DEF Tripped, Observed

\* A month that begins counts from zero.
LEMMA TrippedRolls ==
  ASSUME Typed, [Next]_vars, Tripped, books' \in Books, Busy(work) => Busy(work'),
         NEW d \in Books, d = Rolled(books),
         books'.cf = d.cf, books'.pess = d.pess, books'.kill = d.kill
  PROVE  Tripped'
<1>1. books \in Books /\ srv \in Servers
  BY DEF Typed, Types, BooksTyped
<1>2. d = books \/ (d.pess = 0 /\ d.cf = 0)
  BY <1>1, RolledFacts
<1>3. CASE d = books
  <2>1. books'.cf <= books.cf /\ books'.pess <= books.pess
    BY <1>1, <1>3, BooksFields
  <2> QED BY <1>3, <2>1, TrippedCalm
<1>4. CASE d.pess = 0 /\ d.cf = 0
  BY <1>4, LimitFacts DEF Tripped, Observed, Larger
<1> QED BY <1>2, <1>3, <1>4

LEMMA TrippedNext ==
  ASSUME Typed, Tripped, [Next]_vars
  PROVE  Tripped'
<1>0. /\ Types /\ WritesOn /\ books \in Books /\ srv \in Servers /\ books.cf \in Nat /\ books.pess \in Nat
      /\ work \in Works
  BY BooksFields DEF Typed, Types, BooksTyped, WorkTyped, WorkFine
<1>1. ASSUME books' = books, Busy(work) => Busy(work') PROVE Tripped'
  BY <1>0, <1>1, TrippedCalm
<1>2. CASE UNCHANGED vars
  BY <1>1, <1>2 DEF vars, persistVars
<1>3. ASSUME NEW c \in Cid, IssueOld(c) PROVE Tripped'
  <2>1. books' = Pruned(Rolled(books)) /\ books' \in Books /\ work' = work
    BY <1>0, <1>3, IssueOldFacts
  <2>2. Rolled(books) \in Books
    BY <1>0, RolledFacts
  <2>3. PICK d \in Books : d = Rolled(books)
    BY <2>2
  <2>4. books'.cf = d.cf /\ books'.pess = d.pess /\ books'.kill = d.kill
    BY <2>1, <2>3, PrunedFacts
  <2> QED BY <2>1, <2>3, <2>4, TrippedRolls
<1>4. ASSUME NEW c \in Cid, IssueFresh(c) PROVE Tripped'
  <2> DEFINE d == Reserved(Pruned(Rolled(books)), c, cred.last + 1)
  <2>1. books' \in Books /\ Swept(d, books') /\ (Observed(d) >= Limit => books'.kill)
    BY <1>0, <1>4, IssueFreshFacts
  <2> HIDE DEF d
  <2> QED BY <2>1, TrippedNow DEF Swept
<1>5. ASSUME NEW c \in Cid, ProviderMakes(c) \/ IssueDone(c) PROVE Tripped'
  BY <1>1, <1>5 DEF ProviderMakes, IssueDone, persistVars
<1>6. ASSUME NEW c \in Cid, IssueFails(c) PROVE Tripped'
  <2>1. /\ books' \in Books /\ books'.pess = Larger(0, books.pess - 1) /\ books'.cf = books.cf
        /\ books'.kill = books.kill /\ work' = work /\ cred.issue[c].rid \in Rid
    BY <1>0, <1>6, IssueFailsFacts
  <2>2. books'.pess <= books.pess /\ books'.cf <= books.cf
    BY <1>0, <2>1 DEF Larger
  <2> QED BY <2>1, <2>2, TrippedCalm
<1>7. ASSUME NEW a \in Revoker, ProviderRevokes(a) PROVE Tripped'
  <2>1. /\ work' = [work EXCEPT ![a] = [work[a] EXCEPT !.at = "heard"]] /\ books' = books
    BY <1>0, <1>7, ProviderRevokesFacts DEF ProviderRevokes, persistVars
  <2>2. Busy(work) => Busy(work')
    BY <1>0, <2>1 DEF Busy, Works, WorkState, Revoker
  <2> QED BY <1>1, <2>1, <2>2
<1>8. ASSUME NEW a \in Revoker, RevokeDone(a) PROVE Tripped'
  <2>1. /\ work[a].c \in Cid /\ books' = Dropped(books, {work[a].c}) /\ books' \in Books
        /\ work' = [work EXCEPT ![a].at = "rows", ![a].c = NoCid]
    BY <1>0, <1>8, RevokeDoneFacts
  <2>2. books'.pess = books.pess /\ books'.cf = books.cf /\ books'.kill = books.kill
    <3>1. {work[a].c} \in SUBSET Cid /\ books \in Books
      BY <1>0, <2>1
    <3>2. LET n == Dropped(books, {work[a].c})
          IN  n.pess = books.pess /\ n.cf = books.cf /\ n.kill = books.kill
      BY <3>1, DroppedFacts
    <3> QED BY <2>1, <3>2
  <2>3. Busy(work) => Busy(work')
    BY <1>0, <2>1 DEF Busy, Works, WorkState, Revoker
  <2>4. books'.pess <= books.pess /\ books'.cf <= books.cf
    BY <1>0, <2>2
  <2> QED BY <2>1, <2>2, <2>3, <2>4, TrippedCalm
<1>9. ASSUME NEW a \in Revoker, RevokeFails(a) PROVE Tripped'
  <2>1. /\ books' = books
        /\ \E t \in {"note", "rows"} : work' = [work EXCEPT ![a].at = t, ![a].c = NoCid]
    BY <1>0, <1>9, RevokeFailsFacts
  <2>2. Busy(work) => Busy(work')
    BY <1>0, <2>1 DEF Busy, Works, WorkState, Revoker
  <2> QED BY <1>1, <2>1, <2>2
<1>10. ASSUME NEW a \in {"abuse", "sweep"}, Flushed(a) PROVE Tripped'
  <2>1. books' = books
    BY <1>10 DEF Flushed
  <2>2. Busy(work) => Busy(work')
    <3>1. CASE a = "abuse"
      <4>1. PICK t \in {"revoke", "rows"} : work' = [work EXCEPT !["abuse"] = [work["abuse"] EXCEPT !.at = t]]
        BY <1>10, <3>1 DEF Flushed
      <4> QED BY <1>0, <4>1 DEF Busy, Works, WorkState, Revoker
    <3>2. CASE a = "sweep"
      <4>1. PICK w \in WorkState : work' = [work EXCEPT !["sweep"] = w]
        BY <1>0, <1>10, <3>2, FlushedFacts
      <4> QED BY <1>0, <4>1 DEF Busy, Works, Revoker
    <3> QED BY <3>1, <3>2
  <2> QED BY <1>1, <2>1, <2>2
<1>11. CASE SweepNext
  <2>1. /\ books' = books
        /\ \/ work' = [work EXCEPT !["sweep"].at = "note"]
           \/ \E w \in WorkState : work' = [work EXCEPT !["sweep"] = w]
    BY <1>0, <1>11, SweepNextFacts
  <2>2. Busy(work) => Busy(work')
    BY <1>0, <2>1 DEF Busy, Works, Revoker
  <2> QED BY <1>1, <2>1, <2>2
<1>12. CASE RetryStarts
  <2>1. books' = books /\ Busy(work) => Busy(work')
    BY <1>0, <1>12 DEF RetryStarts, persistVars, Busy, Works, Revoker
  <2> QED BY <1>1, <1>12, <2>1 DEF RetryStarts, persistVars
<1>13. CASE RetryNext
  <2>1. /\ books' \in Books
        /\ \/ books' = books /\ work' = [work EXCEPT !["retry"] = Idle]
           \/ \E c \in Cid : /\ books' = Dropped(books, {c})
                             /\ work' = [work EXCEPT !["retry"].todo = @ \ {c}]
           \/ \E c \in Cid : /\ books' = books
                             /\ work' = [work EXCEPT !["retry"] =
                                   [work["retry"] EXCEPT !.at = "revoke", !.c = c, !.todo = @ \ {c}]]
    BY <1>0, <1>13, RetryNextFacts
  <2>2. Busy(work) => Busy(work')
    BY <1>0, <2>1 DEF Busy, Works, Revoker
  <2>3. books'.pess = books.pess /\ books'.cf = books.cf /\ books'.kill = books.kill
    <3>1. ASSUME NEW c \in Cid, books' = Dropped(books, {c})
          PROVE  books'.pess = books.pess /\ books'.cf = books.cf /\ books'.kill = books.kill
      <4>1. {c} \in SUBSET Cid
        OBVIOUS
      <4> QED BY <1>0, <3>1, <4>1, DroppedFacts
    <3> QED BY <2>1, <3>1
  <2>4. books'.pess <= books.pess /\ books'.cf <= books.cf
    BY <1>0, <2>3
  <2> QED BY <2>1, <2>2, <2>3, <2>4, TrippedCalm
<1>14. CASE AbuseAsks \/ AbuseAskFails
  BY <1>0, <1>1, <1>14 DEF AbuseAsks, AbuseAskFails, Busy
<1>15. CASE AbuseRows
  <2>1. PICK S \in SUBSET Cid, rows \in [Cid -> Nat] : RowsRead(S, rows)
    BY <1>0, <1>15, AbuseRowsFacts
  <2>2. books' \in Books
    BY <1>0, <1>15, AbuseRowsFacts
  <2> DEFINE d == WithRows(books, S, rows)
  <2>3. \/ Swept(d, books') /\ (Observed(d) >= Limit => books'.kill)
        \/ \E c \in Cid, T \in SUBSET Cid :
              work' = [work EXCEPT !["abuse"] = [Idle EXCEPT !.at = "flush", !.c = c, !.todo = T]]
    BY <2>1 DEF RowsRead, Active
  <2> HIDE DEF d
  <2>4. CASE Swept(d, books') /\ (Observed(d) >= Limit => books'.kill)
    BY <2>2, <2>4, TrippedNow DEF Swept
  <2>5. ASSUME NEW c, NEW T,
               work' = [work EXCEPT !["abuse"] = [Idle EXCEPT !.at = "flush", !.c = c, !.todo = T]]
        PROVE  Tripped'
    BY <1>0, <2>5 DEF Tripped, Busy, Idle, Works, Revoker
  <2> QED BY <2>3, <2>4, <2>5
<1>16. ASSUME NEW timer \in BOOLEAN, GlobalAsks(timer) PROVE Tripped'
  <2>1. books' = Rolled(books) /\ books' \in Books /\ work' = work
    BY <1>0, <1>16, GlobalAsksFacts
  <2> QED BY <2>1, TrippedRolls
<1>17. ASSUME NEW p \in poll.polls, ProviderCounts(p) \/ GlobalFails(p) \/ GlobalStale(p) PROVE Tripped'
  BY <1>1, <1>17 DEF ProviderCounts, GlobalFails, GlobalStale, persistVars
<1>18. ASSUME NEW p \in poll.polls, GlobalLowerBound(p) \/ GlobalTotal(p) PROVE Tripped'
  <2> DEFINE d == IF p.all THEN Reconciled(p.read) ELSE LowerBound(p.read)
  <2>1. books' \in Books /\ Swept(d, books') /\ (Observed(d) >= Limit => books'.kill)
    BY <1>0, <1>18, GlobalEndFacts
  <2> HIDE DEF d
  <2> QED BY <2>1, TrippedNow DEF Swept
<1>19. CASE Persisting
  BY <1>1, <1>19 DEF Persisting, FlushTick, Write, WriteDone, WriteFails
<1>20. CASE Crash \/ CrashTorn
  <2>1. /\ Crash => spent'["crash"] > 0 /\ spent'["torn"] = spent["torn"]
        /\ CrashTorn => spent'["torn"] > 0
    BY <1>0, <1>20, CrashFacts
  <2>2. spent'["crash"] \in Nat /\ spent'["torn"] \in Nat
    BY SpentGrows DEF Disturbance
  <2> QED BY <1>20, <2>1, <2>2 DEF Tripped
<1>21. CASE LockEngages \/ LockAnswered \/ MonthTurns \/ Stops \/ StopFlushes \/ Exits
  BY <1>1, <1>21 DEF LockEngages, LockAnswered, MonthTurns, Stops, StopFlushes, Exits
<1>22. ASSUME NEW r \in Rid, Relays(r) PROVE Tripped'
  BY <1>1, <1>22 DEF Relays
<1>23. ASSUME NEW c \in Cid, Ages(c) PROVE Tripped'
  <2>1. books' \in Books /\ books'.pess = books.pess /\ books'.cf = books.cf /\ books'.kill = books.kill
    BY <1>0, <1>23, AgesFacts
  <2>2. books'.pess <= books.pess /\ books'.cf <= books.cf /\ work' = work
    BY <1>0, <1>23, <2>1 DEF Ages
  <2> QED BY <2>1, <2>2, TrippedCalm
<1>24. CASE Issue
  BY <1>3, <1>4, <1>5, <1>6, <1>24 DEF Issue
<1>25. CASE Revoke
  BY <1>7, <1>8, <1>9, <1>10, <1>11, <1>12, <1>13, <1>25 DEF Revoke
<1>26. CASE Poll
  BY <1>14, <1>15, <1>16, <1>17, <1>18, <1>26 DEF Poll
<1>27. CASE World
  BY <1>20, <1>21, <1>22, <1>23, <1>27 DEF World
<1> QED BY <1>2, <1>19, <1>24, <1>25, <1>26, <1>27 DEF Next

\* Without a crash, an observed volume that has reached the limit has tripped the kill switch,
\* or the poll that raised it is still at its rows: no reservation, poll or failed call leaves
\* the switch off behind it (turn.ts evaluateGlobalKillSwitch).
THEOREM KillSwitchOn == Spec => []KillSwitchTrips
<1>1. Init => Tripped
  <2>1. SUFFICES ASSUME Init PROVE Tripped
    OBVIOUS
  <2>2. books.cf = 0 /\ books.pess = 0
    BY <2>1 DEF Init, EmptyBooks
  <2> QED BY <2>2, LimitFacts DEF Tripped, Observed, Larger
<1>2. Typed /\ Tripped /\ [Next]_vars => Tripped'
  BY TrippedNext
<1>3. Tripped => KillSwitchTrips
  BY DEF Tripped, KillSwitchTrips, Busy
<1> QED BY <1>1, <1>2, <1>3, TypedAlways, PTL DEF Spec

=============================================================================
