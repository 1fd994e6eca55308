----------------------- MODULE MariaDbSessionProofs -----------------------
(***************************************************************************)
(* Theorems of MariaDbSession, for any savepoints, changes and events.     *)
(***************************************************************************)
EXTENDS MariaDbSession, SequenceTheorems, FiniteSetTheorems, TLAPS

-----------------------------------------------------------------------------
(* Savepoint lists. *)

\* A is what is left of the savepoints B when some are taken out.
Part(A, B) ==
  /\ \A i \in DOMAIN A : \E k \in DOMAIN B : A[i] = B[k]
  /\ \A i, j \in DOMAIN A, k, l \in DOMAIN B :
       i < j /\ A[i].name = B[k].name /\ A[j].name = B[l].name => k < l

\* A still has the savepoints of B with another name than n.
Keeps(A, B, n) ==
  \A k \in DOMAIN B : B[k].name # n => \E i \in DOMAIN A : A[i] = B[k]

LEMMA MarkFields ==
  ASSUME NEW m \in Mark
  PROVE  m.mark \in Nat /\ m.name \in Savepoints \cup {Wrapper}
BY DEF Mark

\* An entry of a list of savepoints is one.
LEMMA Entries ==
  ASSUME NEW saves \in Seq(Mark), NEW i \in DOMAIN saves
  PROVE  /\ saves[i] \in Mark /\ saves[i].mark \in Nat
         /\ saves[i].name \in Savepoints \cup {Wrapper} /\ i \in 1..Len(saves)
<1>1. saves[i] \in Mark /\ i \in 1..Len(saves)
  OBVIOUS
<1> QED BY <1>1, MarkFields

\* No two savepoints share a name, so a name has one position.
LEMMA OnePosition ==
  ASSUME NEW saves \in Seq(Mark), NEW len, Ordered(saves, len),
         NEW i \in DOMAIN saves, NEW k \in DOMAIN saves, saves[i].name = saves[k].name
  PROVE  i = k
<1>1. i \in Nat /\ k \in Nat
  OBVIOUS
<1> QED BY <1>1 DEF Ordered

LEMMA PositionIs ==
  ASSUME NEW saves \in Seq(Mark), NEW len, Ordered(saves, len),
         NEW n, NEW k \in DOMAIN saves, saves[k].name = n
  PROVE  Named(saves, n) /\ Position(saves, n) = k
<1>1. Named(saves, n)
  BY DEF Named
<1>2. Position(saves, n) \in DOMAIN saves /\ saves[Position(saves, n)].name = n
  BY <1>1 DEF Named, Position
<1> QED BY <1>1, <1>2, OnePosition

LEMMA PositionExists ==
  ASSUME NEW saves \in Seq(Mark), NEW n, Named(saves, n)
  PROVE  /\ Position(saves, n) \in DOMAIN saves
         /\ Position(saves, n) \in 1..Len(saves)
         /\ saves[Position(saves, n)].name = n
BY DEF Named, Position

LEMMA RemoveAtProperties ==
  ASSUME NEW S, NEW s \in Seq(S), NEW p \in 1..Len(s)
  PROVE  /\ RemoveAt(s, p) \in Seq(S)
         /\ Len(RemoveAt(s, p)) = Len(s) - 1
         /\ \A i \in 1..(Len(s) - 1) : RemoveAt(s, p)[i] = IF i < p THEN s[i] ELSE s[i + 1]
<1> DEFINE front == SubSeq(s, 1, p - 1)
           rest  == SubSeq(s, p + 1, Len(s))
<1>1. front \in Seq(S) /\ Len(front) = p - 1 /\ \A i \in 1..(p - 1) : front[i] = s[i]
  BY SubSeqProperties
<1>2. rest \in Seq(S) /\ Len(rest) = Len(s) - p /\ \A i \in 1..(Len(s) - p) : rest[i] = s[i + p]
  BY SubSeqProperties
<1> HIDE DEF front, rest
<1>3. RemoveAt(s, p) = front \o rest
  BY DEF RemoveAt, front, rest
<1>4. /\ front \o rest \in Seq(S) /\ Len(front \o rest) = Len(s) - 1
      /\ \A i \in 1..(Len(s) - 1) :
           (front \o rest)[i] = IF i <= p - 1 THEN front[i] ELSE rest[i - (p - 1)]
  BY <1>1, <1>2, ConcatProperties
<1>5. ASSUME NEW i \in 1..(Len(s) - 1)
      PROVE  (front \o rest)[i] = IF i < p THEN s[i] ELSE s[i + 1]
  <2>1. CASE i < p
    BY <2>1, <1>1, <1>4
  <2>2. CASE ~(i < p)
    <3>0. ~(i <= p - 1)
      BY <2>2
    <3>1. (front \o rest)[i] = rest[i - (p - 1)]
      BY <3>0, <1>4, Zenon
    <3>2. i - (p - 1) \in 1..(Len(s) - p)
      BY <2>2
    <3>3. rest[i - (p - 1)] = s[(i - (p - 1)) + p]
      BY <3>2, <1>2
    <3>4. (i - (p - 1)) + p = i + 1
      OBVIOUS
    <3> QED BY <3>1, <3>3, <3>4, <2>2
  <2> QED BY <2>1, <2>2
<1> QED BY <1>3, <1>4, <1>5

LEMMA PartOfItself ==
  ASSUME NEW saves \in Seq(Mark), NEW len, Ordered(saves, len)
  PROVE  Part(saves, saves)
BY OnePosition DEF Part

\* Taking a name out leaves the others as they are.
LEMMA OthersProperties ==
  ASSUME NEW saves \in Seq(Mark), NEW len, Ordered(saves, len), NEW n
  PROVE  /\ Others(saves, n) \in Seq(Mark)
         /\ Ordered(Others(saves, n), len)
         /\ ~Named(Others(saves, n), n)
         /\ Part(Others(saves, n), saves)
         /\ Keeps(Others(saves, n), saves, n)
<1>1. CASE ~Named(saves, n)
  BY <1>1, PartOfItself DEF Others, Named, Keeps
<1>2. CASE Named(saves, n)
  <2> DEFINE p == Position(saves, n)
             A == RemoveAt(saves, p)
             old(i) == IF i < p THEN i ELSE i + 1
  <2>1. p \in 1..Len(saves) /\ saves[p].name = n
    BY <1>2, PositionExists
  <2> HIDE DEF p
  <2>2. /\ A \in Seq(Mark) /\ Len(A) = Len(saves) - 1
        /\ \A i \in 1..(Len(saves) - 1) : A[i] = IF i < p THEN saves[i] ELSE saves[i + 1]
    BY <2>1, RemoveAtProperties
  <2>3. Others(saves, n) = A
    BY <1>2 DEF Others, p
  <2> HIDE DEF A
  <2>4. DOMAIN A = 1..(Len(saves) - 1) /\ DOMAIN saves = 1..Len(saves)
    BY <2>2
  <2>5. \A i \in DOMAIN A : /\ old(i) \in DOMAIN saves /\ A[i] = saves[old(i)]
                            /\ old(i) # p
    BY <2>1, <2>2, <2>4
  <2>6. \A i, j \in DOMAIN A : i < j => old(i) < old(j)
    BY <2>1, <2>4
  <2>10. \A k \in DOMAIN saves : k # p => \E i \in DOMAIN A : old(i) = k
    <3> SUFFICES ASSUME NEW k \in DOMAIN saves, k # p PROVE \E i \in DOMAIN A : old(i) = k
      OBVIOUS
    <3>1. CASE k < p
      BY <3>1, <2>1, <2>4
    <3>2. CASE ~(k < p)
      <4>1. k - 1 \in DOMAIN A /\ ~(k - 1 < p) /\ (k - 1) + 1 = k
        BY <3>2, <2>1, <2>4
      <4> QED BY <4>1
    <3> QED BY <3>1, <3>2
  <2> HIDE DEF old
  <2>7. Ordered(A, len)
    BY <2>5, <2>6 DEF Ordered
  <2>8. ~Named(A, n)
    <3> SUFFICES ASSUME NEW i \in DOMAIN A, A[i].name = n PROVE FALSE
      BY DEF Named
    <3>1. p \in DOMAIN saves
      BY <2>1, <2>4
    <3> QED BY <2>1, <2>5, <3>1, OnePosition
  <2>9. Part(A, saves)
    <3>1. \A i \in DOMAIN A : \E k \in DOMAIN saves : A[i] = saves[k]
      BY <2>5
    <3>2. ASSUME NEW i \in DOMAIN A, NEW j \in DOMAIN A, NEW k \in DOMAIN saves,
                 NEW l \in DOMAIN saves, i < j, A[i].name = saves[k].name,
                 A[j].name = saves[l].name
          PROVE  k < l
      <4>1. k = old(i) /\ l = old(j)
        BY <3>2, <2>5, OnePosition
      <4> QED BY <3>2, <4>1, <2>6
    <3> QED BY <3>1, <3>2 DEF Part
  <2>11. Keeps(A, saves, n)
    BY <2>1, <2>5, <2>10 DEF Keeps
  <2> QED BY <2>2, <2>3, <2>7, <2>8, <2>9, <2>11
<1> QED BY <1>1, <1>2

\* The savepoints up to one of them.
LEMMA PrefixProperties ==
  ASSUME NEW saves \in Seq(Mark), NEW len, Ordered(saves, len), NEW p \in 0..Len(saves)
  PROVE  /\ SubSeq(saves, 1, p) \in Seq(Mark) /\ Len(SubSeq(saves, 1, p)) = p
         /\ \A i \in 1..p : SubSeq(saves, 1, p)[i] = saves[i]
         /\ Ordered(SubSeq(saves, 1, p), len)
         /\ Part(SubSeq(saves, 1, p), saves)
         /\ p > 0 => Ordered(SubSeq(saves, 1, p), saves[p].mark)
<1> DEFINE A == SubSeq(saves, 1, p)
<1>1. A \in Seq(Mark) /\ Len(A) = p /\ \A i \in 1..p : A[i] = saves[i]
  BY SubSeqProperties
<1> HIDE DEF A
<1>2. DOMAIN A = 1..p /\ DOMAIN saves = 1..Len(saves) /\ 1..p \subseteq DOMAIN saves
  BY <1>1
<1>3. Ordered(A, len)
  BY <1>1, <1>2 DEF Ordered
<1>4. Part(A, saves)
  <2>1. \A i \in DOMAIN A : \E k \in DOMAIN saves : A[i] = saves[k]
    BY <1>1, <1>2
  <2>2. ASSUME NEW i \in DOMAIN A, NEW j \in DOMAIN A, NEW k \in DOMAIN saves,
               NEW l \in DOMAIN saves, i < j, A[i].name = saves[k].name,
               A[j].name = saves[l].name
        PROVE  k < l
    <3>1. k = i /\ l = j
      BY <2>2, <1>1, <1>2, OnePosition
    <3> QED BY <2>2, <3>1
  <2> QED BY <2>1, <2>2 DEF Part
<1>5. ASSUME p > 0 PROVE Ordered(A, saves[p].mark)
  <2>1. p \in DOMAIN saves
    BY <1>2, <1>5
  <2>2. ASSUME NEW i \in DOMAIN A PROVE A[i].mark <= saves[p].mark
    <3>1. i \in DOMAIN saves /\ A[i] = saves[i] /\ (i = p \/ i < p)
      BY <1>1, <1>2
    <3>2. saves[p].mark \in Nat
      BY <2>1, Entries
    <3> QED BY <2>1, <3>1, <3>2 DEF Ordered
  <2> QED BY <1>3, <2>2 DEF Ordered
<1> QED BY <1>1, <1>3, <1>4, <1>5 DEF A

LEMMA OrderedLonger ==
  ASSUME NEW saves \in Seq(Mark), NEW len \in Nat, NEW more \in Nat, len <= more,
         Ordered(saves, len)
  PROVE  Ordered(saves, more)
<1>1. ASSUME NEW i \in DOMAIN saves PROVE saves[i].mark <= more
  BY Entries DEF Ordered
<1> QED BY <1>1 DEF Ordered

\* A savepoint that is set is the last.
LEMMA SavedProperties ==
  ASSUME NEW saves \in Seq(Mark), NEW len \in Nat, Ordered(saves, len),
         NEW n \in Savepoints \cup {Wrapper}
  PROVE  LET A == Saved(saves, n, len)
             B == Others(saves, n)
         IN  /\ A \in Seq(Mark) /\ Len(A) = Len(B) + 1
             /\ Ordered(A, len)
             /\ A[Len(A)] = [name |-> n, mark |-> len]
             /\ \A i \in 1..Len(B) : A[i] = B[i]
             /\ Named(A, n) /\ Position(A, n) = Len(A)
             /\ SubSeq(A, 1, Len(A)) = A /\ SubSeq(A, 1, Len(A) - 1) = B
<1> DEFINE B == Others(saves, n)
           m == [name |-> n, mark |-> len]
           A == Append(B, m)
<1>1. B \in Seq(Mark) /\ Ordered(B, len) /\ ~Named(B, n)
  BY OthersProperties
<1>2. m \in Mark /\ m.name = n /\ m.mark = len
  BY DEF Mark
<1> HIDE DEF B, m
<1>3. /\ A \in Seq(Mark) /\ Len(A) = Len(B) + 1 /\ A[Len(A)] = m
      /\ \A i \in 1..Len(B) : A[i] = B[i]
  BY <1>1, <1>2, AppendProperties
<1> HIDE DEF A
<1>4. DOMAIN A = 1..(Len(B) + 1) /\ DOMAIN B = 1..Len(B) /\ Len(B) \in Nat
  BY <1>1, <1>3
<1>5. Ordered(A, len)
  <2>1. ASSUME NEW i \in DOMAIN A PROVE A[i].mark <= len
    <3>1. CASE i = Len(A)
      BY <3>1, <1>2, <1>3
    <3>2. CASE i # Len(A)
      <4>1. i \in DOMAIN B /\ A[i] = B[i]
        BY <3>2, <1>3, <1>4
      <4> QED BY <4>1, <1>1 DEF Ordered
    <3> QED BY <3>1, <3>2
  <2>2. ASSUME NEW i \in DOMAIN A, NEW j \in DOMAIN A, i < j
        PROVE  A[i].mark <= A[j].mark /\ A[i].name # A[j].name
    <3>1. i \in DOMAIN B /\ A[i] = B[i]
      BY <2>2, <1>3, <1>4
    <3>2. CASE j = Len(A)
      BY <3>1, <3>2, <1>1, <1>2, <1>3 DEF Ordered, Named
    <3>3. CASE j # Len(A)
      <4>1. j \in DOMAIN B /\ A[j] = B[j]
        BY <3>3, <1>3, <1>4
      <4> QED BY <3>1, <4>1, <2>2, <1>1 DEF Ordered
    <3> QED BY <3>2, <3>3
  <2> QED BY <2>1, <2>2 DEF Ordered
<1>6. Named(A, n) /\ Position(A, n) = Len(A)
  <2>1. Len(A) \in DOMAIN A /\ A[Len(A)].name = n
    BY <1>2, <1>3, <1>4
  <2> QED BY <1>3, <1>5, <2>1, PositionIs
<1>7. SubSeq(A, 1, Len(A)) = A
  <2>1. /\ SubSeq(A, 1, Len(A)) \in Seq(Mark) /\ Len(SubSeq(A, 1, Len(A))) = Len(A)
        /\ \A i \in 1..Len(A) : SubSeq(A, 1, Len(A))[i] = A[i]
    BY <1>3, SubSeqProperties
  <2> QED BY <1>3, <2>1, SeqEqual
<1>8. SubSeq(A, 1, Len(A) - 1) = B
  <2>0. Len(A) - 1 = Len(B)
    BY <1>3, <1>4
  <2>1. /\ SubSeq(A, 1, Len(B)) \in Seq(Mark) /\ Len(SubSeq(A, 1, Len(B))) = Len(B)
        /\ \A i \in 1..Len(B) : SubSeq(A, 1, Len(B))[i] = A[i]
    BY <1>3, <1>4, SubSeqProperties
  <2> QED BY <1>1, <1>3, <2>0, <2>1, SeqEqual
<1> QED BY <1>1, <1>2, <1>3, <1>5, <1>6, <1>7, <1>8 DEF Saved, A, B, m

LEMMA SavedLast ==
  ASSUME NEW saves \in Seq(Mark), NEW len \in Nat, Ordered(saves, len),
         NEW n \in Savepoints \cup {Wrapper}, NEW A, A = Saved(saves, n, len)
  PROVE  /\ A \in Seq(Mark) /\ Ordered(A, len) /\ Named(A, n) /\ Position(A, n) = Len(A)
         /\ SubSeq(A, 1, Len(A)) = A
         /\ SubSeq(A, 1, Len(A) - 1) = Others(saves, n)
         /\ A[Len(A)].mark = len /\ A[Len(A)].name = n
<1>1. A[Len(A)] = [name |-> n, mark |-> len]
  BY SavedProperties
<1>2. A[Len(A)].mark = len /\ A[Len(A)].name = n
  BY <1>1
<1>3. A \in Seq(Mark) /\ Ordered(A, len)
  BY SavedProperties
<1>4. Named(A, n) /\ Position(A, n) = Len(A)
  BY SavedProperties
<1>5. SubSeq(A, 1, Len(A)) = A
  BY SavedProperties
<1>6. SubSeq(A, 1, Len(A) - 1) = Others(saves, n)
  BY SavedProperties
<1> QED BY <1>2, <1>3, <1>4, <1>5, <1>6

-----------------------------------------------------------------------------
(* The commands of MariaDB on a transaction. *)

TransactionType == [open : BOOLEAN, work : Seq(Nat), saves : Seq(Mark), db : SUBSET Nat]

\* The first m changes of a transaction.
Back(work, m) == {work[j] : j \in 1..m}

LEMMA RangeAppend ==
  ASSUME NEW S, NEW w \in Seq(S), NEW d \in S
  PROVE  /\ Append(w, d) \in Seq(S) /\ Len(Append(w, d)) = Len(w) + 1
         /\ Range(Append(w, d)) = Range(w) \cup {d}
         /\ \A j \in 1..Len(w) : Append(w, d)[j] = w[j]
<1>1. /\ Append(w, d) \in Seq(S) /\ Len(Append(w, d)) = Len(w) + 1
      /\ \A j \in 1..Len(w) : Append(w, d)[j] = w[j]
      /\ Append(w, d)[Len(w) + 1] = d
  BY AppendProperties
<1> DEFINE A == Append(w, d)
<1> HIDE DEF A
<1>2. DOMAIN A = 1..(Len(w) + 1) /\ DOMAIN w = 1..Len(w)
  BY <1>1 DEF A
<1>3. 1..(Len(w) + 1) = 1..Len(w) \cup {Len(w) + 1}
  OBVIOUS
<1>4. Range(A) = Range(w) \cup {d}
  BY <1>1, <1>2, <1>3 DEF Range, A
<1> QED BY <1>1, <1>4 DEF A

LEMMA RangePrefix ==
  ASSUME NEW S, NEW w \in Seq(S), NEW m \in 0..Len(w)
  PROVE  /\ SubSeq(w, 1, m) \in Seq(S) /\ Len(SubSeq(w, 1, m)) = m
         /\ Range(SubSeq(w, 1, m)) = Back(w, m)
         /\ Back(w, m) \subseteq Range(w)
         /\ \A j \in 1..m : SubSeq(w, 1, m)[j] = w[j]
<1>1. /\ SubSeq(w, 1, m) \in Seq(S) /\ Len(SubSeq(w, 1, m)) = m
      /\ \A j \in 1..m : SubSeq(w, 1, m)[j] = w[j]
  BY SubSeqProperties
<1> DEFINE A == SubSeq(w, 1, m)
<1> HIDE DEF A
<1>2. DOMAIN A = 1..m /\ 1..m \subseteq DOMAIN w
  BY <1>1 DEF A
<1>3. Range(A) = Back(w, m) /\ Back(w, m) \subseteq Range(w)
  BY <1>1, <1>2 DEF Range, Back, A
<1> QED BY <1>1, <1>3 DEF A

LEMMA EmptyRange == Range(<<>>) = {}
BY DEF Range

LEMMA NoSaves ==
  ASSUME NEW len
  PROVE  /\ Ordered(<<>>, len) /\ \A n : ~Named(<<>>, n)
         /\ <<>> \in Seq(Mark) /\ <<>> \in Seq(Nat)
BY DEF Ordered, Named

LEMMA Fields ==
  ASSUME NEW s, Transaction(s)
  PROVE  /\ s \in TransactionType
         /\ s.open \in BOOLEAN /\ s.work \in Seq(Nat) /\ s.saves \in Seq(Mark)
         /\ s.db \subseteq Nat /\ Range(s.work) \subseteq Nat /\ Len(s.work) \in Nat
         /\ Ordered(s.saves, Len(s.work))
         /\ ~s.open => s.work = <<>> /\ s.saves = <<>>
<1>1. s \in TransactionType /\ Ordered(s.saves, Len(s.work)) /\ (~s.open => s.work = <<>> /\ s.saves = <<>>)
  BY DEF Transaction, TransactionType
<1>2. s.open \in BOOLEAN /\ s.work \in Seq(Nat) /\ s.saves \in Seq(Mark) /\ s.db \subseteq Nat
  BY <1>1 DEF TransactionType
<1>3. Range(s.work) \subseteq Nat
  BY <1>2 DEF Range
<1> QED BY <1>1, <1>2, <1>3

\* COMMIT, ROLLBACK, START TRANSACTION and a deadlock leave no work and no savepoint.
LEMMA Ended ==
  ASSUME NEW s, Transaction(s)
  PROVE  /\ Transaction(SqlCommit(s)) /\ Transaction(SqlRollback(s))
         /\ Transaction(SqlStart(s)) /\ Transaction(SqlDeadlock(s))
         /\ SqlStart(s).open /\ SqlDeadlock(s).open = s.open
         /\ ~SqlCommit(s).open /\ ~SqlRollback(s).open
         /\ SqlCommit(s).db = s.db \cup Range(s.work) /\ SqlStart(s).db = s.db \cup Range(s.work)
         /\ SqlRollback(s).db = s.db /\ SqlDeadlock(s).db = s.db
         /\ \A t \in {SqlCommit(s), SqlRollback(s), SqlStart(s), SqlDeadlock(s)} :
              t.work = <<>> /\ t.saves = <<>>
<1>1. s.db \cup Range(s.work) \in SUBSET Nat /\ s \in TransactionType /\ s.db \in SUBSET Nat
  BY Fields
<1>2. SqlCommit(s) \in TransactionType /\ SqlRollback(s) \in TransactionType
  BY <1>1, NoSaves DEF SqlCommit, SqlRollback, TransactionType
<1>3. SqlStart(s) \in TransactionType
  BY <1>2, <1>1 DEF SqlStart, TransactionType
<1>4. SqlDeadlock(s) \in TransactionType
  BY <1>1, NoSaves DEF SqlDeadlock, TransactionType
<1>5. /\ SqlCommit(s).work = <<>> /\ SqlCommit(s).saves = <<>> /\ ~SqlCommit(s).open
      /\ SqlCommit(s).db = s.db \cup Range(s.work)
  BY DEF SqlCommit
<1>6. /\ SqlRollback(s).work = <<>> /\ SqlRollback(s).saves = <<>> /\ ~SqlRollback(s).open
      /\ SqlRollback(s).db = s.db
  BY DEF SqlRollback
<1>7. /\ SqlStart(s).work = <<>> /\ SqlStart(s).saves = <<>> /\ SqlStart(s).open
      /\ SqlStart(s).db = s.db \cup Range(s.work)
  BY <1>2, <1>5 DEF SqlStart, TransactionType
<1>8. /\ SqlDeadlock(s).work = <<>> /\ SqlDeadlock(s).saves = <<>>
      /\ SqlDeadlock(s).open = s.open /\ SqlDeadlock(s).db = s.db
  BY <1>1 DEF SqlDeadlock, TransactionType
<1> QED BY <1>2, <1>3, <1>4, <1>5, <1>6, <1>7, <1>8, NoSaves DEF Transaction, TransactionType

LEMMA NewConnectionOK ==
  ASSUME NEW db \in SUBSET Nat
  PROVE  /\ Transaction(NewConnection(db))
         /\ NewConnection(db).open /\ NewConnection(db).work = <<>>
         /\ NewConnection(db).saves = <<>> /\ NewConnection(db).db = db
BY NoSaves DEF NewConnection, Transaction

LEMMA SavepointOK ==
  ASSUME NEW s, Transaction(s), NEW n \in Savepoints \cup {Wrapper}
  PROVE  LET t == SqlSavepoint(s, n)
         IN  /\ Transaction(t) /\ t.open = s.open /\ t.work = s.work /\ t.db = s.db
             /\ t.saves = IF s.open THEN Saved(s.saves, n, Len(s.work)) ELSE s.saves
<1>1. CASE ~s.open
  BY <1>1 DEF SqlSavepoint
<1>2. CASE s.open
  <2> DEFINE A == Saved(s.saves, n, Len(s.work))
             t == [s EXCEPT !.saves = A]
  <2>1. A \in Seq(Mark) /\ Ordered(A, Len(s.work))
    BY Fields, SavedProperties
  <2> HIDE DEF A
  <2>2. SqlSavepoint(s, n) = t
    BY <1>2 DEF SqlSavepoint, A
  <2>3. /\ t \in TransactionType /\ t.open = s.open /\ t.work = s.work /\ t.db = s.db
        /\ t.saves = A
    BY <2>1, Fields DEF TransactionType
  <2>4. Transaction(t)
    BY <2>1, <2>3, <1>2 DEF Transaction, TransactionType
  <2> QED BY <2>2, <2>3, <2>4, <1>2 DEF A
<1> QED BY <1>1, <1>2, Fields

LEMMA ChangeOK ==
  ASSUME NEW s, Transaction(s), NEW d \in Nat
  PROVE  LET t == SqlChange(s, d)
         IN  /\ Transaction(t) /\ t.open = s.open /\ t.saves = s.saves
             /\ Range(t.work) \cup t.db = Range(s.work) \cup s.db \cup {d}
             /\ s.db \subseteq t.db /\ Range(t.work) \subseteq Range(s.work) \cup {d}
             /\ s.open => t.db = s.db /\ t.work = Append(s.work, d)
             /\ Len(t.work) >= Len(s.work) /\ \A j \in 1..Len(s.work) : t.work[j] = s.work[j]
<1>1. CASE ~s.open
  <2> DEFINE t == [s EXCEPT !.db = @ \cup {d}]
  <2>1. SqlChange(s, d) = t
    BY <1>1 DEF SqlChange
  <2>2. /\ t \in TransactionType /\ t.open = s.open /\ t.work = s.work
        /\ t.db = s.db \cup {d} /\ t.saves = s.saves
    BY Fields DEF TransactionType
  <2> QED BY <1>1, <2>1, <2>2, Fields DEF Transaction, TransactionType
<1>2. CASE s.open
  <2> DEFINE w == Append(s.work, d)
             t == [s EXCEPT !.work = w]
  <2>1. /\ w \in Seq(Nat) /\ Len(w) = Len(s.work) + 1 /\ Range(w) = Range(s.work) \cup {d}
        /\ \A j \in 1..Len(s.work) : w[j] = s.work[j]
    BY Fields, RangeAppend
  <2> HIDE DEF w
  <2>2. SqlChange(s, d) = t
    BY <1>2 DEF SqlChange, w
  <2>3. /\ t \in TransactionType /\ t.open = s.open /\ t.work = w
        /\ t.db = s.db /\ t.saves = s.saves
    BY <2>1, Fields DEF TransactionType
  <2>7. Len(w) \in Nat /\ Len(s.work) <= Len(w)
    BY <2>1, Fields
  <2>8. Ordered(s.saves, Len(w))
    BY <2>7, Fields, OrderedLonger
  <2>4. Ordered(t.saves, Len(t.work))
    BY <2>3, <2>8
  <2>5. Transaction(t)
    BY <2>3, <2>4, <1>2 DEF Transaction, TransactionType
  <2>6. Len(t.work) >= Len(s.work)
    BY <2>1, <2>3, Fields
  <2> QED BY <1>2, <2>1, <2>2, <2>3, <2>5, <2>6 DEF w
<1> QED BY <1>1, <1>2, Fields

LEMMA RollbackToOK ==
  ASSUME NEW s, Transaction(s), NEW n, HasSave(s, n)
  PROVE  LET t == SqlRollbackTo(s, n)
             p == Position(s.saves, n)
         IN  /\ Transaction(t) /\ t.open = s.open /\ t.db = s.db
             /\ p \in 1..Len(s.saves) /\ s.saves[p].name = n
             /\ s.saves[p].mark \in 0..Len(s.work)
             /\ t.saves = SubSeq(s.saves, 1, p) /\ t.work = SubSeq(s.work, 1, s.saves[p].mark)
<1> DEFINE p == Position(s.saves, n)
           m == s.saves[p].mark
           w == SubSeq(s.work, 1, m)
           A == SubSeq(s.saves, 1, p)
           t == [s EXCEPT !.work = w, !.saves = A]
<1>1. p \in 1..Len(s.saves) /\ p \in DOMAIN s.saves /\ s.saves[p].name = n
  BY Fields, PositionExists DEF HasSave
<1> HIDE DEF p
<1>2. m \in 0..Len(s.work)
  <2>1. m \in Nat /\ m <= Len(s.work)
    BY <1>1, Fields, Entries DEF Ordered
  <2> QED BY <2>1, Fields
<1>3. A \in Seq(Mark) /\ Ordered(A, m)
  <2>1. p \in 0..Len(s.saves) /\ p > 0
    BY <1>1, Fields
  <2> QED BY <2>1, Fields, PrefixProperties
<1> HIDE DEF m
<1>4. w \in Seq(Nat) /\ Len(w) = m
  BY <1>2, Fields, RangePrefix
<1> HIDE DEF w, A
<1>5. SqlRollbackTo(s, n) = t
  BY DEF SqlRollbackTo, w, A, m, p
<1>6. /\ t \in TransactionType /\ t.open = s.open /\ t.db = s.db /\ t.work = w /\ t.saves = A
  <2>1. s \in TransactionType /\ w \in Seq(Nat) /\ A \in Seq(Mark)
    BY <1>3, <1>4, Fields
  <2> QED BY <2>1 DEF TransactionType
<1>7. s.open
  BY <1>1, Fields, NoSaves DEF HasSave
<1>8. Transaction(t)
  BY <1>3, <1>4, <1>6, <1>7 DEF Transaction, TransactionType
<1> QED BY <1>1, <1>2, <1>5, <1>6, <1>8 DEF m, w, A, p

LEMMA ReleaseOK ==
  ASSUME NEW s, Transaction(s), NEW n, HasSave(s, n)
  PROVE  LET t == SqlRelease(s, n)
             p == Position(s.saves, n)
         IN  /\ Transaction(t) /\ t.open = s.open /\ t.db = s.db /\ t.work = s.work
             /\ p \in 1..Len(s.saves) /\ s.saves[p].name = n
             /\ t.saves = SubSeq(s.saves, 1, p - 1)
<1> DEFINE p == Position(s.saves, n)
           A == SubSeq(s.saves, 1, p - 1)
           t == [s EXCEPT !.saves = A]
<1>1. p \in 1..Len(s.saves) /\ s.saves[p].name = n
  BY Fields, PositionExists DEF HasSave
<1> HIDE DEF p
<1>2. A \in Seq(Mark) /\ Ordered(A, Len(s.work))
  <2>1. p - 1 \in 0..Len(s.saves)
    BY <1>1, Fields
  <2> QED BY <2>1, Fields, PrefixProperties
<1> HIDE DEF A
<1>3. SqlRelease(s, n) = t
  BY DEF SqlRelease, A, p
<1>4. /\ t \in TransactionType /\ t.open = s.open /\ t.db = s.db /\ t.work = s.work /\ t.saves = A
  BY <1>2, Fields DEF TransactionType
<1>5. s.open
  BY Fields, NoSaves DEF HasSave
<1>6. Transaction(t)
  BY <1>2, <1>4, <1>5 DEF Transaction, TransactionType
<1> QED BY <1>1, <1>3, <1>4, <1>6 DEF A, p

-----------------------------------------------------------------------------
(* What a statement may do to the transaction. *)

Contents(s) == Range(s.work) \cup s.db

\* The client's savepoints of A are some of B's.
ClientPart(A, B) ==
  /\ \A i \in DOMAIN A : A[i].name # Wrapper => \E k \in DOMAIN B : A[i] = B[k]
  /\ \A i, j \in DOMAIN A, k, l \in DOMAIN B :
       /\ A[i].name # Wrapper /\ A[j].name # Wrapper
       /\ i < j /\ A[i].name = B[k].name /\ A[j].name = B[l].name
       => k < l

\* The client's savepoints that are left still lead back to what they did.
Stays(s, t) ==
  /\ ClientPart(t.saves, s.saves)
  /\ \A i \in DOMAIN t.saves :
       t.saves[i].name # Wrapper =>
         Back(t.work, t.saves[i].mark) = Back(s.work, t.saves[i].mark)
  /\ s.db \subseteq t.db

\* The events that end a transaction, and those of a statement that leaves
\* behind what it did before its error.
Outside == {"program", "ddlBindError", "setTransaction"}
Unwrapped == Outside \cup {"batchError", "insteadOf", "returningError", "inDoubt"}

\* A statement that tried some changes, and is said to have done some of them, has
\* taken the transaction from s to t.
Outcome(s, t, event, tried, done) ==
  /\ Transaction(t)
  /\ HasSave(t, Wrapper) => HasSave(s, Wrapper) \/ event = "batchError"
  /\ Stays(s, t)
  /\ event # "deadlock" => Contents(s) \cup done \subseteq Contents(t)
  /\ Contents(t) \subseteq Contents(s) \cup tried
  /\ s.open /\ event \notin Outside => t.open /\ t.db = s.db
  /\ s.open /\ event \notin Unwrapped => Range(t.work) \subseteq Range(s.work) \cup done

LEMMA BackSame ==
  ASSUME NEW v, NEW w, NEW m \in Nat, \A j \in 1..m : w[j] = v[j]
  PROVE  Back(w, m) = Back(v, m)
BY DEF Back

\* Work that is only added to takes nothing away from a savepoint.
LEMMA StaysWhenLonger ==
  ASSUME NEW s, NEW t, Transaction(s), Transaction(t),
         ClientPart(t.saves, s.saves), s.db \subseteq t.db,
         \A j \in 1..Len(s.work) : t.work[j] = s.work[j]
  PROVE  Stays(s, t)
<1> SUFFICES ASSUME NEW i \in DOMAIN t.saves, t.saves[i].name # Wrapper
             PROVE  Back(t.work, t.saves[i].mark) = Back(s.work, t.saves[i].mark)
  BY DEF Stays
<1>1. PICK k \in DOMAIN s.saves : t.saves[i] = s.saves[k]
  BY DEF ClientPart
<1>2. s.saves[k].mark \in Nat /\ s.saves[k].mark <= Len(s.work)
  BY Fields, Entries DEF Ordered
<1>3. t.saves[i].mark \in Nat /\ \A j \in 1..t.saves[i].mark : t.work[j] = s.work[j]
  <2> DEFINE m == s.saves[k].mark
  <2>1. m \in Nat /\ m <= Len(s.work) /\ Len(s.work) \in Nat
    BY <1>2, Fields
  <2> HIDE DEF m
  <2>2. \A j \in 1..m : j \in 1..Len(s.work)
    BY <2>1
  <2>3. t.saves[i].mark = m
    BY <1>1 DEF m
  <2> QED BY <2>1, <2>2, <2>3
<1> QED BY <1>3, BackSame

LEMMA StaysWhenEnded ==
  ASSUME NEW s, NEW t, t.saves = <<>>, s.db \subseteq t.db
  PROVE  Stays(s, t)
BY DEF Stays, ClientPart

LEMMA PartForClient ==
  ASSUME NEW A, NEW B, Part(A, B)
  PROVE  ClientPart(A, B)
BY DEF Part, ClientPart

\* dbsaci_statement, set anew, is none of the client's.
LEMMA WrapperForClient ==
  ASSUME NEW saves \in Seq(Mark), NEW len \in Nat, Ordered(saves, len)
  PROVE  ClientPart(Saved(saves, Wrapper, len), saves)
<1> DEFINE A == Saved(saves, Wrapper, len)
           B == Others(saves, Wrapper)
           m == [name |-> Wrapper, mark |-> len]
<1>2. B \in Seq(Mark) /\ Part(B, saves)
  BY OthersProperties
<1>0. m \in Mark /\ m.name = Wrapper
  BY DEF Mark
<1> HIDE DEF B, m
<1>1. /\ A \in Seq(Mark) /\ Len(A) = Len(B) + 1 /\ A[Len(A)].name = Wrapper
      /\ \A i \in 1..Len(B) : A[i] = B[i]
  <2>1. A = Append(B, m)
    BY DEF Saved, B, m
  <2> HIDE DEF A
  <2> QED BY <1>0, <1>2, <2>1, AppendProperties
<1> HIDE DEF A
<1>3. DOMAIN A = 1..(Len(B) + 1) /\ DOMAIN B = 1..Len(B) /\ Len(B) \in Nat
  BY <1>1, <1>2
<1>4. \A i \in DOMAIN A : A[i].name # Wrapper => i \in DOMAIN B /\ A[i] = B[i]
  BY <1>1, <1>3
<1>5. \A i \in DOMAIN A : A[i].name # Wrapper => \E k \in DOMAIN saves : A[i] = saves[k]
  BY <1>2, <1>4 DEF Part
<1>6. ASSUME NEW i \in DOMAIN A, NEW j \in DOMAIN A, NEW k \in DOMAIN saves,
             NEW l \in DOMAIN saves, A[i].name # Wrapper, A[j].name # Wrapper, i < j,
             A[i].name = saves[k].name, A[j].name = saves[l].name
      PROVE  k < l
  <2>1. j \in DOMAIN B /\ A[j] = B[j]
    BY <1>4, <1>6
  <2>2. i \in DOMAIN B /\ A[i] = B[i]
    BY <1>4, <1>6
  <2> QED BY <2>1, <2>2, <1>2, <1>6 DEF Part
<1> QED BY <1>5, <1>6 DEF ClientPart, A

LEMMA StaysTransitive ==
  ASSUME NEW s, NEW t, NEW u, Transaction(s), Transaction(t), Transaction(u),
         Stays(s, t), Stays(t, u)
  PROVE  Stays(s, u)
<1>1. ASSUME NEW i \in DOMAIN u.saves, u.saves[i].name # Wrapper
      PROVE  /\ \E k \in DOMAIN s.saves : u.saves[i] = s.saves[k]
             /\ Back(u.work, u.saves[i].mark) = Back(s.work, u.saves[i].mark)
  <2>1. PICK k \in DOMAIN t.saves : u.saves[i] = t.saves[k]
    BY <1>1 DEF Stays, ClientPart
  <2> QED BY <1>1, <2>1 DEF Stays, ClientPart
<1>2. ASSUME NEW i \in DOMAIN u.saves, NEW j \in DOMAIN u.saves, NEW k \in DOMAIN s.saves,
             NEW l \in DOMAIN s.saves,
             u.saves[i].name # Wrapper, u.saves[j].name # Wrapper, i < j,
             u.saves[i].name = s.saves[k].name, u.saves[j].name = s.saves[l].name
      PROVE  k < l
  <2>1. PICK a \in DOMAIN t.saves : u.saves[i] = t.saves[a]
    BY <1>2 DEF Stays, ClientPart
  <2>2. PICK b \in DOMAIN t.saves : u.saves[j] = t.saves[b]
    BY <1>2 DEF Stays, ClientPart
  <2>3. a < b
    BY <1>2, <2>1, <2>2 DEF Stays, ClientPart
  <2> QED BY <1>2, <2>1, <2>2, <2>3 DEF Stays, ClientPart
<1> QED BY <1>1, <1>2 DEF Stays, ClientPart

Answered(ds, ok) == IF ok THEN ds ELSE {}

LEMMA AnsweredIs ==
  ASSUME NEW ds
  PROVE  Answered(ds, TRUE) = ds /\ Answered(ds, FALSE) = {}
BY DEF Answered

\* The result of a statement is one that may be.
Matches(s, r, ds, events) ==
  /\ r.ok \in BOOLEAN /\ r.event \in events
  /\ Outcome(s, r.srv, r.event, ds, Answered(ds, r.ok))

LEMMA Matched ==
  ASSUME NEW s, NEW t, NEW ok \in BOOLEAN, NEW event, NEW ds, NEW events, event \in events,
         Outcome(s, t, event, ds, Answered(ds, ok))
  PROVE  Matches(s, Result(t, ok, event), ds, events)
<1> DEFINE r == Result(t, ok, event)
<1>1. r.srv = t /\ r.event = event /\ r.ok = ok
  BY DEF Result
<1> HIDE DEF r
<1> QED BY <1>1, Zenon DEF Matches, r

LEMMA Succeeds ==
  ASSUME NEW s, NEW t, NEW event, NEW ds, NEW events, event \in events,
         Outcome(s, t, event, ds, ds), NEW r, r = Result(t, TRUE, event)
  PROVE  Matches(s, r, ds, events)
<1>1. Outcome(s, t, event, ds, Answered(ds, TRUE))
  BY AnsweredIs, Zenon
<1> QED BY <1>1, Matched, Zenon

LEMMA Fails ==
  ASSUME NEW s, NEW t, NEW event, NEW ds, NEW events, event \in events,
         Outcome(s, t, event, ds, {}), NEW r, r = Result(t, FALSE, event)
  PROVE  Matches(s, r, ds, events)
<1>1. Outcome(s, t, event, ds, Answered(ds, FALSE))
  BY AnsweredIs, Zenon
<1> QED BY <1>1, Matched, Zenon

LEMMA StaysItself ==
  ASSUME NEW s, Transaction(s)
  PROVE  Stays(s, s)
<1>1. ClientPart(s.saves, s.saves)
  BY Fields, PartOfItself, PartForClient
<1> QED BY <1>1 DEF Stays

\* A statement that does nothing.
LEMMA SameOutcome ==
  ASSUME NEW s, Transaction(s), NEW tried
  PROVE  Outcome(s, s, "none", tried, {})
BY StaysItself DEF Outcome

LEMMA MatchedSame ==
  ASSUME NEW s, Transaction(s), NEW ds, NEW events, "none" \in events,
         NEW r, r = Result(s, FALSE, "none")
  PROVE  Matches(s, r, ds, events)
BY SameOutcome, Fails

\* One that runs as it is.
LEMMA ChangeOutcome ==
  ASSUME NEW s, Transaction(s), NEW d \in Nat, NEW event, NEW done \in SUBSET {d},
         done = {d} \/ event \in Unwrapped
  PROVE  Outcome(s, SqlChange(s, d), event, {d}, done)
<1> DEFINE t == SqlChange(s, d)
<1>1. /\ Transaction(t) /\ t.open = s.open /\ t.saves = s.saves
      /\ Contents(t) = Contents(s) \cup {d}
      /\ s.db \subseteq t.db /\ Range(t.work) \subseteq Range(s.work) \cup {d}
      /\ s.open => t.db = s.db
      /\ \A j \in 1..Len(s.work) : t.work[j] = s.work[j]
  BY ChangeOK DEF Contents
<1> HIDE DEF t
<1>2. Stays(s, t)
  BY <1>1, StaysItself, StaysWhenLonger DEF Stays
<1>3. HasSave(t, Wrapper) => HasSave(s, Wrapper)
  BY <1>1 DEF HasSave
<1> QED BY <1>1, <1>2, <1>3 DEF Outcome, t

LEMMA DeadlockOutcome ==
  ASSUME NEW s, Transaction(s), NEW tried
  PROVE  Outcome(s, SqlDeadlock(s), "deadlock", tried, {})
<1> DEFINE t == SqlDeadlock(s)
<1>1. /\ Transaction(t) /\ t.open = s.open /\ t.work = <<>> /\ t.saves = <<>> /\ t.db = s.db
  BY Ended
<1> HIDE DEF t
<1>2. Range(t.work) = {}
  BY <1>1, EmptyRange
<1> QED BY <1>1, <1>2, StaysWhenEnded, NoSaves DEF Outcome, Contents, HasSave, t

\* One that ends the transaction, outside dbsaci_statement.
LEMMA EndOutcome ==
  ASSUME NEW s, Transaction(s), NEW t, Transaction(t), t.saves = <<>>, NEW event \in Outside,
         NEW tried, Contents(s) \subseteq Contents(t), Contents(t) \subseteq Contents(s) \cup tried,
         NEW done \in SUBSET Contents(t), s.db \subseteq t.db
  PROVE  Outcome(s, t, event, tried, done)
<1>1. ~HasSave(t, Wrapper)
  BY NoSaves DEF HasSave
<1>2. event # "deadlock" /\ event \in Unwrapped
  BY DEF Outside, Unwrapped
<1> QED BY <1>1, <1>2, StaysWhenEnded DEF Outcome

\* RELEASE SAVEPOINT dbsaci_statement, after what ran under it.
LEMMA Released ==
  ASSUME NEW s, Transaction(s), NEW t, Transaction(t),
         t.saves = Saved(s.saves, Wrapper, Len(s.work))
  PROVE  LET u == SqlRelease(t, Wrapper)
         IN  /\ HasSave(t, Wrapper) /\ ~HasSave(u, Wrapper)
             /\ Transaction(u) /\ u.open = t.open /\ u.work = t.work /\ u.db = t.db
             /\ u.saves = Others(s.saves, Wrapper)
             /\ ClientPart(u.saves, s.saves)
<1> DEFINE A == Saved(s.saves, Wrapper, Len(s.work))
           B == Others(s.saves, Wrapper)
           u == SqlRelease(t, Wrapper)
<1>0. s.saves \in Seq(Mark) /\ Len(s.work) \in Nat /\ Ordered(s.saves, Len(s.work))
  BY Fields
<1>1. /\ Named(A, Wrapper) /\ Position(A, Wrapper) = Len(A) /\ SubSeq(A, 1, Len(A) - 1) = B
  BY <1>0, SavedLast
<1>2. ~Named(B, Wrapper) /\ ClientPart(B, s.saves)
  BY Fields, OthersProperties, PartForClient
<1> HIDE DEF A, B
<1>3. HasSave(t, Wrapper) /\ t.saves = A
  BY <1>1 DEF HasSave, A
<1>4. /\ Transaction(u) /\ u.open = t.open /\ u.work = t.work /\ u.db = t.db
      /\ u.saves = SubSeq(t.saves, 1, Position(t.saves, Wrapper) - 1)
  BY <1>3, ReleaseOK
<1>5. u.saves = B
  BY <1>1, <1>3, <1>4
<1> QED BY <1>2, <1>3, <1>4, <1>5 DEF HasSave, B

\* The recovery of a failed statement takes back all it did.
LEMMA Recovered ==
  ASSUME NEW s, Transaction(s), s.open
  PROVE  LET u == Recover(SqlSavepoint(s, Wrapper))
         IN  /\ Transaction(u) /\ u.open /\ u.work = s.work /\ u.db = s.db
             /\ ~HasSave(u, Wrapper) /\ ClientPart(u.saves, s.saves)
             /\ u.saves = Others(s.saves, Wrapper)
<1> DEFINE A == Saved(s.saves, Wrapper, Len(s.work))
           b == SqlSavepoint(s, Wrapper)
           t == SqlRollbackTo(b, Wrapper)
<1>1. Transaction(b) /\ b.open /\ b.work = s.work /\ b.db = s.db /\ b.saves = A
  BY SavepointOK
<1>0. s.saves \in Seq(Mark) /\ Len(s.work) \in Nat /\ Ordered(s.saves, Len(s.work))
  BY Fields
<1>2. /\ Named(A, Wrapper) /\ Position(A, Wrapper) = Len(A) /\ SubSeq(A, 1, Len(A)) = A
      /\ A[Len(A)].mark = Len(s.work)
  BY <1>0, SavedLast
<1> HIDE DEF A, b
<1>3. HasSave(b, Wrapper)
  BY <1>1, <1>2 DEF HasSave
<1>4. /\ Transaction(t) /\ t.open = b.open /\ t.db = b.db
      /\ t.saves = SubSeq(b.saves, 1, Position(b.saves, Wrapper))
      /\ t.work = SubSeq(b.work, 1, b.saves[Position(b.saves, Wrapper)].mark)
  <2>1. Transaction(t) /\ t.open = b.open /\ t.db = b.db
    BY <1>1, <1>3, RollbackToOK
  <2>2. t.saves = SubSeq(b.saves, 1, Position(b.saves, Wrapper))
    BY <1>1, <1>3, RollbackToOK
  <2>3. t.work = SubSeq(b.work, 1, b.saves[Position(b.saves, Wrapper)].mark)
    BY <1>1, <1>3, RollbackToOK
  <2> QED BY <2>1, <2>2, <2>3
<1> HIDE DEF t
<1>5. t.saves = A
  BY <1>1, <1>2, <1>4
<1>6. b.saves[Position(b.saves, Wrapper)].mark = Len(s.work)
  BY <1>1, <1>2
<1>7. t.work = s.work
  BY <1>1, <1>4, <1>6, Fields, SubSeqFull
<1>8. Recover(b) = SqlRelease(t, Wrapper)
  BY DEF Recover, t
<1>9. t.saves = Saved(s.saves, Wrapper, Len(s.work))
  BY <1>5 DEF A
<1> DEFINE u == SqlRelease(t, Wrapper)
<1>10. /\ ~HasSave(u, Wrapper) /\ Transaction(u) /\ u.open = t.open /\ u.work = t.work
       /\ u.db = t.db /\ ClientPart(u.saves, s.saves) /\ u.saves = Others(s.saves, Wrapper)
  BY <1>4, <1>9, Released
<1> HIDE DEF u
<1> QED BY <1>1, <1>4, <1>7, <1>8, <1>10 DEF b, u

LEMMA NothingToRecover ==
  ASSUME NEW s, ~HasSave(s, Wrapper)
  PROVE  Recover(s) = s /\ SqlRelease(s, Wrapper) = s
BY DEF Recover, SqlRollbackTo, SqlRelease

\* The transaction t is s with dbsaci_statement set and some changes made.
Ran(s, t, ds) ==
  /\ Transaction(t) /\ t.open = s.open
  /\ t.saves = IF s.open THEN Saved(s.saves, Wrapper, Len(s.work)) ELSE s.saves
  /\ Contents(t) = Contents(s) \cup ds /\ s.db \subseteq t.db
  /\ Len(t.work) >= Len(s.work) /\ \A j \in 1..Len(s.work) : t.work[j] = s.work[j]
  /\ s.open => t.db = s.db /\ Range(t.work) = Range(s.work) \cup ds

LEMMA RanNothing ==
  ASSUME NEW s, Transaction(s)
  PROVE  Ran(s, SqlSavepoint(s, Wrapper), {})
<1> DEFINE t == SqlSavepoint(s, Wrapper)
<1>1. /\ Transaction(t) /\ t.open = s.open /\ t.work = s.work /\ t.db = s.db
      /\ t.saves = IF s.open THEN Saved(s.saves, Wrapper, Len(s.work)) ELSE s.saves
  BY SavepointOK
<1> HIDE DEF t
<1>2. Len(t.work) >= Len(s.work)
  BY <1>1, Fields
<1> QED BY <1>1, <1>2 DEF Ran, Contents, t

LEMMA RanMore ==
  ASSUME NEW s, Transaction(s), NEW t, NEW ds, Ran(s, t, ds), NEW d \in Nat
  PROVE  Ran(s, SqlChange(t, d), ds \cup {d})
<1> DEFINE u == SqlChange(t, d)
<1>1. Transaction(t) /\ Len(s.work) \in Nat /\ Len(t.work) \in Nat /\ t.work \in Seq(Nat)
  BY Fields DEF Ran
<1>2. /\ Transaction(u) /\ u.open = t.open /\ u.saves = t.saves
      /\ Contents(u) = Contents(t) \cup {d} /\ t.db \subseteq u.db
  BY <1>1, ChangeOK DEF Contents
<1>3. ASSUME t.open PROVE u.db = t.db /\ Range(u.work) = Range(t.work) \cup {d}
  <2>1. u.db = t.db /\ u.work = Append(t.work, d)
    BY <1>1, <1>3, ChangeOK
  <2>2. Range(Append(t.work, d)) = Range(t.work) \cup {d}
    BY <1>1, RangeAppend
  <2> QED BY <2>1, <2>2
<1>4. Len(u.work) >= Len(t.work) /\ \A j \in 1..Len(t.work) : u.work[j] = t.work[j]
  BY <1>1, ChangeOK
<1>5. Len(u.work) \in Nat
  BY <1>2, Fields
<1> HIDE DEF u
<1>6. Len(u.work) >= Len(s.work) /\ \A j \in 1..Len(s.work) : u.work[j] = s.work[j]
  BY <1>1, <1>4, <1>5 DEF Ran
<1> QED BY <1>2, <1>3, <1>6 DEF Ran, u

\* Under its savepoint a statement touches none of the client's.
LEMMA RanStays ==
  ASSUME NEW s, Transaction(s), NEW t, NEW ds, Ran(s, t, ds)
  PROVE  Stays(s, t)
<1>1. ClientPart(t.saves, s.saves)
  BY Fields, WrapperForClient, StaysItself DEF Ran, Stays
<1> QED BY <1>1, StaysWhenLonger DEF Ran

\* The end of a statement that succeeded.
LEMMA RanReleased ==
  ASSUME NEW s, Transaction(s), NEW t, NEW ds, Ran(s, t, ds)
  PROVE  /\ HasSave(t, Wrapper) = s.open
         /\ Outcome(s, SqlRelease(t, Wrapper), "none", ds, Answered(ds, HasSave(t, Wrapper)))
<1> DEFINE u == SqlRelease(t, Wrapper)
<1>0. s.open \in BOOLEAN
  BY Fields
<1>1. CASE s.open
  <2>1. t.saves = Saved(s.saves, Wrapper, Len(s.work)) /\ Transaction(t)
    BY <1>1 DEF Ran
  <2>2. /\ HasSave(t, Wrapper) /\ ~HasSave(u, Wrapper)
        /\ Transaction(u) /\ u.open = t.open /\ u.work = t.work /\ u.db = t.db
        /\ ClientPart(u.saves, s.saves)
    BY <2>1, Released
  <2> HIDE DEF u
  <2>3. Stays(s, u)
    BY <2>2, StaysWhenLonger DEF Ran
  <2>4. Contents(u) = Contents(t)
    BY <2>2 DEF Contents
  <2>5. Outcome(s, u, "none", ds, ds)
    BY <1>1, <2>2, <2>3, <2>4 DEF Outcome, Ran
  <2>6. HasSave(t, Wrapper) = TRUE
    BY <2>2 DEF HasSave, Named
  <2> QED BY <1>0, <1>1, <2>5, <2>6 DEF Answered, u
<1>2. CASE ~s.open
  <2>1. t.saves = <<>>
    BY <1>2, Fields DEF Ran
  <2>2. HasSave(t, Wrapper) = FALSE
    BY <2>1, NoSaves DEF HasSave, Named
  <2>3. u = t
    BY <2>2, NothingToRecover
  <2> HIDE DEF u
  <2>4. Outcome(s, t, "none", ds, {})
    BY <1>2, <2>2, RanStays DEF Outcome, Ran
  <2> QED BY <1>0, <1>2, <2>2, <2>3, <2>4 DEF Answered, u
<1> QED BY <1>0, <1>1, <1>2

LEMMA OrdinaryOutcome ==
  ASSUME NEW s, Transaction(s), NEW d \in Nat, NEW r \in OrdinaryResults(s, d)
  PROVE  Matches(s, r, {d}, {"none", "deadlock"})
<1> DEFINE begun == SqlSavepoint(s, Wrapper)
           run   == SqlChange(begun, d)
<1>1. Transaction(begun) /\ begun.open = s.open /\ begun.work = s.work /\ begun.db = s.db
  BY SavepointOK
<1>2. \/ r = Result(SqlRelease(run, Wrapper), HasSave(run, Wrapper), "none")
      \/ r = Result(Recover(begun), FALSE, "none")
      \/ r = Result(s, FALSE, "none")
      \/ r = Result(Recover(SqlDeadlock(begun)), FALSE, "deadlock")
  BY DEF OrdinaryResults
<1>3. CASE r = Result(SqlRelease(run, Wrapper), HasSave(run, Wrapper), "none")
  <2>1. Ran(s, run, {} \cup {d})
    BY RanNothing, RanMore
  <2> HIDE DEF run
  <2>2. Ran(s, run, {d}) /\ s.open \in BOOLEAN
    BY <2>1, Fields
  <2> QED BY <1>3, <2>2, RanReleased, Matched
<1>4. CASE r = Result(Recover(begun), FALSE, "none")
  <2>1. Outcome(s, Recover(begun), "none", {d}, {})
    <3>1. CASE s.open
      <4> DEFINE u == Recover(begun)
      <4>1. /\ Transaction(u) /\ u.open /\ u.work = s.work /\ u.db = s.db
            /\ ~HasSave(u, Wrapper) /\ ClientPart(u.saves, s.saves)
        BY <3>1, Recovered
      <4> HIDE DEF u
      <4>2. Stays(s, u)
        BY <4>1, StaysWhenLonger
      <4>3. Outcome(s, u, "none", {d}, {})
        BY <4>1, <4>2 DEF Outcome, Contents
      <4> QED BY <4>3 DEF u
    <3>2. CASE ~s.open
      <4>1. begun = s /\ ~HasSave(s, Wrapper)
        BY <3>2, Fields, NoSaves DEF SqlSavepoint, HasSave
      <4> QED BY <4>1, NothingToRecover, SameOutcome
    <3> QED BY <3>1, <3>2
  <2> QED BY <1>4, <2>1, Fails
<1>5. CASE r = Result(s, FALSE, "none")
  BY <1>5, MatchedSame
<1>6. CASE r = Result(Recover(SqlDeadlock(begun)), FALSE, "deadlock")
  <2> DEFINE u == SqlDeadlock(begun)
  <2>1. /\ Transaction(u) /\ u.open = s.open /\ u.work = <<>> /\ u.saves = <<>> /\ u.db = s.db
    BY <1>1, Ended
  <2> HIDE DEF u
  <2>2. ~HasSave(u, Wrapper) /\ Range(u.work) = {}
    BY <2>1, NoSaves, EmptyRange DEF HasSave
  <2>3. Recover(u) = u
    BY <2>2, NothingToRecover
  <2>4. Outcome(s, u, "deadlock", {d}, {})
    BY <2>1, <2>2, StaysWhenEnded DEF Outcome, Contents
  <2>5. r = Result(u, FALSE, "deadlock")
    BY <1>6, <2>3 DEF u
  <2> QED BY <2>4, <2>5, Fails
<1> QED BY <1>2, <1>3, <1>4, <1>5, <1>6

\* What a deadlock leaves of a statement that has run in part.
LEMMA LostOutcome ==
  ASSUME NEW s, Transaction(s), NEW t, Transaction(t), s.db \subseteq t.db, NEW tried,
         t.open = s.open, s.open => t.db = s.db, Contents(t) \subseteq Contents(s) \cup tried
  PROVE  Outcome(s, SqlDeadlock(t), "deadlock", tried, {})
<1> DEFINE u == SqlDeadlock(t)
<1>1. /\ Transaction(u) /\ u.open = s.open /\ u.work = <<>> /\ u.saves = <<>> /\ u.db = t.db
  BY Ended
<1> HIDE DEF u
<1>2. Range(u.work) = {} /\ Contents(u) \subseteq Contents(s) \cup tried
  BY <1>1, EmptyRange DEF Contents
<1> QED BY <1>1, <1>2, StaysWhenEnded, NoSaves DEF Outcome, HasSave, u

LEMMA BatchOutcome ==
  ASSUME NEW s, Transaction(s), NEW d \in Nat, NEW r \in BatchResults(s, d)
  PROVE  Matches(s, r, {d, d + 1}, {"none", "batchError", "deadlock"})
<1> DEFINE begun == SqlSavepoint(s, Wrapper)
           first == SqlChange(begun, d)
           both  == SqlChange(first, d + 1)
<1>0. d + 1 \in Nat /\ s.open \in BOOLEAN
  BY Fields
<1>1. Ran(s, begun, {})
  BY RanNothing
<1>2. Ran(s, first, {} \cup {d})
  BY <1>1, RanMore
<1>3. Ran(s, both, ({} \cup {d}) \cup {d + 1})
  BY <1>0, <1>2, RanMore
<1> HIDE DEF begun, first, both
<1>4. ({} \cup {d}) \cup {d + 1} = {d, d + 1}
  OBVIOUS
<1>5. CASE r = Result(SqlRelease(both, Wrapper), HasSave(both, Wrapper), "none")
  <2>1. Ran(s, both, {d, d + 1})
    BY <1>3, <1>4
  <2> QED BY <1>0, <1>5, <2>1, RanReleased, Matched
<1>6. ASSUME NEW t, NEW ds \in SUBSET {d, d + 1}, Ran(s, t, ds), r = Result(t, FALSE, "batchError")
      PROVE  Matches(s, r, {d, d + 1}, {"none", "batchError", "deadlock"})
  <2>2. Outcome(s, t, "batchError", {d, d + 1}, {})
    BY <1>6, RanStays DEF Outcome, Ran, Outside, Unwrapped
  <2> QED BY <1>6, <2>2, Fails
<1>8. ASSUME NEW t, NEW ds \in SUBSET {d, d + 1}, Ran(s, t, ds),
             r = Result(SqlDeadlock(t), FALSE, "deadlock")
      PROVE  Matches(s, r, {d, d + 1}, {"none", "batchError", "deadlock"})
  <2>1. /\ Transaction(t) /\ s.db \subseteq t.db /\ t.open = s.open /\ (s.open => t.db = s.db)
        /\ Contents(t) \subseteq Contents(s) \cup {d, d + 1}
    BY <1>8 DEF Ran
  <2>2. Outcome(s, SqlDeadlock(t), "deadlock", {d, d + 1}, {})
    BY <2>1, LostOutcome
  <2> QED BY <1>8, <2>2, Fails
<1>7. \/ r = Result(SqlRelease(both, Wrapper), HasSave(both, Wrapper), "none")
      \/ r = Result(begun, FALSE, "batchError")
      \/ r = Result(first, FALSE, "batchError")
      \/ r = Result(SqlDeadlock(begun), FALSE, "deadlock")
      \/ r = Result(SqlDeadlock(first), FALSE, "deadlock")
  BY DEF BatchResults, DeadlockAfter, begun, first, both
<1> QED BY <1>1, <1>2, <1>5, <1>6, <1>7, <1>8

LEMMA ProgramOutcome ==
  ASSUME NEW s, Transaction(s), NEW d \in Nat, NEW r \in ProgramResults(s, d)
  PROVE  Matches(s, r, {d}, {"program"})
<1> DEFINE t == SqlChange(s, d)
<1>1. Transaction(t) /\ Contents(t) = Contents(s) \cup {d} /\ s.db \subseteq t.db
  BY ChangeOK DEF Contents
<1>2. Outcome(s, t, "program", {d}, {})
  BY ChangeOutcome DEF Outside, Unwrapped
<1>3. Outcome(s, s, "program", {d}, {})
  BY SameOutcome DEF Outcome, Outside, Unwrapped
<1> HIDE DEF t
<1>4. ASSUME NEW u \in {SqlStart(t), SqlCommit(t)}
      PROVE  Transaction(u) /\ u.saves = <<>> /\ Contents(u) = Contents(t) /\ s.db \subseteq u.db
  <2>1. Transaction(u) /\ u.saves = <<>> /\ u.work = <<>> /\ u.db = t.db \cup Range(t.work)
    BY <1>1, Ended
  <2> QED BY <1>1, <2>1, EmptyRange DEF Contents
<1>5. ASSUME NEW u \in {SqlStart(t), SqlCommit(t)}, NEW done \in SUBSET {d}
      PROVE  Outcome(s, u, "program", {d}, done)
  BY <1>1, <1>4, EndOutcome DEF Outside
<1>6. \/ r = Result(SqlStart(t), TRUE, "program")
      \/ r = Result(s, FALSE, "program")
      \/ r = Result(t, FALSE, "program")
      \/ r = Result(SqlCommit(t), FALSE, "program")
  BY DEF ProgramResults, t
<1>7. CASE r = Result(SqlStart(t), TRUE, "program")
  BY <1>5, <1>7, Succeeds
<1>8. CASE r = Result(s, FALSE, "program")
  BY <1>3, <1>8, Fails
<1>9. CASE r = Result(t, FALSE, "program")
  BY <1>2, <1>9, Fails
<1>10. CASE r = Result(SqlCommit(t), FALSE, "program")
  BY <1>5, <1>10, Fails
<1> QED BY <1>6, <1>7, <1>8, <1>9, <1>10

LEMMA InsteadOfOutcome ==
  ASSUME NEW s, Transaction(s), NEW d \in Nat, NEW r \in InsteadOfResults(s, d)
  PROVE  Matches(s, r, {d}, {"none", "insteadOf", "deadlock"})
<1>1. Outcome(s, SqlChange(s, d), "none", {d}, {d})
  BY ChangeOutcome
<1>2. Outcome(s, SqlChange(s, d), "insteadOf", {d}, {})
  BY ChangeOutcome DEF Unwrapped
<1>3. CASE r = Result(SqlChange(s, d), TRUE, "none")
  BY <1>1, <1>3, Succeeds
<1>4. CASE r = Result(s, FALSE, "none")
  BY <1>4, MatchedSame
<1>5. CASE r = Result(SqlChange(s, d), FALSE, "insteadOf")
  BY <1>2, <1>5, Fails
<1>6. CASE r = Result(SqlDeadlock(s), FALSE, "deadlock")
  BY <1>6, DeadlockOutcome, Fails
<1>7. CASE r = Result(SqlDeadlock(SqlChange(s, d)), FALSE, "deadlock")
  <2> DEFINE t == SqlChange(s, d)
  <2>1. /\ Transaction(t) /\ s.db \subseteq t.db /\ t.open = s.open /\ (s.open => t.db = s.db)
        /\ Contents(t) \subseteq Contents(s) \cup {d}
    BY ChangeOK DEF Contents
  <2> HIDE DEF t
  <2>2. Outcome(s, SqlDeadlock(t), "deadlock", {d}, {})
    BY <2>1, LostOutcome
  <2> QED BY <1>7, <2>2, Fails DEF t
<1> QED BY <1>3, <1>4, <1>5, <1>6, <1>7 DEF InsteadOfResults, DeadlockAfter

LEMMA ReturningOutcome ==
  ASSUME NEW s, Transaction(s), NEW d \in Nat, NEW r \in ReturningResults(s, d)
  PROVE  Matches(s, r, {d}, {"none", "returningError", "deadlock"})
<1>1. Outcome(s, SqlChange(s, d), "none", {d}, {d})
  BY ChangeOutcome
<1>2. Outcome(s, SqlChange(s, d), "returningError", {d}, {})
  BY ChangeOutcome DEF Unwrapped
<1>3. CASE r = Result(SqlChange(s, d), TRUE, "none")
  BY <1>1, <1>3, Succeeds
<1>4. CASE r = Result(s, FALSE, "none")
  BY <1>4, MatchedSame
<1>5. CASE r = Result(SqlChange(s, d), FALSE, "returningError")
  BY <1>2, <1>5, Fails
<1>6. CASE r = Result(SqlDeadlock(s), FALSE, "deadlock")
  BY <1>6, DeadlockOutcome, Fails
<1> QED BY <1>3, <1>4, <1>5, <1>6 DEF ReturningResults

LEMMA SetTransactionOutcome ==
  ASSUME NEW s, Transaction(s), NEW r \in SetTransactionResults(s)
  PROVE  Matches(s, r, {}, {"setTransaction"})
<1> DEFINE c == SqlCommit(s)
<1>1. Transaction(c) /\ c.saves = <<>> /\ c.work = <<>> /\ c.db = s.db \cup Range(s.work)
  BY Ended
<1> HIDE DEF c
<1>2. /\ Transaction(SqlStart(c)) /\ SqlStart(c).saves = <<>> /\ SqlStart(c).work = <<>>
      /\ SqlStart(c).db = c.db
  BY <1>1, Ended, EmptyRange
<1>3. ASSUME NEW u \in {c, SqlStart(c)} PROVE Outcome(s, u, "setTransaction", {}, {})
  <2>1. Transaction(u) /\ u.saves = <<>> /\ u.work = <<>> /\ u.db = s.db \cup Range(s.work)
    BY <1>1, <1>2
  <2>2. Contents(u) = Contents(s) /\ s.db \subseteq u.db
    BY <2>1, EmptyRange DEF Contents
  <2> QED BY <2>1, <2>2, EndOutcome DEF Outside
<1>4. r = Result(SqlStart(c), TRUE, "setTransaction") \/ r = Result(c, FALSE, "setTransaction")
  BY DEF SetTransactionResults, c
<1>5. CASE r = Result(SqlStart(c), TRUE, "setTransaction")
  BY <1>3, <1>5, Succeeds
<1>6. CASE r = Result(c, FALSE, "setTransaction")
  BY <1>3, <1>6, Fails
<1> QED BY <1>4, <1>5, <1>6

-----------------------------------------------------------------------------
(* The inductive invariant. *)

\* The transaction is one, and has dbsaci_statement only after a batch failed.
SrvInv == Transaction(srv) /\ (HasSave(srv, Wrapper) => "batchError" \in happened)

BeliefType == [pending : Seq(Nat), marks : Seq(Mark), durable : SUBSET Nat]

\* What the client concludes is a transaction too, whose savepoints are its own.
Belief(b) ==
  /\ b \in BeliefType
  /\ Ordered(b.marks, Len(b.pending))
  /\ \A k \in DOMAIN b.marks : b.marks[k].name \in Savepoints

BeliefInv == Belief(believed)

FrameInv ==
  /\ link \in BOOLEAN /\ triggers \in BOOLEAN /\ seen \in BOOLEAN /\ drawn \in BOOLEAN
  /\ changes \in Nat
  /\ happened \subseteq Events
  /\ reply \in [op : Requests, ok : BOOLEAN]

\* Nothing but a lost connection takes the link away, and it ends the transaction.
LinkInv == ~link => Met({"lost", "inDoubt"}) /\ ~srv.open

\* Changes are numbered as they are attempted.
NumberInv ==
  /\ Contents(srv) \subseteq 1..changes
  /\ Range(believed.pending) \subseteq 1..changes

\* The savepoints of A, but for dbsaci_statement, are among those of B, in the
\* same order.
Within(A, B) ==
  /\ \A i \in DOMAIN A : A[i].name # Wrapper => Named(B, A[i].name)
  /\ \A i, j \in DOMAIN A, k, l \in DOMAIN B :
       i < j /\ A[i].name = B[k].name /\ A[j].name = B[l].name => k < l

Agree == Within(srv.saves, believed.marks)

\* What was promised, up to a savepoint, is there up to that savepoint, so that a
\* ROLLBACK TO it takes none of it away.
LossInv ==
  ~Met({"lost", "deadlock"}) =>
    /\ believed.durable \subseteq srv.db
    /\ Range(believed.pending) \subseteq Contents(srv)
    /\ \A i \in DOMAIN srv.saves, k \in DOMAIN believed.marks :
         srv.saves[i].name = believed.marks[k].name =>
           Back(believed.pending, believed.marks[k].mark)
             \subseteq Back(srv.work, srv.saves[i].mark) \cup srv.db

\* And what is there up to a savepoint was promised.
AskInv ==
  ~Met(Unwrapped) =>
    /\ srv.db \subseteq believed.durable
    /\ Range(srv.work) \subseteq Range(believed.pending) \cup believed.durable
    /\ \A i \in DOMAIN srv.saves, k \in DOMAIN believed.marks :
         srv.saves[i].name = believed.marks[k].name =>
           Back(srv.work, srv.saves[i].mark)
             \subseteq Back(believed.pending, believed.marks[k].mark) \cup believed.durable

Core == /\ SrvInv /\ BeliefInv /\ LinkInv /\ InTransaction /\ NumberInv
        /\ PendingNotDurable /\ Agree /\ LossInv /\ AskInv

Inv == Core /\ FrameInv /\ CurrvalTracked

LEMMA MetStays ==
  ASSUME happened \subseteq happened', NEW E, Met(E)
  PROVE  Met(E)'
BY DEF Met

LEMMA MetNow ==
  ASSUME NEW event, event \in happened', NEW E, event \in E
  PROVE  Met(E)'
BY DEF Met

LEMMA BeliefFields ==
  ASSUME NEW b, Belief(b)
  PROVE  /\ b.pending \in Seq(Nat) /\ b.marks \in Seq(Mark) /\ b.durable \subseteq Nat
         /\ Len(b.pending) \in Nat /\ Range(b.pending) \subseteq Nat
         /\ Ordered(b.marks, Len(b.pending))
         /\ \A k \in DOMAIN b.marks : /\ b.marks[k].name \in Savepoints
                                      /\ b.marks[k].name # Wrapper
                                      /\ b.marks[k].mark \in 0..Len(b.pending)
<1>1. b.pending \in Seq(Nat) /\ b.marks \in Seq(Mark) /\ b.durable \subseteq Nat
  BY DEF Belief, BeliefType
<1>2. Range(b.pending) \subseteq Nat /\ Len(b.pending) \in Nat
  BY <1>1 DEF Range
<1>3. ASSUME NEW k \in DOMAIN b.marks PROVE b.marks[k].mark \in 0..Len(b.pending)
  <2>1. b.marks[k].mark \in Nat /\ b.marks[k].mark <= Len(b.pending)
    BY <1>1, Entries DEF Belief, Ordered
  <2> QED BY <1>2, <2>1
<1> QED BY <1>1, <1>2, <1>3, MariaDbAssumption DEF Belief

\* The client adds what a statement is said to have done.
Adds(b, c, done) ==
  /\ Belief(c) /\ c.marks = b.marks /\ c.durable = b.durable
  /\ Range(c.pending) = Range(b.pending) \cup done
  /\ \A j \in 1..Len(b.pending) : c.pending[j] = b.pending[j]

LEMMA AddsNothing ==
  ASSUME NEW b, Belief(b)
  PROVE  Adds(b, b, {})
BY DEF Adds

LEMMA AddsAccepted ==
  ASSUME NEW b, Belief(b), NEW ds \in Seq(Nat)
  PROVE  Adds(b, Accepted(b, ds), Range(ds))
<1> DEFINE p == b.pending \o ds
           c == [b EXCEPT !.pending = p]
<1>1. b.pending \in Seq(Nat) /\ Len(b.pending) \in Nat /\ Len(ds) \in Nat
  BY BeliefFields
<1>2. /\ p \in Seq(Nat) /\ Len(p) = Len(b.pending) + Len(ds)
      /\ \A i \in 1..(Len(b.pending) + Len(ds)) :
           p[i] = IF i <= Len(b.pending) THEN b.pending[i] ELSE ds[i - Len(b.pending)]
  BY <1>1, ConcatProperties
<1> HIDE DEF p
<1>3. \A j \in 1..Len(b.pending) : p[j] = b.pending[j]
  BY <1>1, <1>2
<1>4. \A j \in 1..Len(ds) : /\ j + Len(b.pending) \in 1..(Len(b.pending) + Len(ds))
                            /\ p[j + Len(b.pending)] = ds[j]
  <2> SUFFICES ASSUME NEW j \in 1..Len(ds)
               PROVE  /\ j + Len(b.pending) \in 1..(Len(b.pending) + Len(ds))
                      /\ p[j + Len(b.pending)] = ds[j]
    OBVIOUS
  <2>1. /\ j + Len(b.pending) \in 1..(Len(b.pending) + Len(ds))
        /\ ~(j + Len(b.pending) <= Len(b.pending))
        /\ (j + Len(b.pending)) - Len(b.pending) = j
    BY <1>1
  <2> QED BY <1>2, <2>1
<1>5. DOMAIN p = 1..(Len(b.pending) + Len(ds)) /\ DOMAIN b.pending = 1..Len(b.pending)
      /\ DOMAIN ds = 1..Len(ds)
  BY <1>1, <1>2
<1>6. \A i \in DOMAIN p : \/ i \in DOMAIN b.pending /\ p[i] = b.pending[i]
                          \/ i - Len(b.pending) \in DOMAIN ds /\ p[i] = ds[i - Len(b.pending)]
  <2> SUFFICES ASSUME NEW i \in 1..(Len(b.pending) + Len(ds))
               PROVE  \/ i \in DOMAIN b.pending /\ p[i] = b.pending[i]
                      \/ i - Len(b.pending) \in DOMAIN ds /\ p[i] = ds[i - Len(b.pending)]
    BY <1>5
  <2>1. CASE i <= Len(b.pending)
    BY <2>1, <1>1, <1>2, <1>5
  <2>2. CASE ~(i <= Len(b.pending))
    <3>1. p[i] = ds[i - Len(b.pending)]
      BY <2>2, <1>2
    <3>2. i - Len(b.pending) \in 1..Len(ds)
      BY <2>2, <1>1
    <3> QED BY <3>1, <3>2, <1>5
  <2> QED BY <2>1, <2>2
<1>7. DOMAIN b.pending \subseteq DOMAIN p
  BY <1>1, <1>5
<1>8. Range(p) = Range(b.pending) \cup Range(ds)
  <2>1. Range(p) \subseteq Range(b.pending) \cup Range(ds)
    BY <1>6 DEF Range
  <2>2. Range(b.pending) \subseteq Range(p)
    BY <1>3, <1>5, <1>7 DEF Range
  <2>3. Range(ds) \subseteq Range(p)
    BY <1>4, <1>5 DEF Range
  <2> QED BY <2>1, <2>2, <2>3
<1>9. c \in BeliefType /\ c.pending = p /\ c.marks = b.marks /\ c.durable = b.durable
  BY <1>2 DEF Belief, BeliefType
<1>10. Ordered(b.marks, Len(p))
  <2>1. Len(p) \in Nat /\ Len(b.pending) <= Len(p)
    BY <1>1, <1>2
  <2> QED BY <1>1, <2>1, BeliefFields, OrderedLonger
<1>11. Belief(c)
  BY <1>9, <1>10 DEF Belief
<1> QED BY <1>3, <1>8, <1>9, <1>11 DEF Adds, Accepted, p

LEMMA WithinPart ==
  ASSUME NEW A, NEW B, NEW C, ClientPart(A, B), Within(B, C),
         \A k \in DOMAIN C : C[k].name # Wrapper
  PROVE  Within(A, C)
<1>1. ASSUME NEW i \in DOMAIN A, A[i].name # Wrapper PROVE Named(C, A[i].name)
  BY <1>1 DEF ClientPart, Within
<1>2. ASSUME NEW i \in DOMAIN A, NEW j \in DOMAIN A, NEW k \in DOMAIN C, NEW l \in DOMAIN C,
             i < j, A[i].name = C[k].name, A[j].name = C[l].name
      PROVE  k < l
  <2>1. A[i].name # Wrapper /\ A[j].name # Wrapper
    BY <1>2
  <2>2. PICK a \in DOMAIN B : A[i] = B[a]
    BY <2>1 DEF ClientPart
  <2>3. PICK b \in DOMAIN B : A[j] = B[b]
    BY <2>1 DEF ClientPart
  <2>4. a < b
    BY <1>2, <2>1, <2>2, <2>3 DEF ClientPart
  <2> QED BY <1>2, <2>2, <2>3, <2>4 DEF Within
<1> QED BY <1>1, <1>2 DEF Within

\* The same, but for what may be lost: what a statement does whose transaction
\* was rolled back on the way.
Mostly(s, t, event, tried, done) ==
  /\ Transaction(t)
  /\ HasSave(t, Wrapper) => HasSave(s, Wrapper) \/ event = "batchError"
  /\ Stays(s, t)
  /\ Contents(t) \subseteq Contents(s) \cup tried
  /\ s.open /\ event \notin Outside => t.open /\ t.db = s.db
  /\ s.open /\ event \notin Unwrapped => Range(t.work) \subseteq Range(s.work) \cup done

LEMMA MostlyThen ==
  ASSUME NEW s, NEW t, NEW u, Transaction(s), NEW event, NEW tried, NEW done,
         Outcome(s, t, "deadlock", tried, {}), Outcome(t, u, event, tried, done)
  PROVE  Mostly(s, u, event, tried, done)
<1>1. Stays(s, u) /\ Transaction(u)
  BY StaysTransitive DEF Outcome
<1>2. HasSave(u, Wrapper) => HasSave(s, Wrapper) \/ event = "batchError"
  BY DEF Outcome
<1>3. Contents(u) \subseteq Contents(s) \cup tried
  BY DEF Outcome
<1>4. ASSUME s.open
      PROVE  /\ event \notin Outside => u.open /\ u.db = s.db
             /\ event \notin Unwrapped => Range(u.work) \subseteq Range(s.work) \cup done
  <2>1. t.open /\ t.db = s.db /\ Range(t.work) \subseteq Range(s.work)
    BY <1>4 DEF Outcome, Outside, Unwrapped
  <2> QED BY <2>1 DEF Outcome
<1> QED BY <1>1, <1>2, <1>3, <1>4 DEF Mostly

\* A statement keeps the invariant, whatever it has done and been said to do.
LEMMA LosingStep ==
  ASSUME Core, changes \in Nat, changes' \in Nat,
         NEW event, NEW tried, NEW done \in SUBSET tried,
         tried \subseteq (changes + 1)..changes', changes <= changes',
         Mostly(srv, srv', event, tried, done),
         "deadlock" \in happened' \/ Contents(srv) \cup done \subseteq Contents(srv'),
         Adds(believed, believed', done),
         link' = link, link \/ (srv' = srv /\ done = {}),
         happened \subseteq happened', event = "none" \/ event \in happened'
  PROVE  Core'
<1> USE DEF Core
<1>1. SrvInv'
  BY MetNow DEF SrvInv, Mostly
<1>2. BeliefInv'
  BY DEF BeliefInv, Adds
<1>3. LinkInv'
  BY MetStays DEF LinkInv
<1>4. ASSUME event \in Outside, NEW E, Outside \subseteq E PROVE Met(E)'
  BY <1>4, MetNow DEF Outside
<1>5. InTransaction'
  <2> SUFFICES ASSUME link', ~Met(Outside)' PROVE srv'.open
    BY DEF InTransaction, Outside
  <2>1. srv.open
    BY MetStays DEF InTransaction, Outside
  <2>2. event \notin Outside
    BY <1>4
  <2> QED BY <2>1, <2>2 DEF Mostly
<1>6. NumberInv'
  <2>1. 1..changes \subseteq 1..changes' /\ tried \subseteq 1..changes'
    OBVIOUS
  <2> QED BY <2>1 DEF NumberInv, Mostly, Adds
<1>7. PendingNotDurable'
  <2> DEFINE E == {"program", "ddlBindError", "setTransaction", "inDoubt"}
  <2> SUFFICES ASSUME ~Met(E)' PROVE srv'.db \cap Range(believed'.pending) = {}
    BY DEF PendingNotDurable
  <2>1. ~Met(E) /\ event \notin Outside /\ ~Met(Outside)
    BY <1>4, MetStays DEF Outside, Met
  <2>2. srv.db \cap Range(believed.pending) = {}
    BY <2>1 DEF PendingNotDurable
  <2>3. srv'.db = srv.db
    <3>1. CASE link
      BY <2>1, <3>1 DEF InTransaction, Outside, Mostly
    <3>2. CASE ~link
      BY <3>2
    <3> QED BY <3>1, <3>2
  <2>4. srv.db \subseteq 1..changes /\ 1..changes \cap tried = {}
    BY DEF NumberInv, Contents
  <2> QED BY <2>2, <2>3, <2>4 DEF Adds
<1>8. Agree'
  <2>1. \A k \in DOMAIN believed.marks : believed.marks[k].name # Wrapper
    BY BeliefFields DEF BeliefInv
  <2>2. Within(srv'.saves, believed.marks)
    BY <2>1, WithinPart DEF Agree, Mostly, Stays
  <2> QED BY <2>2 DEF Agree, Adds
<1>9. ASSUME NEW i \in DOMAIN srv'.saves, NEW k \in DOMAIN believed'.marks,
             srv'.saves[i].name = believed'.marks[k].name
      PROVE  \E a \in DOMAIN srv.saves :
               /\ srv.saves[a].name = believed.marks[k].name
               /\ Back(srv'.work, srv'.saves[i].mark) = Back(srv.work, srv.saves[a].mark)
               /\ Back(believed'.pending, believed'.marks[k].mark)
                    = Back(believed.pending, believed.marks[k].mark)
               /\ k \in DOMAIN believed.marks
  <2>1. k \in DOMAIN believed.marks /\ believed'.marks[k] = believed.marks[k]
    BY DEF Adds
  <2>2. /\ believed.marks[k].name # Wrapper /\ believed.marks[k].mark \in 0..Len(believed.pending)
        /\ Len(believed.pending) \in Nat
    BY <2>1, BeliefFields DEF BeliefInv
  <2>3. PICK a \in DOMAIN srv.saves : srv'.saves[i] = srv.saves[a]
    BY <1>9, <2>1, <2>2 DEF Mostly, Stays, ClientPart
  <2>4. Back(srv'.work, srv'.saves[i].mark) = Back(srv.work, srv.saves[a].mark)
    BY <1>9, <2>1, <2>2, <2>3 DEF Mostly, Stays
  <2>5. /\ believed.marks[k].mark \in Nat
        /\ \A j \in 1..believed.marks[k].mark : believed'.pending[j] = believed.pending[j]
    BY <2>2 DEF Adds
  <2>6. Back(believed'.pending, believed.marks[k].mark) = Back(believed.pending, believed.marks[k].mark)
    BY <2>5, BackSame
  <2> QED BY <1>9, <2>1, <2>3, <2>4, <2>6
<1>10. LossInv'
  <2> DEFINE E == {"lost", "deadlock"}
  <2> SUFFICES ASSUME ~Met(E)'
      PROVE  /\ believed'.durable \subseteq srv'.db
             /\ Range(believed'.pending) \subseteq Contents(srv')
             /\ \A i \in DOMAIN srv'.saves, k \in DOMAIN believed'.marks :
                  srv'.saves[i].name = believed'.marks[k].name =>
                    Back(believed'.pending, believed'.marks[k].mark)
                      \subseteq Back(srv'.work, srv'.saves[i].mark) \cup srv'.db
    BY DEF LossInv
  <2>1. ~Met(E) /\ "deadlock" \notin happened'
    BY MetStays, MetNow
  <2>2. Contents(srv) \cup done \subseteq Contents(srv') /\ srv.db \subseteq srv'.db
    BY <2>1 DEF Mostly, Stays
  <2>3. believed'.durable \subseteq srv'.db /\ Range(believed'.pending) \subseteq Contents(srv')
    BY <2>1, <2>2 DEF LossInv, Adds
  <2>4. ASSUME NEW i \in DOMAIN srv'.saves, NEW k \in DOMAIN believed'.marks,
               srv'.saves[i].name = believed'.marks[k].name
        PROVE  Back(believed'.pending, believed'.marks[k].mark)
                 \subseteq Back(srv'.work, srv'.saves[i].mark) \cup srv'.db
    BY <1>9, <2>1, <2>2, <2>4 DEF LossInv
  <2> QED BY <2>3, <2>4
<1>11. AskInv'
  <2> SUFFICES ASSUME ~Met(Unwrapped)'
      PROVE  /\ srv'.db \subseteq believed'.durable
             /\ Range(srv'.work) \subseteq Range(believed'.pending) \cup believed'.durable
             /\ \A i \in DOMAIN srv'.saves, k \in DOMAIN believed'.marks :
                  srv'.saves[i].name = believed'.marks[k].name =>
                    Back(srv'.work, srv'.saves[i].mark)
                      \subseteq Back(believed'.pending, believed'.marks[k].mark)
                                  \cup believed'.durable
    BY DEF AskInv
  <2>1. ~Met(Unwrapped) /\ ~Met(Outside) /\ event \notin Unwrapped /\ event \notin Outside
    BY MetStays DEF Unwrapped, Outside, Met
  <2>2. srv'.db = srv.db /\ Range(srv'.work) \subseteq Range(srv.work) \cup done
    <3>1. CASE link
      BY <2>1, <3>1 DEF InTransaction, Outside, Mostly
    <3>2. CASE ~link
      BY <3>2
    <3> QED BY <3>1, <3>2
  <2>3. /\ srv'.db \subseteq believed'.durable
        /\ Range(srv'.work) \subseteq Range(believed'.pending) \cup believed'.durable
    BY <2>1, <2>2 DEF AskInv, Adds
  <2>4. ASSUME NEW i \in DOMAIN srv'.saves, NEW k \in DOMAIN believed'.marks,
               srv'.saves[i].name = believed'.marks[k].name
        PROVE  Back(srv'.work, srv'.saves[i].mark)
                 \subseteq Back(believed'.pending, believed'.marks[k].mark) \cup believed'.durable
    <3>1. believed'.durable = believed.durable
      BY DEF Adds
    <3> QED BY <1>9, <2>1, <2>4, <3>1 DEF AskInv
  <2> QED BY <2>3, <2>4
<1> QED BY <1>1, <1>2, <1>3, <1>5, <1>6, <1>7, <1>8, <1>10, <1>11

LEMMA StatementStep ==
  ASSUME Core, changes \in Nat, changes' \in Nat,
         NEW event, NEW tried, NEW done \in SUBSET tried,
         tried \subseteq (changes + 1)..changes', changes <= changes',
         Outcome(srv, srv', event, tried, done),
         Adds(believed, believed', done),
         link' = link, link \/ (srv' = srv /\ done = {}),
         happened \subseteq happened', event = "none" \/ event \in happened'
  PROVE  Core'
<1>1. Mostly(srv, srv', event, tried, done)
  BY DEF Mostly, Outcome
<1>2. "deadlock" \in happened' \/ Contents(srv) \cup done \subseteq Contents(srv')
  BY DEF Outcome
<1> QED BY <1>1, <1>2, LosingStep

-----------------------------------------------------------------------------
(* Every request keeps it. *)

LEMMA OneRange ==
  ASSUME NEW a \in Nat
  PROVE  Range(<<a>>) = {a} /\ <<a>> \in Seq(Nat) /\ Len(<<a>>) = 1
<1>1. DOMAIN <<a>> = {1} /\ <<a>>[1] = a
  OBVIOUS
<1>2. Range(<<a>>) = {a}
  BY <1>1 DEF Range
<1> QED BY <1>2

LEMMA TwoRange ==
  ASSUME NEW a \in Nat, NEW b \in Nat
  PROVE  Range(<<a, b>>) = {a, b} /\ <<a, b>> \in Seq(Nat) /\ Len(<<a, b>>) = 2
<1>1. DOMAIN <<a, b>> = {1, 2} /\ <<a, b>>[1] = a /\ <<a, b>>[2] = b
  OBVIOUS
<1>2. Range(<<a, b>>) = {a, b}
  BY <1>1 DEF Range
<1> QED BY <1>2

LEMMA ServedIs ==
  ASSUME link \in BOOLEAN, NEW results, NEW r \in Served(results)
  PROVE  \/ link /\ r \in results
         \/ ~link /\ r = Result(srv, FALSE, "none")
BY DEF Served

LEMMA OutcomeThen ==
  ASSUME NEW s, NEW t, NEW u, Transaction(s), NEW event, NEW T1, NEW D1, NEW T2, NEW D2,
         Outcome(s, t, "none", T1, D1), Outcome(t, u, event, T2, D2)
  PROVE  Outcome(s, u, event, T1 \cup T2, D1 \cup D2)
<1>1. Stays(s, u) /\ Transaction(u)
  BY StaysTransitive DEF Outcome
<1>2. HasSave(u, Wrapper) => HasSave(s, Wrapper) \/ event = "batchError"
  BY DEF Outcome
<1>3. /\ event # "deadlock" => Contents(s) \cup (D1 \cup D2) \subseteq Contents(u)
      /\ Contents(u) \subseteq Contents(s) \cup (T1 \cup T2)
  BY DEF Outcome
<1>4. ASSUME s.open
      PROVE  /\ event \notin Outside => u.open /\ u.db = s.db
             /\ event \notin Unwrapped => Range(u.work) \subseteq Range(s.work) \cup (D1 \cup D2)
  <2>1. t.open /\ t.db = s.db /\ Range(t.work) \subseteq Range(s.work) \cup D1
    BY <1>4 DEF Outcome, Outside, Unwrapped
  <2> QED BY <2>1 DEF Outcome
<1> QED BY <1>1, <1>2, <1>3, <1>4 DEF Outcome

LEMMA AnswersStep ==
  ASSUME Core, changes \in Nat, link \in BOOLEAN,
         NEW op, NEW r, NEW ds \in Seq(Nat), NEW events, NEW kinds,
         Range(ds) \subseteq (changes + 1)..(changes + Len(ds)),
         Matches(srv, r, Range(ds), kinds),
         link \/ r = Result(srv, FALSE, "none"),
         Answers(op, r, ds, events), link' = link
  PROVE  Core'
<1> DEFINE done == Answered(Range(ds), r.ok)
<1>1. /\ changes' = changes + Len(ds) /\ changes' \in Nat /\ changes <= changes'
      /\ Range(ds) \subseteq (changes + 1)..changes'
  BY DEF Answers
<1>2. /\ happened \subseteq happened'
      /\ r.event = "none" \/ r.event \in happened'
  BY DEF Answers, Meets
<1>3. srv' = r.srv /\ Outcome(srv, srv', r.event, Range(ds), done)
  BY DEF Answers, Matches
<1>4. Adds(believed, believed', done)
  <2>1. CASE r.ok
    BY <2>1, AddsAccepted DEF Answers, Answered, Core, BeliefInv
  <2>2. CASE ~r.ok
    BY <2>2, AddsNothing DEF Answers, Answered, Core, BeliefInv
  <2> QED BY <2>1, <2>2
<1>5. done \in SUBSET Range(ds)
  BY DEF Answered
<1>6. link \/ (srv' = srv /\ done = {})
  <2> SUFFICES ASSUME ~link PROVE srv' = srv /\ done = {}
    OBVIOUS
  <2>1. r.srv = srv /\ ~r.ok
    BY DEF Result
  <2> QED BY <1>3, <2>1 DEF Answered
<1> HIDE DEF done
<1> QED BY <1>1, <1>2, <1>3, <1>4, <1>5, <1>6, StatementStep

LEMMA OneChange ==
  ASSUME Core, FrameInv, NEW op, NEW r, NEW events, NEW kinds, NEW results,
         r \in Served(results), "none" \in kinds,
         link => Matches(srv, r, {changes + 1}, kinds),
         Answers(op, r, <<changes + 1>>, events), link' = link
  PROVE  Core'
<1>1. changes \in Nat /\ link \in BOOLEAN /\ Transaction(srv)
  BY DEF FrameInv, Core, SrvInv
<1>2. /\ <<changes + 1>> \in Seq(Nat) /\ Range(<<changes + 1>>) = {changes + 1}
      /\ Len(<<changes + 1>>) = 1
  BY <1>1, OneRange
<1>3. link \/ r = Result(srv, FALSE, "none")
  BY <1>1, ServedIs
<1>4. Matches(srv, r, Range(<<changes + 1>>), kinds)
  BY <1>1, <1>2, <1>3, MatchedSame
<1>5. Range(<<changes + 1>>) \subseteq (changes + 1)..(changes + Len(<<changes + 1>>))
  BY <1>1, <1>2
<1> QED BY <1>1, <1>2, <1>3, <1>4, <1>5, AnswersStep

LEMMA DmlStep ==
  ASSUME Core, FrameInv, NEW use, Dml(use)
  PROVE  Core'
<1>1. PICK r \in Served(OrdinaryResults(srv, changes + 1)) :
        Answers("CHANGE", r, <<changes + 1>>, SequenceEvents(use, r.ok))
  BY DEF Dml
<1>2. changes + 1 \in Nat /\ link \in BOOLEAN /\ Transaction(srv) /\ link' = link
  BY DEF FrameInv, Core, SrvInv, Dml
<1>3. link => Matches(srv, r, {changes + 1}, {"none", "deadlock"})
  BY <1>2, ServedIs, OrdinaryOutcome
<1> QED BY <1>1, <1>2, <1>3, OneChange

\* A program, in the transaction it found or in the one a deadlock left it.
ProgramAnswer(deadlock, t) ==
  \E r \in Served(ProgramResults(t, changes + 1)) :
    Answers("CHANGE", r, <<changes + 1>>, Deadlocks(deadlock))

LEMMA ProgramIs ==
  ASSUME link \in BOOLEAN, Program
  PROVE  \/ ProgramAnswer(FALSE, srv)
         \/ link /\ ProgramAnswer(TRUE, SqlDeadlock(srv))
<1>1. PICK deadlock \in {FALSE, link} :
        ProgramAnswer(deadlock, IF deadlock THEN SqlDeadlock(srv) ELSE srv)
  BY DEF Program, ProgramAnswer
<1>2. CASE deadlock = FALSE
  <2>1. (IF deadlock THEN SqlDeadlock(srv) ELSE srv) = srv
    BY <1>2
  <2> QED BY <1>1, <1>2, <2>1
<1>3. CASE deadlock = TRUE
  <2>1. (IF deadlock THEN SqlDeadlock(srv) ELSE srv) = SqlDeadlock(srv) /\ link
    BY <1>1, <1>3
  <2> QED BY <1>1, <1>3, <2>1
<1> QED BY <1>1, <1>2, <1>3

LEMMA ProgramStep ==
  ASSUME Core, FrameInv, Program
  PROVE  Core'
<1>1. /\ changes \in Nat /\ changes + 1 \in Nat /\ link \in BOOLEAN /\ Transaction(srv)
      /\ link' = link /\ Belief(believed)
  BY DEF FrameInv, Core, SrvInv, BeliefInv, Program
<1>2. CASE ProgramAnswer(FALSE, srv)
  <2>1. PICK r \in Served(ProgramResults(srv, changes + 1)) :
          Answers("CHANGE", r, <<changes + 1>>, Deadlocks(FALSE))
    BY <1>2 DEF ProgramAnswer
  <2>2. link => Matches(srv, r, {changes + 1}, {"none", "program"})
    BY <1>1, ServedIs, ProgramOutcome DEF Matches
  <2> QED BY <1>1, <2>1, <2>2, OneChange
<1>3. CASE link /\ ProgramAnswer(TRUE, SqlDeadlock(srv))
  <2>1. PICK t : t = SqlDeadlock(srv)
    OBVIOUS
  <2>2. PICK r \in Served(ProgramResults(t, changes + 1)) :
          Answers("CHANGE", r, <<changes + 1>>, Deadlocks(TRUE))
    BY <1>3, <2>1 DEF ProgramAnswer
  <2>3. Outcome(srv, t, "deadlock", {changes + 1}, {}) /\ Transaction(t)
    BY <1>1, <2>1, DeadlockOutcome DEF Outcome
  <2>4. Matches(t, r, {changes + 1}, {"program"})
    BY <1>1, <1>3, <2>2, <2>3, ServedIs, ProgramOutcome
  <2> DEFINE done == Answered({changes + 1}, r.ok)
  <2>5. r.event = "program" /\ Outcome(t, r.srv, "program", {changes + 1}, done)
    BY <2>4 DEF Matches
  <2>6. Adds(believed, believed', done)
    <3>1. Range(<<changes + 1>>) = {changes + 1} /\ <<changes + 1>> \in Seq(Nat)
      BY <1>1, OneRange
    <3>2. CASE r.ok
      BY <1>1, <2>2, <3>1, <3>2, AddsAccepted DEF Answers, Answered
    <3>3. CASE ~r.ok
      BY <1>1, <2>2, <3>3, AddsNothing DEF Answers, Answered
    <3> QED BY <3>2, <3>3
  <2>7. done \in SUBSET {changes + 1}
    BY DEF Answered
  <2> HIDE DEF done
  <2>8. Mostly(srv, r.srv, "program", {changes + 1}, done)
    BY <1>1, <2>3, <2>5, MostlyThen
  <2>9. /\ srv' = r.srv /\ changes' = changes + 1 /\ changes' \in Nat /\ changes <= changes'
        /\ {changes + 1} \subseteq (changes + 1)..changes'
    <3>1. Len(<<changes + 1>>) = 1
      BY <1>1, OneRange
    <3> QED BY <1>1, <2>2, <3>1 DEF Answers
  <2>10. /\ happened \subseteq happened' /\ "deadlock" \in happened' /\ "program" \in happened'
    BY <2>2, <2>5 DEF Answers, Meets, Deadlocks
  <2>11. Mostly(srv, srv', "program", {changes + 1}, done)
    BY <2>8, <2>9
  <2> QED BY <1>1, <1>3, <2>6, <2>7, <2>9, <2>10, <2>11, LosingStep
<1> QED BY <1>1, <1>2, <1>3, ProgramIs

LEMMA InsteadOfStep ==
  ASSUME Core, FrameInv, InsteadOfDml
  PROVE  Core'
<1>1. PICK r \in Served(InsteadOfResults(srv, changes + 1)) :
        Answers("CHANGE", r, <<changes + 1>>, {})
  BY DEF InsteadOfDml
<1>2. changes + 1 \in Nat /\ link \in BOOLEAN /\ Transaction(srv) /\ link' = link
  BY DEF FrameInv, Core, SrvInv, InsteadOfDml
<1>3. link => Matches(srv, r, {changes + 1}, {"none", "insteadOf", "deadlock"})
  BY <1>2, ServedIs, InsteadOfOutcome
<1> QED BY <1>1, <1>2, <1>3, OneChange

LEMMA ReturningStep ==
  ASSUME Core, FrameInv, NEW use, Returning(use)
  PROVE  Core'
<1>1. PICK r \in Served(ReturningResults(srv, changes + 1)) :
        Answers("CHANGE", r, <<changes + 1>>,
                IF use = "nextval" THEN {"returningSequence"} ELSE {})
  BY DEF Returning
<1>2. changes + 1 \in Nat /\ link \in BOOLEAN /\ Transaction(srv) /\ link' = link
  BY DEF FrameInv, Core, SrvInv, Returning
<1>3. link => Matches(srv, r, {changes + 1}, {"none", "returningError", "deadlock"})
  BY <1>2, ServedIs, ReturningOutcome
<1> QED BY <1>1, <1>2, <1>3, OneChange

LEMMA BatchStep ==
  ASSUME Core, FrameInv, Batch
  PROVE  Core'
<1> DEFINE ds == <<changes + 1, changes + 2>>
<1>1. PICK r \in Served(BatchResults(srv, changes + 1)) : Answers("CHANGE", r, ds, {})
  BY DEF Batch
<1>2. /\ changes \in Nat /\ changes + 1 \in Nat /\ changes + 2 \in Nat
      /\ link \in BOOLEAN /\ Transaction(srv) /\ link' = link
  BY DEF FrameInv, Core, SrvInv, Batch
<1>3. ds \in Seq(Nat) /\ Range(ds) = {changes + 1, changes + 2} /\ Len(ds) = 2
  BY <1>2, TwoRange
<1> HIDE DEF ds
<1>4. {changes + 1, (changes + 1) + 1} = Range(ds)
  BY <1>2, <1>3
<1>5. ASSUME link PROVE Matches(srv, r, Range(ds), {"none", "batchError", "deadlock"})
  <2>1. r \in BatchResults(srv, changes + 1)
    BY <1>2, <1>5, ServedIs
  <2>2. Matches(srv, r, {changes + 1, (changes + 1) + 1}, {"none", "batchError", "deadlock"})
    BY <1>2, <2>1, BatchOutcome
  <2> QED BY <1>4, <2>2
<1>6. link \/ r = Result(srv, FALSE, "none")
  BY <1>2, ServedIs
<1>7. Matches(srv, r, Range(ds), {"none", "batchError", "deadlock"})
  BY <1>2, <1>5, <1>6, MatchedSame
<1>8. Range(ds) \subseteq (changes + 1)..(changes + Len(ds))
  BY <1>2, <1>3
<1> QED BY <1>1, <1>2, <1>3, <1>6, <1>7, <1>8, AnswersStep

LEMMA SetTransactionStep ==
  ASSUME Core, FrameInv, SetTransaction
  PROVE  Core'
<1>1. PICK r \in Served(SetTransactionResults(srv)) : Answers("SET", r, <<>>, {})
  BY DEF SetTransaction
<1>2. changes \in Nat /\ link \in BOOLEAN /\ Transaction(srv) /\ link' = link
  BY DEF FrameInv, Core, SrvInv, SetTransaction
<1>3. link => Matches(srv, r, {}, {"none", "setTransaction"})
  BY <1>2, ServedIs, SetTransactionOutcome DEF Matches
<1>4. link \/ r = Result(srv, FALSE, "none")
  BY <1>2, ServedIs
<1>5. Matches(srv, r, Range(<<>>), {"none", "setTransaction"})
  BY <1>2, <1>3, <1>4, MatchedSame, EmptyRange
<1>6. Range(<<>>) \subseteq (changes + 1)..(changes + Len(<<>>)) /\ <<>> \in Seq(Nat)
  BY EmptyRange
<1> QED BY <1>1, <1>2, <1>4, <1>5, <1>6, AnswersStep

LEMMA ArrayStep ==
  ASSUME Core, FrameInv, ArrayDml
  PROVE  Core'
<1>1. PICK r1 \in Served(OrdinaryResults(srv, changes + 1)) :
        IF ~r1.ok THEN Answers("CHANGE", r1, <<changes + 1>>, {})
        ELSE \E r2 \in OrdinaryResults(r1.srv, changes + 2) :
          /\ srv' = r2.srv
          /\ changes' = changes + 2
          /\ believed' = Accepted(believed, IF r2.ok THEN <<changes + 1, changes + 2>>
                                            ELSE <<changes + 1>>)
          /\ reply' = Reply("CHANGE", r2.ok)
          /\ Meets({r2.event})
  BY DEF ArrayDml
<1>2. /\ changes \in Nat /\ changes + 1 \in Nat /\ changes + 2 \in Nat /\ link \in BOOLEAN
      /\ Transaction(srv) /\ link' = link /\ Belief(believed)
  BY DEF FrameInv, Core, SrvInv, BeliefInv, ArrayDml
<1>3. link => Matches(srv, r1, {changes + 1}, {"none", "deadlock"})
  BY <1>2, ServedIs, OrdinaryOutcome
<1>4. CASE ~r1.ok
  BY <1>1, <1>2, <1>3, <1>4, OneChange
<1>5. CASE r1.ok
  <2>1. link /\ r1 \in OrdinaryResults(srv, changes + 1)
    BY <1>2, <1>5, ServedIs DEF Result
  <2>2. r1.event = "none"
    BY <1>5, <2>1 DEF OrdinaryResults, Result
  <2>3. Outcome(srv, r1.srv, "none", {changes + 1}, {changes + 1}) /\ Transaction(r1.srv)
    BY <1>3, <1>5, <2>1, <2>2 DEF Matches, Answered, Outcome
  <2>4. PICK r2 \in OrdinaryResults(r1.srv, changes + 2) :
          /\ srv' = r2.srv
          /\ changes' = changes + 2
          /\ believed' = Accepted(believed, IF r2.ok THEN <<changes + 1, changes + 2>>
                                            ELSE <<changes + 1>>)
          /\ Meets({r2.event})
    BY <1>1, <1>5
  <2> DEFINE more == Answered({changes + 2}, r2.ok)
             done == {changes + 1} \cup more
             tried == {changes + 1} \cup {changes + 2}
  <2>5. Outcome(r1.srv, srv', r2.event, {changes + 2}, more)
    BY <1>2, <2>3, <2>4, OrdinaryOutcome DEF Matches
  <2>6. Outcome(srv, srv', r2.event, tried, done)
    BY <1>2, <2>3, <2>5, OutcomeThen
  <2>7. Adds(believed, believed', done)
    <3>1. CASE r2.ok
      <4>1. done = Range(<<changes + 1, changes + 2>>) /\ <<changes + 1, changes + 2>> \in Seq(Nat)
        <5>1. done = {changes + 1, changes + 2}
          BY <3>1 DEF Answered
        <5> HIDE DEF done
        <5> QED BY <1>2, <5>1, TwoRange
      <4> QED BY <1>2, <2>4, <3>1, <4>1, AddsAccepted
    <3>2. CASE ~r2.ok
      <4>1. done = Range(<<changes + 1>>) /\ <<changes + 1>> \in Seq(Nat)
        <5>1. done = {changes + 1}
          BY <3>2 DEF Answered
        <5> HIDE DEF done
        <5> QED BY <1>2, <5>1, OneRange
      <4> QED BY <1>2, <2>4, <3>2, <4>1, AddsAccepted
    <3> QED BY <3>1, <3>2
  <2>8. done \in SUBSET tried
    BY DEF Answered
  <2>9. happened \subseteq happened' /\ (r2.event = "none" \/ r2.event \in happened')
    BY <2>4 DEF Meets
  <2> HIDE DEF done, more
  <2>10. /\ tried \subseteq (changes + 1)..changes' /\ changes' \in Nat /\ changes <= changes'
    BY <1>2, <2>4
  <2> HIDE DEF tried
  <2> QED BY <1>2, <2>1, <2>6, <2>7, <2>8, <2>9, <2>10, StatementStep
<1> QED BY <1>4, <1>5

LEMMA StartEmpty ==
  ASSUME NEW c, Transaction(c), c.work = <<>>
  PROVE  /\ Transaction(SqlStart(c)) /\ SqlStart(c).work = <<>> /\ SqlStart(c).saves = <<>>
         /\ SqlStart(c).open /\ SqlStart(c).db = c.db
<1>1. /\ Transaction(SqlStart(c)) /\ SqlStart(c).open
      /\ SqlStart(c).db = c.db \cup Range(c.work)
  BY Ended
<1>2. SqlStart(c).work = <<>> /\ SqlStart(c).saves = <<>>
  BY Ended
<1> QED BY <1>1, <1>2, EmptyRange

LEMMA StillStep ==
  ASSUME Core, FrameInv, UNCHANGED <<srv, link, changes, believed>>, happened \subseteq happened'
  PROVE  Core'
<1>1. Outcome(srv, srv', "none", {}, {}) /\ Adds(believed, believed', {})
  BY SameOutcome, AddsNothing DEF Core, SrvInv, BeliefInv
<1>2. changes \in Nat /\ changes' \in Nat /\ changes <= changes' /\ {} \subseteq (changes + 1)..changes'
  BY DEF FrameInv
<1>3. {} \in SUBSET {}
  OBVIOUS
<1> QED BY <1>1, <1>2, <1>3, StatementStep

\* The transaction ends.
LEMMA EmptyStep ==
  ASSUME Core, changes' = changes, happened \subseteq happened',
         Transaction(srv'), srv'.work = <<>>, srv'.saves = <<>>,
         srv'.db = srv.db \/ srv'.db = Contents(srv),
         believed' = believed
           \/ (Belief(believed') /\ believed'.pending = <<>> /\ believed'.marks = <<>>),
         LinkInv', InTransaction', PendingNotDurable',
         ~Met({"lost", "deadlock"})' =>
           /\ believed'.durable \subseteq srv'.db /\ Range(believed'.pending) \subseteq srv'.db,
         ~Met(Unwrapped)' => srv'.db \subseteq believed'.durable
  PROVE  Core'
<1> USE DEF Core
<1>1. Range(srv'.work) = {} /\ Contents(srv') = srv'.db
  BY EmptyRange DEF Contents
<1>2. SrvInv'
  BY NoSaves DEF SrvInv, HasSave
<1>3. BeliefInv'
  BY DEF BeliefInv
<1>4. NumberInv'
  BY <1>1, EmptyRange DEF NumberInv, Contents
<1>5. Agree'
  BY DEF Agree, Within
<1>6. LossInv'
  BY <1>1 DEF LossInv
<1>7. AskInv'
  BY <1>1 DEF AskInv
<1> QED BY <1>2, <1>3, <1>4, <1>5, <1>6, <1>7

\* A client with nothing pending.
LEMMA NothingPending ==
  ASSUME NEW d \in SUBSET Nat, NEW b, b = [pending |-> <<>>, marks |-> <<>>, durable |-> d]
  PROVE  Belief(b) /\ b.pending = <<>> /\ b.marks = <<>> /\ b.durable = d
<1>1. b.pending = <<>> /\ b.marks = <<>> /\ b.durable = d
  OBVIOUS
<1>2. b \in BeliefType
  BY NoSaves DEF BeliefType
<1> QED BY <1>1, <1>2, NoSaves DEF Belief

LEMMA KeptOK ==
  ASSUME NEW b, Belief(b)
  PROVE  /\ Belief(Kept(b)) /\ Kept(b).pending = <<>> /\ Kept(b).marks = <<>>
         /\ Kept(b).durable = b.durable \cup Range(b.pending)
<1> DEFINE d == b.durable \cup Range(b.pending)
<1>1. d \in SUBSET Nat
  BY BeliefFields
<1>2. Kept(b) = [NoWork EXCEPT !.durable = d]
  BY DEF Kept
<1> HIDE DEF d
<1>3. [NoWork EXCEPT !.durable = d] = [pending |-> <<>>, marks |-> <<>>, durable |-> d]
  BY DEF NoWork
<1>4. /\ Belief(Kept(b)) /\ Kept(b).pending = <<>> /\ Kept(b).marks = <<>>
      /\ Kept(b).durable = d
  BY <1>1, <1>2, <1>3, NothingPending
<1> QED BY <1>4 DEF d

LEMMA DroppedOK ==
  ASSUME NEW b, Belief(b)
  PROVE  /\ Belief(Dropped(b)) /\ Dropped(b).pending = <<>> /\ Dropped(b).marks = <<>>
         /\ Dropped(b).durable = b.durable
<1>1. b.durable \in SUBSET Nat
  BY BeliefFields
<1>2. Dropped(b) = [pending |-> <<>>, marks |-> <<>>, durable |-> b.durable]
  BY DEF Dropped, NoWork
<1> QED BY <1>1, <1>2, NothingPending

\* All that was pending is committed, and the client knows.
LEMMA KeepStep ==
  ASSUME Core, FrameInv, changes' = changes, happened \subseteq happened', link' = link,
         \/ /\ link
            /\ Transaction(srv') /\ srv'.work = <<>> /\ srv'.saves = <<>>
            /\ srv'.db = Contents(srv)
            /\ srv'.open \/ Met(Outside)'
         \/ ~link /\ srv' = srv,
         believed' = Kept(believed)
  PROVE  Core'
<1>1. /\ Belief(believed') /\ believed'.pending = <<>> /\ believed'.marks = <<>>
      /\ believed'.durable = believed.durable \cup Range(believed.pending)
  BY KeptOK DEF Core, BeliefInv
<1>2. /\ Transaction(srv') /\ srv'.work = <<>> /\ srv'.saves = <<>> /\ srv'.db = Contents(srv)
  <2>1. CASE link
    BY <2>1
  <2>2. CASE ~link
    BY <2>2, Fields, EmptyRange DEF Core, SrvInv, LinkInv, Contents
  <2> QED BY <2>1, <2>2
<1>3. LinkInv'
  BY MetStays DEF Core, LinkInv
<1>4. InTransaction'
  BY DEF InTransaction, Outside, Met
<1>5. PendingNotDurable'
  BY <1>1, EmptyRange DEF PendingNotDurable
<1>6. ASSUME ~Met({"lost", "deadlock"})'
      PROVE  /\ believed'.durable \subseteq srv'.db /\ Range(believed'.pending) \subseteq srv'.db
  <2>1. ~Met({"lost", "deadlock"})
    BY <1>6, MetStays
  <2> QED BY <1>1, <1>2, <2>1, EmptyRange DEF Core, LossInv, Contents
<1>7. ASSUME ~Met(Unwrapped)' PROVE srv'.db \subseteq believed'.durable
  <2>1. ~Met(Unwrapped)
    BY <1>7, MetStays
  <2> QED BY <1>1, <1>2, <2>1 DEF Core, AskInv, Contents
<1> QED BY <1>1, <1>2, <1>3, <1>4, <1>5, <1>6, <1>7, EmptyStep

LEMMA CommitStep ==
  ASSUME Core, FrameInv, Commit
  PROVE  Core'
<1>1. /\ srv' = IF link THEN SqlStart(SqlCommit(srv)) ELSE srv
      /\ believed' = IF link THEN Kept(believed) ELSE believed
      /\ link' = link /\ changes' = changes /\ happened' = happened
  BY DEF Commit, Control
<1>2. CASE link
  <2> DEFINE c == SqlCommit(srv)
  <2>1. Transaction(c) /\ c.work = <<>> /\ c.db = Contents(srv)
    BY Ended DEF Core, SrvInv, Contents
  <2> HIDE DEF c
  <2>2. /\ Transaction(SqlStart(c)) /\ SqlStart(c).work = <<>> /\ SqlStart(c).saves = <<>>
        /\ SqlStart(c).open /\ SqlStart(c).db = c.db
    BY <2>1, StartEmpty
  <2>3. srv' = SqlStart(c) /\ believed' = Kept(believed)
    BY <1>1, <1>2 DEF c
  <2> QED BY <1>1, <1>2, <2>1, <2>2, <2>3, KeepStep
<1>3. CASE ~link
  BY <1>1, <1>3, StillStep
<1> QED BY <1>2, <1>3

LEMMA DdlStep ==
  ASSUME Core, FrameInv, NEW ofTrigger, Ddl(ofTrigger)
  PROVE  Core'
<1> DEFINE c == SqlCommit(srv)
<1>1. PICK r \in Served(IF ofTrigger THEN {Result(SqlStart(c), TRUE, "none")}
                        ELSE DdlResults(srv)) :
        srv' = r.srv /\ Meets({r.event})
  BY DEF Ddl
<1>2. /\ link \in BOOLEAN /\ believed' = Kept(believed) /\ link' = link /\ changes' = changes
      /\ happened \subseteq happened'
  BY <1>1 DEF FrameInv, Ddl, Meets
<1>3. CASE ~link
  BY <1>1, <1>2, <1>3, ServedIs, KeepStep DEF Result
<1>4. CASE link
  <2>1. /\ Transaction(c) /\ c.work = <<>> /\ c.saves = <<>> /\ c.db = Contents(srv)
    BY Ended DEF Core, SrvInv, Contents
  <2>2. \/ r.srv = SqlStart(c)
        \/ r.srv = c /\ r.event = "ddlBindError"
    BY <1>2, <1>4, ServedIs DEF DdlResults, Result
  <2> HIDE DEF c
  <2>3. /\ Transaction(SqlStart(c)) /\ SqlStart(c).work = <<>> /\ SqlStart(c).saves = <<>>
        /\ SqlStart(c).open /\ SqlStart(c).db = c.db
    BY <2>1, StartEmpty
  <2>4. r.event = "ddlBindError" => Met(Outside)'
    BY <1>1, MetNow DEF Meets, Outside
  <2> QED BY <1>1, <1>2, <1>4, <2>1, <2>2, <2>3, <2>4, KeepStep
<1> QED BY <1>2, <1>3, <1>4

LEMMA RollbackStep ==
  ASSUME Core, FrameInv, Rollback
  PROVE  Core'
<1>1. /\ srv' = IF link THEN SqlStart(SqlRollback(srv)) ELSE srv
      /\ believed' = IF link THEN Dropped(believed) ELSE believed
      /\ link' = link /\ changes' = changes /\ happened' = happened
  BY DEF Rollback, Control
<1>2. CASE link
  <2> DEFINE c == SqlRollback(srv)
  <2>1. Transaction(c) /\ c.work = <<>> /\ c.db = srv.db
    BY Ended DEF Core, SrvInv
  <2> HIDE DEF c
  <2>2. /\ Transaction(SqlStart(c)) /\ SqlStart(c).work = <<>> /\ SqlStart(c).saves = <<>>
        /\ SqlStart(c).open /\ SqlStart(c).db = c.db
    BY <2>1, StartEmpty
  <2>3. srv' = SqlStart(c) /\ believed' = Dropped(believed)
    BY <1>1, <1>2 DEF c
  <2>4. /\ Belief(believed') /\ believed'.pending = <<>> /\ believed'.marks = <<>>
        /\ believed'.durable = believed.durable
    BY <2>3, DroppedOK DEF Core, BeliefInv
  <2>5. LinkInv' /\ InTransaction' /\ PendingNotDurable'
    BY <1>1, <1>2, <2>2, <2>3, <2>4, EmptyRange DEF LinkInv, InTransaction, PendingNotDurable
  <2>6. ASSUME ~Met({"lost", "deadlock"})'
        PROVE  believed'.durable \subseteq srv'.db /\ Range(believed'.pending) \subseteq srv'.db
    <3>1. ~Met({"lost", "deadlock"})
      BY <1>1, <2>6, MetStays
    <3> QED BY <2>1, <2>2, <2>3, <2>4, <3>1, EmptyRange DEF Core, LossInv
  <2>7. ASSUME ~Met(Unwrapped)' PROVE srv'.db \subseteq believed'.durable
    <3>1. ~Met(Unwrapped)
      BY <1>1, <2>7, MetStays
    <3> QED BY <2>1, <2>2, <2>3, <2>4, <3>1 DEF Core, AskInv
  <2> QED BY <1>1, <2>1, <2>2, <2>3, <2>4, <2>5, <2>6, <2>7, EmptyStep
<1>3. CASE ~link
  BY <1>1, <1>3, StillStep
<1> QED BY <1>2, <1>3

LEMMA LoseLinkStep ==
  ASSUME Core, FrameInv, LoseLink
  PROVE  Core'
<1>1. /\ srv' = SqlRollback(srv) /\ believed' = believed /\ changes' = changes /\ ~link'
      /\ happened \subseteq happened' /\ "lost" \in happened'
  BY DEF LoseLink, Meets
<1>2. /\ Transaction(srv') /\ srv'.work = <<>> /\ srv'.saves = <<>> /\ srv'.db = srv.db /\ ~srv'.open
  BY <1>1, Ended DEF Core, SrvInv
<1>3. Met({"lost", "inDoubt"})' /\ Met({"lost", "deadlock"})'
  BY <1>1, MetNow
<1>4. LinkInv' /\ InTransaction'
  BY <1>1, <1>2, <1>3 DEF LinkInv, InTransaction
<1>5. PendingNotDurable'
  BY <1>1, <1>2, MetStays DEF Core, PendingNotDurable
<1>6. ~Met(Unwrapped)' => srv'.db \subseteq believed'.durable
  BY <1>1, <1>2, MetStays DEF Core, AskInv
<1> QED BY <1>1, <1>2, <1>3, <1>4, <1>5, <1>6, EmptyStep

LEMMA LoseCommitStep ==
  ASSUME Core, FrameInv, LoseCommit
  PROVE  Core'
<1>1. /\ srv' = SqlCommit(srv) /\ believed' = believed /\ changes' = changes /\ ~link'
      /\ happened \subseteq happened' /\ "inDoubt" \in happened'
  BY DEF LoseCommit, Meets
<1>2. /\ Transaction(srv') /\ srv'.work = <<>> /\ srv'.saves = <<>> /\ srv'.db = Contents(srv)
      /\ ~srv'.open
  BY <1>1, Ended DEF Core, SrvInv, Contents
<1>3. Met({"lost", "inDoubt"})' /\ Met(Unwrapped)'
      /\ Met({"program", "ddlBindError", "setTransaction", "inDoubt"})'
  BY <1>1, MetNow DEF Unwrapped
<1>4. LinkInv' /\ InTransaction'
  BY <1>1, <1>2, <1>3 DEF LinkInv, InTransaction
<1>5. PendingNotDurable'
  BY <1>3 DEF PendingNotDurable
<1>6. ASSUME ~Met({"lost", "deadlock"})'
      PROVE  believed'.durable \subseteq srv'.db /\ Range(believed'.pending) \subseteq srv'.db
  <2>1. ~Met({"lost", "deadlock"})
    BY <1>1, <1>6, MetStays
  <2> QED BY <1>1, <1>2, <2>1 DEF Core, LossInv, Contents
<1> QED BY <1>1, <1>2, <1>3, <1>4, <1>5, <1>6, EmptyStep

LEMMA QueryStep ==
  ASSUME Core, FrameInv, NEW use, Query(use)
  PROVE  Core'
<1>1. /\ believed' = believed /\ changes' = changes /\ happened \subseteq happened'
      /\ \/ UNCHANGED <<srv, link>>
         \/ ~link /\ link' /\ srv' = NewConnection(srv.db)
         \/ UNCHANGED link /\ link /\ srv' = SqlDeadlock(srv) /\ "deadlock" \in happened'
  BY DEF Query, Meets, Deadlocks
<1>2. CASE UNCHANGED <<srv, link>>
  BY <1>1, <1>2, StillStep
<1>3. CASE ~link /\ link' /\ srv' = NewConnection(srv.db)
  <2>1. srv.work = <<>> /\ srv.db \in SUBSET Nat /\ Contents(srv) = srv.db
    BY <1>3, Fields, EmptyRange DEF Core, SrvInv, LinkInv, Contents
  <2>2. /\ Transaction(srv') /\ srv'.work = <<>> /\ srv'.saves = <<>> /\ srv'.db = srv.db /\ srv'.open
    BY <1>3, <2>1, NewConnectionOK
  <2>3. LinkInv' /\ InTransaction'
    BY <1>3, <2>2 DEF LinkInv, InTransaction
  <2>4. PendingNotDurable'
    BY <1>1, <2>2, MetStays DEF Core, PendingNotDurable
  <2>5. ASSUME ~Met({"lost", "deadlock"})'
        PROVE  believed'.durable \subseteq srv'.db /\ Range(believed'.pending) \subseteq srv'.db
    <3>1. ~Met({"lost", "deadlock"})
      BY <1>1, <2>5, MetStays
    <3> QED BY <1>1, <2>1, <2>2, <3>1 DEF Core, LossInv
  <2>6. ~Met(Unwrapped)' => srv'.db \subseteq believed'.durable
    BY <1>1, <2>2, MetStays DEF Core, AskInv
  <2> QED BY <1>1, <2>2, <2>3, <2>4, <2>5, <2>6, EmptyStep
<1>4. CASE UNCHANGED link /\ link /\ srv' = SqlDeadlock(srv) /\ "deadlock" \in happened'
  <2>1. Outcome(srv, srv', "deadlock", {}, {}) /\ Adds(believed, believed', {})
    BY <1>1, <1>4, DeadlockOutcome, AddsNothing DEF Core, SrvInv, BeliefInv
  <2>2. /\ changes \in Nat /\ changes' \in Nat /\ changes <= changes'
        /\ {} \subseteq (changes + 1)..changes'
    BY <1>1 DEF FrameInv
  <2>3. {} \in SUBSET {}
    OBVIOUS
  <2> QED BY <1>1, <1>4, <2>1, <2>2, <2>3, StatementStep
<1> QED BY <1>1, <1>2, <1>3, <1>4

-----------------------------------------------------------------------------
(* The client's savepoints. *)

LEMMA OthersKeep ==
  ASSUME NEW saves \in Seq(Mark), NEW len, Ordered(saves, len), NEW n,
         NEW k \in DOMAIN saves, saves[k].name # n
  PROVE  \E i \in DOMAIN Others(saves, n) : Others(saves, n)[i] = saves[k]
<1>1. Keeps(Others(saves, n), saves, n)
  BY OthersProperties
<1> QED BY <1>1 DEF Keeps

\* A savepoint set is last, and the others are as they were.
LEMMA SavedEntries ==
  ASSUME NEW saves \in Seq(Mark), NEW len \in Nat, Ordered(saves, len),
         NEW n \in Savepoints \cup {Wrapper}, NEW A, A = Saved(saves, n, len)
  PROVE  /\ \A i \in DOMAIN A :
              \/ i = Len(A) /\ A[i].name = n /\ A[i].mark = len
              \/ i < Len(A) /\ A[i].name # n /\ \E k \in DOMAIN saves : A[i] = saves[k]
         /\ \A i, j \in DOMAIN A, k, l \in DOMAIN saves :
              i < j /\ A[i] = saves[k] /\ A[j] = saves[l] /\ A[j].name # n => k < l
         /\ \A k \in DOMAIN saves : saves[k].name # n => \E i \in DOMAIN A : A[i] = saves[k]
         /\ Len(A) \in DOMAIN A /\ DOMAIN A \subseteq Nat
<1> DEFINE B == Others(saves, n)
           m == [name |-> n, mark |-> len]
<1>10. \A k \in DOMAIN saves : saves[k].name # n => \E i \in DOMAIN B : B[i] = saves[k]
  BY OthersKeep
<1>11. B \in Seq(Mark) /\ ~Named(B, n) /\ Part(B, saves)
  BY OthersProperties
<1>1. /\ B \in Seq(Mark) /\ ~Named(B, n) /\ Part(B, saves)
      /\ \A k \in DOMAIN saves : saves[k].name # n => \E i \in DOMAIN B : B[i] = saves[k]
  BY <1>10, <1>11, Zenon
<1>2. m \in Mark /\ m.name = n /\ m.mark = len
  BY DEF Mark
<1>3. A = Append(B, m)
  BY DEF Saved
<1> HIDE DEF B, m
<1>4. /\ A \in Seq(Mark) /\ Len(A) = Len(B) + 1 /\ A[Len(A)] = m
      /\ \A i \in 1..Len(B) : A[i] = B[i]
  BY <1>1, <1>2, <1>3, AppendProperties
<1>5. DOMAIN A = 1..(Len(B) + 1) /\ DOMAIN B = 1..Len(B) /\ Len(B) \in Nat
  BY <1>1, <1>4
<1>6. ASSUME NEW i \in DOMAIN A, i # Len(A)
      PROVE  /\ i < Len(A) /\ i \in DOMAIN B /\ A[i] = B[i] /\ A[i].name # n
             /\ \E k \in DOMAIN saves : A[i] = saves[k]
  <2>1. i < Len(A) /\ i \in DOMAIN B /\ A[i] = B[i]
    BY <1>4, <1>5, <1>6
  <2> QED BY <2>1, <1>1 DEF Named, Part
<1>7. ASSUME NEW i \in DOMAIN A, NEW j \in DOMAIN A, NEW k \in DOMAIN saves, NEW l \in DOMAIN saves,
             i < j, A[i] = saves[k], A[j] = saves[l], A[j].name # n
      PROVE  k < l
  <2>1. j # Len(A)
    BY <1>2, <1>4, <1>7
  <2>2. i # Len(A)
    BY <1>4, <1>5, <1>7
  <2>3. i \in DOMAIN B /\ j \in DOMAIN B /\ B[i].name = saves[k].name /\ B[j].name = saves[l].name
    BY <1>6, <1>7, <2>1, <2>2
  <2>4. \A a, b \in DOMAIN B, c, d \in DOMAIN saves :
          a < b /\ B[a].name = saves[c].name /\ B[b].name = saves[d].name => c < d
    BY <1>1 DEF Part
  <2> QED BY <1>7, <2>3, <2>4
<1>8. ASSUME NEW k \in DOMAIN saves, saves[k].name # n
      PROVE  \E i \in DOMAIN A : A[i] = saves[k]
  <2>1. PICK i \in DOMAIN B : B[i] = saves[k]
    BY <1>1, <1>8
  <2>2. i \in DOMAIN A /\ A[i] = B[i]
    BY <1>4, <1>5, <2>1
  <2> QED BY <2>1, <2>2
<1>9. \A i \in DOMAIN A :
        \/ i = Len(A) /\ A[i].name = n /\ A[i].mark = len
        \/ i < Len(A) /\ A[i].name # n /\ \E k \in DOMAIN saves : A[i] = saves[k]
  BY <1>2, <1>4, <1>6
<1> QED BY <1>4, <1>5, <1>7, <1>8, <1>9

\* Two lists that agree still do when both set the same savepoint.
LEMMA WithinSaved ==
  ASSUME NEW A \in Seq(Mark), NEW la \in Nat, Ordered(A, la),
         NEW B \in Seq(Mark), NEW lb \in Nat, Ordered(B, lb),
         NEW n \in Savepoints \cup {Wrapper}, Within(A, B),
         NEW C, C = Saved(A, n, la), NEW D, D = Saved(B, n, lb)
  PROVE  Within(C, D)
<1>1. /\ \A i \in DOMAIN C :
           \/ i = Len(C) /\ C[i].name = n
           \/ i < Len(C) /\ C[i].name # n /\ \E k \in DOMAIN A : C[i] = A[k]
      /\ \A i, j \in DOMAIN C, k, l \in DOMAIN A :
           i < j /\ C[i] = A[k] /\ C[j] = A[l] /\ C[j].name # n => k < l
      /\ Len(C) \in DOMAIN C /\ DOMAIN C \subseteq Nat
  BY SavedEntries
<1>2. /\ \A i \in DOMAIN D :
           \/ i = Len(D) /\ D[i].name = n
           \/ i < Len(D) /\ D[i].name # n /\ \E k \in DOMAIN B : D[i] = B[k]
      /\ \A i, j \in DOMAIN D, k, l \in DOMAIN B :
           i < j /\ D[i] = B[k] /\ D[j] = B[l] /\ D[j].name # n => k < l
      /\ \A k \in DOMAIN B : B[k].name # n => \E i \in DOMAIN D : D[i] = B[k]
      /\ Len(D) \in DOMAIN D /\ DOMAIN D \subseteq Nat
  BY SavedEntries
<1>3. ASSUME NEW i \in DOMAIN C, C[i].name # Wrapper PROVE Named(D, C[i].name)
  <2>1. CASE C[i].name = n
    BY <2>1, <1>2 DEF Named
  <2>2. CASE C[i].name # n
    <3>1. PICK a \in DOMAIN A : C[i] = A[a]
      BY <2>2, <1>1
    <3>2. PICK b \in DOMAIN B : B[b].name = A[a].name
      BY <1>3, <3>1 DEF Within, Named
    <3> QED BY <2>2, <3>1, <3>2, <1>2 DEF Named
  <2> QED BY <2>1, <2>2
<1>4. ASSUME NEW i \in DOMAIN C, NEW j \in DOMAIN C, NEW k \in DOMAIN D, NEW l \in DOMAIN D,
             i < j, C[i].name = D[k].name, C[j].name = D[l].name
      PROVE  k < l
  <2>0. i \in Nat /\ j \in Nat /\ k \in Nat /\ l \in Nat
    BY <1>1, <1>2
  <2>1. C[i].name # n /\ D[k].name # n /\ k < Len(D)
    <3>1. i # Len(C)
      <4>1. j <= Len(C)
        BY <1>1, <2>0
      <4> QED BY <1>1, <1>4, <2>0, <4>1
    <3> QED BY <1>1, <1>2, <1>4, <3>1
  <2>2. CASE C[j].name = n
    <3>1. l = Len(D)
      BY <2>2, <1>2, <1>4
    <3> QED BY <2>1, <3>1
  <2>3. CASE C[j].name # n
    <3>1. PICK a \in DOMAIN A : C[i] = A[a]
      BY <2>1, <1>1
    <3>2. PICK b \in DOMAIN A : C[j] = A[b]
      BY <2>3, <1>1
    <3>3. a < b
      BY <1>1, <1>4, <2>3, <3>1, <3>2
    <3>4. PICK c \in DOMAIN B : D[k] = B[c]
      BY <2>1, <1>2
    <3>5. PICK d \in DOMAIN B : D[l] = B[d]
      BY <2>3, <1>2, <1>4
    <3>6. c < d
      BY <1>4, <3>1, <3>2, <3>3, <3>4, <3>5 DEF Within
    <3>7. c \in Nat /\ d \in Nat
      OBVIOUS
    <3>8. k # l
      BY <3>4, <3>5, <3>6, <3>7, OnePosition
    <3>9. ~(l < k)
      <4>1. D[k].name # n
        BY <2>1
      <4>2. l < k => d < c
        BY <1>2, <3>4, <3>5, <4>1
      <4> QED BY <3>6, <3>7, <4>2
    <3> QED BY <2>0, <3>8, <3>9
  <2> QED BY <2>2, <2>3
<1> QED BY <1>3, <1>4 DEF Within

\* They agree when both go back to the same savepoint, or before it.
LEMMA WithinPrefix ==
  ASSUME NEW A \in Seq(Mark), NEW la, Ordered(A, la), NEW B \in Seq(Mark), NEW lb, Ordered(B, lb),
         Within(A, B), NEW p \in 1..Len(A), NEW q \in 1..Len(B), A[p].name = B[q].name,
         NEW d \in {0, 1}
  PROVE  Within(SubSeq(A, 1, p - d), SubSeq(B, 1, q - d))
<1> DEFINE C == SubSeq(A, 1, p - d)
           D == SubSeq(B, 1, q - d)
<1>0. /\ p - d \in 0..Len(A) /\ q - d \in 0..Len(B) /\ p \in DOMAIN A /\ q \in DOMAIN B
  OBVIOUS
<1>1. /\ C \in Seq(Mark) /\ Len(C) = p - d /\ \A i \in 1..(p - d) : C[i] = A[i]
  BY <1>0, PrefixProperties
<1>2. /\ D \in Seq(Mark) /\ Len(D) = q - d /\ \A i \in 1..(q - d) : D[i] = B[i]
  BY <1>0, PrefixProperties
<1> HIDE DEF C, D
<1>3. /\ DOMAIN C = 1..(p - d) /\ DOMAIN D = 1..(q - d)
      /\ DOMAIN C \subseteq DOMAIN A /\ DOMAIN D \subseteq DOMAIN B
  BY <1>0, <1>1, <1>2
<1>4. ASSUME NEW i \in DOMAIN C, C[i].name # Wrapper PROVE Named(D, C[i].name)
  <2>1. i \in DOMAIN A /\ A[i] = C[i] /\ i \in 1..p
    BY <1>0, <1>1, <1>3
  <2>2. PICK k \in DOMAIN B : B[k].name = A[i].name
    BY <1>4, <2>1 DEF Within, Named
  <2>3. k \in DOMAIN D
    <3>1. CASE i = p
      <4>1. k = q
        BY <1>0, <2>2, <3>1, OnePosition
      <4>2. d = 0
        BY <1>3, <3>1
      <4> QED BY <1>3, <4>1, <4>2
    <3>2. CASE i # p
      <4>1. i < p
        BY <2>1, <3>2
      <4>2. k < q
        BY <1>0, <2>1, <2>2, <4>1 DEF Within
      <4> QED BY <1>3, <2>2, <4>2
    <3> QED BY <3>1, <3>2
  <2> QED BY <1>2, <1>3, <2>1, <2>2, <2>3 DEF Named
<1>5. ASSUME NEW i \in DOMAIN C, NEW j \in DOMAIN C, NEW k \in DOMAIN D, NEW l \in DOMAIN D,
             i < j, C[i].name = D[k].name, C[j].name = D[l].name
      PROVE  k < l
  <2>1. C[i] = A[i] /\ C[j] = A[j] /\ D[k] = B[k] /\ D[l] = B[l]
    BY <1>1, <1>2, <1>3
  <2> QED BY <1>3, <1>5, <2>1 DEF Within
<1> QED BY <1>4, <1>5 DEF Within, C, D

\* Going back less far than the work does is the same in what is left of it.
LEMMA BackPrefix ==
  ASSUME NEW w \in Seq(Nat), NEW p \in 0..Len(w), NEW m \in Nat, m <= p
  PROVE  Back(SubSeq(w, 1, p), m) = Back(w, m)
<1>1. \A j \in 1..m : SubSeq(w, 1, p)[j] = w[j]
  <2>1. \A j \in 1..p : SubSeq(w, 1, p)[j] = w[j]
    BY RangePrefix
  <2>2. 1..m \subseteq 1..p
    BY Len(w) \in Nat
  <2> QED BY <2>1, <2>2
<1> QED BY <1>1, BackSame

LEMMA BackAll ==
  ASSUME NEW w \in Seq(Nat)
  PROVE  Back(w, Len(w)) = Range(w)
BY DEF Back, Range

\* The changes v, up to each of the savepoints vm, are among w up to the same
\* savepoint of wm, or in X.
Covers(v, vm, w, wm, X) ==
  /\ Range(v) \subseteq Range(w) \cup X
  /\ \A i \in DOMAIN vm, k \in DOMAIN wm :
       vm[i].name = wm[k].name => Back(v, vm[i].mark) \subseteq Back(w, wm[k].mark) \cup X

LEMMA CoversSaved ==
  ASSUME NEW v \in Seq(Nat), NEW vm \in Seq(Mark), Ordered(vm, Len(v)),
         NEW w \in Seq(Nat), NEW wm \in Seq(Mark), Ordered(wm, Len(w)),
         NEW X, Covers(v, vm, w, wm, X), NEW n \in Savepoints \cup {Wrapper},
         NEW C, C = Saved(vm, n, Len(v)), NEW D, D = Saved(wm, n, Len(w))
  PROVE  Covers(v, C, w, D, X)
<1>0. Len(v) \in Nat /\ Len(w) \in Nat
  OBVIOUS
<1>1. \A i \in DOMAIN C :
        \/ i = Len(C) /\ C[i].name = n /\ C[i].mark = Len(v)
        \/ i < Len(C) /\ C[i].name # n /\ \E k \in DOMAIN vm : C[i] = vm[k]
  BY <1>0, SavedEntries
<1>2. \A i \in DOMAIN D :
        \/ i = Len(D) /\ D[i].name = n /\ D[i].mark = Len(w)
        \/ i < Len(D) /\ D[i].name # n /\ \E k \in DOMAIN wm : D[i] = wm[k]
  BY <1>0, SavedEntries
<1>3. ASSUME NEW i \in DOMAIN C, NEW k \in DOMAIN D, C[i].name = D[k].name
      PROVE  Back(v, C[i].mark) \subseteq Back(w, D[k].mark) \cup X
  <2>1. CASE C[i].name = n
    <3>1. C[i].mark = Len(v) /\ D[k].mark = Len(w)
      BY <1>1, <1>2, <1>3, <2>1
    <3> QED BY <3>1, BackAll DEF Covers
  <2>2. CASE C[i].name # n
    <3>1. PICK a \in DOMAIN vm : C[i] = vm[a]
      BY <1>1, <2>2
    <3>2. PICK b \in DOMAIN wm : D[k] = wm[b]
      BY <1>2, <1>3, <2>2
    <3> QED BY <1>3, <3>1, <3>2 DEF Covers
  <2> QED BY <2>1, <2>2
<1> QED BY <1>3 DEF Covers

LEMMA CoversReleased ==
  ASSUME NEW v \in Seq(Nat), NEW vm \in Seq(Mark), Ordered(vm, Len(v)),
         NEW w \in Seq(Nat), NEW wm \in Seq(Mark), Ordered(wm, Len(w)),
         NEW X, Covers(v, vm, w, wm, X), NEW p \in 0..Len(vm), NEW q \in 0..Len(wm)
  PROVE  Covers(v, SubSeq(vm, 1, p), w, SubSeq(wm, 1, q), X)
<1> DEFINE C == SubSeq(vm, 1, p)
           D == SubSeq(wm, 1, q)
<1>1. C \in Seq(Mark) /\ Len(C) = p /\ \A i \in 1..p : C[i] = vm[i]
  BY PrefixProperties
<1>2. D \in Seq(Mark) /\ Len(D) = q /\ \A i \in 1..q : D[i] = wm[i]
  BY PrefixProperties
<1> HIDE DEF C, D
<1>3. /\ \A i \in DOMAIN C : i \in DOMAIN vm /\ C[i] = vm[i]
      /\ \A i \in DOMAIN D : i \in DOMAIN wm /\ D[i] = wm[i]
  BY <1>1, <1>2
<1>4. Covers(v, C, w, D, X)
  BY <1>3 DEF Covers
<1> QED BY <1>4 DEF C, D

LEMMA CoversBack ==
  ASSUME NEW v \in Seq(Nat), NEW vm \in Seq(Mark), Ordered(vm, Len(v)),
         NEW w \in Seq(Nat), NEW wm \in Seq(Mark), Ordered(wm, Len(w)),
         NEW X, Covers(v, vm, w, wm, X), NEW p \in 1..Len(vm), NEW q \in 1..Len(wm),
         vm[p].name = wm[q].name
  PROVE  Covers(SubSeq(v, 1, vm[p].mark), SubSeq(vm, 1, p),
                SubSeq(w, 1, wm[q].mark), SubSeq(wm, 1, q), X)
<1> DEFINE C == SubSeq(vm, 1, p)
           D == SubSeq(wm, 1, q)
           mv == vm[p].mark
           mw == wm[q].mark
<1>0. /\ p \in 0..Len(vm) /\ q \in 0..Len(wm) /\ p > 0 /\ q > 0
      /\ p \in DOMAIN vm /\ q \in DOMAIN wm
  OBVIOUS
<1>1. /\ C \in Seq(Mark) /\ Len(C) = p /\ \A i \in 1..p : C[i] = vm[i]
      /\ Ordered(C, mv)
  BY <1>0, PrefixProperties
<1>2. /\ D \in Seq(Mark) /\ Len(D) = q /\ \A i \in 1..q : D[i] = wm[i]
      /\ Ordered(D, mw)
  BY <1>0, PrefixProperties
<1>3. mv \in Nat /\ mv <= Len(v) /\ mw \in Nat /\ mw <= Len(w)
  BY <1>0, Entries DEF Ordered
<1>4. mv \in 0..Len(v) /\ mw \in 0..Len(w)
  BY <1>3
<1>5. Back(v, mv) \subseteq Back(w, mw) \cup X
  BY <1>0 DEF Covers
<1> HIDE DEF C, D, mv, mw
<1>6. Range(SubSeq(v, 1, mv)) = Back(v, mv) /\ Range(SubSeq(w, 1, mw)) = Back(w, mw)
  BY <1>4, RangePrefix
<1>7. /\ \A i \in DOMAIN C : i \in DOMAIN vm /\ C[i] = vm[i]
      /\ \A i \in DOMAIN D : i \in DOMAIN wm /\ D[i] = wm[i]
  BY <1>1, <1>2
<1>8. ASSUME NEW i \in DOMAIN C, NEW k \in DOMAIN D, C[i].name = D[k].name
      PROVE  Back(SubSeq(v, 1, mv), C[i].mark) \subseteq Back(SubSeq(w, 1, mw), D[k].mark) \cup X
  <2>1. C[i].mark \in Nat /\ C[i].mark <= mv
    BY <1>1, Entries DEF Ordered
  <2>2. D[k].mark \in Nat /\ D[k].mark <= mw
    BY <1>2, Entries DEF Ordered
  <2>3. Back(SubSeq(v, 1, mv), C[i].mark) = Back(v, C[i].mark)
    BY <1>4, <2>1, BackPrefix
  <2>4. Back(SubSeq(w, 1, mw), D[k].mark) = Back(w, D[k].mark)
    BY <1>4, <2>2, BackPrefix
  <2>5. Back(v, C[i].mark) \subseteq Back(w, D[k].mark) \cup X
    BY <1>7, <1>8 DEF Covers
  <2> QED BY <2>3, <2>4, <2>5
<1>9. Covers(SubSeq(v, 1, mv), C, SubSeq(w, 1, mw), D, X)
  BY <1>5, <1>6, <1>8 DEF Covers
<1> QED BY <1>9 DEF C, D, mv, mw

LEMMA MarkedOK ==
  ASSUME NEW b, Belief(b), NEW n \in Savepoints, NEW c, c = Marked(b, n)
  PROVE  /\ Belief(c) /\ c.pending = b.pending /\ c.durable = b.durable
         /\ c.marks = Saved(b.marks, n, Len(b.pending))
<1> DEFINE A == Saved(b.marks, n, Len(b.pending))
<1>0. /\ b.pending \in Seq(Nat) /\ b.marks \in Seq(Mark) /\ b.durable \subseteq Nat
      /\ Len(b.pending) \in Nat /\ Ordered(b.marks, Len(b.pending))
  BY BeliefFields
<1>1. A \in Seq(Mark) /\ Ordered(A, Len(b.pending))
  BY <1>0, SavedLast
<1>2. \A i \in DOMAIN A :
        A[i].name = n \/ \E k \in DOMAIN b.marks : A[i] = b.marks[k]
  BY <1>0, SavedEntries
<1> HIDE DEF A
<1>3. c = [b EXCEPT !.marks = A]
  BY DEF Marked, A
<1>4. c \in BeliefType /\ c.pending = b.pending /\ c.durable = b.durable /\ c.marks = A
  BY <1>1, <1>3 DEF Belief, BeliefType
<1>5. \A i \in DOMAIN A : A[i].name \in Savepoints
  BY <1>2 DEF Belief
<1> QED BY <1>1, <1>4, <1>5 DEF Belief, A

LEMMA BackToOK ==
  ASSUME NEW b, Belief(b), NEW n, Named(b.marks, n), NEW c, c = BackTo(b, n),
         NEW q, q = Position(b.marks, n)
  PROVE  /\ Belief(c) /\ c.durable = b.durable
         /\ q \in 1..Len(b.marks) /\ b.marks[q].name = n
         /\ c.pending = SubSeq(b.pending, 1, b.marks[q].mark)
         /\ c.marks = SubSeq(b.marks, 1, q)
<1> DEFINE m == b.marks[q].mark
           w == SubSeq(b.pending, 1, m)
           A == SubSeq(b.marks, 1, q)
<1>0. /\ b.pending \in Seq(Nat) /\ b.marks \in Seq(Mark) /\ b.durable \subseteq Nat
      /\ Len(b.pending) \in Nat /\ Ordered(b.marks, Len(b.pending))
  BY BeliefFields
<1>1. q \in 1..Len(b.marks) /\ q \in DOMAIN b.marks /\ b.marks[q].name = n
  BY <1>0, PositionExists
<1>2. m \in 0..Len(b.pending)
  BY <1>1, BeliefFields
<1>3. A \in Seq(Mark) /\ Ordered(A, m) /\ Len(A) = q /\ \A i \in 1..q : A[i] = b.marks[i]
  <2>1. q \in 0..Len(b.marks) /\ q > 0
    BY <1>1
  <2> QED BY <1>0, <2>1, PrefixProperties
<1>4. \A i \in DOMAIN A : A[i].name \in Savepoints
  <2>1. \A i \in DOMAIN A : i \in DOMAIN b.marks /\ A[i] = b.marks[i]
    BY <1>0, <1>1, <1>3
  <2> QED BY <2>1, BeliefFields
<1> HIDE DEF m
<1>5. w \in Seq(Nat) /\ Len(w) = m
  BY <1>0, <1>2, RangePrefix
<1> HIDE DEF w, A
<1>6. c = [b EXCEPT !.pending = w, !.marks = A]
  BY DEF BackTo, w, A, m
<1>7. c \in BeliefType /\ c.pending = w /\ c.durable = b.durable /\ c.marks = A
  BY <1>3, <1>5, <1>6 DEF Belief, BeliefType
<1>8. Belief(c)
  BY <1>3, <1>4, <1>5, <1>7 DEF Belief
<1> QED BY <1>1, <1>7, <1>8 DEF m, w, A

LEMMA UnmarkedOK ==
  ASSUME NEW b, Belief(b), NEW n, Named(b.marks, n), NEW c, c = Unmarked(b, n),
         NEW q, q = Position(b.marks, n)
  PROVE  /\ Belief(c) /\ c.durable = b.durable /\ c.pending = b.pending
         /\ q \in 1..Len(b.marks) /\ b.marks[q].name = n
         /\ c.marks = SubSeq(b.marks, 1, q - 1)
<1> DEFINE A == SubSeq(b.marks, 1, q - 1)
<1>0. /\ b.pending \in Seq(Nat) /\ b.marks \in Seq(Mark) /\ b.durable \subseteq Nat
      /\ Len(b.pending) \in Nat /\ Ordered(b.marks, Len(b.pending))
  BY BeliefFields
<1>1. q \in 1..Len(b.marks) /\ b.marks[q].name = n
  BY <1>0, PositionExists
<1>2. q - 1 \in 0..Len(b.marks)
  BY <1>0, <1>1
<1>3. /\ A \in Seq(Mark) /\ Ordered(A, Len(b.pending)) /\ Len(A) = q - 1
      /\ \A i \in 1..(q - 1) : A[i] = b.marks[i]
  BY <1>0, <1>2, PrefixProperties
<1>4. \A i \in DOMAIN A : A[i].name \in Savepoints
  <2>1. \A i \in DOMAIN A : i \in DOMAIN b.marks /\ A[i] = b.marks[i]
    BY <1>0, <1>2, <1>3
  <2> QED BY <2>1, BeliefFields
<1> HIDE DEF A
<1>5. c = [b EXCEPT !.marks = A]
  BY DEF Unmarked, A
<1>6. c \in BeliefType /\ c.pending = b.pending /\ c.durable = b.durable /\ c.marks = A
  BY <1>3, <1>5 DEF Belief, BeliefType
<1> QED BY <1>1, <1>3, <1>4, <1>6 DEF Belief, A

\* What the client does with its savepoints keeps the invariant when the lists
\* still agree and still lead back to the same changes.
LEMMA MarksStep ==
  ASSUME Core, FrameInv, link, link' = link, changes' = changes, happened \subseteq happened',
         Transaction(srv'), srv'.open = srv.open, srv'.db = srv.db,
         Range(srv'.work) \subseteq Range(srv.work),
         HasSave(srv', Wrapper) => HasSave(srv, Wrapper),
         Belief(believed'), believed'.durable = believed.durable,
         Range(believed'.pending) \subseteq Range(believed.pending),
         Within(srv'.saves, believed'.marks),
         Covers(believed.pending, believed.marks, srv.work, srv.saves, srv.db) =>
           Covers(believed'.pending, believed'.marks, srv'.work, srv'.saves, srv.db),
         Covers(srv.work, srv.saves, believed.pending, believed.marks, believed.durable) =>
           Covers(srv'.work, srv'.saves, believed'.pending, believed'.marks, believed.durable)
  PROVE  Core'
<1>1. SrvInv' /\ BeliefInv' /\ Agree'
  BY DEF Core, SrvInv, BeliefInv, Agree
<1>2. LinkInv' /\ InTransaction'
  BY MetStays DEF Core, LinkInv, InTransaction
<1>3. NumberInv'
  BY DEF Core, NumberInv, Contents
<1>4. PendingNotDurable'
  BY MetStays DEF Core, PendingNotDurable
<1>5. LossInv'
  <2> SUFFICES ASSUME ~Met({"lost", "deadlock"})'
               PROVE  /\ believed'.durable \subseteq srv'.db
                      /\ Range(believed'.pending) \subseteq Contents(srv')
                      /\ \A i \in DOMAIN srv'.saves, k \in DOMAIN believed'.marks :
                           srv'.saves[i].name = believed'.marks[k].name =>
                             Back(believed'.pending, believed'.marks[k].mark)
                               \subseteq Back(srv'.work, srv'.saves[i].mark) \cup srv'.db
    BY DEF LossInv
  <2>1. ~Met({"lost", "deadlock"})
    BY MetStays
  <2>2. /\ believed.durable \subseteq srv.db
        /\ Covers(believed.pending, believed.marks, srv.work, srv.saves, srv.db)
    BY <2>1 DEF Core, LossInv, Covers, Contents
  <2>3. Covers(believed'.pending, believed'.marks, srv'.work, srv'.saves, srv.db)
    BY <2>2
  <2> QED BY <2>2, <2>3 DEF Covers, Contents
<1>6. AskInv'
  <2> SUFFICES ASSUME ~Met(Unwrapped)'
               PROVE  /\ srv'.db \subseteq believed'.durable
                      /\ Range(srv'.work) \subseteq Range(believed'.pending) \cup believed'.durable
                      /\ \A i \in DOMAIN srv'.saves, k \in DOMAIN believed'.marks :
                           srv'.saves[i].name = believed'.marks[k].name =>
                             Back(srv'.work, srv'.saves[i].mark)
                               \subseteq Back(believed'.pending, believed'.marks[k].mark)
                                           \cup believed'.durable
    BY DEF AskInv
  <2>1. ~Met(Unwrapped)
    BY MetStays
  <2>2. /\ srv.db \subseteq believed.durable
        /\ Covers(srv.work, srv.saves, believed.pending, believed.marks, believed.durable)
    BY <2>1 DEF Core, AskInv, Covers
  <2>3. Covers(srv'.work, srv'.saves, believed'.pending, believed'.marks, believed.durable)
    BY <2>2
  <2> QED BY <2>2, <2>3 DEF Covers
<1> QED BY <1>1, <1>2, <1>3, <1>4, <1>5, <1>6 DEF Core

LEMMA CoreFields ==
  ASSUME Core
  PROVE  /\ Transaction(srv) /\ Belief(believed) /\ Within(srv.saves, believed.marks)
         /\ srv.work \in Seq(Nat) /\ srv.saves \in Seq(Mark) /\ Len(srv.work) \in Nat
         /\ Ordered(srv.saves, Len(srv.work))
         /\ believed.pending \in Seq(Nat) /\ believed.marks \in Seq(Mark)
         /\ Len(believed.pending) \in Nat
         /\ Ordered(believed.marks, Len(believed.pending))
<1>1. Transaction(srv) /\ Belief(believed) /\ Within(srv.saves, believed.marks)
  BY DEF Core, SrvInv, BeliefInv, Agree
<1> QED BY <1>1, Fields, BeliefFields

LEMMA SavepointStep ==
  ASSUME Core, FrameInv, NEW n \in Savepoints, Savepoint(n)
  PROVE  Core'
<1>1. /\ link' = link /\ changes' = changes /\ happened' = happened
      /\ srv' = IF link THEN SqlSavepoint(srv, n) ELSE srv
      /\ believed' = IF link THEN Marked(believed, n) ELSE believed
  BY DEF Savepoint, Control
<1>2. CASE ~link
  BY <1>1, <1>2, StillStep
<1>3. CASE link
  <2> DEFINE C == Saved(srv.saves, n, Len(srv.work))
             D == Saved(believed.marks, n, Len(believed.pending))
  <2>1. n \in Savepoints \cup {Wrapper} /\ n # Wrapper
    BY MariaDbAssumption
  <2>2. /\ Transaction(srv') /\ srv'.open = srv.open /\ srv'.db = srv.db /\ srv'.work = srv.work
        /\ srv'.saves = IF srv.open THEN C ELSE srv.saves
    <3>1. srv' = SqlSavepoint(srv, n)
      BY <1>1, <1>3
    <3> QED BY <3>1, <2>1, CoreFields, SavepointOK
  <2>3. /\ Belief(believed') /\ believed'.durable = believed.durable
        /\ believed'.pending = believed.pending /\ believed'.marks = D
    <3>1. believed' = Marked(believed, n)
      BY <1>1, <1>3
    <3> QED BY <3>1, CoreFields, MarkedOK
  <2>4. CASE srv.open
    <3>1. HasSave(srv', Wrapper) => HasSave(srv, Wrapper)
      <4>1. \A i \in DOMAIN C : C[i].name = n \/ \E k \in DOMAIN srv.saves : C[i] = srv.saves[k]
        BY <2>1, CoreFields, SavedEntries
      <4> HIDE DEF C
      <4> QED BY <4>1, <2>1, <2>2, <2>4 DEF HasSave, Named
    <3>2. Within(C, D)
      BY <2>1, CoreFields, WithinSaved
    <3>3. Covers(believed.pending, believed.marks, srv.work, srv.saves, srv.db) =>
            Covers(believed.pending, D, srv.work, C, srv.db)
      BY <2>1, CoreFields, CoversSaved
    <3>4. Covers(srv.work, srv.saves, believed.pending, believed.marks, believed.durable) =>
            Covers(srv.work, C, believed.pending, D, believed.durable)
      BY <2>1, CoreFields, CoversSaved
    <3> HIDE DEF C, D
    <3> QED BY <1>1, <1>3, <2>2, <2>3, <2>4, <3>1, <3>2, <3>3, <3>4, MarksStep
  <2>5. CASE ~srv.open
    <3>1. srv.saves = <<>> /\ srv'.saves = <<>> /\ srv.work = <<>>
      BY <2>2, <2>5, CoreFields, Fields
    <3>2. Within(srv'.saves, believed'.marks) /\ ~HasSave(srv', Wrapper)
      BY <3>1, NoSaves DEF Within, HasSave
    <3>3. Covers(believed.pending, believed.marks, srv.work, srv.saves, srv.db) =>
            Covers(believed'.pending, believed'.marks, srv'.work, srv'.saves, srv.db)
      BY <2>2, <2>3, <3>1 DEF Covers
    <3>4. Covers(srv.work, srv.saves, believed.pending, believed.marks, believed.durable) =>
            Covers(srv'.work, srv'.saves, believed'.pending, believed'.marks, believed.durable)
      BY <2>2, <2>3, <3>1 DEF Covers
    <3> HIDE DEF C, D
    <3> QED BY <1>1, <1>3, <2>2, <2>3, <3>2, <3>3, <3>4, MarksStep
  <2> QED BY <2>4, <2>5
<1> QED BY <1>2, <1>3

\* A savepoint that MariaDB has, the client has too.
LEMMA BothHave ==
  ASSUME Core, NEW n \in Savepoints, HasSave(srv, n),
         NEW p, p = Position(srv.saves, n), NEW q, q = Position(believed.marks, n)
  PROVE  /\ Named(believed.marks, n)
         /\ p \in 1..Len(srv.saves) /\ q \in 1..Len(believed.marks)
         /\ srv.saves[p].name = n /\ believed.marks[q].name = n
<1>1. Named(srv.saves, n) /\ n # Wrapper
  BY MariaDbAssumption DEF HasSave
<1>2. Named(believed.marks, n)
  BY <1>1, CoreFields DEF Within, Named
<1> QED BY <1>1, <1>2, CoreFields, PositionExists

LEMMA RollbackToStep ==
  ASSUME Core, FrameInv, NEW n \in Savepoints, RollbackTo(n)
  PROVE  Core'
<1>1. /\ link' = link /\ changes' = changes /\ happened' = happened
      /\ srv' = IF link THEN SqlRollbackTo(srv, n) ELSE srv
      /\ believed' = IF link /\ HasSave(srv, n) THEN BackTo(believed, n) ELSE believed
  BY DEF RollbackTo, Control
<1>2. CASE ~link \/ ~HasSave(srv, n)
  <2>1. srv' = srv /\ believed' = believed
    BY <1>1, <1>2 DEF SqlRollbackTo
  <2> QED BY <1>1, <2>1, StillStep
<1>3. CASE link /\ HasSave(srv, n)
  <2> DEFINE p == Position(srv.saves, n)
             q == Position(believed.marks, n)
             mp == srv.saves[p].mark
             mq == believed.marks[q].mark
  <2>1. /\ Named(believed.marks, n)
        /\ p \in 1..Len(srv.saves) /\ q \in 1..Len(believed.marks)
        /\ srv.saves[p].name = n /\ believed.marks[q].name = n
    BY <1>3, BothHave
  <2>2. /\ Transaction(srv') /\ srv'.open = srv.open /\ srv'.db = srv.db /\ mp \in 0..Len(srv.work)
        /\ srv'.saves = SubSeq(srv.saves, 1, p) /\ srv'.work = SubSeq(srv.work, 1, mp)
    <3>1. srv' = SqlRollbackTo(srv, n)
      BY <1>1, <1>3
    <3> QED BY <1>3, <3>1, CoreFields, RollbackToOK
  <2>3. /\ Belief(believed') /\ believed'.durable = believed.durable
        /\ believed'.pending = SubSeq(believed.pending, 1, mq)
        /\ believed'.marks = SubSeq(believed.marks, 1, q)
    <3>1. believed' = BackTo(believed, n)
      BY <1>1, <1>3
    <3> QED BY <2>1, <3>1, CoreFields, BackToOK
  <2>4. mq \in 0..Len(believed.pending)
    BY <2>1, CoreFields, BeliefFields
  <2> HIDE DEF p, q
  <2>5. Range(srv'.work) \subseteq Range(srv.work)
    BY <2>2, CoreFields, RangePrefix
  <2>6. Range(believed'.pending) \subseteq Range(believed.pending)
    BY <2>3, <2>4, CoreFields, RangePrefix
  <2>7. HasSave(srv', Wrapper) => HasSave(srv, Wrapper)
    <3>1. Part(srv'.saves, srv.saves)
      <4>1. p \in 0..Len(srv.saves)
        BY <2>1
      <4> QED BY <2>2, <4>1, CoreFields, PrefixProperties
    <3> QED BY <3>1 DEF Part, HasSave, Named
  <2>8. Within(srv'.saves, believed'.marks)
    <3>1. Within(SubSeq(srv.saves, 1, p - 0), SubSeq(believed.marks, 1, q - 0))
      BY <2>1, CoreFields, WithinPrefix
    <3>2. p - 0 = p /\ q - 0 = q
      BY <2>1
    <3> QED BY <2>2, <2>3, <3>1, <3>2
  <2>9. Covers(believed.pending, believed.marks, srv.work, srv.saves, srv.db) =>
          Covers(believed'.pending, believed'.marks, srv'.work, srv'.saves, srv.db)
    BY <2>1, <2>2, <2>3, CoreFields, CoversBack
  <2>10. Covers(srv.work, srv.saves, believed.pending, believed.marks, believed.durable) =>
           Covers(srv'.work, srv'.saves, believed'.pending, believed'.marks, believed.durable)
    BY <2>1, <2>2, <2>3, CoreFields, CoversBack
  <2> HIDE DEF mp, mq
  <2> QED BY <1>1, <1>3, <2>2, <2>3, <2>5, <2>6, <2>7, <2>8, <2>9, <2>10, MarksStep
<1> QED BY <1>2, <1>3

LEMMA ReleaseStep ==
  ASSUME Core, FrameInv, NEW n \in Savepoints, Release(n)
  PROVE  Core'
<1>1. /\ link' = link /\ changes' = changes /\ happened \subseteq happened'
      /\ srv' = IF link THEN SqlRelease(srv, n) ELSE srv
      /\ believed' = IF link /\ HasSave(srv, n) THEN Unmarked(believed, n) ELSE believed
  BY DEF Release, Meets, Reply
<1>2. CASE ~link \/ ~HasSave(srv, n)
  <2>1. srv' = srv /\ believed' = believed
    BY <1>1, <1>2 DEF SqlRelease
  <2> QED BY <1>1, <2>1, StillStep
<1>3. CASE link /\ HasSave(srv, n)
  <2> DEFINE p == Position(srv.saves, n)
             q == Position(believed.marks, n)
  <2>1. /\ Named(believed.marks, n)
        /\ p \in 1..Len(srv.saves) /\ q \in 1..Len(believed.marks)
        /\ srv.saves[p].name = n /\ believed.marks[q].name = n
    BY <1>3, BothHave
  <2>2. /\ Transaction(srv') /\ srv'.open = srv.open /\ srv'.db = srv.db /\ srv'.work = srv.work
        /\ srv'.saves = SubSeq(srv.saves, 1, p - 1)
    <3>1. srv' = SqlRelease(srv, n)
      BY <1>1, <1>3
    <3> QED BY <1>3, <3>1, CoreFields, ReleaseOK
  <2>3. /\ Belief(believed') /\ believed'.durable = believed.durable
        /\ believed'.pending = believed.pending
        /\ believed'.marks = SubSeq(believed.marks, 1, q - 1)
    <3>1. believed' = Unmarked(believed, n)
      BY <1>1, <1>3
    <3> QED BY <2>1, <3>1, CoreFields, UnmarkedOK
  <2> HIDE DEF p, q
  <2>4. p - 1 \in 0..Len(srv.saves) /\ q - 1 \in 0..Len(believed.marks)
    BY <2>1, CoreFields
  <2>7. HasSave(srv', Wrapper) => HasSave(srv, Wrapper)
    <3>1. Part(srv'.saves, srv.saves)
      BY <2>2, <2>4, CoreFields, PrefixProperties
    <3> QED BY <3>1 DEF Part, HasSave, Named
  <2>8. Within(srv'.saves, believed'.marks)
    BY <2>1, <2>2, <2>3, CoreFields, WithinPrefix
  <2>9. Covers(believed.pending, believed.marks, srv.work, srv.saves, srv.db) =>
          Covers(believed'.pending, believed'.marks, srv'.work, srv'.saves, srv.db)
    BY <2>2, <2>3, <2>4, CoreFields, CoversReleased
  <2>10. Covers(srv.work, srv.saves, believed.pending, believed.marks, believed.durable) =>
           Covers(srv'.work, srv'.saves, believed'.pending, believed'.marks, believed.durable)
    BY <2>2, <2>3, <2>4, CoreFields, CoversReleased
  <2> QED BY <1>1, <1>3, <2>2, <2>3, <2>7, <2>8, <2>9, <2>10, MarksStep
<1> QED BY <1>2, <1>3

-----------------------------------------------------------------------------
(* The other variables, and the sequences. *)

AnyReply == [op : Requests, ok : BOOLEAN]

LEMMA ReplyOK ==
  ASSUME NEW op \in Requests, NEW ok \in BOOLEAN
  PROVE  Reply(op, ok) \in AnyReply
BY DEF Reply, AnyReply

\* What a request of any kind does to the variables around the transaction.
LEMMA FrameKept ==
  ASSUME FrameInv, CurrvalTracked, link' \in BOOLEAN, triggers' \in BOOLEAN, changes' \in Nat,
         reply' \in AnyReply,
         NEW E \in SUBSET (Events \cup {"none"}), happened' = happened \cup (E \ {"none"}),
         \/ UNCHANGED <<seen, drawn>>
         \/ \E use \in Uses, ok \in BOOLEAN :
              /\ Draws(use, ok)
              /\ \/ Records(use, ok) /\ SequenceEvents(use, ok) \subseteq E
                 \/ seen' = seen /\ (use = "nextval" => "returningSequence" \in E)
  PROVE  FrameInv' /\ CurrvalTracked'
<1>1. happened' \subseteq Events /\ happened \subseteq happened'
  BY DEF FrameInv
<1>2. ASSUME NEW e \in {"failedSequence", "returningSequence"}, Met({e}) \/ e \in E
      PROVE  Met({e})'
  BY <1>2 DEF Met
<1>3. /\ drawn \in BOOLEAN /\ seen \in BOOLEAN
      /\ ~Met({"failedSequence"}) => (seen => drawn)
      /\ ~Met({"returningSequence"}) => (drawn => seen)
  BY DEF FrameInv, CurrvalTracked
<1>4. CASE UNCHANGED <<seen, drawn>>
  <2>1. drawn' \in BOOLEAN /\ seen' \in BOOLEAN
    BY <1>3, <1>4
  <2>2. CurrvalTracked'
    BY <1>2, <1>3, <1>4 DEF CurrvalTracked
  <2> QED BY <1>1, <2>1, <2>2 DEF FrameInv, AnyReply
<1>5. ASSUME NEW use \in Uses, NEW ok \in BOOLEAN, Draws(use, ok),
             \/ Records(use, ok) /\ SequenceEvents(use, ok) \subseteq E
             \/ seen' = seen /\ (use = "nextval" => "returningSequence" \in E)
      PROVE  FrameInv' /\ CurrvalTracked'
  <2>1. /\ use # "nextval" => drawn' = drawn
        /\ use = "nextval" /\ ok => drawn' = TRUE
        /\ drawn' = drawn \/ drawn' = TRUE
    BY <1>5 DEF Draws
  <2>2. /\ seen' = seen \/ seen' = TRUE
        /\ seen' = (seen \/ use = "nextval") \/ (seen' = seen /\ (use = "nextval" => "returningSequence" \in E))
    <3>1. CASE Records(use, ok)
      BY <1>3, <3>1 DEF Records
    <3> QED BY <1>5, <3>1
  <2>3. drawn' \in BOOLEAN /\ seen' \in BOOLEAN
    BY <1>3, <2>1, <2>2
  <2>4. ~Met({"failedSequence"})' => (seen' => drawn')
    <3>1. CASE use = "nextval" /\ ~ok /\ SequenceEvents(use, ok) \subseteq E
      <4>1. "failedSequence" \in E
        BY <3>1 DEF SequenceEvents
      <4> QED BY <4>1, <1>2
    <3>2. CASE use = "nextval" /\ ok
      BY <2>1, <3>2
    <3>3. CASE use # "nextval"
      <4>1. drawn' = drawn /\ seen' = seen
        BY <2>1, <2>2, <1>3, <3>3
      <4> QED BY <4>1, <1>2, <1>3
    <3>4. CASE use = "nextval" /\ ~ok /\ seen' = seen
      <4>1. drawn => drawn'
        BY <2>1
      <4> QED BY <4>1, <1>2, <1>3, <3>4
    <3> QED BY <1>5, <3>1, <3>2, <3>3, <3>4
  <2>5. ~Met({"returningSequence"})' => (drawn' => seen')
    <3>1. CASE "returningSequence" \in E
      BY <3>1, <1>2
    <3>2. CASE use = "nextval" /\ seen' = (seen \/ use = "nextval")
      BY <3>2
    <3>3. CASE use # "nextval"
      <4>1. drawn' = drawn /\ seen' = seen
        BY <2>1, <2>2, <1>3, <3>3
      <4> QED BY <4>1, <1>2, <1>3
    <3> QED BY <2>2, <3>1, <3>2, <3>3
  <2>6. CurrvalTracked'
    BY <2>4, <2>5 DEF CurrvalTracked
  <2> QED BY <1>1, <2>3, <2>6 DEF FrameInv, AnyReply
<1> QED BY <1>4, <1>5

\* The answer of a statement, live or over a dead link.
LEMMA ResultType ==
  ASSUME FrameInv, NEW results, NEW r \in Served(results), NEW ds, NEW kinds,
         kinds \subseteq Events \cup {"none"}, link => Matches(srv, r, ds, kinds)
  PROVE  r.ok \in BOOLEAN /\ r.event \in Events \cup {"none"}
<1>1. CASE link
  BY <1>1 DEF Matches
<1>2. CASE ~link
  <2>1. r = Result(srv, FALSE, "none")
    BY <1>2, ServedIs DEF FrameInv
  <2>2. r.ok = FALSE /\ r.event = "none"
    BY <2>1 DEF Result
  <2> QED BY <2>2
<1> QED BY <1>1, <1>2

LEMMA AnswersFrame ==
  ASSUME FrameInv, NEW op \in Requests, NEW r, r.ok \in BOOLEAN, r.event \in Events \cup {"none"},
         NEW ds, Len(ds) \in Nat, NEW E \in SUBSET Events, Answers(op, r, ds, E)
  PROVE  /\ reply' \in AnyReply /\ changes' \in Nat
         /\ E \cup {r.event} \in SUBSET (Events \cup {"none"})
         /\ happened' = happened \cup ((E \cup {r.event}) \ {"none"})
<1>1. reply' \in AnyReply
  BY ReplyOK DEF Answers
<1>2. changes' \in Nat
  BY DEF Answers, FrameInv
<1> QED BY <1>1, <1>2 DEF Answers, Meets

LEMMA SequenceEventsType ==
  ASSUME NEW use, NEW ok
  PROVE  SequenceEvents(use, ok) \in SUBSET Events
BY DEF SequenceEvents, Events

LEMMA DmlFrame ==
  ASSUME Inv, NEW use \in Uses, Dml(use)
  PROVE  FrameInv' /\ CurrvalTracked'
<1>1. PICK r \in Served(OrdinaryResults(srv, changes + 1)) :
        /\ Records(use, r.ok) /\ Draws(use, r.ok)
        /\ Answers("CHANGE", r, <<changes + 1>>, SequenceEvents(use, r.ok))
  BY DEF Dml
<1>2. /\ changes + 1 \in Nat /\ link \in BOOLEAN /\ Transaction(srv) /\ link' = link
      /\ triggers' = triggers /\ triggers \in BOOLEAN /\ FrameInv /\ CurrvalTracked
  BY DEF Inv, FrameInv, Core, SrvInv, Dml
<1>3. link => Matches(srv, r, {changes + 1}, {"none", "deadlock"})
  BY <1>2, ServedIs, OrdinaryOutcome
<1>4. {"none", "deadlock"} \subseteq Events \cup {"none"} /\ "CHANGE" \in Requests
  BY DEF Events, Requests
<1>5. r.ok \in BOOLEAN /\ r.event \in Events \cup {"none"}
  BY <1>2, <1>3, <1>4, ResultType
<1> DEFINE E == SequenceEvents(use, r.ok) \cup {r.event}
<1>6. /\ reply' \in AnyReply /\ changes' \in Nat /\ E \in SUBSET (Events \cup {"none"})
      /\ happened' = happened \cup (E \ {"none"})
  <2>1. Len(<<changes + 1>>) \in Nat
    OBVIOUS
  <2> QED BY <1>1, <1>2, <1>4, <1>5, <2>1, SequenceEventsType, AnswersFrame
<1>7. SequenceEvents(use, r.ok) \subseteq E
  OBVIOUS
<1> HIDE DEF E
<1> QED BY <1>1, <1>2, <1>5, <1>6, <1>7, FrameKept

LEMMA ReturningFrame ==
  ASSUME Inv, NEW use \in Uses, Returning(use)
  PROVE  FrameInv' /\ CurrvalTracked'
<1> DEFINE F == IF use = "nextval" THEN {"returningSequence"} ELSE {}
<1>1. PICK r \in Served(ReturningResults(srv, changes + 1)) :
        Draws(use, r.ok) /\ Answers("CHANGE", r, <<changes + 1>>, F)
  BY DEF Returning
<1>2. /\ changes + 1 \in Nat /\ link \in BOOLEAN /\ Transaction(srv) /\ link' = link
      /\ triggers' = triggers /\ triggers \in BOOLEAN /\ seen' = seen
      /\ FrameInv /\ CurrvalTracked
  BY DEF Inv, FrameInv, Core, SrvInv, Returning, proxy
<1>3. link => Matches(srv, r, {changes + 1}, {"none", "returningError", "deadlock"})
  BY <1>2, ServedIs, ReturningOutcome
<1>4. /\ {"none", "returningError", "deadlock"} \subseteq Events \cup {"none"}
      /\ "CHANGE" \in Requests /\ F \in SUBSET Events
  BY DEF Events, Requests
<1>5. r.ok \in BOOLEAN /\ r.event \in Events \cup {"none"}
  BY <1>2, <1>3, <1>4, ResultType
<1> DEFINE E == F \cup {r.event}
<1>7. use = "nextval" => "returningSequence" \in E
  OBVIOUS
<1> HIDE DEF F
<1>6. /\ reply' \in AnyReply /\ changes' \in Nat /\ E \in SUBSET (Events \cup {"none"})
      /\ happened' = happened \cup (E \ {"none"})
  <2>1. Len(<<changes + 1>>) \in Nat
    OBVIOUS
  <2> QED BY <1>1, <1>2, <1>4, <1>5, <2>1, AnswersFrame
<1> HIDE DEF E
<1> QED BY <1>1, <1>2, <1>5, <1>6, <1>7, FrameKept

\* A statement that leaves the sequences alone.
LEMMA PlainFrame ==
  ASSUME Inv, UNCHANGED <<link, proxy, drawn>>, NEW op \in Requests, NEW results,
         NEW r \in Served(results), NEW tried, NEW kinds, kinds \subseteq Events \cup {"none"},
         link => Matches(srv, r, tried, kinds),
         NEW ds, Len(ds) \in Nat, Answers(op, r, ds, {})
  PROVE  FrameInv' /\ CurrvalTracked'
<1>1. /\ link' \in BOOLEAN /\ triggers' \in BOOLEAN /\ UNCHANGED <<seen, drawn>>
      /\ FrameInv /\ CurrvalTracked
  BY DEF Inv, FrameInv, proxy
<1>2. r.ok \in BOOLEAN /\ r.event \in Events \cup {"none"}
  BY <1>1, ResultType
<1> DEFINE E == {} \cup {r.event}
<1>3. /\ reply' \in AnyReply /\ changes' \in Nat /\ E \in SUBSET (Events \cup {"none"})
      /\ happened' = happened \cup (E \ {"none"})
  <2>1. {} \in SUBSET Events
    OBVIOUS
  <2> QED BY <1>1, <1>2, <2>1, AnswersFrame
<1> HIDE DEF E
<1> QED BY <1>1, <1>3, FrameKept

\* A request with no event but those of E.
LEMMA OtherFrame ==
  ASSUME Inv, NEW op \in Requests, NEW ok \in BOOLEAN, reply' = Reply(op, ok) \/ reply' = reply,
         link' \in BOOLEAN, triggers' \in BOOLEAN, UNCHANGED <<seen, drawn, changes>>,
         NEW E \in SUBSET (Events \cup {"none"}), happened' = happened \cup (E \ {"none"})
  PROVE  FrameInv' /\ CurrvalTracked'
<1>1. FrameInv /\ CurrvalTracked /\ changes' \in Nat
  BY DEF Inv, FrameInv
<1>2. reply' \in AnyReply
  BY <1>1, ReplyOK DEF FrameInv, AnyReply
<1> QED BY <1>1, <1>2, FrameKept

LEMMA QueryFrame ==
  ASSUME Inv, NEW use \in Uses, Query(use)
  PROVE  FrameInv' /\ CurrvalTracked'
<1>0. "QUERY" \in Requests
  BY DEF Requests
<1>1. /\ link \in BOOLEAN /\ triggers' \in BOOLEAN /\ changes' = changes /\ changes' \in Nat
      /\ FrameInv /\ CurrvalTracked
  BY DEF Inv, FrameInv, Query
<1>2. CASE Refused(use)
  <2>1. reply' = Reply("QUERY", FALSE) /\ UNCHANGED <<link, seen, drawn, happened>>
    BY <1>2 DEF Query
  <2>2. happened' = happened \cup ({} \ {"none"})
    BY <2>1
  <2>3. {} \in SUBSET (Events \cup {"none"}) /\ FALSE \in BOOLEAN
    OBVIOUS
  <2> QED BY <1>0, <1>1, <2>1, <2>2, <2>3, OtherFrame
<1>3. CASE ~Refused(use)
  <2>1. PICK ok \in BOOLEAN :
          /\ Records(use, ok) /\ reply' = Reply("QUERY", ok)
          /\ link' = link \/ link' = TRUE
          /\ Draws(use, ok)
          /\ \E deadlock \in {FALSE, link /\ ~ok} :
               Meets(Deadlocks(deadlock) \cup SequenceEvents(use, ok))
    BY <1>3 DEF Query
  <2>2. link' \in BOOLEAN
    BY <1>1, <2>1
  <2>3. reply' \in AnyReply
    BY <1>0, <2>1, ReplyOK
  <2>4. PICK deadlock : Meets(Deadlocks(deadlock) \cup SequenceEvents(use, ok))
    BY <2>1
  <2> DEFINE E == Deadlocks(deadlock) \cup SequenceEvents(use, ok)
  <2>5. E \in SUBSET (Events \cup {"none"})
    BY SequenceEventsType DEF Deadlocks, Events
  <2>6. SequenceEvents(use, ok) \subseteq E /\ happened' = happened \cup (E \ {"none"})
    BY <2>4 DEF Meets
  <2> HIDE DEF E
  <2> QED BY <1>1, <2>1, <2>2, <2>3, <2>5, <2>6, FrameKept
<1> QED BY <1>2, <1>3

LEMMA PlainStatementFrame ==
  ASSUME Inv, Batch \/ Program \/ InsteadOfDml \/ SetTransaction
  PROVE  FrameInv' /\ CurrvalTracked'
<1>1. /\ changes \in Nat /\ changes + 1 \in Nat /\ link \in BOOLEAN /\ Transaction(srv)
      /\ UNCHANGED <<link, proxy, drawn>>
  <2>1. changes \in Nat /\ changes + 1 \in Nat /\ link \in BOOLEAN /\ Transaction(srv)
    BY DEF Inv, FrameInv, Core, SrvInv
  <2>2. CASE Program
    BY <2>1, <2>2 DEF Program
  <2>3. CASE Batch
    BY <2>1, <2>3 DEF Batch
  <2>4. CASE InsteadOfDml
    BY <2>1, <2>4 DEF InsteadOfDml
  <2>5. CASE SetTransaction
    BY <2>1, <2>5 DEF SetTransaction
  <2> QED BY <2>2, <2>3, <2>4, <2>5
<1>2. "CHANGE" \in Requests /\ "SET" \in Requests
  BY DEF Requests
<1>3. /\ Len(<<changes + 1>>) \in Nat /\ Len(<<changes + 1, changes + 2>>) \in Nat
      /\ Len(<<>>) \in Nat
  OBVIOUS
<1>4. CASE Batch
  <2>1. PICK r \in Served(BatchResults(srv, changes + 1)) :
          Answers("CHANGE", r, <<changes + 1, changes + 2>>, {})
    BY <1>4 DEF Batch
  <2>2. link => Matches(srv, r, {changes + 1, (changes + 1) + 1}, {"none", "batchError", "deadlock"})
    BY <1>1, ServedIs, BatchOutcome
  <2>3. {"none", "batchError", "deadlock"} \subseteq Events \cup {"none"}
    BY DEF Events
  <2> QED BY <1>1, <1>2, <1>3, <2>1, <2>2, <2>3, PlainFrame
<1>5. CASE Program
  <2>1. PICK deadlock, t : Transaction(t) /\ ProgramAnswer(deadlock, t)
    BY <1>1, <1>5, ProgramIs, DeadlockOutcome DEF Outcome
  <2>2. PICK r \in Served(ProgramResults(t, changes + 1)) :
          Answers("CHANGE", r, <<changes + 1>>, Deadlocks(deadlock))
    BY <2>1 DEF ProgramAnswer
  <2>3. r.ok \in BOOLEAN /\ r.event \in Events \cup {"none"}
    <3>1. CASE link
      <4>1. Matches(t, r, {changes + 1}, {"program"})
        BY <1>1, <2>1, <2>2, <3>1, ServedIs, ProgramOutcome
      <4> QED BY <4>1 DEF Matches, Events
    <3>2. CASE ~link
      <4>1. r = Result(srv, FALSE, "none")
        BY <1>1, <2>2, <3>2, ServedIs
      <4>2. r.ok = FALSE /\ r.event = "none"
        BY <4>1 DEF Result
      <4> QED BY <4>2
    <3> QED BY <3>1, <3>2
  <2>4. Deadlocks(deadlock) \in SUBSET Events
    BY DEF Deadlocks, Events
  <2>5. /\ link' \in BOOLEAN /\ triggers' \in BOOLEAN /\ UNCHANGED <<seen, drawn>>
        /\ FrameInv /\ CurrvalTracked
    BY <1>1 DEF Inv, FrameInv, proxy
  <2> DEFINE E == Deadlocks(deadlock) \cup {r.event}
  <2>6. /\ reply' \in AnyReply /\ changes' \in Nat /\ E \in SUBSET (Events \cup {"none"})
        /\ happened' = happened \cup (E \ {"none"})
    BY <1>2, <1>3, <2>2, <2>3, <2>4, <2>5, AnswersFrame
  <2> HIDE DEF E
  <2> QED BY <2>5, <2>6, FrameKept
<1>6. CASE InsteadOfDml
  <2>1. PICK r \in Served(InsteadOfResults(srv, changes + 1)) :
          Answers("CHANGE", r, <<changes + 1>>, {})
    BY <1>6 DEF InsteadOfDml
  <2>2. link => Matches(srv, r, {changes + 1}, {"none", "insteadOf", "deadlock"})
    BY <1>1, ServedIs, InsteadOfOutcome
  <2>3. {"none", "insteadOf", "deadlock"} \subseteq Events \cup {"none"}
    BY DEF Events
  <2> QED BY <1>1, <1>2, <1>3, <2>1, <2>2, <2>3, PlainFrame
<1>7. CASE SetTransaction
  <2>1. PICK r \in Served(SetTransactionResults(srv)) : Answers("SET", r, <<>>, {})
    BY <1>7 DEF SetTransaction
  <2>2. link => Matches(srv, r, {}, {"setTransaction"})
    BY <1>1, ServedIs, SetTransactionOutcome
  <2>3. {"setTransaction"} \subseteq Events \cup {"none"}
    BY DEF Events
  <2> QED BY <1>1, <1>2, <1>3, <2>1, <2>2, <2>3, PlainFrame
<1> QED BY <1>4, <1>5, <1>6, <1>7

LEMMA ArrayFrame ==
  ASSUME Inv, ArrayDml
  PROVE  FrameInv' /\ CurrvalTracked'
<1>0. "CHANGE" \in Requests /\ {"none", "deadlock"} \subseteq Events \cup {"none"}
  BY DEF Requests, Events
<1>1. PICK r1 \in Served(OrdinaryResults(srv, changes + 1)) :
        IF ~r1.ok THEN Answers("CHANGE", r1, <<changes + 1>>, {})
        ELSE \E r2 \in OrdinaryResults(r1.srv, changes + 2) :
          /\ changes' = changes + 2
          /\ reply' = Reply("CHANGE", r2.ok)
          /\ Meets({r2.event})
  BY DEF ArrayDml
<1>2. /\ changes \in Nat /\ changes + 1 \in Nat /\ changes + 2 \in Nat /\ link \in BOOLEAN
      /\ Transaction(srv) /\ UNCHANGED <<link, proxy, drawn>> /\ FrameInv /\ CurrvalTracked
  BY DEF Inv, FrameInv, Core, SrvInv, ArrayDml
<1>3. link => Matches(srv, r1, {changes + 1}, {"none", "deadlock"})
  BY <1>2, ServedIs, OrdinaryOutcome
<1>4. CASE ~r1.ok
  <2>1. Len(<<changes + 1>>) \in Nat
    OBVIOUS
  <2> QED BY <1>0, <1>1, <1>2, <1>3, <1>4, <2>1, PlainFrame
<1>5. CASE r1.ok
  <2>1. link
    BY <1>2, <1>5, ServedIs DEF Result
  <2>2. Transaction(r1.srv)
    BY <1>3, <2>1 DEF Matches, Outcome
  <2>3. PICK r2 \in OrdinaryResults(r1.srv, changes + 2) :
          /\ changes' = changes + 2
          /\ reply' = Reply("CHANGE", r2.ok)
          /\ Meets({r2.event})
    BY <1>1, <1>5
  <2>4. r2.ok \in BOOLEAN /\ r2.event \in {"none", "deadlock"}
    BY <1>2, <2>2, OrdinaryOutcome DEF Matches
  <2>5. reply' \in AnyReply
    BY <1>0, <2>3, <2>4, ReplyOK
  <2> DEFINE E == {r2.event}
  <2>6. E \in SUBSET (Events \cup {"none"}) /\ happened' = happened \cup (E \ {"none"})
    BY <1>0, <2>3, <2>4 DEF Meets
  <2>7. link' \in BOOLEAN /\ triggers' \in BOOLEAN /\ UNCHANGED <<seen, drawn>> /\ changes' \in Nat
    BY <1>2, <2>3 DEF FrameInv, proxy
  <2> HIDE DEF E
  <2> QED BY <1>2, <2>5, <2>6, <2>7, FrameKept
<1> QED BY <1>4, <1>5

LEMMA DdlFrame ==
  ASSUME Inv, NEW ofTrigger \in BOOLEAN, Ddl(ofTrigger)
  PROVE  FrameInv' /\ CurrvalTracked'
<1>1. PICK r \in Served(IF ofTrigger THEN {Result(SqlStart(SqlCommit(srv)), TRUE, "none")}
                        ELSE DdlResults(srv)) :
        /\ triggers' = (triggers \/ (ofTrigger /\ r.ok))
        /\ reply' = Reply("DDL", r.ok) /\ Meets({r.event})
  BY DEF Ddl
<1>2. link \in BOOLEAN /\ UNCHANGED <<link, seen, drawn, changes>> /\ triggers \in BOOLEAN
  BY DEF Ddl, Inv, FrameInv
<1>3. r.ok \in BOOLEAN /\ r.event \in {"none", "ddlBindError"}
  <2>1. CASE ~link
    <3>1. r \in {Result(srv, FALSE, "none")}
      BY <2>1 DEF Served
    <3>2. r = Result(srv, FALSE, "none")
      BY <3>1
    <3> QED BY <3>2, Zenon DEF Result
  <2>2. CASE link /\ ofTrigger
    <3>1. r \in {Result(SqlStart(SqlCommit(srv)), TRUE, "none")}
      BY <2>2 DEF Served
    <3>2. r = Result(SqlStart(SqlCommit(srv)), TRUE, "none")
      BY <3>1
    <3> QED BY <3>2, Zenon DEF Result
  <2>3. CASE link /\ ~ofTrigger
    <3>1. r \in DdlResults(srv)
      BY <1>2, <2>3, ServedIs
    <3>2. CASE r = Result(SqlCommit(srv), FALSE, "ddlBindError")
      BY <3>2, Zenon DEF Result
    <3>3. ASSUME NEW ok \in BOOLEAN, r = Result(SqlStart(SqlCommit(srv)), ok, "none")
          PROVE  r.ok \in BOOLEAN /\ r.event \in {"none", "ddlBindError"}
      BY <3>3, Zenon DEF Result
    <3> QED BY <3>1, <3>2, <3>3, Zenon DEF DdlResults
  <2> QED BY <1>2, <2>1, <2>2, <2>3
<1>4. triggers' \in BOOLEAN
  BY <1>1, <1>2, <1>3
<1> DEFINE E == {r.event}
<1>5. E \in SUBSET (Events \cup {"none"}) /\ happened' = happened \cup (E \ {"none"})
  BY <1>1, <1>3 DEF Meets, Events
<1>6. "DDL" \in Requests
  BY DEF Requests
<1> HIDE DEF E
<1> QED BY <1>1, <1>2, <1>3, <1>4, <1>5, <1>6, OtherFrame

LEMMA ControlFrame ==
  ASSUME Inv, NEW op \in Requests, NEW after, NEW ok \in BOOLEAN, NEW told,
         Control(op, after, ok, told)
  PROVE  FrameInv' /\ CurrvalTracked'
<1>1. /\ link \in BOOLEAN /\ link' = link /\ triggers \in BOOLEAN /\ triggers' = triggers
      /\ UNCHANGED <<seen, drawn, changes>>
      /\ happened' = happened \cup ({} \ {"none"}) /\ reply' = Reply(op, link /\ ok)
  BY DEF Control, Inv, FrameInv, proxy
<1>2. (link /\ ok) \in BOOLEAN
  BY <1>1
<1>3. {} \in SUBSET (Events \cup {"none"})
  OBVIOUS
<1> QED BY <1>1, <1>2, <1>3, OtherFrame

LEMMA TransactionFrame ==
  ASSUME Inv, NEW n, Commit \/ Rollback \/ Savepoint(n) \/ RollbackTo(n) \/ Release(n)
                      \/ RefusedDml \/ LoseLink \/ LoseCommit
  PROVE  FrameInv' /\ CurrvalTracked'
<1>1. /\ {"COMMIT", "ROLLBACK", "SAVEPOINT", "ROLLBACK TO", "RELEASE", "CHANGE"} \subseteq Requests
      /\ HasSave(srv, n) \in BOOLEAN
  BY DEF Requests, HasSave, Named
<1>2. CASE Commit
  BY <1>1, <1>2, ControlFrame DEF Commit
<1>3. CASE Rollback
  BY <1>1, <1>3, ControlFrame DEF Rollback
<1>4. CASE Savepoint(n)
  BY <1>1, <1>4, ControlFrame DEF Savepoint
<1>5. CASE RollbackTo(n)
  BY <1>1, <1>5, ControlFrame DEF RollbackTo
<1>0. link \in BOOLEAN /\ triggers \in BOOLEAN
  BY DEF Inv, FrameInv
<1>6. CASE Release(n)
  <2> DEFINE E == {"releaseSavepoint"}
             ok == link /\ HasSave(srv, n)
  <2>1. /\ link' = link /\ triggers' = triggers /\ UNCHANGED <<seen, drawn, changes>>
        /\ reply' = Reply("RELEASE", ok)
    BY <1>6 DEF Release, proxy
  <2>2. E \in SUBSET (Events \cup {"none"}) /\ happened' = happened \cup (E \ {"none"})
    BY <1>6 DEF Release, Meets, Events
  <2>3. ok \in BOOLEAN
    BY <1>0, <1>1
  <2> HIDE DEF E, ok
  <2> QED BY <1>0, <1>1, <2>1, <2>2, <2>3, OtherFrame
<1>7. CASE RefusedDml
  <2>1. /\ link' = link /\ triggers' = triggers /\ UNCHANGED <<seen, drawn, changes>>
        /\ reply' = Reply("CHANGE", FALSE) /\ happened' = happened \cup ({} \ {"none"})
    BY <1>7 DEF RefusedDml, proxy
  <2>2. {} \in SUBSET (Events \cup {"none"}) /\ FALSE \in BOOLEAN
    OBVIOUS
  <2> QED BY <1>0, <1>1, <2>1, <2>2, OtherFrame
<1>8. CASE LoseLink
  <2>1. /\ link' \in BOOLEAN /\ triggers' = triggers /\ UNCHANGED <<seen, drawn, changes>>
        /\ reply' = reply
    BY <1>8 DEF LoseLink, proxy
  <2> DEFINE E == {"lost"}
  <2>2. E \in SUBSET (Events \cup {"none"}) /\ happened' = happened \cup (E \ {"none"})
    BY <1>8 DEF LoseLink, Meets, Events
  <2> HIDE DEF E
  <2>3. FALSE \in BOOLEAN
    OBVIOUS
  <2> QED BY <1>0, <1>1, <2>1, <2>2, <2>3, OtherFrame
<1>9. CASE LoseCommit
  <2>1. /\ link' \in BOOLEAN /\ triggers' = triggers /\ UNCHANGED <<seen, drawn, changes>>
        /\ reply' = Reply("COMMIT", FALSE)
    BY <1>9 DEF LoseCommit, proxy
  <2> DEFINE E == {"inDoubt"}
  <2>2. E \in SUBSET (Events \cup {"none"}) /\ happened' = happened \cup (E \ {"none"})
    BY <1>9 DEF LoseCommit, Meets, Events
  <2> HIDE DEF E
  <2>3. FALSE \in BOOLEAN
    OBVIOUS
  <2> QED BY <1>0, <1>1, <2>1, <2>2, <2>3, OtherFrame
<1> QED BY <1>2, <1>3, <1>4, <1>5, <1>6, <1>7, <1>8, <1>9

-----------------------------------------------------------------------------
(* The invariant holds from the start, and every step keeps it. *)

LEMMA InitInv == Init => Inv
<1> SUFFICES ASSUME Init PROVE Inv
  OBVIOUS
<1>0. /\ srv = NewConnection({}) /\ link = TRUE /\ triggers = FALSE /\ seen = FALSE
      /\ drawn = FALSE /\ changes = 0 /\ believed = NoWork /\ happened = {}
      /\ reply = Reply("AUTH", TRUE)
  BY DEF Init
<1>1. /\ Transaction(srv) /\ srv.open /\ srv.work = <<>> /\ srv.saves = <<>> /\ srv.db = {}
  <2>1. {} \in SUBSET Nat
    OBVIOUS
  <2> QED BY <1>0, <2>1, NewConnectionOK
<1>2. /\ Belief(believed) /\ believed.pending = <<>> /\ believed.marks = <<>>
      /\ believed.durable = {}
  <2>1. {} \in SUBSET Nat
    OBVIOUS
  <2> QED BY <1>0, <2>1, NothingPending DEF NoWork
<1>3. Contents(srv) = {} /\ Range(believed.pending) = {} /\ Range(srv.work) = {}
  BY <1>1, <1>2, EmptyRange DEF Contents
<1>4. SrvInv /\ BeliefInv /\ LinkInv /\ InTransaction
  BY <1>0, <1>1, <1>2, NoSaves DEF SrvInv, BeliefInv, LinkInv, InTransaction, HasSave
<1>5. NumberInv /\ PendingNotDurable /\ Agree
  BY <1>1, <1>2, <1>3 DEF NumberInv, PendingNotDurable, Agree, Within
<1>6. LossInv /\ AskInv
  BY <1>1, <1>2, <1>3 DEF LossInv, AskInv
<1>7. FrameInv
  <2>1. reply \in AnyReply
    BY <1>0, ReplyOK DEF Requests
  <2> QED BY <1>0, <2>1 DEF FrameInv, AnyReply
<1>8. CurrvalTracked
  BY <1>0 DEF CurrvalTracked
<1> QED BY <1>4, <1>5, <1>6, <1>7, <1>8 DEF Inv, Core

LEMMA CoreNext ==
  ASSUME Inv, Next
  PROVE  Core'
<1>0. Core /\ FrameInv
  BY DEF Inv
<1>1. ASSUME NEW use \in Uses, Query(use) \/ Dml(use) \/ Returning(use) PROVE Core'
  BY <1>0, <1>1, QueryStep, DmlStep, ReturningStep
<1>2. CASE RefusedDml
  <2>1. UNCHANGED <<srv, link, changes, believed>> /\ happened \subseteq happened'
    BY <1>2 DEF RefusedDml
  <2> QED BY <1>0, <2>1, StillStep
<1>3. CASE Batch \/ Program \/ InsteadOfDml \/ ArrayDml
  BY <1>0, <1>3, BatchStep, ProgramStep, InsteadOfStep, ArrayStep
<1>4. ASSUME NEW ofTrigger \in BOOLEAN, Ddl(ofTrigger) PROVE Core'
  BY <1>0, <1>4, DdlStep
<1>5. CASE Commit \/ Rollback \/ SetTransaction
  BY <1>0, <1>5, CommitStep, RollbackStep, SetTransactionStep
<1>6. ASSUME NEW n \in Savepoints, Savepoint(n) \/ RollbackTo(n) \/ Release(n) PROVE Core'
  BY <1>0, <1>6, SavepointStep, RollbackToStep, ReleaseStep
<1>7. CASE LoseLink \/ LoseCommit
  BY <1>0, <1>7, LoseLinkStep, LoseCommitStep
<1> QED BY <1>1, <1>2, <1>3, <1>4, <1>5, <1>6, <1>7 DEF Next

LEMMA FrameNext ==
  ASSUME Inv, Next
  PROVE  FrameInv' /\ CurrvalTracked'
<1>1. ASSUME NEW use \in Uses, Query(use) \/ Dml(use) \/ Returning(use)
      PROVE  FrameInv' /\ CurrvalTracked'
  BY <1>1, QueryFrame, DmlFrame, ReturningFrame
<1>2. CASE RefusedDml \/ Commit \/ Rollback \/ LoseLink \/ LoseCommit
  BY <1>2, TransactionFrame
<1>3. CASE Batch \/ Program \/ InsteadOfDml \/ SetTransaction
  BY <1>3, PlainStatementFrame
<1>4. CASE ArrayDml
  BY <1>4, ArrayFrame
<1>5. ASSUME NEW ofTrigger \in BOOLEAN, Ddl(ofTrigger) PROVE FrameInv' /\ CurrvalTracked'
  BY <1>5, DdlFrame
<1>6. ASSUME NEW n \in Savepoints, Savepoint(n) \/ RollbackTo(n) \/ Release(n)
      PROVE  FrameInv' /\ CurrvalTracked'
  BY <1>6, TransactionFrame
<1> QED BY <1>1, <1>2, <1>3, <1>4, <1>5, <1>6 DEF Next

LEMMA NextInv == Inv /\ [Next]_vars => Inv'
<1>1. ASSUME Inv, Next PROVE Inv'
  BY <1>1, CoreNext, FrameNext DEF Inv
<1>2. ASSUME Inv, UNCHANGED vars PROVE Inv'
  <2>1. /\ UNCHANGED <<srv, link, triggers, seen, drawn, changes, believed, happened, reply>>
        /\ happened \subseteq happened'
    BY <1>2 DEF vars, proxy
  <2>2. Core /\ FrameInv /\ CurrvalTracked
    BY <1>2 DEF Inv
  <2>3. Core'
    BY <2>1, <2>2, StillStep
  <2>4. FrameInv'
    BY <2>1, <2>2 DEF FrameInv
  <2>5. CurrvalTracked'
    BY <2>1, <2>2 DEF CurrvalTracked, Met
  <2> QED BY <2>3, <2>4, <2>5 DEF Inv
<1> QED BY <1>1, <1>2

LEMMA SpecInv == Spec => []Inv
BY InitInv, NextInv, PTL DEF Spec

-----------------------------------------------------------------------------
(* The theorems. *)

LEMMA InvType == Inv => TypeOK
<1> SUFFICES ASSUME Inv PROVE TypeOK
  OBVIOUS
<1>1. /\ Transaction(srv) /\ (HasSave(srv, Wrapper) => "batchError" \in happened)
      /\ believed \in [pending : Seq(Nat), marks : Seq(Mark), durable : SUBSET Nat]
  BY DEF Inv, Core, SrvInv, BeliefInv, Belief, BeliefType
<1>2. FrameInv
  BY DEF Inv
<1> QED BY <1>1, <1>2 DEF TypeOK, FrameInv

\* Every variable has its type, a transaction's savepoints point into its work in
\* order, and dbsaci_statement outlives no statement but a batch that failed:
\* execute_simple and execute_statement release it on every other path.
THEOREM MariaDbType == Spec => []TypeOK
BY SpecInv, InvType, PTL

\* The connection is always inside a transaction: every path of COMMIT, ROLLBACK
\* and execute_ddl but three ends with START TRANSACTION.
THEOREM MariaDbInTransaction == Spec => []InTransaction
<1>1. Inv => InTransaction
  BY DEF Inv, Core
<1> QED BY <1>1, SpecInv, PTL

\* However statements fail and savepoints nest, a change answered with success
\* and not rolled back is in the transaction or durable, until the link is lost
\* or MariaDB ends a deadlock.
THEOREM MariaDbNoChangeLost == Spec => []NoChangeLost
<1>1. Inv => NoChangeLost
  BY DEF Inv, Core, LossInv, NoChangeLost, Promised, Present, Contents
<1> QED BY <1>1, SpecInv, PTL

\* Nothing else is: the recovery of a failed statement leaves no trace of it, and
\* ROLLBACK, to a savepoint or whole, takes back all it should.
THEOREM MariaDbNothingUnasked == Spec => []NothingUnasked
<1>1. Inv => NothingUnasked
  <2>1. Unwrapped = {"batchError", "program", "insteadOf", "returningError",
                     "ddlBindError", "setTransaction", "inDoubt"}
    BY DEF Unwrapped, Outside
  <2> QED BY <2>1 DEF Inv, Core, AskInv, NothingUnasked, Promised, Present
<1> QED BY <1>1, SpecInv, PTL

\* What the client has not committed is not durable, whatever failed before.
THEOREM MariaDbPendingNotDurable == Spec => []PendingNotDurable
<1>1. Inv => PendingNotDurable
  BY DEF Inv, Core
<1> QED BY <1>1, SpecInv, PTL

\* The proxy's record of the sequences a session has drawn from is right, but for
\* NEXTVAL in a statement that failed or had RETURNING.
THEOREM MariaDbCurrval == Spec => []CurrvalTracked
<1>1. Inv => CurrvalTracked
  BY DEF Inv
<1> QED BY <1>1, SpecInv, PTL

-----------------------------------------------------------------------------
(* The refinement: a behaviour without events is one of OracleTxn. *)

LEMMA SameSaved ==
  ASSUME NEW saves, NEW n, NEW len
  PROVE  Oracle!Saved(saves, n, len) = Saved(saves, n, len)
BY DEF Oracle!Saved, Saved, Oracle!Others, Others, Oracle!Named, Named,
       Oracle!Position, Position, Oracle!RemoveAt, RemoveAt

LEMMA SameRange ==
  ASSUME NEW f
  PROVE  Oracle!Range(f) = Range(f)
BY DEF Oracle!Range, Range

LEMMA OracleInit == Init => Oracle!Init
<1> SUFFICES ASSUME Init PROVE Oracle!Init
  OBVIOUS
<1>1. srv.work = <<>> /\ srv.saves = <<>> /\ srv.db = {} /\ reply = Reply("AUTH", TRUE)
  BY DEF Init, NewConnection
<1> QED BY <1>1 DEF Oracle!Init, Oracle!Answer, Reply

\* The statement has made its changes, or none, and touched nothing else.
Clean(s, r, ds) ==
  /\ r.ok \in BOOLEAN
  /\ r.srv.saves = s.saves /\ r.srv.db = s.db
  /\ r.srv.work = IF r.ok THEN s.work \o ds ELSE s.work

LEMMA CleanDone ==
  ASSUME NEW s, NEW t, NEW ds, NEW event, NEW r, r = Result(t, TRUE, event),
         t.saves = s.saves, t.db = s.db, t.work = s.work \o ds
  PROVE  Clean(s, r, ds)
<1>1. r.ok = TRUE /\ r.srv = t
  BY DEF Result
<1> QED BY <1>1 DEF Clean

LEMMA CleanFailed ==
  ASSUME NEW s, NEW t, NEW ds, NEW event, NEW r, r = Result(t, FALSE, event),
         t.saves = s.saves, t.db = s.db, t.work = s.work
  PROVE  Clean(s, r, ds)
<1>1. r.ok = FALSE /\ r.srv = t
  BY DEF Result
<1> QED BY <1>1 DEF Clean

\* In a transaction without dbsaci_statement.
Free(s) == Transaction(s) /\ s.open /\ ~HasSave(s, Wrapper)

LEMMA FreeOthers ==
  ASSUME NEW s, Free(s)
  PROVE  Others(s.saves, Wrapper) = s.saves
BY DEF Free, HasSave, Others

LEMMA ChangeAppends ==
  ASSUME NEW s, Transaction(s), s.open, NEW d \in Nat
  PROVE  LET t == SqlChange(s, d)
         IN  /\ Transaction(t) /\ t.open /\ t.saves = s.saves /\ t.db = s.db
             /\ t.work = s.work \o <<d>>
<1> DEFINE t == SqlChange(s, d)
<1>1. /\ Transaction(t) /\ t.open = s.open /\ t.saves = s.saves
      /\ t.db = s.db /\ t.work = Append(s.work, d)
  BY ChangeOK
<1>2. Append(s.work, d) = s.work \o <<d>>
  BY Fields, AppendIsConcat
<1> QED BY <1>1, <1>2

\* A change under dbsaci_statement.
LEMMA ChangeReleased ==
  ASSUME NEW s, Free(s), NEW t, Transaction(t),
         t.saves = Saved(s.saves, Wrapper, Len(s.work)), t.db = s.db
  PROVE  LET u == SqlRelease(t, Wrapper)
         IN  /\ HasSave(t, Wrapper)
             /\ u.saves = s.saves /\ u.db = s.db /\ u.work = t.work
<1>1. Transaction(s)
  BY DEF Free
<1> DEFINE u == SqlRelease(t, Wrapper)
<1>2. /\ HasSave(t, Wrapper) /\ u.work = t.work /\ u.db = t.db
      /\ u.saves = Others(s.saves, Wrapper)
  BY <1>1, Released
<1> QED BY <1>2, FreeOthers

LEMMA NotAnError ==
  ASSUME NEW r, r.event = "none", NEW event, event # "none", NEW s, r = Result(s, FALSE, event)
  PROVE  FALSE
<1>1. r.event = event
  BY Zenon DEF Result
<1> QED BY <1>1

LEMMA OrdinaryClean ==
  ASSUME NEW s, Free(s), NEW d \in Nat, NEW r \in OrdinaryResults(s, d), r.event = "none"
  PROVE  Clean(s, r, <<d>>)
<1> DEFINE b == SqlSavepoint(s, Wrapper)
           c == SqlChange(b, d)
<1>0. Transaction(s) /\ s.open
  BY DEF Free
<1>1. /\ Transaction(b) /\ b.open /\ b.work = s.work /\ b.db = s.db
      /\ b.saves = Saved(s.saves, Wrapper, Len(s.work))
  BY <1>0, SavepointOK
<1>5. \/ r = Result(SqlRelease(c, Wrapper), HasSave(c, Wrapper), "none")
      \/ r = Result(Recover(b), FALSE, "none")
      \/ r = Result(s, FALSE, "none")
      \/ r = Result(Recover(SqlDeadlock(b)), FALSE, "deadlock")
  BY DEF OrdinaryResults
<1>3. LET u == Recover(b) IN u.saves = s.saves /\ u.db = s.db /\ u.work = s.work
  BY <1>0, Recovered, FreeOthers
<1> HIDE DEF b
<1>2. /\ Transaction(c) /\ c.saves = Saved(s.saves, Wrapper, Len(s.work)) /\ c.db = s.db
      /\ c.work = s.work \o <<d>>
  BY <1>1, ChangeAppends
<1> HIDE DEF c
<1>4. LET u == SqlRelease(c, Wrapper)
      IN  HasSave(c, Wrapper) /\ u.saves = s.saves /\ u.db = s.db /\ u.work = s.work \o <<d>>
  BY <1>2, ChangeReleased
<1>6. CASE r = Result(SqlRelease(c, Wrapper), HasSave(c, Wrapper), "none")
  <2>1. r = Result(SqlRelease(c, Wrapper), TRUE, "none")
    BY <1>4, <1>6 DEF HasSave, Named
  <2> QED BY <2>1, <1>4, CleanDone
<1>7. CASE r = Result(Recover(b), FALSE, "none")
  BY <1>7, <1>3, CleanFailed
<1>8. CASE r = Result(s, FALSE, "none")
  BY <1>8, CleanFailed
<1>9. r # Result(Recover(SqlDeadlock(b)), FALSE, "deadlock")
  BY NotAnError, Zenon
<1> QED BY <1>5, <1>6, <1>7, <1>8, <1>9

LEMMA PairIs ==
  ASSUME NEW d \in Nat, NEW e \in Nat
  PROVE  <<d>> \o <<e>> = <<d, e>>
<1> DEFINE joined == <<d>> \o <<e>>
           pair == <<d, e>>
<1>1. /\ <<d>> \in Seq(Nat) /\ Len(<<d>>) = 1 /\ <<d>>[1] = d
      /\ <<e>> \in Seq(Nat) /\ Len(<<e>>) = 1 /\ <<e>>[1] = e
  OBVIOUS
<1>2. joined \in Seq(Nat) /\ Len(joined) = 2 /\ joined[1] = d /\ joined[2] = e
  BY <1>1, ConcatProperties
<1>3. pair \in Seq(Nat) /\ Len(pair) = 2 /\ pair[1] = d /\ pair[2] = e
  OBVIOUS
<1> HIDE DEF joined, pair
<1>4. \A i \in 1..Len(joined) : joined[i] = pair[i]
  <2>1. \A i \in 1..2 : i = 1 \/ i = 2
    OBVIOUS
  <2> QED BY <1>2, <1>3, <2>1
<1>5. joined = pair
  BY <1>2, <1>3, <1>4, SeqEqual
<1> QED BY <1>5 DEF joined, pair

LEMMA BatchClean ==
  ASSUME NEW s, Free(s), NEW d \in Nat, NEW e \in Nat, e = d + 1,
         NEW r \in BatchResults(s, d), r.event = "none"
  PROVE  Clean(s, r, <<d, e>>)
<1> DEFINE b == SqlSavepoint(s, Wrapper)
           f == SqlChange(b, d)
           c == SqlChange(f, e)
<1>0. Transaction(s) /\ s.open /\ s.work \in Seq(Nat)
  BY Fields DEF Free
<1>1. /\ Transaction(b) /\ b.open /\ b.work = s.work /\ b.db = s.db
      /\ b.saves = Saved(s.saves, Wrapper, Len(s.work))
  BY <1>0, SavepointOK
<1>5. \/ r = Result(SqlRelease(c, Wrapper), HasSave(c, Wrapper), "none")
      \/ r = Result(b, FALSE, "batchError")
      \/ r = Result(f, FALSE, "batchError")
      \/ r = Result(SqlDeadlock(b), FALSE, "deadlock")
      \/ r = Result(SqlDeadlock(f), FALSE, "deadlock")
  BY DEF BatchResults, DeadlockAfter
<1> HIDE DEF b
<1>2. /\ Transaction(f) /\ f.open /\ f.saves = Saved(s.saves, Wrapper, Len(s.work))
      /\ f.db = s.db /\ f.work = s.work \o <<d>>
  <2>1. /\ Transaction(f) /\ f.open /\ f.saves = b.saves /\ f.db = b.db
        /\ f.work = b.work \o <<d>>
    BY <1>1, ChangeAppends
  <2> QED BY <1>1, <2>1
<1> HIDE DEF f
<1>3. /\ Transaction(c) /\ c.saves = Saved(s.saves, Wrapper, Len(s.work)) /\ c.db = s.db
      /\ c.work = (s.work \o <<d>>) \o <<e>>
  BY <1>2, ChangeAppends
<1>10. (s.work \o <<d>>) \o <<e>> = s.work \o <<d, e>>
  <2>1. (s.work \o <<d>>) \o <<e>> = s.work \o (<<d>> \o <<e>>)
    BY <1>0, ConcatAssociative
  <2>2. <<d>> \o <<e>> = <<d, e>>
    BY PairIs
  <2> QED BY <2>1, <2>2
<1> HIDE DEF c
<1>4. LET u == SqlRelease(c, Wrapper)
      IN  HasSave(c, Wrapper) /\ u.saves = s.saves /\ u.db = s.db /\ u.work = s.work \o <<d, e>>
  BY <1>3, <1>10, ChangeReleased
<1>6. CASE r = Result(SqlRelease(c, Wrapper), HasSave(c, Wrapper), "none")
  <2>1. r = Result(SqlRelease(c, Wrapper), TRUE, "none")
    BY <1>4, <1>6 DEF HasSave, Named
  <2> QED BY <2>1, <1>4, CleanDone
<1>7. /\ r # Result(b, FALSE, "batchError") /\ r # Result(f, FALSE, "batchError")
      /\ \A t : r # Result(t, FALSE, "deadlock")
  BY NotAnError, Zenon
<1> QED BY <1>5, <1>6, <1>7

\* Statements outside dbsaci_statement.
LEMMA PlainClean ==
  ASSUME NEW s, Free(s), NEW d \in Nat,
         NEW r \in InsteadOfResults(s, d) \cup ReturningResults(s, d), r.event = "none"
  PROVE  Clean(s, r, <<d>>)
<1>0. Transaction(s) /\ s.open
  BY DEF Free
<1> DEFINE c == SqlChange(s, d)
<1>1. c.saves = s.saves /\ c.db = s.db /\ c.work = s.work \o <<d>>
  BY <1>0, ChangeAppends
<1>2. \/ r = Result(c, TRUE, "none")
      \/ r = Result(s, FALSE, "none")
      \/ r = Result(c, FALSE, "insteadOf")
      \/ r = Result(c, FALSE, "returningError")
      \/ \E t : r = Result(t, FALSE, "deadlock")
  BY DEF InsteadOfResults, ReturningResults, DeadlockAfter
<1> HIDE DEF c
<1>3. CASE r = Result(c, TRUE, "none")
  BY <1>1, <1>3, CleanDone
<1>4. CASE r = Result(s, FALSE, "none")
  BY <1>4, CleanFailed
<1>5. /\ r # Result(c, FALSE, "insteadOf") /\ r # Result(c, FALSE, "returningError")
      /\ \A t : r # Result(t, FALSE, "deadlock")
  BY NotAnError, Zenon
<1> QED BY <1>2, <1>3, <1>4, <1>5

\* While nothing has happened, the link is up and the transaction open.
LEMMA Quiet ==
  ASSUME Inv, happened = {}
  PROVE  link /\ Free(srv) /\ changes \in Nat
<1>1. \A E : ~Met(E)
  BY DEF Met
<1>2. link
  BY <1>1 DEF Inv, Core, LinkInv
<1>3. srv.open
  BY <1>1, <1>2 DEF Inv, Core, InTransaction
<1>4. Transaction(srv) /\ ~HasSave(srv, Wrapper)
  BY DEF Inv, Core, SrvInv
<1> QED BY <1>2, <1>3, <1>4 DEF Free, Inv, FrameInv

LEMMA NothingMet ==
  ASSUME NEW E, Meets(E), happened' = {}
  PROVE  happened = {} /\ \A e \in E : e = "none"
BY DEF Meets

LEMMA ServedWhenLinked ==
  ASSUME link, NEW results
  PROVE  Served(results) = results
BY DEF Served

LEMMA ChangeRefines ==
  ASSUME NEW r, NEW n \in 1..2, NEW ds \in [1..n -> 1..MaxChanges], Clean(srv, r, ds),
         srv' = r.srv, reply' = Reply("CHANGE", r.ok)
  PROVE  Oracle!ChangeSome
<1>1. /\ srv'.saves = srv.saves /\ srv'.db = srv.db /\ r.ok \in BOOLEAN
      /\ srv'.work = IF r.ok THEN srv.work \o ds ELSE srv.work
  BY DEF Clean
<1>2. reply' = Oracle!Answer("CHANGE", r.ok)
  BY DEF Oracle!Answer, Reply
<1>3. CASE r.ok
  <2>1. n \in 0..2 /\ n > 0 /\ n # 0 /\ srv'.work = srv.work \o ds
    BY <1>1, <1>3
  <2> QED BY <1>1, <1>2, <2>1 DEF Oracle!ChangeSome
<1>4. CASE ~r.ok
  <2>1. 0 \in 0..2 /\ srv'.work = srv.work
    BY <1>1, <1>4
  <2> QED BY <1>1, <1>2, <1>4, <2>1 DEF Oracle!ChangeSome
<1> QED BY <1>3, <1>4

LEMMA Numbers ==
  ASSUME NEW c \in Nat
  PROVE  /\ c + 1 <= MaxChanges => <<c + 1>> \in [1..1 -> 1..MaxChanges]
         /\ c + 2 <= MaxChanges => <<c + 1, c + 2>> \in [1..2 -> 1..MaxChanges]
<1>0. MaxChanges \in Nat
  BY MariaDbAssumption
<1>1. c + 1 <= MaxChanges => c + 1 \in 1..MaxChanges
  BY <1>0
<1>2. c + 2 <= MaxChanges => c + 2 \in 1..MaxChanges /\ c + 1 \in 1..MaxChanges
  BY <1>0
<1>3. ASSUME NEW a \in 1..MaxChanges PROVE <<a>> \in [1..1 -> 1..MaxChanges]
  OBVIOUS
<1>4. ASSUME NEW a \in 1..MaxChanges, NEW b \in 1..MaxChanges
      PROVE  <<a, b>> \in [1..2 -> 1..MaxChanges]
  OBVIOUS
<1> QED BY <1>1, <1>2, <1>3, <1>4

LEMMA StatementRefines ==
  ASSUME Inv, happened' = {},
         \/ \E use \in Uses : Dml(use) \/ Returning(use)
         \/ Batch \/ InsteadOfDml
  PROVE  Oracle!ChangeSome
<1>1. ASSUME NEW results, NEW r \in Served(results), NEW ds, NEW E, Answers("CHANGE", r, ds, E)
      PROVE  /\ link /\ Free(srv) /\ changes \in Nat /\ r \in results /\ r.event = "none"
             /\ srv' = r.srv /\ reply' = Reply("CHANGE", r.ok)
  <2>1. Meets(E \cup {r.event}) /\ srv' = r.srv /\ reply' = Reply("CHANGE", r.ok)
    BY <1>1 DEF Answers
  <2>2. happened = {} /\ r.event = "none"
    BY <2>1, NothingMet
  <2>3. link /\ Free(srv) /\ changes \in Nat
    BY <2>2, Quiet
  <2> QED BY <2>1, <2>2, <2>3, ServedWhenLinked
<1>2. 1 \in 1..2 /\ 2 \in 1..2
  OBVIOUS
<1>3. ASSUME NEW use \in Uses, Dml(use) PROVE Oracle!ChangeSome
  <2>1. PICK r \in Served(OrdinaryResults(srv, changes + 1)) :
          Answers("CHANGE", r, <<changes + 1>>, SequenceEvents(use, r.ok))
    BY <1>3 DEF Dml
  <2>2. /\ Free(srv) /\ changes \in Nat /\ r \in OrdinaryResults(srv, changes + 1)
        /\ r.event = "none" /\ srv' = r.srv /\ reply' = Reply("CHANGE", r.ok)
    BY <1>1, <2>1
  <2>3. changes + 1 \in Nat /\ changes + 1 <= MaxChanges
    BY <1>3, <2>2 DEF Dml, Room
  <2>4. Clean(srv, r, <<changes + 1>>)
    BY <2>2, <2>3, OrdinaryClean
  <2>5. <<changes + 1>> \in [1..1 -> 1..MaxChanges]
    BY <2>2, <2>3, Numbers
  <2> QED BY <1>2, <2>2, <2>4, <2>5, ChangeRefines
<1>4. ASSUME NEW use \in Uses, Returning(use) PROVE Oracle!ChangeSome
  <2> DEFINE E == IF use = "nextval" THEN {"returningSequence"} ELSE {}
  <2>1. PICK r \in Served(ReturningResults(srv, changes + 1)) :
          Answers("CHANGE", r, <<changes + 1>>, E)
    BY <1>4 DEF Returning
  <2> HIDE DEF E
  <2>2. /\ Free(srv) /\ changes \in Nat /\ r \in ReturningResults(srv, changes + 1)
        /\ r.event = "none" /\ srv' = r.srv /\ reply' = Reply("CHANGE", r.ok)
    BY <1>1, <2>1
  <2>3. changes + 1 \in Nat /\ changes + 1 <= MaxChanges
    BY <1>4, <2>2 DEF Returning, Room
  <2>4. Clean(srv, r, <<changes + 1>>)
    BY <2>2, <2>3, PlainClean
  <2>5. <<changes + 1>> \in [1..1 -> 1..MaxChanges]
    BY <2>2, <2>3, Numbers
  <2> QED BY <1>2, <2>2, <2>4, <2>5, ChangeRefines
<1>5. CASE InsteadOfDml
  <2>1. PICK r \in Served(InsteadOfResults(srv, changes + 1)) :
          Answers("CHANGE", r, <<changes + 1>>, {})
    BY <1>5 DEF InsteadOfDml
  <2>2. /\ Free(srv) /\ changes \in Nat /\ r \in InsteadOfResults(srv, changes + 1)
        /\ r.event = "none" /\ srv' = r.srv /\ reply' = Reply("CHANGE", r.ok)
    BY <1>1, <2>1
  <2>3. changes + 1 \in Nat /\ changes + 1 <= MaxChanges
    BY <1>5, <2>2 DEF InsteadOfDml, Room
  <2>4. Clean(srv, r, <<changes + 1>>)
    BY <2>2, <2>3, PlainClean
  <2>5. <<changes + 1>> \in [1..1 -> 1..MaxChanges]
    BY <2>2, <2>3, Numbers
  <2> QED BY <1>2, <2>2, <2>4, <2>5, ChangeRefines
<1>6. CASE Batch
  <2> DEFINE ds == <<changes + 1, changes + 2>>
  <2>1. PICK r \in Served(BatchResults(srv, changes + 1)) : Answers("CHANGE", r, ds, {})
    BY <1>6 DEF Batch
  <2> HIDE DEF ds
  <2>2. /\ Free(srv) /\ changes \in Nat /\ r \in BatchResults(srv, changes + 1)
        /\ r.event = "none" /\ srv' = r.srv /\ reply' = Reply("CHANGE", r.ok)
    BY <1>1, <2>1
  <2>3. /\ changes + 1 \in Nat /\ changes + 2 \in Nat /\ changes + 2 <= MaxChanges
        /\ changes + 2 = (changes + 1) + 1
    BY <1>6, <2>2 DEF Batch, Room
  <2>4. Clean(srv, r, ds)
    BY <2>2, <2>3, BatchClean DEF ds
  <2>5. ds \in [1..2 -> 1..MaxChanges]
    BY <2>2, <2>3, Numbers DEF ds
  <2> QED BY <1>2, <2>2, <2>4, <2>5, ChangeRefines
<1> QED BY <1>3, <1>4, <1>5, <1>6

LEMMA ArrayRefines ==
  ASSUME Inv, happened' = {}, ArrayDml
  PROVE  Oracle!ChangeSome
<1>1. PICK r1 \in Served(OrdinaryResults(srv, changes + 1)) :
        IF ~r1.ok THEN Answers("CHANGE", r1, <<changes + 1>>, {})
        ELSE \E r2 \in OrdinaryResults(r1.srv, changes + 2) :
          srv' = r2.srv /\ reply' = Reply("CHANGE", r2.ok) /\ Meets({r2.event})
  BY DEF ArrayDml
<1>2. happened = {}
  BY <1>1, NothingMet DEF Answers
<1>3. link /\ Free(srv) /\ changes \in Nat
  BY <1>2, Quiet
<1>4. /\ changes + 1 \in Nat /\ changes + 2 \in Nat /\ changes + 2 <= MaxChanges
      /\ changes + 1 <= MaxChanges
  <2>1. MaxChanges \in Nat /\ changes + 2 <= MaxChanges
    BY MariaDbAssumption DEF ArrayDml, Room
  <2> QED BY <1>3, <2>1
<1>5. r1 \in OrdinaryResults(srv, changes + 1)
  BY <1>1, <1>3, ServedWhenLinked
<1>6. /\ <<changes + 1>> \in [1..1 -> 1..MaxChanges]
      /\ <<changes + 1, changes + 2>> \in [1..2 -> 1..MaxChanges]
      /\ 1 \in 1..2 /\ 2 \in 1..2
  BY <1>3, <1>4, Numbers
<1>7. CASE ~r1.ok
  <2>1. r1.event = "none" /\ srv' = r1.srv /\ reply' = Reply("CHANGE", r1.ok)
    BY <1>1, <1>7, NothingMet DEF Answers
  <2>2. Clean(srv, r1, <<changes + 1>>)
    BY <1>3, <1>4, <1>5, <2>1, OrdinaryClean
  <2> QED BY <1>6, <2>1, <2>2, ChangeRefines
<1>8. CASE r1.ok
  <2>1. PICK r2 \in OrdinaryResults(r1.srv, changes + 2) :
          srv' = r2.srv /\ reply' = Reply("CHANGE", r2.ok) /\ Meets({r2.event})
    BY <1>1, <1>8
  <2>2. r2.event = "none"
    BY <2>1, NothingMet
  <2>3. r1.event = "none"
    BY <1>5, <1>8 DEF OrdinaryResults, Result
  <2>4. Clean(srv, r1, <<changes + 1>>)
    BY <1>3, <1>4, <1>5, <2>3, OrdinaryClean
  <2>5. /\ r1.srv.saves = srv.saves /\ r1.srv.db = srv.db
        /\ r1.srv.work = srv.work \o <<changes + 1>>
    BY <1>8, <2>4 DEF Clean
  <2>6. Free(r1.srv)
    <3>1. Matches(srv, r1, {changes + 1}, {"none", "deadlock"})
      BY <1>3, <1>4, <1>5, OrdinaryOutcome DEF Free
    <3>2. Transaction(r1.srv) /\ r1.srv.open
      BY <1>3, <2>3, <3>1 DEF Free, Matches, Outcome, Outside
    <3>3. ~HasSave(r1.srv, Wrapper)
      BY <1>3, <2>5 DEF Free, HasSave
    <3> QED BY <3>2, <3>3 DEF Free
  <2>7. Clean(r1.srv, r2, <<changes + 2>>)
    BY <1>4, <2>1, <2>2, <2>6, OrdinaryClean
  <2>8. /\ srv'.saves = srv.saves /\ srv'.db = srv.db /\ r2.ok \in BOOLEAN
        /\ srv'.work = IF r2.ok THEN (srv.work \o <<changes + 1>>) \o <<changes + 2>>
                       ELSE srv.work \o <<changes + 1>>
    BY <2>1, <2>5, <2>7 DEF Clean
  <2>9. (srv.work \o <<changes + 1>>) \o <<changes + 2>> = srv.work \o <<changes + 1, changes + 2>>
    <3>1. /\ srv.work \in Seq(Nat) /\ <<changes + 1>> \in Seq(Nat) /\ <<changes + 2>> \in Seq(Nat)
      BY <1>3, <1>4, Fields, OneRange DEF Free
    <3>2. (srv.work \o <<changes + 1>>) \o <<changes + 2>>
            = srv.work \o (<<changes + 1>> \o <<changes + 2>>)
      BY <3>1, ConcatAssociative
    <3> QED BY <1>4, <3>2, PairIs
  <2>10. reply' = Oracle!Answer("CHANGE", r2.ok)
    BY <2>1 DEF Oracle!Answer, Reply
  <2>11. CASE r2.ok
    <3>1. /\ 2 \in 0..2 /\ 2 > 0 /\ 2 # 0
          /\ srv'.work = srv.work \o <<changes + 1, changes + 2>>
      BY <2>8, <2>9, <2>11
    <3> QED BY <1>6, <2>8, <2>10, <3>1 DEF Oracle!ChangeSome
  <2>12. CASE ~r2.ok
    <3>1. 1 \in 0..2 /\ 1 > 0 /\ 1 # 0 /\ srv'.work = srv.work \o <<changes + 1>>
      BY <2>8, <2>12
    <3> QED BY <1>6, <2>8, <2>10, <3>1 DEF Oracle!ChangeSome
  <2> QED BY <2>11, <2>12
<1> QED BY <1>7, <1>8

LEMMA ReadRefines ==
  ASSUME Inv, happened' = {}, (\E use \in Uses : Query(use)) \/ RefusedDml
  PROVE  Oracle!Read \/ Oracle!ChangeSome
<1>1. ASSUME NEW use \in Uses, Query(use) PROVE Oracle!Read
  <2>1. happened = {}
    BY <1>1, NothingMet DEF Query
  <2>2. link
    BY <2>1, Quiet
  <2>3. PICK ok \in BOOLEAN : reply' = Reply("QUERY", ok)
    BY <1>1 DEF Query
  <2>4. srv' = srv
    <3>1. CASE Refused(use)
      BY <1>1, <3>1 DEF Query
    <3>2. CASE ~Refused(use)
      <4>1. PICK deadlock : /\ srv' = IF deadlock THEN SqlDeadlock(srv) ELSE srv
                            /\ \E E : Meets(Deadlocks(deadlock) \cup E)
        BY <1>1, <2>2, <3>2 DEF Query
      <4>2. CASE deadlock
        BY <4>1, <4>2, NothingMet DEF Deadlocks
      <4> QED BY <4>1, <4>2
    <3> QED BY <3>1, <3>2
  <2> QED BY <2>3, <2>4 DEF Oracle!Read, Oracle!Answer, Reply
<1>2. CASE RefusedDml
  <2>1. srv' = srv /\ reply' = Oracle!Answer("CHANGE", FALSE) /\ 0 \in 0..2 /\ FALSE \in BOOLEAN
    BY <1>2 DEF RefusedDml, Oracle!Answer, Reply
  <2> QED BY <2>1 DEF Oracle!ChangeSome
<1> QED BY <1>1, <1>2

LEMMA EndRefines ==
  ASSUME Inv, happened' = {}, Commit \/ Rollback \/ \E ofTrigger \in BOOLEAN : Ddl(ofTrigger)
  PROVE  Oracle!Commit \/ Oracle!Rollback \/ Oracle!Ddl
<1> DEFINE c == SqlCommit(srv)
           b == SqlRollback(srv)
<1>1. happened = {}
  BY NothingMet DEF Commit, Rollback, Control, Ddl
<1>2. link /\ Transaction(srv)
  BY <1>1, Quiet DEF Free
<1>3. /\ Transaction(c) /\ c.work = <<>> /\ c.db = srv.db \cup Range(srv.work)
      /\ Transaction(b) /\ b.work = <<>> /\ b.db = srv.db
  BY <1>2, Ended
<1> HIDE DEF c, b
<1>4. /\ SqlStart(c).work = <<>> /\ SqlStart(c).saves = <<>>
      /\ SqlStart(c).db = srv.db \cup Range(srv.work)
      /\ SqlStart(b).work = <<>> /\ SqlStart(b).saves = <<>> /\ SqlStart(b).db = srv.db
  BY <1>3, StartEmpty
<1>5. CASE Commit
  <2>1. srv' = SqlStart(c) /\ reply' = Reply("COMMIT", TRUE)
    BY <1>2, <1>5 DEF Commit, Control, c, Reply
  <2>2. reply' = Oracle!Answer("COMMIT", TRUE)
    BY <2>1 DEF Oracle!Answer, Reply
  <2> QED BY <1>4, <2>1, <2>2, SameRange DEF Oracle!Commit, Oracle!NewTransaction
<1>6. CASE Rollback
  <2>1. srv' = SqlStart(b) /\ reply' = Reply("ROLLBACK", TRUE)
    BY <1>2, <1>6 DEF Rollback, Control, b, Reply
  <2>2. reply' = Oracle!Answer("ROLLBACK", TRUE)
    BY <2>1 DEF Oracle!Answer, Reply
  <2> QED BY <1>4, <2>1, <2>2 DEF Oracle!Rollback, Oracle!NewTransaction
<1>7. ASSUME NEW ofTrigger \in BOOLEAN, Ddl(ofTrigger) PROVE Oracle!Ddl
  <2>1. PICK r \in Served(IF ofTrigger THEN {Result(SqlStart(c), TRUE, "none")}
                          ELSE DdlResults(srv)) :
          srv' = r.srv /\ reply' = Reply("DDL", r.ok) /\ Meets({r.event})
    BY <1>7 DEF Ddl, c
  <2>2. r.event = "none"
    BY <2>1, NothingMet
  <2>3. \E ok \in BOOLEAN : r = Result(SqlStart(c), ok, "none")
    <3>1. CASE ofTrigger
      <4>1. r \in {Result(SqlStart(c), TRUE, "none")}
        BY <1>2, <2>1, <3>1, ServedWhenLinked
      <4> QED BY <4>1
    <3>2. CASE ~ofTrigger
      <4>1. r \in DdlResults(srv)
        BY <1>2, <2>1, <3>2, ServedWhenLinked
      <4>2. r # Result(c, FALSE, "ddlBindError")
        BY <2>2, NotAnError, Zenon
      <4> QED BY <4>1, <4>2 DEF DdlResults, c
    <3> QED BY <3>1, <3>2
  <2>4. PICK ok \in BOOLEAN : r = Result(SqlStart(c), ok, "none")
    BY <2>3
  <2>5. r.srv = SqlStart(c) /\ r.ok = ok
    BY <2>4, Zenon DEF Result
  <2>6. reply' = Oracle!Answer("DDL", ok)
    BY <2>1, <2>5 DEF Oracle!Answer, Reply
  <2> QED BY <1>4, <2>1, <2>5, <2>6, SameRange DEF Oracle!Ddl, Oracle!NewTransaction
<1> QED BY <1>5, <1>6, <1>7

LEMMA SavepointRefines ==
  ASSUME Inv, happened' = {}, NEW n \in Savepoints, Savepoint(n) \/ RollbackTo(n)
  PROVE  \/ Oracle!Savepoint(n) \/ (\E i \in DOMAIN srv.saves : Oracle!RollbackTo(i))
         \/ Oracle!RefuseSavepoint
<1>1. happened = {}
  BY DEF Savepoint, RollbackTo, Control
<1>2. link /\ Transaction(srv) /\ srv.open /\ n \in Savepoints \cup {Wrapper}
  BY <1>1, Quiet DEF Free
<1>3. CASE Savepoint(n)
  <2> DEFINE t == SqlSavepoint(srv, n)
  <2>1. srv' = t /\ reply' = Reply("SAVEPOINT", TRUE)
    BY <1>2, <1>3 DEF Savepoint, Control, Reply
  <2>2. t.work = srv.work /\ t.db = srv.db /\ t.saves = Saved(srv.saves, n, Len(srv.work))
    BY <1>2, SavepointOK
  <2> HIDE DEF t
  <2>3. reply' = Oracle!Answer("SAVEPOINT", TRUE)
    BY <2>1 DEF Oracle!Answer, Reply
  <2> QED BY <2>1, <2>2, <2>3, SameSaved DEF Oracle!Savepoint
<1>4. CASE RollbackTo(n) /\ HasSave(srv, n)
  <2> DEFINE t == SqlRollbackTo(srv, n)
             p == Position(srv.saves, n)
  <2>1. srv' = t /\ reply' = Reply("ROLLBACK TO", TRUE)
    BY <1>2, <1>4 DEF RollbackTo, Control, Reply, HasSave, Named
  <2>2. /\ t.db = srv.db /\ p \in 1..Len(srv.saves)
        /\ t.saves = SubSeq(srv.saves, 1, p) /\ t.work = SubSeq(srv.work, 1, srv.saves[p].mark)
    BY <1>2, <1>4, RollbackToOK
  <2> HIDE DEF t, p
  <2>3. reply' = Oracle!Answer("ROLLBACK TO", TRUE)
    BY <2>1 DEF Oracle!Answer, Reply
  <2>4. p \in DOMAIN srv.saves
    BY <1>2, <2>2, Fields
  <2>5. ASSUME NEW j \in DOMAIN srv.saves, srv.saves[j].name = srv.saves[p].name
        PROVE  j <= p
    <3>1. srv.saves \in Seq(Mark) /\ Ordered(srv.saves, Len(srv.work))
      BY <1>2 DEF Transaction
    <3>2. j = p
      BY <2>4, <2>5, <3>1, OnePosition
    <3> QED BY <2>2, <3>2
  <2> QED BY <2>1, <2>2, <2>3, <2>4, <2>5 DEF Oracle!RollbackTo
<1>5. CASE RollbackTo(n) /\ ~HasSave(srv, n)
  <2>1. srv' = srv /\ reply' = Oracle!Answer("ROLLBACK TO", FALSE)
    BY <1>2, <1>5 DEF RollbackTo, Control, Reply, SqlRollbackTo, Oracle!Answer
  <2> QED BY <2>1 DEF Oracle!RefuseSavepoint
<1> QED BY <1>3, <1>4, <1>5

\* The rest are events themselves.
LEMMA NoEvent ==
  ASSUME Inv, happened' = {}
  PROVE  /\ ~Program /\ ~SetTransaction /\ ~LoseLink /\ ~LoseCommit
         /\ \A n \in Savepoints : ~Release(n)
<1>1. ~LoseLink /\ ~LoseCommit /\ \A n \in Savepoints : ~Release(n)
  <2>1. ASSUME NEW event \in Events, Meets({event}) PROVE FALSE
    <3>1. event # "none"
      BY DEF Events
    <3> QED BY <2>1, <3>1, NothingMet
  <2>2. {"lost", "inDoubt", "releaseSavepoint"} \subseteq Events
    BY DEF Events
  <2>3. ~LoseLink
    BY <2>1, <2>2 DEF LoseLink
  <2>4. ~LoseCommit
    BY <2>1, <2>2 DEF LoseCommit
  <2>5. \A n \in Savepoints : ~Release(n)
    BY <2>1, <2>2 DEF Release
  <2> QED BY <2>3, <2>4, <2>5
<1>2. ASSUME NEW op, NEW results, NEW r \in Served(results), NEW ds, NEW events, NEW event,
             Answers(op, r, ds, events), event # "none",
             \A s \in results : s.event = event
      PROVE  FALSE
  <2>1. Meets(events \cup {r.event})
    BY <1>2 DEF Answers
  <2>2. happened = {} /\ r.event = "none"
    BY <2>1, NothingMet
  <2> QED BY <1>2, <2>2, Quiet, ServedWhenLinked
<1>3. ~Program
  <2>1. \A t : \A s \in ProgramResults(t, changes + 1) : s.event = "program"
    BY DEF ProgramResults, Result
  <2>2. \A deadlock, t : ~ProgramAnswer(deadlock, t)
    BY <1>2, <2>1 DEF ProgramAnswer
  <2> QED BY <2>2 DEF Program, ProgramAnswer
<1>4. ~SetTransaction
  <2>1. \A s \in SetTransactionResults(srv) : s.event = "setTransaction"
    BY DEF SetTransactionResults, Result
  <2> QED BY <1>2, <2>1 DEF SetTransaction
<1> QED BY <1>1, <1>3, <1>4

LEMMA StepRefines ==
  ASSUME Inv, Next, happened' = {}
  PROVE  Oracle!Next
<1>1. ASSUME NEW use \in Uses, Query(use) \/ Dml(use) \/ Returning(use) PROVE Oracle!Next
  BY <1>1, ReadRefines, StatementRefines DEF Oracle!Next
<1>2. CASE RefusedDml
  BY <1>2, ReadRefines DEF Oracle!Next
<1>3. CASE Batch \/ InsteadOfDml
  BY <1>3, StatementRefines DEF Oracle!Next
<1>4. CASE ArrayDml
  BY <1>4, ArrayRefines DEF Oracle!Next
<1>5. ASSUME NEW ofTrigger \in BOOLEAN, Ddl(ofTrigger) PROVE Oracle!Next
  BY <1>5, EndRefines DEF Oracle!Next
<1>6. CASE Commit \/ Rollback
  BY <1>6, EndRefines DEF Oracle!Next
<1>7. ASSUME NEW n \in Savepoints, Savepoint(n) \/ RollbackTo(n) PROVE Oracle!Next
  BY <1>7, SavepointRefines DEF Oracle!Next
<1> QED BY <1>1, <1>2, <1>3, <1>4, <1>5, <1>6, <1>7, NoEvent DEF Next

\* The refinement: as long as none of Events happens, what a client sees of the
\* session over MariaDB - the statements under dbsaci_statement, the recovery of
\* the failed ones, DDL between its two COMMITs - is a behaviour of OracleTxn.
THEOREM MariaDbKeepsPromise == Spec => KeepsPromise
<1>1. Inv /\ [Next]_vars => [happened' = {} => [Oracle!Next]_(Oracle!vars)]_vars
  BY StepRefines
<1> QED BY <1>1, OracleInit, SpecInv, PTL DEF Spec, KeepsPromise
=============================================================================
