-------------------------- MODULE PgSessionProofs --------------------------
(***************************************************************************)
(* What holds of PgSession for every set of cursors, queries and           *)
(* savepoints and for every bound, proved with TLAPS.                      *)
(***************************************************************************)
EXTENDS PgSession, Integers, SequenceTheorems, FiniteSetTheorems,
        WellFoundedInduction, TLAPS

-----------------------------------------------------------------------------
(* Natural numbers. *)

\* A set of natural numbers that is not empty has a least element.
LEMMA LeastNat ==
  ASSUME NEW T \in SUBSET Nat, T # {}
  PROVE  \E m \in T : \A k \in T : m <= k
<1>1. IsWellFoundedOn({ss \in Nat \X Nat : ss[1] < ss[2]}, Nat)
  BY NatLessThanWellFounded DEF OpToRel
<1>2. PICK x \in T : \A y \in T : ~ (<<y, x>> \in {ss \in Nat \X Nat : ss[1] < ss[2]})
  BY <1>1, WFMin
<1>3. \A y \in T : ~ (y < x)
  BY <1>2
<1>4. QED
  BY <1>3

\* One that is bounded has a greatest.
LEMMA GreatestNat ==
  ASSUME NEW T \in SUBSET Nat, T # {}, NEW n \in Nat, \A k \in T : k <= n
  PROVE  \E m \in T : \A k \in T : k <= m
<1> DEFINE U == {d \in Nat : n - d \in T}
<1>1. PICK d \in U : \A k \in U : d <= k
  <2>1. PICK t \in T : TRUE
    OBVIOUS
  <2>2. n - t \in U
    BY <2>1
  <2>3. QED
    BY <2>2, LeastNat
<1>2. ASSUME NEW k \in T PROVE k <= n - d
  <2>1. n - k \in U
    OBVIOUS
  <2>2. QED
    BY <2>1, <1>1
<1>3. QED
  BY <1>1, <1>2

-----------------------------------------------------------------------------
(* The commands of PostgreSQL lead from transactions to transactions. *)

\* The parts of a transaction.
LEMMA TxnParts ==
  ASSUME NEW t, IsTxn(t)
  PROVE  /\ t.work \in Seq(Nat) /\ Len(t.work) \in Nat
         /\ t.stack \in Seq(Entry) /\ Len(t.stack) \in Nat
         /\ DOMAIN t.stack = 1..Len(t.stack)
         /\ t.aborted \in BOOLEAN /\ t.timeout \in BOOLEAN /\ t.open \in BOOLEAN
         /\ ~t.open => ~t.aborted /\ t.stack = <<>> /\ t.work = <<>> /\ t = NoBlock
         /\ \A i \in 1..Len(t.stack) :
              /\ t.stack[i].mark \in 0..Len(t.work)
              /\ t.stack[i].timeout \in BOOLEAN
<1>1. t.work \in Seq(Nat) /\ t.stack \in Seq(Entry)
      /\ t.aborted \in BOOLEAN /\ t.timeout \in BOOLEAN /\ t.open \in BOOLEAN
      /\ (~t.open => t = NoBlock)
  BY DEF IsTxn
<1>1a. ~t.open => ~t.aborted /\ t.stack = <<>> /\ t.work = <<>> /\ t = NoBlock
  BY <1>1 DEF NoBlock
<1>2. \A i \in DOMAIN t.stack : t.stack[i] \in Entry
  BY <1>1
<1>3. \A i \in DOMAIN t.stack : t.stack[i].mark \in Nat /\ t.stack[i].timeout \in BOOLEAN
  BY <1>2 DEF Entry
<1>4. QED
  BY <1>1, <1>1a, <1>3 DEF IsTxn

\* Savepoints are alive only inside a block.
LEMMA SavepointIsOpen ==
  ASSUME NEW t, IsTxn(t), NEW name, HasSavepoint(t, name)
  PROVE  t.open
<1>1. t.stack # <<>>
  BY DEF HasSavepoint
<1>2. QED
  BY <1>1, TxnParts

\* The savepoint a command sees is one of that name, and the innermost.
LEMMA InnermostIs ==
  ASSUME NEW t, IsTxn(t), NEW name, HasSavepoint(t, name)
  PROVE  /\ Innermost(t, name) \in 1..Len(t.stack)
         /\ t.stack[Innermost(t, name)].name = name
         /\ \A j \in 1..Len(t.stack) :
              t.stack[j].name = name => j <= Innermost(t, name)
<1> DEFINE T == {i \in 1..Len(t.stack) : t.stack[i].name = name}
<1>1. t.stack \in Seq(Entry) /\ DOMAIN t.stack = 1..Len(t.stack) /\ Len(t.stack) \in Nat
  BY DEF IsTxn
<1>2. T \in SUBSET Nat /\ T # {} /\ \A k \in T : k <= Len(t.stack)
  BY <1>1 DEF HasSavepoint
<1>3. \E m \in T : \A k \in T : k <= m
  BY <1>1, <1>2, GreatestNat
<1>4. \E i \in DOMAIN t.stack :
        /\ t.stack[i].name = name
        /\ \A j \in DOMAIN t.stack : t.stack[j].name = name => j <= i
  BY <1>1, <1>3
<1>5. QED
  BY <1>1, <1>4 DEF Innermost

\* A transaction BEGIN has just opened is well-formed.
LEMMA FreshIsTxn == IsTxn(Fresh) /\ Fresh.open /\ ~Fresh.aborted
BY EmptySeq DEF IsTxn, Fresh

\* So is the lack of one.
LEMMA NoBlockIsTxn == IsTxn(NoBlock) /\ ~NoBlock.open /\ ~NoBlock.aborted
<1>1. NoBlock \in [open : BOOLEAN, work : Seq(Nat), stack : Seq(Entry), aborted : BOOLEAN,
                   timeout : BOOLEAN]
  BY EmptySeq DEF NoBlock
<1>2. DOMAIN NoBlock.stack = {}
  BY DEF NoBlock
<1>3. QED
  BY <1>1, <1>2 DEF IsTxn, NoBlock

\* An error keeps the transaction well-formed.
LEMMA AbortIsTxn ==
  ASSUME NEW t, IsTxn(t)
  PROVE  IsTxn(Abort(t)) /\ Abort(t).stack = t.stack
         /\ Abort(t).work = t.work /\ Abort(t).open = t.open
         /\ (t.open => Abort(t).aborted)
BY DEF IsTxn, Abort

\* So does SET LOCAL statement_timeout.
LEMMA SetTimeoutIsTxn ==
  ASSUME NEW t, IsTxn(t), t.open
  PROVE  IsTxn(SetTimeout(t)) /\ SetTimeout(t).aborted = t.aborted
         /\ SetTimeout(t).stack = t.stack /\ SetTimeout(t).work = t.work
         /\ SetTimeout(t).open = t.open
BY DEF IsTxn, SetTimeout

\* So does a change: marks stay within the longer work.
LEMMA ChangeIsTxn ==
  ASSUME NEW t, IsTxn(t), t.open, NEW d \in Nat
  PROVE  /\ IsTxn(Change(t, d))
         /\ Change(t, d).aborted = t.aborted
         /\ Change(t, d).open
         /\ Change(t, d).stack = t.stack
         /\ Change(t, d).work = Append(t.work, d)
<1>1. t.work \in Seq(Nat) /\ Append(t.work, d) \in Seq(Nat)
      /\ Len(Append(t.work, d)) = Len(t.work) + 1 /\ Len(t.work) \in Nat
  BY TxnParts
<1>2. \A i \in DOMAIN t.stack : t.stack[i].mark \in 0..Len(t.work)
  BY TxnParts
<1>3. Change(t, d).stack = t.stack /\ Change(t, d).work = Append(t.work, d)
      /\ Change(t, d) \in [open : BOOLEAN, work : Seq(Nat), stack : Seq(Entry),
                           aborted : BOOLEAN, timeout : BOOLEAN]
      /\ Change(t, d).aborted = t.aborted /\ Change(t, d).open
  BY <1>1 DEF IsTxn, Change
<1>4. QED
  BY <1>1, <1>2, <1>3 DEF IsTxn

\* SAVEPOINT puts the largest mark on top.
LEMMA DefineIsTxn ==
  ASSUME NEW t, IsTxn(t), NEW name \in Savepoints \cup {Wrapper}
  PROVE  /\ IsTxn(DefineSavepoint(t, name))
         /\ DefineSavepoint(t, name).work = t.work
         /\ DefineSavepoint(t, name).aborted = t.aborted
         /\ DefineSavepoint(t, name).open = t.open
         /\ Accepts(t) => DefineSavepoint(t, name).stack =
              Append(t.stack, [name |-> name, mark |-> Len(t.work), timeout |-> t.timeout])
<1> DEFINE e == [name |-> name, mark |-> Len(t.work), timeout |-> t.timeout]
<1>1. t.stack \in Seq(Entry) /\ t.work \in Seq(Nat) /\ Len(t.work) \in Nat
      /\ Len(t.stack) \in Nat /\ DOMAIN t.stack = 1..Len(t.stack) /\ e \in Entry
  BY DEF IsTxn, Entry
<1>2. CASE ~Accepts(t)
  BY <1>2 DEF DefineSavepoint
<1>3. CASE Accepts(t)
  <2> DEFINE s == Append(t.stack, e)
  <2>1. s \in Seq(Entry) /\ Len(s) = Len(t.stack) + 1 /\ DOMAIN s = 1..Len(s)
        /\ (\A i \in 1..Len(t.stack) : s[i] = t.stack[i]) /\ s[Len(t.stack) + 1] = e
    BY <1>1
  <2>2. \A i \in DOMAIN t.stack : t.stack[i].mark \in Nat /\ t.stack[i].mark <= Len(t.work)
    BY <1>1, TxnParts
  <2>3. \A i \in DOMAIN s : s[i].mark <= Len(t.work)
    BY <1>1, <2>1, <2>2
  <2>4. ASSUME NEW i \in DOMAIN s, NEW j \in DOMAIN s, i <= j
        PROVE  s[i].mark <= s[j].mark
    <3>1. CASE j = Len(s)
      BY <3>1, <2>1, <2>3, <1>1
    <3>2. CASE j # Len(s)
      <4>1. i \in DOMAIN t.stack /\ j \in DOMAIN t.stack
        BY <3>2, <2>4, <2>1, <1>1
      <4>2. QED
        BY <4>1, <2>4, <2>1, <1>1 DEF IsTxn
    <3>3. QED
      BY <3>1, <3>2
  <2>5. DefineSavepoint(t, name) = [t EXCEPT !.stack = s]
    BY <1>3 DEF DefineSavepoint
  <2> HIDE DEF s
  <2>6. QED
    BY <1>3, <2>1, <2>3, <2>4, <2>5 DEF IsTxn, s, Accepts
<1>4. QED
  BY <1>2, <1>3 DEF IsTxn

\* A prefix of the stack.
LEMMA PrefixIsTxn ==
  ASSUME NEW t, IsTxn(t), NEW n \in 0..Len(t.stack), NEW m \in 0..Len(t.work),
         NEW tm \in BOOLEAN, NEW ab \in BOOLEAN,
         \A i \in 1..n : t.stack[i].mark <= m
  PROVE  IsTxn([open |-> TRUE, work |-> SubSeq(t.work, 1, m),
                stack |-> SubSeq(t.stack, 1, n), aborted |-> ab, timeout |-> tm])
<1>1. t.stack \in Seq(Entry) /\ t.work \in Seq(Nat) /\ Len(t.work) \in Nat
      /\ Len(t.stack) \in Nat /\ DOMAIN t.stack = 1..Len(t.stack)
  BY DEF IsTxn
<1>2. SubSeq(t.work, 1, m) \in Seq(Nat) /\ Len(SubSeq(t.work, 1, m)) = m
  BY <1>1
<1>3. SubSeq(t.stack, 1, n) \in Seq(Entry) /\ Len(SubSeq(t.stack, 1, n)) = n
      /\ DOMAIN SubSeq(t.stack, 1, n) = 1..n
      /\ \A i \in 1..n : SubSeq(t.stack, 1, n)[i] = t.stack[i]
  BY <1>1
<1> DEFINE w == SubSeq(t.work, 1, m)
           s == SubSeq(t.stack, 1, n)
<1>4. \A i, j \in 1..n : i <= j => t.stack[i].mark <= t.stack[j].mark
  BY <1>1 DEF IsTxn
<1>5. /\ w \in Seq(Nat) /\ Len(w) = m /\ s \in Seq(Entry) /\ DOMAIN s = 1..n
      /\ \A i \in DOMAIN s : s[i].mark <= Len(w)
      /\ \A i, j \in DOMAIN s : i <= j => s[i].mark <= s[j].mark
  BY <1>2, <1>3, <1>4
<1> HIDE DEF w, s
<1>6. IsTxn([open |-> TRUE, work |-> w, stack |-> s, aborted |-> ab, timeout |-> tm])
  BY <1>5 DEF IsTxn
<1> QED BY <1>6 DEF w, s

\* RELEASE keeps a prefix of the savepoints.
LEMMA ReleaseIsTxn ==
  ASSUME NEW t, IsTxn(t), NEW name
  PROVE  /\ IsTxn(ReleaseSavepoint(t, name))
         /\ ReleaseSavepoint(t, name).work = t.work
         /\ ReleaseSavepoint(t, name).open = t.open
<1>1. CASE t.aborted \/ ~HasSavepoint(t, name)
  BY <1>1, AbortIsTxn DEF ReleaseSavepoint
<1>2. CASE ~t.aborted /\ HasSavepoint(t, name)
  <2> DEFINE n == Innermost(t, name) - 1
  <2>1. n \in 0..Len(t.stack) /\ Len(t.work) \in 0..Len(t.work) /\ Len(t.stack) \in Nat
        /\ SubSeq(t.work, 1, Len(t.work)) = t.work /\ DOMAIN t.stack = 1..Len(t.stack)
    BY <1>2, InnermostIs DEF IsTxn
  <2>1a. t.open
    BY <1>2, SavepointIsOpen
  <2>2. \A i \in 1..n : t.stack[i].mark <= Len(t.work)
    BY <2>1 DEF IsTxn
  <2>3. ReleaseSavepoint(t, name) =
          [open |-> TRUE, work |-> SubSeq(t.work, 1, Len(t.work)),
           stack |-> SubSeq(t.stack, 1, n), aborted |-> t.aborted, timeout |-> t.timeout]
    BY <1>2, <2>1, <2>1a DEF ReleaseSavepoint, IsTxn
  <2>4. t.aborted \in BOOLEAN /\ t.timeout \in BOOLEAN
    BY DEF IsTxn
  <2> HIDE DEF n
  <2>5. IsTxn([open |-> TRUE, work |-> SubSeq(t.work, 1, Len(t.work)),
               stack |-> SubSeq(t.stack, 1, n), aborted |-> t.aborted,
               timeout |-> t.timeout])
    BY <2>1, <2>2, <2>4, PrefixIsTxn
  <2>6. QED
    BY <2>1, <2>1a, <2>3, <2>5
<1>3. QED
  BY <1>1, <1>2

\* ROLLBACK TO keeps the savepoints whose marks lie within what is left of the work.
LEMMA RollbackToIsTxn ==
  ASSUME NEW t, IsTxn(t), NEW name
  PROVE  /\ IsTxn(RollbackToSavepoint(t, name))
         /\ RollbackToSavepoint(t, name).open = t.open
<1>1. CASE ~HasSavepoint(t, name)
  BY <1>1, AbortIsTxn DEF RollbackToSavepoint
<1>2. CASE HasSavepoint(t, name)
  <2> DEFINE n == Innermost(t, name)
             m == t.stack[n].mark
  <2>1. n \in 1..Len(t.stack) /\ DOMAIN t.stack = 1..Len(t.stack) /\ Len(t.stack) \in Nat
        /\ n \in 0..Len(t.stack)
    BY <1>2, InnermostIs, TxnParts
  <2>1a. t.open
    BY <1>2, SavepointIsOpen
  <2> HIDE DEF n
  <2>2. \A i \in 1..n : t.stack[i].mark <= m
    BY <2>1 DEF IsTxn
  <2>3. RollbackToSavepoint(t, name) =
          [open |-> TRUE, work |-> SubSeq(t.work, 1, m), stack |-> SubSeq(t.stack, 1, n),
           aborted |-> FALSE, timeout |-> t.stack[n].timeout]
    BY <1>2, <2>1a DEF RollbackToSavepoint, n
  <2>4. m \in 0..Len(t.work) /\ t.stack[n].timeout \in BOOLEAN /\ FALSE \in BOOLEAN
    BY <2>1, TxnParts
  <2> HIDE DEF m
  <2>5. IsTxn([open |-> TRUE, work |-> SubSeq(t.work, 1, m),
               stack |-> SubSeq(t.stack, 1, n), aborted |-> FALSE,
               timeout |-> t.stack[n].timeout])
    BY <2>1, <2>2, <2>4, PrefixIsTxn
  <2>6. QED
    BY <2>1a, <2>3, <2>5
<1>3. QED
  BY <1>1, <1>2

-----------------------------------------------------------------------------
(* Type correctness. *)

\* begin_statement_ex keeps the transaction well-formed.
LEMMA BeginIsTxn ==
  ASSUME NEW t, IsTxn(t), NEW timed \in BOOLEAN
  PROVE  /\ IsTxn(Begin(t, timed))
         /\ Begin(t, timed).work = t.work
         /\ Begin(t, timed).aborted = t.aborted
         /\ Begin(t, timed).open = t.open
         /\ Begin(t, timed).stack = DefineSavepoint(t, Wrapper).stack
<1> DEFINE s == DefineSavepoint(t, Wrapper)
<1>1. IsTxn(s) /\ s.work = t.work /\ s.aborted = t.aborted /\ s.open = t.open
  BY DefineIsTxn
<1>2. Begin(t, timed) = s \/ (t.open /\ Begin(t, timed) = SetTimeout(s))
  BY DEF Begin, Accepts
<1> HIDE DEF s
<1>3. QED
  BY <1>1, <1>2, SetTimeoutIsTxn DEF s

\* finish_statement keeps the transaction well-formed.
LEMMA FinishIsTxn ==
  ASSUME NEW t, IsTxn(t)
  PROVE  IsTxn(Finish(t)) /\ Finish(t).work = t.work /\ Finish(t).open = t.open
BY ReleaseIsTxn DEF Finish

\* recover_statement_error keeps the transaction well-formed.
LEMMA RecoverIsTxn ==
  ASSUME NEW t, IsTxn(t)
  PROVE  IsTxn(Recover(t)) /\ Recover(t).open = t.open
BY RollbackToIsTxn, FinishIsTxn, AbortIsTxn DEF Recover

\* The results of a statement, spelled out.
LEMMA ChangeResultsAre ==
  ASSUME NEW t, NEW d, NEW returning, NEW r \in ChangeResults(t, d, returning)
  PROVE  LET begun == Begin(t, ~returning)
             run   == Change(begun, d)
         IN  \/ ~Accepts(t) /\ r.txn = t /\ r.ok = FALSE /\ r.event = "none"
             \/ /\ Accepts(t)
                /\ r.event \in Allow \cup {"none"}
                /\ \/ r.txn = Finish(run) /\ r.ok = TRUE /\ r.event = "none"
                   \/ r.txn = Recover(Abort(run)) /\ r.ok = FALSE /\ r.event = "none"
                   \/ r.txn = begun /\ r.ok = FALSE /\ r.event = "bindError"
                   \/ r.txn = Abort(t) /\ r.ok = FALSE /\ r.event = "lateCancel"
                   \/ r.txn = Abort(run) /\ r.ok = returning /\ r.event = "lateCancel"
BY DEF ChangeResults, Possible

\* Every result of a DML statement is a transaction and a reply.
LEMMA ChangeResultsType ==
  ASSUME NEW t, IsTxn(t), NEW d \in Nat, NEW returning \in BOOLEAN,
         NEW r \in ChangeResults(t, d, returning)
  PROVE  IsTxn(r.txn) /\ r.ok \in BOOLEAN /\ r.event \in Events \cup {"none"}
<1> DEFINE begun == Begin(t, ~returning)
           run   == Change(begun, d)
<1>0. CASE ~Accepts(t)
  BY <1>0, ChangeResultsAre
<1> SUFFICES ASSUME Accepts(t) PROVE IsTxn(r.txn) /\ r.ok \in BOOLEAN /\ r.event \in Events \cup {"none"}
  BY <1>0
<1>1. IsTxn(begun) /\ IsTxn(run)
  <2>1. (~returning) \in BOOLEAN
    OBVIOUS
  <2>2. IsTxn(begun) /\ begun.open
    BY <2>1, BeginIsTxn DEF Accepts
  <2> HIDE DEF begun
  <2>3. QED
    BY <2>2, ChangeIsTxn
<1>2. IsTxn(Abort(run)) /\ IsTxn(Abort(t)) /\ IsTxn(Finish(run))
  BY <1>1, AbortIsTxn, FinishIsTxn
<1>3. IsTxn(Recover(Abort(run)))
  BY <1>2, RecoverIsTxn
<1>4. QED
  BY <1>1, <1>2, <1>3, ChangeResultsAre DEF Events

\* RowCursor::finish keeps the transaction well-formed.
LEMMA FinishCursorIsTxn ==
  ASSUME NEW t, IsTxn(t), NEW cur
  PROVE  IsTxn(FinishCursor(t, cur))
BY FinishIsTxn DEF FinishCursor

\* RowCursor::next_batch yields a transaction and a cursor.
LEMMA NextBatchType ==
  ASSUME NEW t, IsTxn(t), NEW cur, IsCursor(cur)
  PROVE  /\ IsTxn(NextBatch(t, cur).txn)
         /\ IsCursor(NextBatch(t, cur).cur)
         /\ NextBatch(t, cur).ok \in BOOLEAN
<1>1. CASE cur.unread >= BatchRows
  <2>1. cur.unread \in Nat /\ BatchRows \in Nat \ {0}
    <3>1. CASE cur = NoCursor
      BY <3>1, SessionAssumption DEF NoCursor
    <3>2. CASE cur \in [open : {TRUE}, unread : Nat, fails : BOOLEAN, held : {TRUE}]
      BY <3>2, SessionAssumption
    <3>3. QED
      BY <3>1, <3>2 DEF IsCursor
  <2>2. cur # NoCursor
    BY <1>1, <2>1 DEF NoCursor
  <2>3. cur.unread - BatchRows \in Nat
    BY <1>1, <2>1
  <2> DEFINE n == cur.unread - BatchRows
  <2>4. cur \in [open : {TRUE}, unread : Nat, fails : BOOLEAN, held : {TRUE}]
    BY <2>2 DEF IsCursor
  <2>5. [cur EXCEPT !.unread = @ - BatchRows] = [cur EXCEPT !.unread = n]
    BY <2>4
  <2> HIDE DEF n
  <2>6. IsCursor([cur EXCEPT !.unread = n])
    BY <2>3, <2>4 DEF IsCursor, n
  <2>7. QED
    BY <1>1, <2>5, <2>6 DEF NextBatch
<1>2. CASE ~(cur.unread >= BatchRows) /\ cur.fails
  BY <1>2, RecoverIsTxn DEF NextBatch, IsCursor
<1>3. CASE ~(cur.unread >= BatchRows) /\ ~cur.fails
  BY <1>3, FinishCursorIsTxn DEF NextBatch, IsCursor
<1>4. QED
  BY <1>1, <1>2, <1>3

\* The results of opening a cursor, spelled out.
LEMMA OpenResultsAre ==
  ASSUME NEW t, NEW q, NEW o \in OpenResults(t, q)
  PROVE  LET begun == Begin(t, FALSE) IN
         \/ ~Accepts(t) /\ o = OpenResult(t, NoCursor, plans, FALSE, "none")
         \/ /\ Accepts(t)
            /\ o.event \in Allow \cup {"none"}
            /\ \/ o \in OpenFails(begun, q)
               \/ o \in OpenFailsOnStalePlan(begun, q)
               \/ o \in OpenSucceeds(begun, q)
               \/ o = OpenResult(begun, NoCursor, plans, FALSE, "bindError")
               \/ o = OpenResult(Abort(t), NoCursor, plans, FALSE, "lateCancel")
BY DEF OpenResults, Possible

Plans == [Queries -> {"none", "valid", "stale"}]

\* Every result of open_cursor_with_binds is a transaction, a cursor and a plan cache.
LEMMA OpenResultsType ==
  ASSUME NEW t, IsTxn(t), NEW q \in Queries, plans \in Plans,
         NEW o \in OpenResults(t, q)
  PROVE  /\ IsTxn(o.txn) /\ IsCursor(o.cur) /\ o.plans \in Plans
         /\ o.ok \in BOOLEAN /\ o.event \in Events \cup {"none"}
         /\ ~o.ok => o.cur = NoCursor
<1> DEFINE begun == Begin(t, FALSE)
<1>1. IsTxn(begun)
  BY BeginIsTxn
<1> HIDE DEF begun
<1>2. IsTxn(Abort(begun)) /\ IsTxn(Abort(t))
  BY <1>1, AbortIsTxn
<1>3. IsTxn(Recover(Abort(begun)))
  BY <1>2, RecoverIsTxn
<1>4. \A ps \in PreparedPlans(q) \cup {plans} : ps \in Plans /\ Forget(ps, q) \in Plans
  BY DEF PreparedPlans, Forget, Plans
<1>5. \A n \in 0..MaxRows, fails \in BOOLEAN :
        IsCursor([open |-> TRUE, unread |-> n, fails |-> fails, held |-> TRUE])
  BY SessionAssumption DEF IsCursor
<1>6. IsCursor(NoCursor)
  BY DEF IsCursor
<1>7. ASSUME o \in OpenFails(begun, q) \cup OpenFailsOnStalePlan(begun, q)
      PROVE  /\ o.txn = Recover(Abort(begun)) /\ o.cur = NoCursor /\ o.plans \in Plans
             /\ o.ok = FALSE
  BY <1>4, <1>7 DEF OpenFails, OpenFailsOnStalePlan, OpenResult
<1>8. ASSUME o \in OpenSucceeds(begun, q)
      PROVE  IsTxn(o.txn) /\ IsCursor(o.cur) /\ o.plans \in Plans /\ o.ok = TRUE
  BY <1>1, <1>2, <1>4, <1>5, <1>8 DEF OpenSucceeds, OpenResult
<1>9. CASE ~Accepts(t)
  <2>1. o = OpenResult(t, NoCursor, plans, FALSE, "none")
    BY <1>9, OpenResultsAre
  <2>2. QED
    BY <2>1, <1>6 DEF OpenResult
<1>10. CASE Accepts(t)
  <2>1. o.event \in Events \cup {"none"}
    BY <1>10, OpenResultsAre, SessionAssumption
  <2>2. \/ o \in OpenFails(begun, q) \cup OpenFailsOnStalePlan(begun, q)
        \/ o \in OpenSucceeds(begun, q)
        \/ o = OpenResult(begun, NoCursor, plans, FALSE, "bindError")
        \/ o = OpenResult(Abort(t), NoCursor, plans, FALSE, "lateCancel")
    BY <1>10, OpenResultsAre DEF begun
  <2>3. CASE \/ o = OpenResult(begun, NoCursor, plans, FALSE, "bindError")
             \/ o = OpenResult(Abort(t), NoCursor, plans, FALSE, "lateCancel")
    <3>1. o.txn \in {begun, Abort(t)} /\ o.cur = NoCursor /\ o.plans = plans /\ o.ok = FALSE
      BY <2>3 DEF OpenResult
    <3>2. QED
      BY <2>1, <3>1, <1>1, <1>2, <1>6
  <2>4. QED
    BY <2>1, <2>2, <2>3, <1>3, <1>6, <1>7, <1>8
<1>11. QED
  BY <1>9, <1>10

-----------------------------------------------------------------------------
(* The type invariant. *)

\* The session starts well-formed.
LEMMA InitType == Init => TypeOK
BY FreshIsTxn DEF Init, TypeOK, IsCursor, Reply, Replies, Events, Ops

\* Replies are replies,
LEMMA ReplyType ==
  ASSUME NEW op \in Ops, NEW ok \in BOOLEAN, NEW event \in Events \cup {"none"}
  PROVE  Reply(op, ok, event) \in Replies
BY DEF Reply, Replies

\* and a reply without an event is one too.
LEMMA ReplyWithout ==
  ASSUME NEW op \in Ops, NEW ok \in BOOLEAN
  PROVE  Reply(op, ok, "none") \in Replies
BY DEF Reply, Replies

\* What a COMMIT makes durable are changes.
LEMMA CommittedAreNat ==
  ASSUME NEW t, IsTxn(t)
  PROVE  Committed(t) \subseteq Nat
<1>1. t.work \in Seq(Nat)
  BY TxnParts
<1>2. Range(t.work) \subseteq Nat
  BY <1>1 DEF Range
<1>3. QED
  BY <1>2 DEF Committed

\* The results of a COMMIT, spelled out.
LEMMA CommitResultsAre ==
  ASSUME NEW t, NEW r \in CommitResults(t)
  PROVE  \/ /\ r.txn = Fresh /\ r.durable = Committed(t)
            /\ r.ok = TRUE /\ r.event = "none"
         \/ /\ Accepts(t)
            /\ r.txn = NoBlock /\ r.durable = {}
            /\ r.ok = FALSE /\ r.event = "refusedCommit"
BY DEF CommitResults, Possible

\* Every result of a COMMIT is a transaction, changes and a reply.
LEMMA CommitResultsType ==
  ASSUME NEW t, IsTxn(t), NEW r \in CommitResults(t)
  PROVE  /\ IsTxn(r.txn) /\ r.durable \subseteq Nat
         /\ r.ok \in BOOLEAN /\ r.event \in Events \cup {"none"}
BY CommitResultsAre, CommittedAreNat, FreshIsTxn, NoBlockIsTxn DEF Events

\* Execute of DDL: its first COMMIT is refused, or the statement fails, or it
\* runs and its own COMMIT decides.
LEMMA ExecuteDdlIs ==
  ASSUME ExecuteDdl
  PROVE  /\ phase = "idle" /\ BoundaryAllowed
         /\ UNCHANGED <<cursors, changes, rejected, phase>>
         /\ \E first \in CommitResults(txn) :
              /\ db' = db \cup first.durable
              /\ \/ /\ ~first.ok /\ txn' = first.txn
                    /\ reply' = Reply("DDL", FALSE, first.event)
                    /\ plans' = plans
                 \/ /\ first.ok /\ txn' = Fresh
                    /\ reply' = Reply("DDL", FALSE, "none")
                    /\ plans' = plans
                 \/ /\ first.ok
                    /\ \E second \in CommitResults(first.txn) :
                         /\ txn' = second.txn
                         /\ reply' = Reply("DDL", second.ok, second.event)
                         /\ plans' \in AfterDdl(plans) \cup {plans}
BY DEF ExecuteDdl

\* DDL leaves a cache of plans.
LEMMA AfterDdlType ==
  ASSUME NEW ps \in Plans, NEW qs \in AfterDdl(ps)
  PROVE  qs \in Plans
BY DEF AfterDdl, Plans

\* Every step of the session keeps TypeOK.
LEMMA NextType == TypeOK /\ [Next]_vars => TypeOK'
<1> SUFFICES ASSUME TypeOK, [Next]_vars PROVE TypeOK'
  OBVIOUS
<1>0. /\ IsTxn(txn) /\ plans \in Plans /\ rejected \subseteq Nat /\ db \subseteq Nat
      /\ changes \in Nat /\ changes + 1 \in Nat /\ changes + 2 \in Nat
      /\ DOMAIN cursors = Cursors
      /\ \A c \in Cursors : IsCursor(cursors[c])
  BY DEF TypeOK, Plans
<1>1. ASSUME NEW c \in Cursors, NEW q \in Queries, ExecuteQuery(c, q)
      PROVE  TypeOK'
  <2> DEFINE t1 == FinishCursor(txn, cursors[c])
  <2>1. PICK o \in OpenResults(t1, q) :
          LET first == IF o.ok THEN NextBatch(o.txn, o.cur) ELSE o IN
          /\ txn' = first.txn
          /\ cursors' = [cursors EXCEPT ![c] = first.cur]
          /\ plans' = o.plans
          /\ reply' = Reply("QUERY", first.ok, o.event)
    BY <1>1 DEF ExecuteQuery
  <2>2. IsTxn(t1) /\ plans \in Plans
    BY FinishCursorIsTxn DEF TypeOK, Plans
  <2> HIDE DEF t1
  <2>3. /\ IsTxn(o.txn) /\ IsCursor(o.cur) /\ o.plans \in Plans
        /\ o.ok \in BOOLEAN /\ o.event \in Events \cup {"none"}
    BY <2>2, OpenResultsType
  <2> DEFINE first == IF o.ok THEN NextBatch(o.txn, o.cur) ELSE o
  <2>4. IsTxn(first.txn) /\ IsCursor(first.cur) /\ first.ok \in BOOLEAN
    BY <2>3, NextBatchType
  <2> HIDE DEF first
  <2>5. /\ txn' = first.txn
        /\ cursors' = [cursors EXCEPT ![c] = first.cur]
        /\ plans' = o.plans
        /\ reply' = Reply("QUERY", first.ok, o.event)
    BY <2>1 DEF first
  <2>6. UNCHANGED <<db, changes, rejected, phase>>
    BY <1>1 DEF ExecuteQuery
  <2>7. QED
    BY <2>3, <2>4, <2>5, <2>6, ReplyType DEF TypeOK, Plans, Ops
<1>2. ASSUME NEW c \in Cursors, Fetch(c)
      PROVE  TypeOK'
  <2>1. CASE cursors[c].open
    <3> DEFINE b == NextBatch(txn, cursors[c])
    <3>1. IsTxn(b.txn) /\ IsCursor(b.cur) /\ b.ok \in BOOLEAN
      BY NextBatchType DEF TypeOK
    <3> HIDE DEF b
    <3>2. /\ txn' = b.txn /\ cursors' = [cursors EXCEPT ![c] = b.cur]
          /\ reply' = Reply("FETCH", b.ok, "none")
          /\ UNCHANGED <<db, plans, changes, rejected, phase>>
      BY <1>2, <2>1 DEF Fetch, b
    <3>3. QED
      BY <3>1, <3>2, ReplyWithout DEF TypeOK, Ops
  <2>2. CASE ~cursors[c].open
    BY <1>2, <2>2, ReplyWithout DEF Fetch, TypeOK, Ops
  <2>3. QED
    BY <2>1, <2>2
<1>3. ASSUME NEW returning \in BOOLEAN, ExecuteChange(returning)
      PROVE  TypeOK'
  <2>1. changes' \in Nat
    BY <1>0, <1>3 DEF ExecuteChange
  <2>2. PICK r \in ChangeResults(txn, changes', returning) :
          /\ txn' = r.txn
          /\ rejected' = IF r.ok THEN rejected ELSE rejected \cup {changes'}
          /\ reply' = Reply("CHANGE", r.ok, r.event)
    BY <1>3 DEF ExecuteChange
  <2>3. IsTxn(r.txn) /\ r.ok \in BOOLEAN /\ r.event \in Events \cup {"none"}
    BY <2>1, ChangeResultsType DEF TypeOK
  <2>4. QED
    BY <1>3, <2>1, <2>2, <2>3, ReplyType DEF ExecuteChange, TypeOK, Ops
<1>4. ASSUME ExecuteBatch
      PROVE  TypeOK'
  <2>1. changes + 1 \in Nat /\ changes + 2 \in Nat
    BY <1>0
  <2>2. PICK r1 \in ChangeResults(txn, changes + 1, FALSE) :
          IF ~r1.ok
            THEN /\ txn' = r1.txn
                 /\ rejected' = rejected \cup {changes + 1}
                 /\ reply' = Reply("CHANGE", FALSE, r1.event)
            ELSE \E r2 \in ChangeResults(r1.txn, changes + 2, FALSE) :
                 /\ txn' = r2.txn
                 /\ rejected' = IF r2.ok THEN rejected ELSE rejected \cup {changes + 2}
                 /\ reply' = Reply("CHANGE", r2.ok, r2.event)
    BY <1>4 DEF ExecuteBatch
  <2>3. IsTxn(r1.txn) /\ r1.ok \in BOOLEAN /\ r1.event \in Events \cup {"none"}
    BY <2>1, ChangeResultsType DEF TypeOK
  <2>4. changes' = changes + 2 /\ UNCHANGED <<db, cursors, plans, phase>>
    BY <1>4 DEF ExecuteBatch
  <2>5. CASE ~r1.ok
    BY <2>1, <2>2, <2>3, <2>4, <2>5, ReplyType DEF TypeOK, Ops
  <2>6. CASE r1.ok
    <3>1. PICK r2 \in ChangeResults(r1.txn, changes + 2, FALSE) :
                 /\ txn' = r2.txn
                 /\ rejected' = IF r2.ok THEN rejected ELSE rejected \cup {changes + 2}
                 /\ reply' = Reply("CHANGE", r2.ok, r2.event)
      BY <2>2, <2>6
    <3>2. IsTxn(r2.txn) /\ r2.ok \in BOOLEAN /\ r2.event \in Events \cup {"none"}
      BY <2>1, <2>3, ChangeResultsType
    <3>3. QED
      BY <2>1, <2>4, <3>1, <3>2, ReplyType DEF TypeOK, Ops
  <2>7. QED
    BY <2>5, <2>6
<1>5. ASSUME ExecuteDdl
      PROVE  TypeOK'
  <2>1. PICK first \in CommitResults(txn) :
              /\ db' = db \cup first.durable
              /\ \/ /\ ~first.ok /\ txn' = first.txn
                    /\ reply' = Reply("DDL", FALSE, first.event)
                    /\ plans' = plans
                 \/ /\ first.ok /\ txn' = Fresh
                    /\ reply' = Reply("DDL", FALSE, "none")
                    /\ plans' = plans
                 \/ /\ first.ok
                    /\ \E second \in CommitResults(first.txn) :
                         /\ txn' = second.txn
                         /\ reply' = Reply("DDL", second.ok, second.event)
                         /\ plans' \in AfterDdl(plans) \cup {plans}
    BY <1>5, ExecuteDdlIs
  <2>2. IsTxn(first.txn) /\ first.durable \subseteq Nat /\ first.event \in Events \cup {"none"}
    BY <1>0, CommitResultsType
  <2>3. UNCHANGED <<cursors, changes, rejected, phase>>
    BY <1>5, ExecuteDdlIs
  <2>4. IsTxn(txn') /\ reply' \in Replies /\ plans' \in Plans
    <3>1. CASE ~first.ok /\ txn' = first.txn /\ reply' = Reply("DDL", FALSE, first.event)
               /\ plans' = plans
      BY <3>1, <2>2, <1>0, ReplyType DEF Ops
    <3>2. CASE txn' = Fresh /\ reply' = Reply("DDL", FALSE, "none") /\ plans' = plans
      BY <3>2, <1>0, FreshIsTxn, ReplyWithout DEF Ops
    <3>3. ASSUME NEW second \in CommitResults(first.txn),
                 txn' = second.txn, reply' = Reply("DDL", second.ok, second.event),
                 plans' \in AfterDdl(plans) \cup {plans}
          PROVE  IsTxn(txn') /\ reply' \in Replies /\ plans' \in Plans
      <4>1. IsTxn(second.txn) /\ second.ok \in BOOLEAN /\ second.event \in Events \cup {"none"}
        BY <2>2, CommitResultsType
      <4>2. plans' \in Plans
        BY <1>0, <3>3, AfterDdlType
      <4>3. QED
        BY <3>3, <4>1, <4>2, ReplyType DEF Ops
    <3>4. QED
      BY <2>1, <3>1, <3>2, <3>3
  <2>5. QED
    BY <1>0, <2>1, <2>2, <2>3, <2>4 DEF TypeOK, Plans
<1>6. ASSUME NEW op \in {"COMMIT", "ROLLBACK", "LOGOFF"},
             CommitWork(op) \/ RollbackWork(op)
      PROVE  IsTxn(txn') /\ db' \subseteq Nat /\ reply' \in Replies
  <2>1. CASE CommitWork(op)
    <3>1. PICK r \in CommitResults(txn) :
            db' = db \cup r.durable /\ txn' = r.txn /\ reply' = Reply(op, r.ok, r.event)
      BY <2>1 DEF CommitWork
    <3>2. IsTxn(r.txn) /\ r.durable \subseteq Nat /\ r.ok \in BOOLEAN
          /\ r.event \in Events \cup {"none"}
      BY <1>0, CommitResultsType
    <3>3. QED
      BY <1>0, <3>1, <3>2, ReplyType DEF Ops
  <2>2. CASE RollbackWork(op)
    BY <2>2, <1>0, FreshIsTxn, ReplyWithout DEF RollbackWork, Ops
  <2>3. QED
    BY <1>6, <2>1, <2>2
<1>6a. ASSUME ExecuteTransactionSql
       PROVE  TypeOK'
  BY <1>6, <1>6a DEF ExecuteTransactionSql, TypeOK
<1>7. ASSUME NEW op \in Ops, NEW after, IsTxn(after), NEW ok \in BOOLEAN,
             Direct(op, after, ok)
      PROVE  TypeOK'
  <2>1. reply' \in Replies
    BY <1>7, ReplyType DEF Direct, Events
  <2>2. QED
    BY <1>7, <2>1 DEF Direct, TypeOK
<1>8. ASSUME NEW s \in Savepoints, ClientSavepoint(s) \/ ClientRollbackTo(s) \/ ClientRelease(s)
      PROVE  TypeOK'
  <2>1. IsTxn(txn) /\ Accepts(txn) \in BOOLEAN
    BY TxnParts DEF TypeOK, Accepts
  <2>2. IsTxn(DefineSavepoint(txn, s)) /\ IsTxn(RollbackToSavepoint(txn, s))
        /\ IsTxn(ReleaseSavepoint(txn, s))
    BY <2>1, DefineIsTxn, RollbackToIsTxn, ReleaseIsTxn
  <2>3. HasSavepoint(txn, s) \in BOOLEAN /\ (Accepts(txn) /\ HasSavepoint(txn, s)) \in BOOLEAN
    BY DEF HasSavepoint
  <2>4. QED
    BY <1>7, <1>8, <2>1, <2>2, <2>3 DEF ClientSavepoint, ClientRollbackTo, ClientRelease, Ops
<1>9. ASSUME ClientSet
      PROVE  TypeOK'
  <2>1. IsTxn(txn) /\ IsTxn(Abort(txn)) /\ (~txn.aborted) \in BOOLEAN
    BY AbortIsTxn DEF TypeOK
  <2>2. QED
    BY <1>7, <1>9, <2>1 DEF ClientSet, Ops
<1>10. ASSUME NEW op \in {"COMMIT", "ROLLBACK", "LOGOFF"}, BeginDrain(op)
       PROVE  TypeOK'
  BY <1>10, ReplyWithout DEF BeginDrain, Busy, TypeOK, Ops
<1>11. ASSUME NEW c \in Cursors, DrainCursor(c)
       PROVE  TypeOK'
  BY <1>11, FinishCursorIsTxn DEF DrainCursor, TypeOK, IsCursor
<1>12. ASSUME EndDrain
       PROVE  TypeOK'
  BY <1>6, <1>12 DEF EndDrain, TypeOK
<1>13. ASSUME Disconnect
       PROVE  TypeOK'
  BY <1>6, <1>13 DEF Disconnect, TypeOK, IsCursor
<1>14. ASSUME UNCHANGED vars
       PROVE  TypeOK'
  BY <1>14 DEF vars, TypeOK
<1>15. QED
  BY <1>1, <1>2, <1>3, <1>4, <1>5, <1>6a, <1>8, <1>9, <1>10, <1>11, <1>12, <1>13, <1>14
  DEF Next

\* Every variable keeps its type, for all constants: in particular the mark of
\* a savepoint never lies beyond the work its ROLLBACK TO would return to.
THEOREM SessionType == Spec => []TypeOK
<1>1. Init => TypeOK
  BY InitType
<1>2. TypeOK /\ [Next]_vars => TypeOK'
  BY NextType
<1>3. QED
  BY <1>1, <1>2, PTL DEF Spec

-----------------------------------------------------------------------------
(* The wrappers of open cursors stay on top of the savepoint stack. *)

OnTop(t, k) ==
  /\ k <= Len(t.stack)
  /\ \A i \in 1..Len(t.stack) : i > Len(t.stack) - k => t.stack[i].name = Wrapper

\* k other holders, and this one.
OnTopWith(t, k, cur) == IF cur.held THEN OnTop(t, k + 1) ELSE OnTop(t, k)

\* Fewer wrappers are needed on top than are there.
LEMMA OnTopFewer ==
  ASSUME NEW t, IsTxn(t), NEW k \in Nat, OnTop(t, k + 1)
  PROVE  OnTop(t, k)
BY TxnParts DEF OnTop

\* Only the stack matters for what is on top.
LEMMA OnTopOfSameStack ==
  ASSUME NEW t, NEW u, u.stack = t.stack, NEW k, OnTop(t, k)
  PROVE  OnTop(u, k)
BY DEF OnTop

\* With a wrapper on top, RELEASE takes it and nothing else.
LEMMA FinishTop ==
  ASSUME NEW t, IsTxn(t), OnTop(t, 1), ~t.aborted
  PROVE  /\ Finish(t).stack = SubSeq(t.stack, 1, Len(t.stack) - 1)
         /\ ~Finish(t).aborted
<1>1. Len(t.stack) \in Nat /\ DOMAIN t.stack = 1..Len(t.stack) /\ t.stack \in Seq(Entry)
  BY TxnParts
<1>2. 1 <= Len(t.stack) /\ t.stack[Len(t.stack)].name = Wrapper
  BY <1>1 DEF OnTop
<1>3. HasSavepoint(t, Wrapper)
  BY <1>1, <1>2 DEF HasSavepoint
<1>4. Innermost(t, Wrapper) = Len(t.stack)
  BY <1>1, <1>2, <1>3, InnermostIs
<1>5. QED
  BY <1>3, <1>4 DEF Finish, ReleaseSavepoint, IsTxn

\* ROLLBACK TO keeps it, undoes what was done under it, and clears the error.
LEMMA RollbackToTop ==
  ASSUME NEW t, IsTxn(t), OnTop(t, 1)
  PROVE  /\ HasSavepoint(t, Wrapper)
         /\ RollbackToSavepoint(t, Wrapper).stack = t.stack
         /\ RollbackToSavepoint(t, Wrapper).work =
              SubSeq(t.work, 1, t.stack[Len(t.stack)].mark)
         /\ ~RollbackToSavepoint(t, Wrapper).aborted
<1>1. Len(t.stack) \in Nat /\ DOMAIN t.stack = 1..Len(t.stack) /\ t.stack \in Seq(Entry)
  BY TxnParts
<1>2. 1 <= Len(t.stack) /\ t.stack[Len(t.stack)].name = Wrapper
  BY <1>1 DEF OnTop
<1>3. HasSavepoint(t, Wrapper)
  BY <1>1, <1>2 DEF HasSavepoint
<1>4. Innermost(t, Wrapper) = Len(t.stack)
  BY <1>1, <1>2, <1>3, InnermostIs
<1>5. SubSeq(t.stack, 1, Len(t.stack)) = t.stack
  BY <1>1
<1>6. QED
  BY <1>3, <1>4, <1>5 DEF RollbackToSavepoint

\* recover_statement_error pops the wrapper it finds on top and clears the error.
LEMMA RecoverTop ==
  ASSUME NEW t, IsTxn(t), OnTop(t, 1)
  PROVE  /\ Recover(t).stack = SubSeq(t.stack, 1, Len(t.stack) - 1)
         /\ Recover(t).work = SubSeq(t.work, 1, t.stack[Len(t.stack)].mark)
         /\ ~Recover(t).aborted
<1> DEFINE u == RollbackToSavepoint(t, Wrapper)
<1>1. /\ HasSavepoint(t, Wrapper) /\ u.stack = t.stack /\ ~u.aborted
      /\ u.work = SubSeq(t.work, 1, t.stack[Len(t.stack)].mark)
  BY RollbackToTop
<1>2. IsTxn(u) /\ Recover(t) = Finish(u)
  BY <1>1, RollbackToIsTxn DEF Recover
<1> HIDE DEF u
<1>3. OnTop(u, 1)
  BY <1>1, OnTopOfSameStack
<1>4. QED
  BY <1>1, <1>2, <1>3, FinishTop, FinishIsTxn

\* Without the top entry.
LEMMA OnTopPopped ==
  ASSUME NEW t, IsTxn(t), NEW k \in Nat, OnTop(t, k + 1),
         NEW u, u.stack = SubSeq(t.stack, 1, Len(t.stack) - 1)
  PROVE  OnTop(u, k)
<1>1. Len(t.stack) \in Nat /\ t.stack \in Seq(Entry) /\ Len(t.stack) >= 1
  BY TxnParts DEF OnTop
<1>2. Len(u.stack) = Len(t.stack) - 1 /\ \A i \in 1..Len(u.stack) : u.stack[i] = t.stack[i]
  BY <1>1
<1>3. QED
  BY <1>1, <1>2 DEF OnTop

\* finish_statement pops one wrapper of those on top.
LEMMA FinishOnTop ==
  ASSUME NEW t, IsTxn(t), NEW k \in Nat, OnTop(t, k + 1)
  PROVE  /\ OnTop(Finish(t), k)
         /\ ~t.aborted => ~Finish(t).aborted
<1>1. OnTop(t, 1)
  BY TxnParts DEF OnTop
<1>2. CASE t.aborted
  <2>1. Finish(t).stack = t.stack
    BY <1>2, AbortIsTxn DEF Finish, ReleaseSavepoint
  <2>2. QED
    BY <1>2, <2>1, OnTopFewer, OnTopOfSameStack
<1>3. CASE ~t.aborted
  BY <1>1, <1>3, FinishTop, OnTopPopped
<1>4. QED
  BY <1>2, <1>3

\* recover_statement_error pops one wrapper of those on top.
LEMMA RecoverOnTop ==
  ASSUME NEW t, IsTxn(t), NEW k \in Nat, OnTop(t, k + 1)
  PROVE  OnTop(Recover(t), k) /\ ~Recover(t).aborted
<1>1. OnTop(t, 1)
  BY TxnParts DEF OnTop
<1>2. QED
  BY <1>1, RecoverTop, OnTopPopped

\* What a statement finds after begin_statement_ex.
LEMMA BegunOnTop ==
  ASSUME NEW t, IsTxn(t), Accepts(t), NEW timed \in BOOLEAN, NEW k \in Nat, OnTop(t, k)
  PROVE  OnTop(Begin(t, timed), k + 1)
<1> DEFINE b == Begin(t, timed)
           e == [name |-> Wrapper, mark |-> Len(t.work), timeout |-> t.timeout]
<1>1. b.stack = Append(t.stack, e)
  BY BeginIsTxn, DefineIsTxn
<1>2. Len(t.stack) \in Nat /\ t.stack \in Seq(Entry) /\ Len(t.work) \in Nat /\ t.timeout \in BOOLEAN
  BY TxnParts
<1>3. e \in Entry /\ e.name = Wrapper
  BY <1>2 DEF Entry
<1> HIDE DEF e, b
<1>4. /\ Len(b.stack) = Len(t.stack) + 1
      /\ \A i \in 1..Len(t.stack) : b.stack[i] = t.stack[i]
      /\ b.stack[Len(t.stack) + 1] = e
  BY <1>1, <1>2, <1>3
<1>5. k <= Len(t.stack) /\ \A i \in 1..Len(t.stack) : i > Len(t.stack) - k => t.stack[i].name = Wrapper
  BY DEF OnTop
<1>6. ASSUME NEW i \in 1..Len(b.stack), i > Len(b.stack) - (k + 1)
      PROVE  b.stack[i].name = Wrapper
  <2>1. CASE i = Len(t.stack) + 1
    BY <1>3, <1>4, <2>1
  <2>2. CASE i \in 1..Len(t.stack) /\ i > Len(t.stack) - k
    BY <1>4, <1>5, <2>2
  <2>3. QED
    BY <1>2, <1>4, <1>6, <2>1, <2>2
<1>7. QED
  BY <1>2, <1>4, <1>5, <1>6 DEF OnTop, b

\* A DML statement leaves as many wrappers on top as it found.
LEMMA ChangeOnTop ==
  ASSUME NEW t, IsTxn(t), NEW d \in Nat, NEW returning \in BOOLEAN, NEW k \in Nat, OnTop(t, k),
         NEW r \in ChangeResults(t, d, returning)
  PROVE  /\ OnTop(r.txn, k)
         /\ ~t.aborted /\ r.event # "lateCancel" => ~r.txn.aborted
<1>1. CASE ~Accepts(t)
  BY <1>1, ChangeResultsAre
<1>2. CASE Accepts(t)
  <2> DEFINE begun == Begin(t, ~returning)
             run   == Change(begun, d)
  <2>1. OnTop(begun, k + 1) /\ IsTxn(begun) /\ ~begun.aborted /\ begun.open
    <3>1. (~returning) \in BOOLEAN
      OBVIOUS
    <3>2. QED
      BY <1>2, <3>1, BegunOnTop, BeginIsTxn DEF Accepts
  <2>2. \/ r.txn = Finish(run)
        \/ r.txn = Recover(Abort(run))
        \/ r.txn = begun
        \/ r.txn = Abort(t) /\ r.event = "lateCancel"
        \/ r.txn = Abort(run) /\ r.event = "lateCancel"
    BY <1>2, ChangeResultsAre
  <2> HIDE DEF begun
  <2>3. IsTxn(run) /\ run.stack = begun.stack /\ ~run.aborted
    BY <2>1, ChangeIsTxn
  <2> HIDE DEF run
  <2>4. IsTxn(Abort(run)) /\ Abort(run).stack = begun.stack /\ Abort(t).stack = t.stack
    BY <2>3, AbortIsTxn
  <2>5. OnTop(run, k + 1) /\ OnTop(Abort(run), k + 1) /\ OnTop(Abort(t), k)
    BY <2>1, <2>3, <2>4, OnTopOfSameStack
  <2>6. OnTop(Finish(run), k) /\ ~Finish(run).aborted
    BY <2>3, <2>5, FinishOnTop
  <2>7. OnTop(Recover(Abort(run)), k) /\ ~Recover(Abort(run)).aborted
    BY <2>4, <2>5, RecoverOnTop
  <2>8. OnTop(begun, k) /\ OnTop(Abort(run), k)
    BY <2>1, <2>4, <2>5, OnTopFewer
  <2>9. QED
    BY <2>1, <2>2, <2>5, <2>6, <2>7, <2>8
<1>3. QED
  BY <1>1, <1>2

\* Finishing a cursor takes the one wrapper it held.
LEMMA FinishCursorOnTop ==
  ASSUME NEW t, IsTxn(t), NEW cur, NEW k \in Nat, OnTopWith(t, k, cur)
  PROVE  /\ OnTop(FinishCursor(t, cur), k)
         /\ ~t.aborted => ~FinishCursor(t, cur).aborted
BY FinishOnTop DEF FinishCursor, OnTopWith

\* A cursor of a transaction that is aborted only by that cursor's failure,
\* which the next batch meets.
Sound(t, cur) == ~t.aborted \/ (cur.fails /\ ~(cur.unread >= BatchRows))

\* The cursor open_cursor_with_binds hands over is well-formed.
LEMMA OpenIsCursor ==
  ASSUME NEW cur, IsCursor(cur), cur.open
  PROVE  cur \in [open : {TRUE}, unread : Nat, fails : BOOLEAN, held : {TRUE}]
<1>1. NoCursor.open = FALSE
  BY DEF NoCursor
<1>2. QED
  BY <1>1 DEF IsCursor

\* A batch takes a wrapper only when it closes the cursor that held it.
LEMMA NextBatchOnTop ==
  ASSUME NEW t, IsTxn(t), NEW cur, IsCursor(cur), cur.open, NEW k \in Nat, OnTopWith(t, k, cur)
  PROVE  LET b == NextBatch(t, cur) IN
         /\ OnTopWith(b.txn, k, b.cur)
         /\ Sound(t, cur) => ~b.txn.aborted
         /\ b.cur.fails => cur.fails /\ cur.unread >= BatchRows
<1>0. cur \in [open : {TRUE}, unread : Nat, fails : BOOLEAN, held : {TRUE}]
  BY OpenIsCursor
<1>1. cur.held /\ OnTop(t, k + 1)
  BY <1>0 DEF OnTopWith
<1>2. ~NoCursor.held /\ ~NoCursor.fails
  BY DEF NoCursor
<1>3. CASE cur.unread >= BatchRows
  <2>2. NextBatch(t, cur).txn = t /\ NextBatch(t, cur).cur.held
        /\ NextBatch(t, cur).cur.fails = cur.fails
    BY <1>0, <1>3 DEF NextBatch
  <2>3. QED
    BY <1>1, <1>3, <2>2 DEF OnTopWith, Sound
<1>4. CASE ~(cur.unread >= BatchRows) /\ cur.fails
  <2>1. NextBatch(t, cur).txn = Recover(t) /\ NextBatch(t, cur).cur = NoCursor
    BY <1>4 DEF NextBatch
  <2>2. QED
    BY <1>1, <1>2, <2>1, RecoverOnTop DEF OnTopWith
<1>5. CASE ~(cur.unread >= BatchRows) /\ ~cur.fails
  <2>1. NextBatch(t, cur).txn = FinishCursor(t, cur) /\ NextBatch(t, cur).cur = NoCursor
    BY <1>5 DEF NextBatch
  <2>2. QED
    BY <1>2, <1>5, <2>1, FinishCursorOnTop DEF OnTopWith, Sound
<1>6. QED
  BY <1>3, <1>4, <1>5

\* Opening a cursor adds the wrapper it holds, and failing to adds none that is owed.
LEMMA OpenOnTop ==
  ASSUME NEW t, IsTxn(t), NEW q, NEW k \in Nat, OnTop(t, k), NEW o \in OpenResults(t, q)
  PROVE  /\ OnTopWith(o.txn, k, o.cur)
         /\ o.ok => o.cur.open
         /\ ~t.aborted /\ o.event \notin {"lateCancel", "lateRowError"} =>
              /\ Sound(o.txn, o.cur)
              /\ o.cur.fails => ~(o.cur.unread >= BatchRows)
              /\ ~o.ok => ~o.txn.aborted
<1>1. ~NoCursor.held /\ ~NoCursor.fails
  BY DEF NoCursor
<1>2. CASE ~Accepts(t)
  <2>1. o = OpenResult(t, NoCursor, plans, FALSE, "none")
    BY <1>2, OpenResultsAre
  <2>3. o.txn = t /\ o.cur = NoCursor /\ o.ok = FALSE
    BY <2>1 DEF OpenResult
  <2>4. QED
    BY <1>1, <1>2, <2>3 DEF OnTopWith, Sound
<1>3. CASE Accepts(t)
  <2> DEFINE begun == Begin(t, FALSE)
  <2>1. OnTop(begun, k + 1) /\ IsTxn(begun) /\ ~begun.aborted
    BY <1>3, BegunOnTop, BeginIsTxn DEF Accepts
  <2>2. \/ o \in OpenFails(begun, q) \cup OpenFailsOnStalePlan(begun, q)
        \/ o \in OpenSucceeds(begun, q)
        \/ o = OpenResult(begun, NoCursor, plans, FALSE, "bindError")
        \/ o = OpenResult(Abort(t), NoCursor, plans, FALSE, "lateCancel")
    BY <1>3, OpenResultsAre
  <2> HIDE DEF begun
  <2>3. IsTxn(Abort(begun)) /\ OnTop(Abort(begun), k + 1) /\ OnTop(Abort(t), k)
    BY <2>1, AbortIsTxn, OnTopOfSameStack
  <2>4. CASE o \in OpenFails(begun, q) \cup OpenFailsOnStalePlan(begun, q)
    <3>1. o.txn = Recover(Abort(begun)) /\ o.cur = NoCursor /\ o.ok = FALSE
      BY <2>4 DEF OpenFails, OpenFailsOnStalePlan, OpenResult
    <3>2. QED
      BY <1>1, <2>3, <3>1, RecoverOnTop DEF OnTopWith, Sound
  <2>5. CASE o \in OpenSucceeds(begun, q)
    <3>1. PICK x \in [rows : 0..MaxRows, fails : BOOLEAN, plans : PreparedPlans(q)] :
            o = OpenResult(IF x.fails THEN Abort(begun) ELSE begun,
                           [open |-> TRUE, unread |-> x.rows, fails |-> x.fails, held |-> TRUE],
                           x.plans, TRUE,
                           IF x.fails /\ x.rows >= BatchRows THEN "lateRowError" ELSE "none")
      BY <2>5 DEF OpenSucceeds
    <3>2. /\ o.txn = IF x.fails THEN Abort(begun) ELSE begun
          /\ o.cur.held /\ o.cur.open /\ o.cur.fails = x.fails /\ o.cur.unread = x.rows
          /\ o.ok = TRUE
          /\ o.event = IF x.fails /\ x.rows >= BatchRows THEN "lateRowError" ELSE "none"
      BY <3>1 DEF OpenResult
    <3>3. QED
      BY <2>1, <2>3, <3>2 DEF OnTopWith, Sound
  <2>6. CASE o = OpenResult(begun, NoCursor, plans, FALSE, "bindError")
    <3>1. o.txn = begun /\ o.cur = NoCursor /\ o.ok = FALSE
      BY <2>6 DEF OpenResult
    <3>2. QED
      BY <1>1, <2>1, <3>1, OnTopFewer DEF OnTopWith, Sound
  <2>7. CASE o = OpenResult(Abort(t), NoCursor, plans, FALSE, "lateCancel")
    <3>1. o.txn = Abort(t) /\ o.cur = NoCursor /\ o.ok = FALSE /\ o.event = "lateCancel"
      BY <2>7 DEF OpenResult
    <3>2. QED
      BY <1>1, <2>3, <3>1 DEF OnTopWith
  <2>8. QED
    BY <2>2, <2>4, <2>5, <2>6, <2>7
<1>4. QED
  BY <1>2, <1>3

-----------------------------------------------------------------------------
(* Which cursors hold a wrapper. *)

OtherHolders(c) == Cardinality(Holders \ {c})

\* Finitely many cursors hold savepoints.
LEMMA HoldersFinite ==
  IsFiniteSet(Holders) /\ Cardinality(Holders) \in Nat
  /\ \A c : OtherHolders(c) \in Nat
BY FS_Subset, FS_CardinalityType, FS_RemoveElement, SessionAssumption DEF Holders, OtherHolders

\* WrappersOnTop seen from one cursor.
LEMMA OnTopFrom ==
  ASSUME TypeOK, NEW c \in Cursors
  PROVE  WrappersOnTop <=> OnTopWith(txn, OtherHolders(c), cursors[c])
<1>1. DOMAIN txn.stack = 1..Len(txn.stack)
  BY TxnParts DEF TypeOK
<1>2. Cardinality(Holders) = IF cursors[c].held THEN OtherHolders(c) + 1 ELSE OtherHolders(c)
  BY HoldersFinite, FS_RemoveElement DEF Holders, OtherHolders
<1>3. WrappersOnTop <=> OnTop(txn, Cardinality(Holders))
  BY <1>1 DEF WrappersOnTop, OnTop
<1>4. QED
  BY <1>2, <1>3 DEF OnTopWith

\* And back, after a step that touches one cursor.
LEMMA OnTopInto ==
  ASSUME TypeOK', NEW c \in Cursors,
         \A d \in Cursors \ {c} : cursors'[d].held = cursors[d].held,
         OnTopWith(txn', OtherHolders(c), cursors'[c])
  PROVE  WrappersOnTop'
<1>1. DOMAIN txn'.stack = 1..Len(txn'.stack)
  BY TxnParts DEF TypeOK
<1>2. Holders' \ {c} = Holders \ {c} /\ IsFiniteSet(Holders \ {c})
  BY HoldersFinite, FS_RemoveElement DEF Holders
<1>3. Holders' = IF cursors'[c].held THEN (Holders \ {c}) \cup {c} ELSE Holders \ {c}
  BY <1>2 DEF Holders
<1>4. Cardinality(Holders') =
        IF cursors'[c].held THEN OtherHolders(c) + 1 ELSE OtherHolders(c)
  BY <1>2, <1>3, FS_AddElement DEF OtherHolders
<1>5. WrappersOnTop' <=> OnTop(txn', Cardinality(Holders'))
  BY <1>1 DEF WrappersOnTop, OnTop
<1>6. QED
  BY <1>4, <1>5 DEF OnTopWith

\* After a step that touches none.
LEMMA OnTopKept ==
  ASSUME TypeOK', cursors' = cursors, OnTop(txn', Cardinality(Holders))
  PROVE  WrappersOnTop'
<1>1. DOMAIN txn'.stack = 1..Len(txn'.stack)
  BY TxnParts DEF TypeOK
<1>2. Holders' = Holders
  BY DEF Holders
<1>3. QED
  BY <1>1, <1>2 DEF WrappersOnTop, OnTop

\* When no cursor holds a savepoint, nothing is needed on top.
LEMMA OnTopWhenNone ==
  ASSUME TypeOK', \A c \in Cursors : ~cursors'[c].held
  PROVE  WrappersOnTop'
<1>1. DOMAIN txn'.stack = 1..Len(txn'.stack) /\ Len(txn'.stack) \in Nat
  BY TxnParts DEF TypeOK
<1>2. Holders' = {}
  BY DEF Holders
<1>3. Cardinality(Holders') = 0
  BY <1>2, FS_EmptySet
<1>4. QED
  BY <1>1, <1>3 DEF WrappersOnTop

Usable == ~txn.aborted /\ \A c \in Cursors : ~cursors[c].fails

Quiet == Allow \cap Poisonous = {}

\* A session without open cursors has no holders.
LEMMA ClosedHoldNothing ==
  ASSUME TypeOK, OpenCursors = {}
  PROVE  \A c \in Cursors : ~cursors[c].held /\ ~cursors[c].fails
<1>1. NoCursor.held = FALSE /\ NoCursor.fails = FALSE
  BY DEF NoCursor
<1>2. \A c \in Cursors : ~cursors[c].open
  BY DEF OpenCursors
<1>3. QED
  BY <1>1, <1>2 DEF TypeOK, IsCursor

\* Execute of a query keeps the wrappers on top and the transaction usable.
LEMMA ExecuteQueryOnTop ==
  ASSUME TypeOK, TypeOK', WrappersOnTop,
         NEW c \in Cursors, NEW q \in Queries, ExecuteQuery(c, q)
  PROVE  WrappersOnTop' /\ (Quiet /\ Usable => Usable')
<1> DEFINE t1 == FinishCursor(txn, cursors[c])
           k  == OtherHolders(c)
<1>1. PICK o \in OpenResults(t1, q) :
        LET first == IF o.ok THEN NextBatch(o.txn, o.cur) ELSE o IN
        /\ txn' = first.txn
        /\ cursors' = [cursors EXCEPT ![c] = first.cur]
        /\ plans' = o.plans
        /\ reply' = Reply("QUERY", first.ok, o.event)
  BY DEF ExecuteQuery
<1> DEFINE first == IF o.ok THEN NextBatch(o.txn, o.cur) ELSE o
<1>2. txn' = first.txn /\ cursors' = [cursors EXCEPT ![c] = first.cur]
  BY <1>1
<1>3. IsTxn(txn) /\ k \in Nat /\ OnTopWith(txn, k, cursors[c]) /\ plans \in Plans
      /\ DOMAIN cursors = Cursors
  BY HoldersFinite, OnTopFrom DEF TypeOK, Plans
<1> HIDE DEF k
<1>4. IsTxn(t1) /\ OnTop(t1, k) /\ (~txn.aborted => ~t1.aborted)
  BY <1>3, FinishCursorIsTxn, FinishCursorOnTop
<1> HIDE DEF t1
<1>5. IsTxn(o.txn) /\ IsCursor(o.cur) /\ (~o.ok => o.cur = NoCursor)
  BY <1>3, <1>4, OpenResultsType
<1>6. /\ OnTopWith(o.txn, k, o.cur)
      /\ o.ok => o.cur.open
      /\ ~t1.aborted /\ o.event \notin {"lateCancel", "lateRowError"} =>
           /\ Sound(o.txn, o.cur)
           /\ o.cur.fails => ~(o.cur.unread >= BatchRows)
           /\ ~o.ok => ~o.txn.aborted
  BY <1>3, <1>4, OpenOnTop
<1>7. OnTopWith(first.txn, k, first.cur)
  BY <1>3, <1>5, <1>6, NextBatchOnTop
<1>8. ASSUME Quiet, Usable
      PROVE  ~first.txn.aborted /\ ~first.cur.fails
  <2>1. ~t1.aborted
    BY <1>4, <1>8 DEF Usable
  <2>2. o.event \in Allow \cup {"none"}
    <3>1. CASE o = OpenResult(t1, NoCursor, plans, FALSE, "none")
      BY <3>1 DEF OpenResult
    <3>2. CASE o.event \in Allow \cup {"none"}
      BY <3>2
    <3> QED BY <1>3, <3>1, <3>2, OpenResultsAre
  <2>3. o.event \notin {"lateCancel", "lateRowError"}
    BY <1>8, <2>2 DEF Quiet, Poisonous
  <2>4. ~NoCursor.fails
    BY DEF NoCursor
  <2>5. QED
    BY <1>3, <1>5, <1>6, <2>1, <2>3, <2>4, NextBatchOnTop
<1> HIDE DEF first
<1>9. WrappersOnTop'
  BY <1>2, <1>3, <1>7, OnTopInto DEF k
<1>10. QED
  BY <1>2, <1>3, <1>8, <1>9 DEF Usable

\* So does Fetch.
LEMMA FetchOnTop ==
  ASSUME TypeOK, TypeOK', WrappersOnTop, NEW c \in Cursors, Fetch(c)
  PROVE  WrappersOnTop' /\ (Quiet /\ Usable => Usable')
<1> DEFINE k == OtherHolders(c)
           b == NextBatch(txn, cursors[c])
<1>1. IsTxn(txn) /\ k \in Nat /\ OnTopWith(txn, k, cursors[c]) /\ IsCursor(cursors[c])
      /\ DOMAIN cursors = Cursors
  BY HoldersFinite, OnTopFrom DEF TypeOK
<1>2. CASE cursors[c].open
  <2>1. txn' = b.txn /\ cursors' = [cursors EXCEPT ![c] = b.cur]
    BY <1>2 DEF Fetch
  <2>2. /\ OnTopWith(b.txn, k, b.cur)
        /\ ~txn.aborted => ~b.txn.aborted
        /\ b.cur.fails => cursors[c].fails
    BY <1>1, <1>2, NextBatchOnTop DEF Sound
  <2> HIDE DEF b, k
  <2>3. WrappersOnTop'
    BY <1>1, <2>1, <2>2, OnTopInto DEF k
  <2>4. QED
    BY <1>1, <2>1, <2>2, <2>3 DEF Usable
<1>3. CASE ~cursors[c].open
  <2>1. UNCHANGED <<txn, cursors>>
    BY <1>3 DEF Fetch
  <2>2. QED
    BY <1>1, <2>1, OnTopInto DEF Usable
<1>4. QED
  BY <1>2, <1>3

\* So does the finishing of one cursor before COMMIT, ROLLBACK or LOGOFF.
LEMMA DrainOnTop ==
  ASSUME TypeOK, TypeOK', WrappersOnTop, NEW c \in Cursors, DrainCursor(c)
  PROVE  WrappersOnTop' /\ (Quiet /\ Usable => Usable')
<1> DEFINE k == OtherHolders(c)
           t == FinishCursor(txn, cursors[c])
<1>1. IsTxn(txn) /\ k \in Nat /\ OnTopWith(txn, k, cursors[c]) /\ DOMAIN cursors = Cursors
  BY HoldersFinite, OnTopFrom DEF TypeOK
<1>2. OnTop(t, k) /\ (~txn.aborted => ~t.aborted)
  BY <1>1, FinishCursorOnTop
<1>3. txn' = t /\ cursors' = [cursors EXCEPT ![c] = NoCursor]
  BY DEF DrainCursor
<1>4. ~NoCursor.held /\ ~NoCursor.fails
  BY DEF NoCursor
<1> HIDE DEF t, k
<1>5. WrappersOnTop'
  BY <1>1, <1>2, <1>3, <1>4, OnTopInto DEF k, OnTopWith
<1>6. QED
  BY <1>1, <1>2, <1>3, <1>4, <1>5 DEF Usable

\* So do DML and array DML.
LEMMA ChangesOnTop ==
  ASSUME TypeOK, TypeOK', WrappersOnTop,
         (\E returning \in BOOLEAN : ExecuteChange(returning)) \/ ExecuteBatch
  PROVE  WrappersOnTop' /\ (Quiet /\ Usable => Usable')
<1> DEFINE k == Cardinality(Holders)
<1>1. IsTxn(txn) /\ changes + 1 \in Nat /\ changes + 2 \in Nat
  BY DEF TypeOK
<1>2. k \in Nat /\ OnTop(txn, k)
  BY <1>1, HoldersFinite, TxnParts DEF WrappersOnTop, OnTop
<1>3. cursors' = cursors
  BY DEF ExecuteChange, ExecuteBatch
<1>4. ASSUME NEW t, IsTxn(t), OnTop(t, k), NEW d \in Nat, NEW returning \in BOOLEAN,
             NEW r \in ChangeResults(t, d, returning)
      PROVE  /\ IsTxn(r.txn) /\ OnTop(r.txn, k)
             /\ Quiet /\ ~t.aborted => ~r.txn.aborted
  <2>1. OnTop(r.txn, k) /\ (~t.aborted /\ r.event # "lateCancel" => ~r.txn.aborted)
    BY <1>2, <1>4, ChangeOnTop
  <2>2. ~t.aborted => r.event \in Allow \cup {"none"}
    BY <1>4, ChangeResultsAre
  <2>3. QED
    BY <1>4, <2>1, <2>2, ChangeResultsType DEF Quiet, Poisonous
<1> HIDE DEF k
<1>5. OnTop(txn', k) /\ (Quiet /\ ~txn.aborted => ~txn'.aborted)
  <2>1. CASE \E returning \in BOOLEAN : ExecuteChange(returning)
    <3>1. PICK returning \in BOOLEAN : ExecuteChange(returning)
      BY <2>1
    <3>2. PICK r \in ChangeResults(txn, changes', returning) : txn' = r.txn
      BY <3>1 DEF ExecuteChange
    <3>3. changes' \in Nat
      BY DEF TypeOK
    <3>4. QED
      BY <1>1, <1>2, <1>4, <3>2, <3>3
  <2>2. CASE ExecuteBatch
    <3>1. PICK r1 \in ChangeResults(txn, changes + 1, FALSE) :
            IF ~r1.ok THEN txn' = r1.txn
            ELSE \E r2 \in ChangeResults(r1.txn, changes + 2, FALSE) : txn' = r2.txn
      BY <2>2 DEF ExecuteBatch
    <3>2. IsTxn(r1.txn) /\ OnTop(r1.txn, k) /\ (Quiet /\ ~txn.aborted => ~r1.txn.aborted)
      BY <1>1, <1>2, <1>4
    <3>3. QED
      BY <1>1, <1>4, <3>1, <3>2
  <2>3. QED
    BY <2>1, <2>2
<1>6. WrappersOnTop'
  BY <1>3, <1>5, OnTopKept DEF k
<1>7. QED
  BY <1>3, <1>5, <1>6 DEF Usable

\* Client savepoints, and settings, with no cursor open.
LEMMA DirectUsable ==
  ASSUME TypeOK, ClientSet \/ \E s \in Savepoints :
           ClientSavepoint(s) \/ ClientRollbackTo(s) \/ ClientRelease(s)
  PROVE  /\ BoundaryAllowed /\ cursors' = cursors
         /\ Quiet /\ ~txn.aborted => ~txn'.aborted
<1>1. ASSUME NEW op, NEW after, NEW succeeds \in BOOLEAN, Direct(op, after, succeeds)
      PROVE  /\ BoundaryAllowed /\ cursors' = cursors /\ txn' = after
             /\ Quiet /\ Accepts(txn) => succeeds
  BY <1>1 DEF Direct, Quiet, Poisonous
<1>2. IsTxn(txn) /\ txn.aborted \in BOOLEAN /\ txn.open \in BOOLEAN
      /\ (Accepts(txn) <=> txn.open /\ ~txn.aborted)
  BY TxnParts DEF TypeOK, Accepts
<1> DEFINE Goal == /\ BoundaryAllowed /\ cursors' = cursors
                   /\ Quiet /\ ~txn.aborted => ~txn'.aborted
<1>3. CASE ClientSet
  <2>1. CASE Direct("SET", txn, ~txn.aborted)
    <3>1. (~txn.aborted) \in BOOLEAN
      BY <1>2
    <3>2. QED
      BY <1>1, <2>1, <3>1
  <2>2. CASE Direct("SET", Abort(txn), FALSE)
    <3>1. ~txn.open => Abort(txn) = txn
      BY DEF Abort
    <3>2. QED
      BY <1>1, <1>2, <2>2, <3>1
  <2>3. QED
    BY <1>3, <2>1, <2>2 DEF ClientSet
<1>4. ASSUME NEW s \in Savepoints, ClientSavepoint(s) PROVE Goal
  <2>1. DefineSavepoint(txn, s).aborted = txn.aborted
    BY <1>2, DefineIsTxn
  <2>2. Accepts(txn) \in BOOLEAN
    BY <1>2 DEF Accepts
  <2>3. QED
    BY <1>1, <1>4, <2>1, <2>2 DEF ClientSavepoint
<1>5. ASSUME NEW s \in Savepoints, ClientRollbackTo(s) PROVE Goal
  <2>1. HasSavepoint(txn, s) => ~RollbackToSavepoint(txn, s).aborted
    BY DEF RollbackToSavepoint
  <2>2. HasSavepoint(txn, s) \in BOOLEAN
    BY DEF HasSavepoint
  <2>3. ~txn.open => ~RollbackToSavepoint(txn, s).aborted
    BY <1>2, RollbackToIsTxn, TxnParts
  <2>4. QED
    BY <1>1, <1>2, <1>5, <2>1, <2>2, <2>3 DEF ClientRollbackTo
<1>6. ASSUME NEW s \in Savepoints, ClientRelease(s) PROVE Goal
  <2>1. ~txn.aborted /\ HasSavepoint(txn, s) => ~ReleaseSavepoint(txn, s).aborted
    BY <1>2 DEF ReleaseSavepoint, IsTxn
  <2>2. (Accepts(txn) /\ HasSavepoint(txn, s)) \in BOOLEAN
    OBVIOUS
  <2>3. ~txn.open => ~ReleaseSavepoint(txn, s).aborted
    BY <1>2, ReleaseIsTxn, TxnParts
  <2>4. QED
    BY <1>1, <1>2, <1>6, <2>1, <2>2, <2>3 DEF ClientRelease
<1>7. QED
  BY <1>3, <1>4, <1>5, <1>6

\* Unless transaction control is sent over open cursors, every step keeps the wrappers on top; in quiet runs it also keeps the transaction usable.
LEMMA StepOnTop ==
  ASSUME "boundaryOverCursor" \notin Allow
  PROVE  TypeOK /\ WrappersOnTop /\ [Next]_vars =>
           WrappersOnTop' /\ (Quiet /\ Usable => Usable')
<1> SUFFICES ASSUME TypeOK, WrappersOnTop, [Next]_vars
             PROVE  WrappersOnTop' /\ (Quiet /\ Usable => Usable')
  OBVIOUS
<1> DEFINE Goal == WrappersOnTop' /\ (Quiet /\ Usable => Usable')
<1>1. TypeOK'
  BY NextType
<1>2. ASSUME NEW c \in Cursors,
             (\E q \in Queries : ExecuteQuery(c, q)) \/ Fetch(c) \/ DrainCursor(c)
      PROVE  Goal
  BY <1>1, <1>2, ExecuteQueryOnTop, FetchOnTop, DrainOnTop
<1>3. CASE (\E returning \in BOOLEAN : ExecuteChange(returning)) \/ ExecuteBatch
  BY <1>1, <1>3, ChangesOnTop
<1>4. ASSUME OpenCursors = {}, cursors' = cursors, ~txn.aborted => ~txn'.aborted \/ ~Quiet
      PROVE  Goal
  <2>1. \A c \in Cursors : ~cursors[c].held /\ ~cursors[c].fails
    BY <1>4, ClosedHoldNothing
  <2>2. WrappersOnTop'
    BY <1>1, <1>4, <2>1, OnTopWhenNone
  <2>3. QED
    BY <1>4, <2>1, <2>2 DEF Usable
<1>5. ~Fresh.aborted
  BY DEF Fresh
<1>6. CASE ExecuteDdl \/ ExecuteTransactionSql \/ EndDrain
  <2>1. OpenCursors = {} /\ cursors' = cursors
    BY <1>6, ExecuteDdlIs DEF ExecuteTransactionSql, EndDrain, BoundaryAllowed
  <2>2. \A t : \A r \in CommitResults(t) : ~r.txn.aborted
    BY CommitResultsAre, FreshIsTxn, NoBlockIsTxn
  <2>3. CASE ExecuteDdl
    BY <1>4, <1>5, <2>1, <2>2, <2>3, ExecuteDdlIs
  <2>4. CASE ExecuteTransactionSql \/ EndDrain
    BY <1>4, <1>5, <2>1, <2>2, <2>4
    DEF ExecuteTransactionSql, EndDrain, CommitWork, RollbackWork
  <2>5. QED
    BY <1>6, <2>3, <2>4
<1>7. CASE ClientSet \/ \E s \in Savepoints :
             ClientSavepoint(s) \/ ClientRollbackTo(s) \/ ClientRelease(s)
  BY <1>4, <1>7, DirectUsable DEF BoundaryAllowed
<1>8. CASE (\E op \in {"COMMIT", "ROLLBACK", "LOGOFF"} : BeginDrain(op)) \/ UNCHANGED vars
  <2>1. txn' = txn /\ cursors' = cursors
    BY <1>8 DEF BeginDrain, vars
  <2>2. OnTop(txn', Cardinality(Holders))
    BY <2>1, TxnParts DEF TypeOK, WrappersOnTop, OnTop
  <2>3. QED
    BY <1>1, <2>1, <2>2, OnTopKept DEF Usable
<1>9. CASE Disconnect
  <2>1. txn' = Fresh /\ cursors' = [c \in Cursors |-> NoCursor]
    BY <1>9 DEF Disconnect, RollbackWork
  <2>2. ~NoCursor.held /\ ~NoCursor.fails
    BY DEF NoCursor
  <2>3. QED
    BY <1>1, <1>5, <2>1, <2>2, OnTopWhenNone DEF Usable
<1>10. QED
  BY <1>2, <1>3, <1>6, <1>7, <1>8, <1>9 DEF Next

\* The session starts with no holders and a usable transaction.
LEMMA InitOnTop == Init => WrappersOnTop /\ Usable
<1> SUFFICES ASSUME Init PROVE WrappersOnTop /\ Usable
  OBVIOUS
<1>1. Holders = {}
  BY DEF Init, Holders, NoCursor
<1>2. Cardinality(Holders) = 0 /\ txn = Fresh
  BY <1>1, FS_EmptySet DEF Init
<1>3. Fresh.stack = <<>> /\ Fresh.aborted = FALSE /\ Len(<<>>) = 0
  BY DEF Fresh
<1>4. DOMAIN <<>> = {}
  OBVIOUS
<1>5. WrappersOnTop
  BY <1>2, <1>3, <1>4 DEF WrappersOnTop
<1>6. QED
  BY <1>2, <1>3, <1>5 DEF Init, Usable, NoCursor

\* As long as no transaction control is run over an open cursor, the RELEASE
\* and the ROLLBACK TO of a cursor always reach a wrapper, whatever else goes
\* wrong: late errors, stray cancels, conversion errors, failed commands.
THEOREM SessionWrappers ==
  ASSUME "boundaryOverCursor" \notin Allow
  PROVE  Spec => []WrappersOnTop
<1>1. Init => TypeOK /\ WrappersOnTop
  BY InitType, InitOnTop
<1>2. TypeOK /\ WrappersOnTop /\ [Next]_vars => (TypeOK /\ WrappersOnTop)'
  BY NextType, StepOnTop
<1>3. QED
  BY <1>1, <1>2, PTL DEF Spec

QuietInv == TypeOK /\ WrappersOnTop /\ Usable

\* Without the poisonous events the transaction is usable and the wrappers are on top, always.
LEMMA QuietInvariant ==
  ASSUME Allow \cap Poisonous = {}
  PROVE  Spec => []QuietInv
<1>1. Init => QuietInv
  BY InitType, InitOnTop DEF QuietInv
<1>2. QuietInv /\ [Next]_vars => QuietInv'
  <2>1. "boundaryOverCursor" \notin Allow /\ Quiet
    BY DEF Poisonous, Quiet
  <2>2. QED
    BY <2>1, NextType, StepOnTop DEF QuietInv
<1>3. QED
  BY <1>1, <1>2, PTL DEF Spec

BusyWhileDraining ==
  phase \in {"COMMIT", "ROLLBACK", "LOGOFF"} => reply.op = "BUSY"

\* While cursors are drained the last reply is that the request is under way.
LEMMA DrainsAreBusy == Spec => []BusyWhileDraining
<1>1. Init => BusyWhileDraining
  BY DEF Init, BusyWhileDraining
<1>2. BusyWhileDraining /\ [Next]_vars => BusyWhileDraining'
  <2> SUFFICES ASSUME BusyWhileDraining, [Next]_vars PROVE BusyWhileDraining'
    OBVIOUS
  <2>1. CASE phase' = phase /\ phase = "idle"
    BY <2>1 DEF BusyWhileDraining
  <2>2. CASE \/ \E c \in Cursors, q \in Queries : ExecuteQuery(c, q)
             \/ \E c \in Cursors : Fetch(c)
             \/ \E returning \in BOOLEAN : ExecuteChange(returning)
             \/ ExecuteBatch
             \/ ExecuteDdl
             \/ ExecuteTransactionSql
    BY <2>1, <2>2 DEF ExecuteQuery, Fetch, ExecuteChange, ExecuteBatch, ExecuteDdl,
                      ExecuteTransactionSql
  <2>3. CASE ClientSet \/ \E s \in Savepoints :
               ClientSavepoint(s) \/ ClientRollbackTo(s) \/ ClientRelease(s)
    BY <2>1, <2>3 DEF ClientSet, ClientSavepoint, ClientRollbackTo, ClientRelease, Direct
  <2>4. CASE \E op \in {"COMMIT", "ROLLBACK", "LOGOFF"} : BeginDrain(op)
    BY <2>4 DEF BeginDrain, Busy, Reply, BusyWhileDraining
  <2>5. CASE (\E c \in Cursors : DrainCursor(c)) \/ UNCHANGED vars
    BY <2>5 DEF DrainCursor, vars, BusyWhileDraining
  <2>6. CASE EndDrain \/ Disconnect
    BY <2>6 DEF EndDrain, Disconnect, BusyWhileDraining
  <2>7. QED
    BY <2>2, <2>3, <2>4, <2>5, <2>6 DEF Next
<1>3. QED
  BY <1>1, <1>2, PTL DEF Spec

Works == {"AUTH", "QUERY", "CHANGE", "DDL", "COMMIT", "ROLLBACK", "LOGOFF", "SAVEPOINT",
          "ROLLBACK TO", "RELEASE"}

\* What is answered with success was done inside a transaction block.
InBlock == reply.ok /\ reply.op \in Works => txn.open

\* A statement that works leaves the block it found.
LEMMA ChangeInBlock ==
  ASSUME NEW t, IsTxn(t), NEW d \in Nat, NEW returning \in BOOLEAN,
         NEW r \in ChangeResults(t, d, returning), r.ok
  PROVE  r.txn.open
<1>1. Accepts(t) /\ t.open
  BY ChangeResultsAre DEF Accepts
<1>2. (~returning) \in BOOLEAN
  OBVIOUS
<1> DEFINE begun == Begin(t, ~returning)
           run   == Change(begun, d)
<1>3. r.txn \in {Finish(run), Recover(Abort(run)), begun, Abort(t), Abort(run)}
  BY <1>1 DEF ChangeResults, Possible
<1>4. IsTxn(begun) /\ begun.open
  BY <1>1, <1>2, BeginIsTxn
<1> HIDE DEF begun
<1>5. IsTxn(run) /\ run.open
  BY <1>4, ChangeIsTxn
<1> HIDE DEF run
<1>6. Finish(run).open /\ Abort(t).open /\ IsTxn(Abort(run)) /\ Abort(run).open
  BY <1>1, <1>5, FinishIsTxn, AbortIsTxn
<1>7. Recover(Abort(run)).open
  BY <1>6, RecoverIsTxn
<1>8. QED
  BY <1>3, <1>4, <1>6, <1>7

\* A cursor is opened only inside one.
LEMMA OpenInBlock ==
  ASSUME NEW t, IsTxn(t), NEW q, NEW o \in OpenResults(t, q), o.ok
  PROVE  o.txn.open
<1>0. o # OpenResult(t, NoCursor, plans, FALSE, "none")
  BY DEF OpenResult
<1>1. Accepts(t) /\ t.open
  BY <1>0, OpenResultsAre DEF Accepts
<1>2. PICK begun : begun = Begin(t, FALSE)
  OBVIOUS
<1>3. IsTxn(begun) /\ begun.open
  BY <1>1, <1>2, BeginIsTxn
<1>4. \/ o \in OpenFails(begun, q) \cup OpenFailsOnStalePlan(begun, q)
      \/ o \in OpenSucceeds(begun, q)
      \/ o = OpenResult(begun, NoCursor, plans, FALSE, "bindError")
      \/ o = OpenResult(Abort(t), NoCursor, plans, FALSE, "lateCancel")
  BY <1>0, <1>2, OpenResultsAre
<1>5. o.txn \in {Recover(Abort(begun)), begun, Abort(begun), Abort(t)}
  BY <1>4 DEF OpenFails, OpenFailsOnStalePlan, OpenSucceeds, OpenResult
<1>6. Abort(t).open /\ IsTxn(Abort(begun)) /\ Abort(begun).open
  BY <1>1, <1>3, AbortIsTxn
<1>7. Recover(Abort(begun)).open
  BY <1>6, RecoverIsTxn
<1>8. QED
  BY <1>3, <1>5, <1>6, <1>7

\* A batch of rows leaves it.
LEMMA NextBatchInBlock ==
  ASSUME NEW t, IsTxn(t), NEW cur
  PROVE  NextBatch(t, cur).txn.open = t.open
BY RecoverIsTxn, FinishIsTxn DEF NextBatch, FinishCursor

\* No request of any client is answered with success outside a block, under
\* any events.
LEMMA AlwaysInBlock == Spec => []InBlock
<1>1. Init => InBlock
  BY FreshIsTxn DEF Init, InBlock
<1>2. TypeOK /\ BusyWhileDraining /\ InBlock /\ [Next]_vars => InBlock'
  <2> SUFFICES ASSUME TypeOK, BusyWhileDraining, InBlock, [Next]_vars PROVE InBlock'
    OBVIOUS
  <2>0. IsTxn(txn) /\ changes + 1 \in Nat /\ changes + 2 \in Nat
    BY DEF TypeOK
  <2>1. ASSUME NEW c \in Cursors, NEW q \in Queries, ExecuteQuery(c, q)
        PROVE  InBlock'
    <3>1. PICK t : t = FinishCursor(txn, cursors[c])
      OBVIOUS
    <3>2. PICK o \in OpenResults(t, q) :
            LET first == IF o.ok THEN NextBatch(o.txn, o.cur) ELSE o IN
            /\ txn' = first.txn
            /\ reply' = Reply("QUERY", first.ok, o.event)
      BY <2>1, <3>1 DEF ExecuteQuery
    <3>3. IsTxn(t) /\ plans \in Plans
      BY <2>0, <3>1, FinishCursorIsTxn DEF TypeOK, Plans
    <3>4. IsTxn(o.txn)
      BY <3>3, OpenResultsType
    <3>5. CASE o.ok
      <4>1. o.txn.open
        BY <3>3, <3>5, OpenInBlock
      <4>2. txn' = NextBatch(o.txn, o.cur).txn
        BY <3>2, <3>5
      <4>3. QED
        BY <3>4, <4>1, <4>2, NextBatchInBlock DEF InBlock
    <3>6. CASE ~o.ok
      <4>1. reply' = Reply("QUERY", o.ok, o.event)
        BY <3>2, <3>6
      <4>2. QED
        BY <3>6, <4>1 DEF InBlock, Reply
    <3>7. QED
      BY <3>5, <3>6
  <2>2. ASSUME NEW c \in Cursors, Fetch(c)
        PROVE  InBlock'
    <3>1. PICK ok : reply' = Reply("FETCH", ok, "none")
      BY <2>2 DEF Fetch
    <3>2. QED
      BY <3>1 DEF InBlock, Reply, Works
  <2>3. ASSUME NEW returning \in BOOLEAN, ExecuteChange(returning)
        PROVE  InBlock'
    <3>1. PICK r \in ChangeResults(txn, changes + 1, returning) :
            txn' = r.txn /\ reply' = Reply("CHANGE", r.ok, r.event)
      BY <2>3 DEF ExecuteChange
    <3>2. r.ok => r.txn.open
      BY <2>0, ChangeInBlock
    <3>3. QED
      BY <3>1, <3>2 DEF InBlock, Reply
  <2>4. ASSUME ExecuteBatch
        PROVE  InBlock'
    <3>1. PICK r1 \in ChangeResults(txn, changes + 1, FALSE) :
            IF ~r1.ok THEN reply' = Reply("CHANGE", FALSE, r1.event)
            ELSE \E r2 \in ChangeResults(r1.txn, changes + 2, FALSE) :
                   txn' = r2.txn /\ reply' = Reply("CHANGE", r2.ok, r2.event)
      BY <2>4 DEF ExecuteBatch
    <3>2. CASE ~r1.ok
      <4>1. reply' = Reply("CHANGE", FALSE, r1.event)
        BY <3>1, <3>2
      <4>2. QED
        BY <4>1 DEF InBlock, Reply
    <3>3. CASE r1.ok
      <4>1. PICK r2 \in ChangeResults(r1.txn, changes + 2, FALSE) :
              txn' = r2.txn /\ reply' = Reply("CHANGE", r2.ok, r2.event)
        BY <3>1, <3>3
      <4>2. IsTxn(r1.txn)
        BY <2>0, ChangeResultsType
      <4>3. r2.ok => r2.txn.open
        BY <2>0, <4>2, ChangeInBlock
      <4>4. QED
        BY <4>1, <4>3 DEF InBlock, Reply
    <3>4. QED
      BY <3>2, <3>3
  <2>5. ASSUME NEW t, NEW r \in CommitResults(t)
        PROVE  r.ok => r.txn.open
    BY <2>5, CommitResultsAre, FreshIsTxn
  <2>6. ASSUME ExecuteDdl
        PROVE  InBlock'
    <3>1. \/ \E event : reply' = Reply("DDL", FALSE, event)
          \/ \E t : \E r \in CommitResults(t) :
                txn' = r.txn /\ reply' = Reply("DDL", r.ok, r.event)
      BY <2>6, ExecuteDdlIs
    <3>2. QED
      BY <2>5, <3>1 DEF InBlock, Reply
  <2>7. ASSUME NEW op, CommitWork(op) \/ RollbackWork(op)
        PROVE  InBlock'
    <3>1. CASE CommitWork(op)
      BY <2>5, <3>1 DEF CommitWork, InBlock, Reply
    <3>2. CASE RollbackWork(op)
      BY <3>2, FreshIsTxn DEF RollbackWork, InBlock
    <3>3. QED
      BY <2>7, <3>1, <3>2
  <2>8. CASE ExecuteTransactionSql \/ EndDrain \/ Disconnect
    BY <2>7, <2>8 DEF ExecuteTransactionSql, EndDrain, Disconnect
  <2>9. ASSUME NEW op, NEW after, NEW succeeds, Direct(op, after, succeeds),
               op \in Works /\ succeeds => after.open
        PROVE  InBlock'
    BY <2>9 DEF Direct, InBlock, Reply
  <2>10. ASSUME NEW s \in Savepoints,
                ClientSavepoint(s) \/ ClientRollbackTo(s) \/ ClientRelease(s)
         PROVE  InBlock'
    <3>1. /\ DefineSavepoint(txn, s).open = txn.open
          /\ RollbackToSavepoint(txn, s).open = txn.open
          /\ ReleaseSavepoint(txn, s).open = txn.open
      BY <2>0, DefineIsTxn, RollbackToIsTxn, ReleaseIsTxn
    <3>2. HasSavepoint(txn, s) => txn.open
      BY <2>0, SavepointIsOpen
    <3>3. Accepts(txn) => txn.open
      BY DEF Accepts
    <3>4. CASE ClientSavepoint(s)
      BY <2>9, <3>1, <3>3, <3>4, Zenon DEF ClientSavepoint
    <3>5. CASE ClientRollbackTo(s)
      BY <2>9, <3>1, <3>2, <3>5, Zenon DEF ClientRollbackTo
    <3>6. CASE ClientRelease(s)
      BY <2>9, <3>1, <3>3, <3>6, Zenon DEF ClientRelease
    <3>7. QED
      BY <2>10, <3>4, <3>5, <3>6
  <2>11. ASSUME ClientSet
         PROVE  InBlock'
    <3>1. "SET" \notin Works
      BY DEF Works
    <3>2. QED
      BY <2>9, <2>11, <3>1, Zenon DEF ClientSet
  <2>12. ASSUME NEW op, BeginDrain(op)
         PROVE  InBlock'
    BY <2>12 DEF BeginDrain, Busy, Reply, InBlock, Works
  <2>13. ASSUME NEW c \in Cursors, DrainCursor(c)
         PROVE  InBlock'
    <3>1. reply' = reply /\ reply.op = "BUSY"
      BY <2>13 DEF DrainCursor, BusyWhileDraining
    <3>2. QED
      BY <3>1 DEF InBlock, Works
  <2>14. CASE UNCHANGED vars
    BY <2>14 DEF vars, InBlock
  <2>15. QED
    BY <2>1, <2>2, <2>3, <2>4, <2>6, <2>8, <2>10, <2>11, <2>12, <2>13, <2>14 DEF Next
<1>3. QED
  BY <1>1, <1>2, SessionType, DrainsAreBusy, PTL DEF Spec

\* Without the events that poison it, no request of any client, in any order,
\* with any number of cursors open and whatever COMMITs the server refuses,
\* leaves the transaction aborted; and nothing is answered with success while
\* the connection is outside a transaction block.
THEOREM SessionUsable ==
  ASSUME Allow \cap Poisonous = {}
  PROVE  Spec => []TransactionUsable
<1>1. Spec => []QuietInv
  BY QuietInvariant
<1>2. TypeOK /\ QuietInv /\ InBlock => TransactionUsable
  <2> SUFFICES ASSUME TypeOK, QuietInv, InBlock PROVE TransactionUsable
    OBVIOUS
  <2>1. reply.op \in Ops /\ reply.op \notin {"FETCH", "SET", "BUSY"} => reply.op \in Works
    BY DEF Ops, Works
  <2>2. reply.op \in Ops
    BY DEF TypeOK, Replies
  <2>3. QED
    BY <2>1, <2>2 DEF QuietInv, Usable, InBlock, TransactionUsable
<1>3. QED
  BY <1>1, <1>2, SessionType, AlwaysInBlock, PTL

\* And then COMMIT, and DDL, is all or nothing: what it is answered tells which.
\* Either every acknowledged change is durable, or the server refused the
\* COMMIT, the client is told and nothing has become durable.
THEOREM SessionCommits ==
  ASSUME Allow \cap Poisonous = {}
  PROVE  Spec => CommitKeepsWork
<1> DEFINE Refused == reply'.event = "refusedCommit" /\ ~reply'.ok /\ db' = db
           Step == reply'.op \in {"COMMIT", "DDL"} =>
                     (Range(txn.work) \ rejected \subseteq db' \/ Refused)
<1>1. QuietInv /\ BusyWhileDraining /\ [Next]_vars => [Step]_vars
  <2> SUFFICES ASSUME QuietInv, BusyWhileDraining, Next, reply'.op \in {"COMMIT", "DDL"}
               PROVE  Range(txn.work) \subseteq db' \/ Refused
    OBVIOUS
  <2> USE DEF Reply
  <2>1. Committed(txn) = Range(txn.work)
    BY DEF QuietInv, Usable, Committed
  <2>2. ASSUME NEW r \in CommitResults(txn)
        PROVE  \/ r.ok /\ r.durable = Range(txn.work)
               \/ ~r.ok /\ r.durable = {} /\ r.event = "refusedCommit"
    BY <2>1, <2>2, CommitResultsAre
  <2>3. CASE ExecuteDdl
    BY <2>2, <2>3, ExecuteDdlIs
  <2>3a. ASSUME NEW op, CommitWork(op)
         PROVE  Range(txn.work) \subseteq db' \/ Refused
    BY <2>2, <2>3a DEF CommitWork
  <2>3b. CASE ExecuteTransactionSql \/ EndDrain
    BY <2>3a, <2>3b DEF ExecuteTransactionSql, EndDrain, RollbackWork
  <2>4. CASE Disconnect
    BY <2>4 DEF Disconnect, RollbackWork
  <2>5. CASE \E c \in Cursors, q \in Queries : ExecuteQuery(c, q)
    BY <2>5 DEF ExecuteQuery
  <2>6. CASE \E c \in Cursors : Fetch(c)
    BY <2>6 DEF Fetch
  <2>7. CASE \E returning \in BOOLEAN : ExecuteChange(returning)
    BY <2>7 DEF ExecuteChange
  <2>8. CASE ExecuteBatch
    <3>1. PICK r1 \in ChangeResults(txn, changes + 1, FALSE) :
            IF ~r1.ok THEN reply' = Reply("CHANGE", FALSE, r1.event)
            ELSE \E r2 \in ChangeResults(r1.txn, changes + 2, FALSE) :
                   reply' = Reply("CHANGE", r2.ok, r2.event)
      BY <2>8 DEF ExecuteBatch
    <3>2. CASE ~r1.ok
      BY <3>1, <3>2
    <3>3. CASE r1.ok
      <4>1. PICK r2 \in ChangeResults(r1.txn, changes + 2, FALSE) :
              reply' = Reply("CHANGE", r2.ok, r2.event)
        BY <3>1, <3>3
      <4>2. QED
        BY <4>1
    <3>4. QED
      BY <3>2, <3>3
  <2>9. CASE ClientSet \/ \E s \in Savepoints :
               ClientSavepoint(s) \/ ClientRollbackTo(s) \/ ClientRelease(s)
    <3>1. ASSUME NEW op, NEW after, NEW succeeds, Direct(op, after, succeeds)
          PROVE  reply'.op = op
      BY <3>1 DEF Direct
    <3>2. reply'.op \in {"SET", "SAVEPOINT", "ROLLBACK TO", "RELEASE"}
      BY <2>9, <3>1 DEF ClientSet, ClientSavepoint, ClientRollbackTo, ClientRelease
    <3>3. QED
      BY <3>2
  <2>10. CASE \E op \in {"COMMIT", "ROLLBACK", "LOGOFF"} : BeginDrain(op)
    BY <2>10 DEF BeginDrain, Busy
  <2>11. CASE \E c \in Cursors : DrainCursor(c)
    <3>1. UNCHANGED reply /\ phase \in {"COMMIT", "ROLLBACK", "LOGOFF"}
      BY <2>11 DEF DrainCursor
    <3>2. QED
      BY <3>1 DEF BusyWhileDraining
  <2>12. QED
    BY <2>3, <2>3b, <2>4, <2>5, <2>6, <2>7, <2>8, <2>9, <2>10, <2>11 DEF Next
<1>2. QED
  BY <1>1, QuietInvariant, DrainsAreBusy, PTL DEF Spec, CommitKeepsWork

-----------------------------------------------------------------------------
(* Rejected changes stay out of the database, whatever happens.            *)
(*                                                                         *)
(* A rejected change may still be in the work of an aborted transaction.   *)
(* It is never below the mark of a savepoint, so the only way out of the   *)
(* aborted state other than the end of the transaction, ROLLBACK TO, drops *)
(* it.                                                                     *)

Pure(t, R, n) ==
  /\ IsTxn(t)
  /\ \A p \in 1..Len(t.work) : t.work[p] <= n
  /\ \A i \in 1..Len(t.stack), p \in 1..Len(t.work) :
       p <= t.stack[i].mark => t.work[p] \notin R
  /\ ~t.aborted => \A p \in 1..Len(t.work) : t.work[p] \notin R

\* What Pure says, taken apart.
LEMMA PureParts ==
  ASSUME NEW t, NEW R, NEW n, Pure(t, R, n)
  PROVE  /\ IsTxn(t) /\ Len(t.stack) \in Nat /\ Len(t.work) \in Nat
         /\ \A p \in 1..Len(t.work) : t.work[p] \in Nat /\ t.work[p] <= n
         /\ \A i \in 1..Len(t.stack) : t.stack[i].mark \in 0..Len(t.work)
         /\ \A i \in 1..Len(t.stack), p \in 1..Len(t.work) :
              p <= t.stack[i].mark => t.work[p] \notin R
         /\ ~t.aborted => \A p \in 1..Len(t.work) : t.work[p] \notin R
<1>1. IsTxn(t)
  BY DEF Pure
<1>2. t.work \in Seq(Nat) /\ Len(t.stack) \in Nat /\ Len(t.work) \in Nat
      /\ \A i \in 1..Len(t.stack) : t.stack[i].mark \in 0..Len(t.work)
  BY <1>1, TxnParts
<1>3. \A p \in 1..Len(t.work) : t.work[p] \in Nat
  BY <1>2
<1>4. QED
  BY <1>1, <1>2, <1>3 DEF Pure

\* A new transaction contains no rejected change.
LEMMA PureFresh ==
  ASSUME NEW R, NEW n
  PROVE  Pure(Fresh, R, n)
<1>1. IsTxn(Fresh) /\ Len(Fresh.work) = 0 /\ Len(Fresh.stack) = 0
  BY FreshIsTxn, EmptySeq DEF Fresh
<1>2. QED
  BY <1>1 DEF Pure

\* Outside a block there is none.
LEMMA PureNoBlock ==
  ASSUME NEW R, NEW n
  PROVE  Pure(NoBlock, R, n)
<1>1. IsTxn(NoBlock) /\ Len(NoBlock.work) = 0 /\ Len(NoBlock.stack) = 0
  BY NoBlockIsTxn, EmptySeq DEF NoBlock
<1>2. QED
  BY <1>1 DEF Pure

\* An error adds none.
LEMMA PureAbort ==
  ASSUME NEW t, NEW R, NEW n, Pure(t, R, n)
  PROVE  Pure(Abort(t), R, n)
<1>1. CASE t.open
  BY <1>1, AbortIsTxn DEF Pure
<1>2. CASE ~t.open
  BY <1>2 DEF Abort
<1>3. QED
  BY <1>1, <1>2

\* Nor does SAVEPOINT.
LEMMA PureDefine ==
  ASSUME NEW t, NEW R, NEW n, Pure(t, R, n), NEW name \in Savepoints \cup {Wrapper}
  PROVE  Pure(DefineSavepoint(t, name), R, n)
<1>1. CASE ~Accepts(t)
  BY <1>1 DEF DefineSavepoint
<1>2. CASE Accepts(t)
  <2> DEFINE u == DefineSavepoint(t, name)
             e == [name |-> name, mark |-> Len(t.work), timeout |-> t.timeout]
  <2>1. IsTxn(t) /\ t.stack \in Seq(Entry) /\ Len(t.stack) \in Nat
    BY TxnParts DEF Pure
  <2>2. IsTxn(u) /\ u.work = t.work /\ u.aborted = t.aborted /\ u.stack = Append(t.stack, e)
    BY <1>2, <2>1, DefineIsTxn
  <2>3. e.mark = Len(t.work)
    OBVIOUS
  <2> HIDE DEF u, e
  <2>4. Len(u.stack) = Len(t.stack) + 1 /\ u.stack[Len(t.stack) + 1] = e
        /\ \A i \in 1..Len(t.stack) : u.stack[i] = t.stack[i]
    BY <2>1, <2>2
  <2>5. QED
    BY <1>2, <2>1, <2>2, <2>3, <2>4 DEF Pure, u, Accepts
<1>3. QED
  BY <1>1, <1>2

\* Nor does begin_statement_ex.
LEMMA PureBegin ==
  ASSUME NEW t, NEW R, NEW n, Pure(t, R, n), NEW timed \in BOOLEAN
  PROVE  Pure(Begin(t, timed), R, n)
<1>1. Pure(DefineSavepoint(t, Wrapper), R, n)
  BY PureDefine
<1>2. IsTxn(t) /\ DefineSavepoint(t, Wrapper).work = t.work
      /\ DefineSavepoint(t, Wrapper).aborted = t.aborted
  BY DefineIsTxn DEF Pure
<1>3. /\ IsTxn(Begin(t, timed))
      /\ Begin(t, timed).work = t.work
      /\ Begin(t, timed).aborted = t.aborted
      /\ Begin(t, timed).stack = DefineSavepoint(t, Wrapper).stack
  BY <1>2, BeginIsTxn
<1>4. QED
  BY <1>1, <1>2, <1>3 DEF Pure

\* Nor does RELEASE.
LEMMA PureRelease ==
  ASSUME NEW t, NEW R, NEW n, Pure(t, R, n), NEW name
  PROVE  Pure(ReleaseSavepoint(t, name), R, n)
<1>1. CASE t.aborted \/ ~HasSavepoint(t, name)
  BY <1>1, PureAbort DEF ReleaseSavepoint
<1>2. CASE ~t.aborted /\ HasSavepoint(t, name)
  <2> DEFINE u == ReleaseSavepoint(t, name)
             i == Innermost(t, name)
  <2>1. IsTxn(t) /\ IsTxn(u) /\ u.work = t.work
    BY ReleaseIsTxn DEF Pure
  <2>2. i \in 1..Len(t.stack) /\ t.stack \in Seq(Entry) /\ Len(t.stack) \in Nat
    BY <1>2, <2>1, InnermostIs, TxnParts
  <2>3. u.stack = SubSeq(t.stack, 1, i - 1) /\ u.aborted = t.aborted
    BY <1>2, <2>1 DEF ReleaseSavepoint, IsTxn
  <2> HIDE DEF u, i
  <2>4. Len(u.stack) = i - 1 /\ \A j \in 1..Len(u.stack) : u.stack[j] = t.stack[j]
    BY <2>2, <2>3
  <2>5. QED
    BY <2>1, <2>2, <2>3, <2>4 DEF Pure, u
<1>3. QED
  BY <1>1, <1>2

\* Nor does ROLLBACK TO.
LEMMA PureRollbackTo ==
  ASSUME NEW t, NEW R, NEW n, Pure(t, R, n), NEW name
  PROVE  Pure(RollbackToSavepoint(t, name), R, n)
<1>1. CASE ~HasSavepoint(t, name)
  BY <1>1, PureAbort DEF RollbackToSavepoint
<1>2. CASE HasSavepoint(t, name)
  <2> DEFINE u == RollbackToSavepoint(t, name)
             i == Innermost(t, name)
             m == t.stack[i].mark
  <2>1. IsTxn(t) /\ IsTxn(u)
    BY RollbackToIsTxn DEF Pure
  <2>2. i \in 1..Len(t.stack) /\ t.stack \in Seq(Entry) /\ Len(t.stack) \in Nat
        /\ DOMAIN t.stack = 1..Len(t.stack)
    BY <1>2, <2>1, InnermostIs, TxnParts
  <2>3. u.stack = SubSeq(t.stack, 1, i) /\ u.work = SubSeq(t.work, 1, m)
    BY <1>2 DEF RollbackToSavepoint
  <2> HIDE DEF u, i
  <2>4. m \in 0..Len(t.work) /\ t.work \in Seq(Nat) /\ Len(t.work) \in Nat
    BY <2>1, <2>2, TxnParts
  <2>5. \A j \in 1..i : t.stack[j].mark <= m
    <3>1. \A a, b \in DOMAIN t.stack : a <= b => t.stack[a].mark <= t.stack[b].mark
      BY <2>1 DEF IsTxn
    <3>2. QED
      BY <2>2, <3>1
  <2> HIDE DEF m
  <2>6. Len(u.stack) = i /\ \A j \in 1..Len(u.stack) : u.stack[j] = t.stack[j]
    BY <2>2, <2>3
  <2>7. Len(u.work) = m /\ \A p \in 1..Len(u.work) : u.work[p] = t.work[p]
    BY <2>3, <2>4
  <2>8. \A p \in 1..m : p \in 1..Len(t.work) /\ t.work[p] \notin R /\ t.work[p] <= n
    BY <2>2, <2>4, PureParts DEF m
  <2>9. \A p \in 1..Len(u.work) : u.work[p] \notin R /\ u.work[p] <= n
    BY <2>7, <2>8
  <2>10. QED
    BY <2>1, <2>9 DEF Pure, u
<1>3. QED
  BY <1>1, <1>2

\* Nor does finish_statement.
LEMMA PureFinish ==
  ASSUME NEW t, NEW R, NEW n, Pure(t, R, n)
  PROVE  Pure(Finish(t), R, n) /\ Pure(Recover(t), R, n)
<1>1. ASSUME NEW u, Pure(u, R, n) PROVE Pure(Finish(u), R, n)
  BY <1>1, PureRelease DEF Finish
<1>2. QED
  BY <1>1, PureRollbackTo, PureAbort DEF Recover

\* A change made by a statement is above every mark.
LEMMA PureChange ==
  ASSUME NEW t, NEW n \in Nat, NEW R \in SUBSET (0..n), Pure(t, R, n), Accepts(t)
  PROVE  /\ Pure(Change(t, n + 1), R, n + 1)
         /\ Pure(Abort(Change(t, n + 1)), R \cup {n + 1}, n + 1)
<1> DEFINE u == Change(t, n + 1)
<1>1. IsTxn(t) /\ n + 1 \in Nat /\ t.open
  BY DEF Pure, Accepts
<1>2. IsTxn(u) /\ u.stack = t.stack /\ u.work = Append(t.work, n + 1) /\ u.open
  BY <1>1, ChangeIsTxn
<1> HIDE DEF u
<1>3. t.work \in Seq(Nat) /\ Len(t.work) \in Nat
  BY <1>1, TxnParts
<1>4. Len(u.work) = Len(t.work) + 1 /\ u.work[Len(t.work) + 1] = n + 1
      /\ \A p \in 1..Len(t.work) : u.work[p] = t.work[p]
  BY <1>2, <1>3
<1>5. \A p \in 1..Len(u.work) : u.work[p] <= n + 1 /\ u.work[p] \notin R
  <2> TAKE p \in 1..Len(u.work)
  <2>1. CASE p \in 1..Len(t.work)
    <3>1. ~t.aborted
      BY DEF Accepts
    <3>2. t.work[p] \in Nat /\ t.work[p] <= n /\ t.work[p] \notin R
      BY <2>1, <3>1, PureParts
    <3>3. QED
      BY <2>1, <3>2, <1>4
  <2>2. CASE p = Len(t.work) + 1
    BY <2>2, <1>4
  <2>3. QED
    BY <2>1, <2>2, <1>3, <1>4
<1>6. \A i \in 1..Len(u.stack), p \in 1..Len(u.work) :
        p <= u.stack[i].mark => u.work[p] \notin R \cup {n + 1}
  <2> TAKE i \in 1..Len(u.stack), p \in 1..Len(u.work)
  <2> HAVE p <= u.stack[i].mark
  <2>1. p \in 1..Len(t.work)
    BY <1>2, <1>3, PureParts
  <2>2. t.work[p] \in Nat /\ t.work[p] <= n /\ t.work[p] \notin R
    BY <2>1, <1>2, PureParts
  <2>3. QED
    BY <2>1, <2>2, <1>4
<1>7. Pure(u, R, n + 1)
  BY <1>2, <1>5 DEF Pure, Accepts
<1>8. IsTxn(Abort(u)) /\ Abort(u).aborted /\ Abort(u).stack = u.stack /\ Abort(u).work = u.work
  BY <1>2, AbortIsTxn
<1>9. Pure(Abort(u), R \cup {n + 1}, n + 1)
  BY <1>5, <1>6, <1>8 DEF Pure
<1>10. QED
  BY <1>7, <1>9 DEF u

\* What has not been changed yet is nowhere in the work.
LEMMA PureMore ==
  ASSUME NEW t, NEW n \in Nat, NEW R, Pure(t, R, n)
  PROVE  Pure(t, R \cup {n + 1}, n + 1)
<1>1. \A p \in 1..Len(t.work) : t.work[p] \in Nat /\ t.work[p] <= n
  BY PureParts
<1>2. \A p \in 1..Len(t.work) : t.work[p] <= n + 1 /\ t.work[p] # n + 1
  BY <1>1
<1>3. QED
  BY <1>2 DEF Pure

\* Fewer rejected changes are easier to avoid.
LEMMA PureLess ==
  ASSUME NEW t, NEW n, NEW R, NEW S \in SUBSET R, Pure(t, R, n)
  PROVE  Pure(t, S, n)
BY DEF Pure

\* A DML statement that is answered with an error leaves its change where it can only be rolled back.
LEMMA PureResults ==
  ASSUME NEW t, NEW n \in Nat, NEW R \in SUBSET (0..n), Pure(t, R, n),
         NEW returning \in BOOLEAN, NEW r \in ChangeResults(t, n + 1, returning)
  PROVE  Pure(r.txn, IF r.ok THEN R ELSE R \cup {n + 1}, n + 1)
<1>1. Pure(t, R \cup {n + 1}, n + 1)
  BY PureMore
<1>2. CASE ~Accepts(t)
  BY <1>1, <1>2, ChangeResultsAre
<1>3. CASE Accepts(t)
  <2> DEFINE begun == Begin(t, ~returning)
             run   == Change(begun, n + 1)
  <2>1. \/ r.txn = Finish(run) /\ r.ok
        \/ r.txn = Recover(Abort(run))
        \/ r.txn = begun
        \/ r.txn = Abort(t)
        \/ r.txn = Abort(run)
    BY <1>3 DEF ChangeResults, Possible
  <2>2. (~returning) \in BOOLEAN /\ IsTxn(t)
    BY DEF Pure
  <2>3. Pure(begun, R, n) /\ Accepts(begun)
    BY <1>3, <2>2, PureBegin, BeginIsTxn DEF Accepts
  <2> HIDE DEF begun
  <2>4. Pure(run, R, n + 1) /\ Pure(Abort(run), R \cup {n + 1}, n + 1)
    BY <2>3, PureChange
  <2> HIDE DEF run
  <2>5. Pure(Finish(run), R, n + 1) /\ Pure(Recover(Abort(run)), R \cup {n + 1}, n + 1)
    BY <2>4, PureFinish
  <2>6. Pure(begun, R \cup {n + 1}, n + 1)
    BY <2>3, PureMore
  <2>7. Pure(Abort(t), R \cup {n + 1}, n + 1)
    BY <1>1, PureAbort
  <2>8. ASSUME NEW u, Pure(u, R \cup {n + 1}, n + 1) PROVE Pure(u, R, n + 1)
    BY <2>8, PureLess
  <2>9. QED
    BY <2>1, <2>4, <2>5, <2>6, <2>7, <2>8
<1>4. QED
  BY <1>2, <1>3

\* Finishing a cursor adds no rejected change.
LEMMA PureCursor ==
  ASSUME NEW t, NEW R, NEW n, Pure(t, R, n), NEW cur
  PROVE  Pure(FinishCursor(t, cur), R, n) /\ Pure(NextBatch(t, cur).txn, R, n)
BY PureFinish DEF FinishCursor, NextBatch

\* Nor does opening one.
LEMMA PureOpen ==
  ASSUME NEW t, NEW R, NEW n, Pure(t, R, n), NEW q, NEW o \in OpenResults(t, q)
  PROVE  Pure(o.txn, R, n)
<1> DEFINE begun == Begin(t, FALSE)
<1>1. Pure(begun, R, n)
  BY PureBegin
<1>2. \/ o = OpenResult(t, NoCursor, plans, FALSE, "none")
      \/ o \in OpenFails(begun, q) \cup OpenFailsOnStalePlan(begun, q)
      \/ o \in OpenSucceeds(begun, q)
      \/ o = OpenResult(begun, NoCursor, plans, FALSE, "bindError")
      \/ o = OpenResult(Abort(t), NoCursor, plans, FALSE, "lateCancel")
  BY OpenResultsAre
<1> HIDE DEF begun
<1>3. Pure(Abort(begun), R, n) /\ Pure(Abort(t), R, n)
  BY <1>1, PureAbort
<1>4. Pure(Recover(Abort(begun)), R, n)
  BY <1>3, PureFinish
<1>5. o.txn \in {t, Recover(Abort(begun)), begun, Abort(begun), Abort(t)}
  BY <1>2 DEF OpenFails, OpenFailsOnStalePlan, OpenSucceeds, OpenResult
<1>6. QED
  BY <1>1, <1>3, <1>4, <1>5

PureInv ==
  /\ TypeOK
  /\ Pure(txn, rejected, changes)
  /\ rejected \subseteq 0..changes
  /\ db \subseteq 0..changes
  /\ RejectedNeverDurable

\* What is committed holds no rejected change.
LEMMA PureCommit ==
  ASSUME PureInv
  PROVE  Committed(txn) \subseteq 0..changes /\ Committed(txn) \cap rejected = {}
<1>1. CASE txn.aborted
  BY <1>1 DEF Committed
<1>2. CASE ~txn.aborted
  <2>1. txn.work \in Seq(Nat) /\ changes \in Nat
    BY TxnParts DEF PureInv, TypeOK
  <2>2. DOMAIN txn.work = 1..Len(txn.work)
    BY <2>1
  <2>3. \A p \in 1..Len(txn.work) :
          txn.work[p] \in Nat /\ txn.work[p] <= changes /\ txn.work[p] \notin rejected
    BY <1>2, PureParts DEF PureInv
  <2>4. Committed(txn) = {txn.work[p] : p \in 1..Len(txn.work)}
    BY <1>2, <2>2 DEF Committed, Range
  <2>5. QED
    BY <2>1, <2>3, <2>4
<1>3. QED
  BY <1>1, <1>2

\* Every step keeps rejected changes out of what may be committed.
LEMMA PureStep == PureInv /\ [Next]_vars => PureInv'
<1> SUFFICES ASSUME PureInv, [Next]_vars PROVE PureInv'
  OBVIOUS
<1>0. /\ TypeOK /\ changes \in Nat /\ rejected \in SUBSET (0..changes)
      /\ Pure(txn, rejected, changes) /\ IsTxn(txn)
  BY DEF PureInv, TypeOK
<1>1. TypeOK'
  BY <1>0, NextType
<1>2. ASSUME UNCHANGED <<db, changes, rejected>>, Pure(txn', rejected, changes)
      PROVE  PureInv'
  BY <1>1, <1>2 DEF PureInv, RejectedNeverDurable
<1>3. ASSUME UNCHANGED <<changes, rejected>>, txn' \in {Fresh, NoBlock},
             db' = db \cup Committed(txn) \/ db' = db
      PROVE  PureInv'
  <2>1. Pure(txn', rejected', changes')
    BY <1>3, PureFresh, PureNoBlock
  <2>2. QED
    BY <1>1, <1>3, <2>1, PureCommit DEF PureInv, RejectedNeverDurable
<1>4. ASSUME NEW c \in Cursors, NEW q \in Queries, ExecuteQuery(c, q)
      PROVE  PureInv'
  <2>1. PICK o \in OpenResults(FinishCursor(txn, cursors[c]), q) :
          txn' = IF o.ok THEN NextBatch(o.txn, o.cur).txn ELSE o.txn
    BY <1>4 DEF ExecuteQuery
  <2>2. Pure(FinishCursor(txn, cursors[c]), rejected, changes)
    BY <1>0, PureCursor
  <2>3. Pure(o.txn, rejected, changes)
    BY <2>2, PureOpen
  <2>4. Pure(txn', rejected, changes)
    BY <2>1, <2>3, PureCursor
  <2>5. QED
    BY <1>2, <1>4, <2>4 DEF ExecuteQuery
<1>5. ASSUME NEW c \in Cursors, Fetch(c) \/ DrainCursor(c)
      PROVE  PureInv'
  <2>1. txn' \in {txn, NextBatch(txn, cursors[c]).txn, FinishCursor(txn, cursors[c])}
        /\ UNCHANGED <<db, changes, rejected>>
    BY <1>5 DEF Fetch, DrainCursor
  <2>2. QED
    BY <1>0, <1>2, <2>1, PureCursor
<1>6. ASSUME NEW returning \in BOOLEAN, ExecuteChange(returning)
      PROVE  PureInv'
  <2>1. changes' = changes + 1 /\ db' = db
    BY <1>6 DEF ExecuteChange
  <2>2. PICK r \in ChangeResults(txn, changes + 1, returning) :
          txn' = r.txn /\ rejected' = IF r.ok THEN rejected ELSE rejected \cup {changes + 1}
    BY <1>6, <2>1 DEF ExecuteChange
  <2>3. Pure(txn', rejected', changes')
    BY <1>0, <2>1, <2>2, PureResults
  <2>4. db \subseteq 0..changes /\ db \cap rejected = {}
    BY DEF PureInv, RejectedNeverDurable
  <2>5. rejected' \subseteq 0..changes' /\ db' \subseteq 0..changes' /\ db' \cap rejected' = {}
    BY <1>0, <2>1, <2>2, <2>4
  <2>6. QED
    BY <1>1, <2>3, <2>5 DEF PureInv, RejectedNeverDurable
<1>7. ASSUME ExecuteBatch
      PROVE  PureInv'
  <2>1. changes' = changes + 2 /\ db' = db
    BY <1>7 DEF ExecuteBatch
  <2>2. PICK r1 \in ChangeResults(txn, changes + 1, FALSE) :
          IF ~r1.ok
            THEN txn' = r1.txn /\ rejected' = rejected \cup {changes + 1}
            ELSE \E r2 \in ChangeResults(r1.txn, changes + 2, FALSE) :
                 /\ txn' = r2.txn
                 /\ rejected' = IF r2.ok THEN rejected ELSE rejected \cup {changes + 2}
    BY <1>7 DEF ExecuteBatch
  <2> DEFINE n == changes + 1
             R == IF r1.ok THEN rejected ELSE rejected \cup {n}
  <2>3. n \in Nat /\ R \in SUBSET (0..n) /\ Pure(r1.txn, R, n) /\ n + 1 = changes + 2
    <3>1. Pure(r1.txn, R, n)
      BY <1>0, PureResults
    <3>2. n \in Nat /\ R \in SUBSET (0..n) /\ n + 1 = changes + 2
      BY <1>0
    <3>3. QED
      BY <3>1, <3>2
  <2>4. db \subseteq 0..changes /\ db \cap rejected = {}
    BY DEF PureInv, RejectedNeverDurable
  <2>5. CASE ~r1.ok
    <3>1. txn' = r1.txn /\ rejected' = rejected \cup {changes + 1}
      BY <2>2, <2>5
    <3>2. Pure(txn', R, n)
      BY <3>1, <2>3
    <3>3. Pure(txn', rejected', changes')
      <4> HIDE DEF n, R
      <4>1. Pure(txn', R \cup {n + 1}, n + 1)
        BY <2>3, <3>2, PureMore
      <4>2. rejected' \in SUBSET (R \cup {n + 1}) /\ changes' = n + 1
        BY <2>1, <2>3, <2>5, <3>1 DEF R, n
      <4>3. QED
        BY <4>1, <4>2, PureLess
    <3>4. rejected' \subseteq 0..changes' /\ db' \subseteq 0..changes' /\ db' \cap rejected' = {}
      BY <1>0, <2>1, <2>4, <3>1
    <3>5. QED
      BY <1>1, <3>3, <3>4 DEF PureInv, RejectedNeverDurable
  <2>6. CASE r1.ok
    <3>1. PICK r2 \in ChangeResults(r1.txn, n + 1, FALSE) :
            txn' = r2.txn /\ rejected' = IF r2.ok THEN R ELSE R \cup {n + 1}
      BY <2>2, <2>3, <2>6
    <3> HIDE DEF n, R
    <3>2. Pure(txn', rejected', n + 1)
      BY <2>3, <3>1, PureResults
    <3>3. R = rejected /\ changes' = n + 1 /\ n = changes + 1
      BY <2>1, <2>3, <2>6 DEF R, n
    <3>4. rejected' \subseteq 0..changes' /\ db' \subseteq 0..changes' /\ db' \cap rejected' = {}
      BY <1>0, <2>1, <2>4, <3>1, <3>3
    <3>5. QED
      BY <1>1, <3>2, <3>3, <3>4 DEF PureInv, RejectedNeverDurable
  <2>7. QED
    BY <2>5, <2>6
<1>8. CASE ExecuteDdl \/ ExecuteTransactionSql \/ EndDrain \/ Disconnect
  <2>1. ASSUME NEW t, NEW r \in CommitResults(t)
        PROVE  r.txn \in {Fresh, NoBlock} /\ r.durable \in {Committed(t), {}}
    BY <2>1, CommitResultsAre
  <2>2. CASE ExecuteDdl
    <3>1. db' = db \cup Committed(txn) \/ db' = db
      BY <2>1, <2>2, ExecuteDdlIs
    <3>2. txn' \in {Fresh, NoBlock} /\ UNCHANGED <<changes, rejected>>
      BY <2>1, <2>2, ExecuteDdlIs
    <3>3. QED
      BY <1>3, <3>1, <3>2
  <2>3. ASSUME NEW op, CommitWork(op) \/ RollbackWork(op)
        PROVE  txn' \in {Fresh, NoBlock} /\ (db' = db \cup Committed(txn) \/ db' = db)
    BY <2>1, <2>3 DEF CommitWork, RollbackWork
  <2>4. CASE ExecuteTransactionSql \/ EndDrain \/ Disconnect
    BY <1>3, <2>3, <2>4 DEF ExecuteTransactionSql, EndDrain, Disconnect
  <2>5. QED
    BY <1>8, <2>2, <2>4
<1>9. CASE ClientSet \/ \E s \in Savepoints :
             ClientSavepoint(s) \/ ClientRollbackTo(s) \/ ClientRelease(s)
  <2>1. ASSUME NEW op, NEW after, NEW succeeds, Direct(op, after, succeeds)
        PROVE  txn' = after /\ UNCHANGED <<db, changes, rejected>>
    BY <2>1 DEF Direct
  <2>2. Pure(Abort(txn), rejected, changes)
        /\ \A s \in Savepoints : /\ Pure(DefineSavepoint(txn, s), rejected, changes)
                                 /\ Pure(RollbackToSavepoint(txn, s), rejected, changes)
                                 /\ Pure(ReleaseSavepoint(txn, s), rejected, changes)
    BY <1>0, PureAbort, PureDefine, PureRollbackTo, PureRelease
  <2>3. CASE ClientSet
    <3>1. txn' \in {txn, Abort(txn)} /\ UNCHANGED <<db, changes, rejected>>
      BY <2>1, <2>3 DEF ClientSet
    <3>2. QED
      BY <1>0, <1>2, <2>2, <3>1
  <2>4. ASSUME NEW s \in Savepoints, ClientSavepoint(s) \/ ClientRollbackTo(s) \/ ClientRelease(s)
        PROVE  PureInv'
    <3>1. /\ txn' \in {DefineSavepoint(txn, s), RollbackToSavepoint(txn, s), ReleaseSavepoint(txn, s)}
          /\ UNCHANGED <<db, changes, rejected>>
      BY <2>1, <2>4 DEF ClientSavepoint, ClientRollbackTo, ClientRelease
    <3>2. QED
      BY <1>2, <2>2, <3>1
  <2>5. QED
    BY <1>9, <2>3, <2>4
<1>10. CASE (\E op \in {"COMMIT", "ROLLBACK", "LOGOFF"} : BeginDrain(op)) \/ UNCHANGED vars
  BY <1>0, <1>2, <1>10 DEF BeginDrain, vars
<1>11. QED
  BY <1>4, <1>5, <1>6, <1>7, <1>8, <1>9, <1>10 DEF Next

\* A change answered with an error never becomes durable, whatever the
\* environment does: late errors, cancels at any moment, failed commands and
\* transaction control over open cursors included.
THEOREM SessionRejects == Spec => []RejectedNeverDurable
<1>1. Init => PureInv
  <2>1. ASSUME Init PROVE Pure(txn, rejected, changes)
    BY <2>1, PureFresh DEF Init
  <2>2. QED
    BY <2>1, InitType DEF Init, PureInv, RejectedNeverDurable
<1>2. PureInv /\ [Next]_vars => PureInv'
  BY PureStep
<1>3. PureInv => RejectedNeverDurable
  BY DEF PureInv
<1>4. QED
  BY <1>1, <1>2, <1>3, PTL DEF Spec

-----------------------------------------------------------------------------
(* The client's own savepoints.  ClientStack takes the entries of a stack  *)
(* one after the other; what it has after the first k entries is the       *)
(* subject of the lemmas, by the least k for which they would not hold.    *)

Mine(stack, f, n) ==
  f = [k \in 0..n |-> IF k = 0 THEN <<>>
                      ELSE IF stack[k].name = Wrapper THEN f[k - 1]
                      ELSE Append(f[k - 1], stack[k])]

\* One entry after the other.
LEMMA MineSteps ==
  ASSUME NEW stack, NEW f, NEW n \in Nat, Mine(stack, f, n)
  PROVE  /\ f[0] = <<>>
         /\ \A k \in 1..n : f[k] = IF stack[k].name = Wrapper THEN f[k - 1]
                                   ELSE Append(f[k - 1], stack[k])
<1>1. f = [k \in 0..n |-> IF k = 0 THEN <<>>
                          ELSE IF stack[k].name = Wrapper THEN f[k - 1]
                          ELSE Append(f[k - 1], stack[k])]
  BY DEF Mine
<1>2. f[0] = <<>>
  <2>1. 0 \in 0..n
    OBVIOUS
  <2> QED BY <1>1, <2>1
<1>3. ASSUME NEW k \in 1..n
      PROVE  f[k] = IF stack[k].name = Wrapper THEN f[k - 1] ELSE Append(f[k - 1], stack[k])
  <2>1. k \in 0..n /\ k # 0
    OBVIOUS
  <2> QED BY <1>1, <2>1
<1> QED BY <1>2, <1>3

\* The entries of a stack of any height can be taken.
LEMMA MineExists ==
  ASSUME NEW stack, NEW n \in Nat
  PROVE  \E f : Mine(stack, f, n)
<1> DEFINE Bad == {k \in Nat : ~\E f : Mine(stack, f, k)}
<1>1. SUFFICES ASSUME Bad # {} PROVE FALSE
  OBVIOUS
<1>2. PICK x \in Bad : \A y \in Bad : x <= y
  <2>1. Bad \in SUBSET Nat
    OBVIOUS
  <2> HIDE DEF Bad
  <2> QED BY <1>1, <2>1, LeastNat
<1>3. CASE x = 0
  <2>1. Mine(stack, [k \in 0..0 |-> <<>>], 0)
    BY DEF Mine
  <2> QED BY <1>2, <1>3, <2>1
<1>4. CASE x # 0
  <2>1. x - 1 \in Nat /\ x - 1 \notin Bad
    BY <1>2, <1>4
  <2>2. PICK f : Mine(stack, f, x - 1)
    BY <2>1
  <2>3. PICK g : g = [k \in 0..x |-> IF k # x THEN f[k]
                                     ELSE IF stack[x].name = Wrapper THEN f[x - 1]
                                     ELSE Append(f[x - 1], stack[x])]
    OBVIOUS
  <2>4. ASSUME NEW k \in 0..x
        PROVE  g[k] = IF k = 0 THEN <<>>
                      ELSE IF stack[k].name = Wrapper THEN g[k - 1]
                      ELSE Append(g[k - 1], stack[k])
    <3>1. CASE k = x
      BY <1>4, <2>1, <2>3, <3>1
    <3>2. CASE k # x
      <4>1. k \in 0..(x - 1) /\ (k # 0 => k - 1 \in 0..x /\ k - 1 # x)
        BY <1>2, <3>2
      <4>2. f[k] = IF k = 0 THEN <<>>
                   ELSE IF stack[k].name = Wrapper THEN f[k - 1]
                   ELSE Append(f[k - 1], stack[k])
        BY <2>2, <4>1 DEF Mine
      <4> QED BY <2>3, <3>2, <4>1, <4>2
    <3> QED BY <3>1, <3>2
  <2>5. Mine(stack, g, x)
    BY <2>3, <2>4 DEF Mine
  <2> QED BY <1>2, <2>5
<1> QED BY <1>3, <1>4

\* ClientStack is what there is after the last.
LEMMA ClientStackIs ==
  ASSUME NEW t, Len(t.stack) \in Nat
  PROVE  \E f : Mine(t.stack, f, Len(t.stack)) /\ ClientStack(t) = f[Len(t.stack)]
<1> DEFINE n == Len(t.stack)
           f == CHOOSE g : g = [k \in 0..n |-> IF k = 0 THEN <<>>
                                               ELSE IF t.stack[k].name = Wrapper THEN g[k - 1]
                                               ELSE Append(g[k - 1], t.stack[k])]
<1>1. ClientStack(t) = f[n]
  BY DEF ClientStack
<1>2. \E g : g = [k \in 0..n |-> IF k = 0 THEN <<>>
                                 ELSE IF t.stack[k].name = Wrapper THEN g[k - 1]
                                 ELSE Append(g[k - 1], t.stack[k])]
  BY MineExists DEF Mine
<1>3. Mine(t.stack, f, n)
  BY <1>2 DEF Mine
<1> QED BY <1>1, <1>3

AgreeOn(P, S, n) == \A i \in 1..n : P[i] = S[i]

\* Of two stacks that agree on their first entries, so much is the same.
LEMMA MineAgrees ==
  ASSUME NEW S, NEW P, NEW f, NEW g, NEW m \in Nat, NEW n \in 0..m,
         Mine(S, f, m), Mine(P, g, n), AgreeOn(P, S, n)
  PROVE  \A k \in 0..n : g[k] = f[k]
<1> DEFINE Bad == {k \in 0..n : g[k] # f[k]}
<1>1. SUFFICES ASSUME Bad # {} PROVE FALSE
  OBVIOUS
<1>2. PICK x \in Bad : \A y \in Bad : x <= y
  <2>1. Bad \in SUBSET Nat
    OBVIOUS
  <2> HIDE DEF Bad
  <2> QED BY <1>1, <2>1, LeastNat
<1>3. g[0] = f[0]
  BY MineSteps
<1>4. x \in 1..n /\ x \in 1..m /\ x - 1 \in 0..n /\ x - 1 \notin Bad
  BY <1>2, <1>3
<1>5. g[x - 1] = f[x - 1] /\ P[x] = S[x]
  BY <1>4 DEF AgreeOn
<1>6. /\ f[x] = IF S[x].name = Wrapper THEN f[x - 1] ELSE Append(f[x - 1], S[x])
      /\ g[x] = IF P[x].name = Wrapper THEN g[x - 1] ELSE Append(g[x - 1], P[x])
  BY <1>4, MineSteps
<1> QED BY <1>2, <1>5, <1>6

\* What has been taken are entries of the client's.
LEMMA MineType ==
  ASSUME NEW t, IsTxn(t), NEW f, Mine(t.stack, f, Len(t.stack))
  PROVE  \A k \in 0..Len(t.stack) : f[k] \in Seq(Entry)
<1> DEFINE Bad == {k \in 0..Len(t.stack) : f[k] \notin Seq(Entry)}
<1>0. Len(t.stack) \in Nat /\ \A i \in 1..Len(t.stack) : t.stack[i] \in Entry
  BY TxnParts
<1>1. SUFFICES ASSUME Bad # {} PROVE FALSE
  OBVIOUS
<1>2. PICK x \in Bad : \A y \in Bad : x <= y
  <2>1. Bad \in SUBSET Nat
    OBVIOUS
  <2> HIDE DEF Bad
  <2> QED BY <1>1, <2>1, LeastNat
<1>3. f[0] \in Seq(Entry)
  BY <1>0, MineSteps, EmptySeq
<1>4. x \in 1..Len(t.stack) /\ x - 1 \in 0..Len(t.stack) /\ x - 1 \notin Bad
  BY <1>0, <1>2, <1>3
<1>5. f[x - 1] \in Seq(Entry) /\ t.stack[x] \in Entry
  BY <1>0, <1>4
<1>6. f[x] = f[x - 1] \/ f[x] = Append(f[x - 1], t.stack[x])
  <2>1. \A k \in 1..Len(t.stack) :
          f[k] = IF t.stack[k].name = Wrapper THEN f[k - 1] ELSE Append(f[k - 1], t.stack[k])
    BY <1>0, MineSteps
  <2> QED BY <1>4, <2>1
<1> HIDE DEF Bad
<1>7. f[x] \in Seq(Entry)
  <2>1. \A q \in Seq(Entry), e \in Entry : Append(q, e) \in Seq(Entry)
    OBVIOUS
  <2> QED BY <1>5, <1>6, <2>1, Zenon
<1> QED BY <1>2, <1>7 DEF Bad

\* A stack decides what is the client's.
LEMMA ClientStackSame ==
  ASSUME NEW t, NEW u, u.stack = t.stack
  PROVE  ClientStack(u) = ClientStack(t)
BY DEF ClientStack

\* An empty one holds nothing.
LEMMA ClientStackEmpty ==
  ASSUME NEW t, t.stack = <<>>
  PROVE  ClientStack(t) = <<>>
<1>1. Len(t.stack) = 0
  OBVIOUS
<1>2. PICK f : Mine(t.stack, f, 0) /\ ClientStack(t) = f[0]
  BY <1>1, ClientStackIs
<1> QED BY <1>2, MineSteps

LEMMA ClientStackType ==
  ASSUME NEW t, IsTxn(t)
  PROVE  ClientStack(t) \in Seq(Entry)
<1>1. Len(t.stack) \in Nat
  BY TxnParts
<1>2. PICK f : Mine(t.stack, f, Len(t.stack)) /\ ClientStack(t) = f[Len(t.stack)]
  BY <1>1, ClientStackIs
<1>3. Len(t.stack) \in 0..Len(t.stack)
  BY <1>1
<1> QED BY <1>2, <1>3, MineType

\* A savepoint more: it is the client's, or a wrapper.
LEMMA ClientStackPushed ==
  ASSUME NEW t, IsTxn(t), NEW e \in Entry, NEW u, u.stack = Append(t.stack, e)
  PROVE  ClientStack(u) = IF e.name = Wrapper THEN ClientStack(t) ELSE Append(ClientStack(t), e)
<1> DEFINE n == Len(t.stack)
<1>1. n \in Nat /\ t.stack \in Seq(Entry)
  BY TxnParts
<1>2. /\ Len(u.stack) = n + 1 /\ u.stack[n + 1] = e
      /\ \A i \in 1..n : u.stack[i] = t.stack[i]
  BY <1>1
<1> HIDE DEF n
<1>3. PICK f : Mine(t.stack, f, n) /\ ClientStack(t) = f[n]
  BY <1>1, ClientStackIs DEF n
<1>4. PICK g : Mine(u.stack, g, n + 1) /\ ClientStack(u) = g[n + 1]
  <2>1. Len(u.stack) \in Nat
    BY <1>1, <1>2
  <2>2. \E g : Mine(u.stack, g, Len(u.stack)) /\ ClientStack(u) = g[Len(u.stack)]
    BY <2>1, ClientStackIs
  <2> QED BY <1>2, <2>2
<1>5. g[n] = f[n]
  <2>1. n + 1 \in Nat /\ n \in 0..(n + 1) /\ n \in 0..n
    BY <1>1
  <2>2. AgreeOn(t.stack, u.stack, n)
    BY <1>2 DEF AgreeOn
  <2>3. \A k \in 0..n : f[k] = g[k]
    BY <1>3, <1>4, <2>1, <2>2, MineAgrees
  <2> QED BY <2>1, <2>3
<1>6. g[n + 1] = IF u.stack[n + 1].name = Wrapper THEN g[(n + 1) - 1]
                 ELSE Append(g[(n + 1) - 1], u.stack[n + 1])
  <2>1. n + 1 \in 1..(n + 1) /\ n + 1 \in Nat
    BY <1>1
  <2> QED BY <1>4, <2>1, MineSteps
<1>7. (n + 1) - 1 = n
  BY <1>1
<1> QED BY <1>2, <1>3, <1>4, <1>5, <1>6, <1>7

\* Of a part of a stack, from its bottom, it is what has been taken so far.
LEMMA ClientStackPrefix ==
  ASSUME NEW t, Len(t.stack) \in Nat, NEW n \in 0..Len(t.stack),
         NEW f, Mine(t.stack, f, Len(t.stack)),
         NEW u, Len(u.stack) = n, AgreeOn(u.stack, t.stack, n)
  PROVE  ClientStack(u) = f[n]
<1>1. n \in Nat /\ n \in 0..n
  OBVIOUS
<1>2. PICK g : Mine(u.stack, g, n) /\ ClientStack(u) = g[n]
  <2>1. \E g : Mine(u.stack, g, Len(u.stack)) /\ ClientStack(u) = g[Len(u.stack)]
    BY <1>1, ClientStackIs
  <2> QED BY <2>1
<1>3. \A k \in 0..n : g[k] = f[k]
  BY <1>2, MineAgrees
<1> QED BY <1>1, <1>2, <1>3

\* A wrapper less.
LEMMA ClientStackPopped ==
  ASSUME NEW t, IsTxn(t), OnTop(t, 1), NEW u, u.stack = SubSeq(t.stack, 1, Len(t.stack) - 1)
  PROVE  ClientStack(u) = ClientStack(t)
<1> DEFINE n == Len(t.stack) - 1
<1>1. /\ Len(t.stack) \in Nat /\ Len(t.stack) >= 1 /\ t.stack \in Seq(Entry)
      /\ t.stack[Len(t.stack)].name = Wrapper
  BY TxnParts DEF OnTop
<1>2. n \in 0..Len(t.stack) /\ Len(t.stack) \in 1..Len(t.stack)
  BY <1>1
<1>3. Len(u.stack) = n /\ AgreeOn(u.stack, t.stack, n)
  BY <1>1 DEF AgreeOn
<1>4. PICK f : Mine(t.stack, f, Len(t.stack)) /\ ClientStack(t) = f[Len(t.stack)]
  BY <1>1, ClientStackIs
<1>5. f[Len(t.stack)] = f[n]
  BY <1>1, <1>2, <1>4, MineSteps
<1> HIDE DEF n
<1>6. ClientStack(u) = f[n]
  BY <1>1, <1>2, <1>3, <1>4, ClientStackPrefix
<1> QED BY <1>4, <1>5, <1>6

\* ROLLBACK TO cuts the client's savepoints at the one it names, the newest of
\* that name.
LEMMA ClientStackCut ==
  ASSUME NEW t, IsTxn(t), NEW s \in Savepoints, HasSavepoint(t, s),
         NEW u, u.stack = SubSeq(t.stack, 1, Innermost(t, s))
  PROVE  LET C == ClientStack(t) IN
         \E p \in 1..Len(C) :
           /\ ClientStack(u) = SubSeq(C, 1, p)
           /\ C[p] = t.stack[Innermost(t, s)]
           /\ \A j \in 1..Len(C) : C[j].name = s => j <= p
<1> DEFINE L == Len(t.stack)
           n == Innermost(t, s)
<1>1. /\ L \in Nat /\ t.stack \in Seq(Entry)
      /\ n \in 1..L /\ t.stack[n].name = s
      /\ \A j \in 1..L : t.stack[j].name = s => j <= n
      /\ \A j \in 1..L : t.stack[j] \in Entry
  <2>1. L \in Nat /\ t.stack \in Seq(Entry)
    BY TxnParts
  <2>2. \A j \in 1..L : t.stack[j] \in Entry
    BY <2>1
  <2> QED BY <2>1, <2>2, InnermostIs
<1>2. Len(u.stack) = n /\ AgreeOn(u.stack, t.stack, n)
  BY <1>1 DEF AgreeOn
<1>3. s # Wrapper
  BY SessionAssumption
<1>4. PICK f : Mine(t.stack, f, L) /\ ClientStack(t) = f[L]
  BY <1>1, ClientStackIs
<1> HIDE DEF n, L
<1>5. ClientStack(u) = f[n]
  <2>1. L = Len(t.stack) /\ n \in 0..L
    BY <1>1 DEF L
  <2>2. Mine(t.stack, f, Len(t.stack)) /\ n \in 0..Len(t.stack) /\ Len(t.stack) \in Nat
    BY <1>1, <1>4, <2>1
  <2> QED BY <1>2, <2>2, ClientStackPrefix
<1>6. \A k \in 0..L : f[k] \in Seq(Entry)
  BY <1>4, MineType DEF L
<1>7. \A k \in 1..L : f[k] = IF t.stack[k].name = Wrapper THEN f[k - 1]
                             ELSE Append(f[k - 1], t.stack[k])
  BY <1>1, <1>4, MineSteps
<1>8. n - 1 \in 0..L /\ f[n - 1] \in Seq(Entry) /\ t.stack[n] \in Entry
  BY <1>1, <1>6
<1>9. f[n] = Append(f[n - 1], t.stack[n])
  BY <1>1, <1>3, <1>7
<1>10. PICK p \in Nat : p = Len(f[n - 1]) + 1
  BY <1>8
<1>11. f[n] \in Seq(Entry) /\ Len(f[n]) = p /\ p \in 1..p /\ f[n][p] = t.stack[n]
  BY <1>8, <1>9, <1>10
<1> DEFINE Fits(k) == /\ p <= Len(f[k])
                      /\ SubSeq(f[k], 1, p) = f[n]
                      /\ \A j \in 1..Len(f[k]) : j > p => f[k][j].name # s
           Bad == {k \in n..L : ~Fits(k)}
<1>12. Fits(n)
  BY <1>11
<1>13. ASSUME NEW k \in (n + 1)..L, Fits(k - 1)
       PROVE  Fits(k)
  <2>1. k \in 1..L /\ k - 1 \in 0..L /\ k > n
    BY <1>1
  <2>2. t.stack[k].name # s /\ t.stack[k] \in Entry /\ f[k - 1] \in Seq(Entry)
    BY <1>1, <1>6, <2>1
  <2>3. PICK a \in Seq(Entry) : a = f[k - 1]
    BY <2>2
  <2>4. /\ p <= Len(a) /\ SubSeq(a, 1, p) = f[n]
        /\ \A j \in 1..Len(a) : j > p => a[j].name # s
    BY <1>13, <2>3
  <2>5. CASE t.stack[k].name = Wrapper
    <3>1. f[k] = a
      BY <1>7, <2>1, <2>3, <2>5
    <3> QED BY <2>4, <3>1
  <2>6. CASE t.stack[k].name # Wrapper
    <3>1. PICK e \in Entry : e = t.stack[k]
      BY <2>2
    <3>2. f[k] = Append(a, e)
      BY <1>7, <2>1, <2>3, <2>6, <3>1
    <3>3. /\ Len(Append(a, e)) = Len(a) + 1 /\ Append(a, e)[Len(a) + 1] = e
          /\ \A j \in 1..Len(a) : Append(a, e)[j] = a[j]
          /\ Append(a, e) \in Seq(Entry) /\ Len(a) \in Nat
      OBVIOUS
    <3>4. SubSeq(Append(a, e), 1, p) = SubSeq(a, 1, p)
      BY <1>10, <2>4, <3>3
    <3>5. ASSUME NEW j \in 1..(Len(a) + 1), j > p
          PROVE  Append(a, e)[j].name # s
      BY <2>2, <2>4, <3>1, <3>3, <3>5
    <3> QED BY <1>10, <2>4, <3>2, <3>3, <3>4, <3>5
  <2> QED BY <2>5, <2>6
<1> HIDE DEF Fits
<1>14. Bad = {}
  <2>1. SUFFICES ASSUME Bad # {} PROVE FALSE
    OBVIOUS
  <2>2. PICK x \in Bad : \A y \in Bad : x <= y
    <3>1. Bad \in SUBSET Nat
      BY <1>1
    <3> HIDE DEF Bad
    <3> QED BY <2>1, <3>1, LeastNat
  <2>3. x \in (n + 1)..L /\ x - 1 \in n..L /\ x - 1 \notin Bad
    BY <1>1, <1>12, <2>2
  <2> QED BY <1>13, <2>2, <2>3
<1>15. Fits(L)
  BY <1>1, <1>14
<1>16. /\ p \in 1..Len(f[L]) /\ SubSeq(f[L], 1, p) = f[n]
       /\ \A j \in 1..Len(f[L]) : f[L][j].name = s => j <= p
  <2>1. f[L] \in Seq(Entry)
    BY <1>1, <1>6
  <2> QED BY <1>8, <1>10, <1>15, <2>1 DEF Fits
<1>17. f[L][p] = t.stack[n]
  <2>1. f[L] \in Seq(Entry)
    BY <1>1, <1>6
  <2>2. SubSeq(f[L], 1, p)[p] = f[L][p]
    BY <1>16, <2>1
  <2> QED BY <1>11, <1>16, <2>2
<1> QED BY <1>4, <1>5, <1>16, <1>17 DEF n

-----------------------------------------------------------------------------
(* What a statement leaves of the client's savepoints and of the work.     *)

LEMMA OneOnTop ==
  ASSUME NEW t, IsTxn(t), NEW k \in Nat, OnTop(t, k + 1)
  PROVE  OnTop(t, 1)
BY TxnParts DEF OnTop

\* begin_statement_ex puts a wrapper there, which returns to the work so far.
LEMMA BegunClient ==
  ASSUME NEW t, IsTxn(t), Accepts(t), NEW timed \in BOOLEAN,
         NEW b, b = Begin(t, timed)
  PROVE  /\ IsTxn(b) /\ b.open /\ ~b.aborted /\ OnTop(b, 1) /\ b.work = t.work
         /\ b.stack[Len(b.stack)].mark = Len(t.work)
         /\ ClientStack(b) = ClientStack(t)
<1>1. PICK e : e = [name |-> Wrapper, mark |-> Len(t.work), timeout |-> t.timeout]
  OBVIOUS
<1>2. b.stack = Append(t.stack, e) /\ IsTxn(b) /\ ~b.aborted /\ b.work = t.work
      /\ b.open
  BY <1>1, BeginIsTxn, DefineIsTxn DEF Accepts
<1>3. e \in Entry /\ e.name = Wrapper /\ e.mark = Len(t.work)
  BY <1>1, TxnParts DEF Entry
<1>4. ClientStack(b) = ClientStack(t)
  BY <1>2, <1>3, ClientStackPushed
<1>5. t.stack \in Seq(Entry)
  BY TxnParts
<1>6. /\ Len(b.stack) = Len(t.stack) + 1 /\ Len(t.stack) \in Nat
      /\ b.stack[Len(t.stack) + 1] = e
  BY <1>2, <1>3, <1>5
<1>7. b.stack[Len(b.stack)] = e /\ Len(b.stack) \in Nat /\ Len(b.stack) >= 1
  BY <1>6
<1>8. OnTop(b, 1)
  BY <1>3, <1>7 DEF OnTop
<1> QED BY <1>2, <1>3, <1>4, <1>7, <1>8

\* finish_statement and recover_statement_error take that wrapper at most.
LEMMA FinishClient ==
  ASSUME NEW t, IsTxn(t), OnTop(t, 1)
  PROVE  ClientStack(Finish(t)) = ClientStack(t)
<1>1. CASE t.aborted
  <2>1. Finish(t).stack = t.stack
    BY <1>1, AbortIsTxn DEF Finish, ReleaseSavepoint
  <2> QED BY <2>1, ClientStackSame
<1>2. CASE ~t.aborted
  BY <1>2, FinishTop, ClientStackPopped
<1> QED BY <1>1, <1>2

LEMMA RecoverClient ==
  ASSUME NEW t, IsTxn(t), OnTop(t, 1)
  PROVE  ClientStack(Recover(t)) = ClientStack(t)
BY RecoverTop, ClientStackPopped

\* Going back to a wrapper just made undoes nothing but its own statement.
LEMMA RecoverWork ==
  ASSUME NEW t, IsTxn(t), OnTop(t, 1), NEW w \in Seq(Nat),
         t.stack[Len(t.stack)].mark = Len(w), SubSeq(t.work, 1, Len(w)) = w
  PROVE  Recover(t).work = w
BY RecoverTop

\* A DML statement: all of it when it is answered with success, none of it
\* when it is answered with an error, and in either case the client's
\* savepoints are left alone.
LEMMA ChangeClient ==
  ASSUME NEW t, IsTxn(t), NEW d \in Nat, NEW returning \in BOOLEAN,
         NEW r \in ChangeResults(t, d, returning)
  PROVE  /\ ClientStack(r.txn) = ClientStack(t)
         /\ ~t.aborted /\ r.event # "lateCancel" =>
              r.txn.work = IF r.ok THEN Append(t.work, d) ELSE t.work
<1>1. CASE ~Accepts(t)
  BY <1>1, ChangeResultsAre
<1>2. CASE Accepts(t)
  <2>0. (~returning) \in BOOLEAN
    OBVIOUS
  <2> DEFINE begun == Begin(t, ~returning)
             run   == Change(begun, d)
  <2>3. \/ r.txn = Finish(run) /\ r.ok
        \/ r.txn = Recover(Abort(run)) /\ ~r.ok
        \/ r.txn = begun /\ ~r.ok
        \/ r.txn = Abort(t) /\ r.event = "lateCancel"
        \/ r.txn = Abort(run) /\ r.event = "lateCancel"
    BY <1>2 DEF ChangeResults, Possible
  <2>4. /\ IsTxn(begun) /\ begun.open /\ ~begun.aborted /\ OnTop(begun, 1) /\ begun.work = t.work
        /\ begun.stack[Len(begun.stack)].mark = Len(t.work)
        /\ ClientStack(begun) = ClientStack(t)
    BY <1>2, <2>0, BegunClient
  <2> HIDE DEF begun
  <2>5. IsTxn(run) /\ run.stack = begun.stack /\ ~run.aborted /\ run.work = Append(t.work, d)
    <3>1. /\ IsTxn(run) /\ run.stack = begun.stack
          /\ run.aborted = begun.aborted /\ run.work = Append(begun.work, d)
      BY <2>4, ChangeIsTxn
    <3> QED BY <2>4, <3>1
  <2> HIDE DEF run
  <2>6. PICK stopped : stopped = Abort(run)
    OBVIOUS
  <2>7. IsTxn(stopped) /\ stopped.stack = begun.stack /\ stopped.work = Append(t.work, d)
    BY <2>5, <2>6, AbortIsTxn
  <2>8. OnTop(run, 1) /\ OnTop(stopped, 1)
    BY <2>4, <2>5, <2>7, OnTopOfSameStack
  <2>9. ClientStack(run) = ClientStack(t) /\ ClientStack(stopped) = ClientStack(t)
    BY <2>4, <2>5, <2>7, ClientStackSame
  <2>10. ClientStack(Finish(run)) = ClientStack(t) /\ Finish(run).work = Append(t.work, d)
    BY <2>5, <2>8, <2>9, FinishClient, FinishIsTxn
  <2>11. ClientStack(Recover(stopped)) = ClientStack(t)
    BY <2>7, <2>8, <2>9, RecoverClient
  <2>12. Recover(stopped).work = t.work
    <3>1. t.work \in Seq(Nat)
      BY TxnParts
    <3>2. SubSeq(Append(t.work, d), 1, Len(t.work)) = t.work
      BY <3>1
    <3>3. stopped.stack[Len(stopped.stack)].mark = Len(t.work)
      BY <2>4, <2>7
    <3>4. SubSeq(stopped.work, 1, Len(t.work)) = t.work
      BY <2>7, <3>2
    <3> QED BY <2>7, <2>8, <3>1, <3>3, <3>4, RecoverWork
  <2>13. ClientStack(Abort(t)) = ClientStack(t)
    BY AbortIsTxn, ClientStackSame
  <2> QED BY <2>3, <2>4, <2>6, <2>9, <2>10, <2>11, <2>12, <2>13
<1> QED BY <1>1, <1>2

\* Finishing a cursor.
LEMMA FinishCursorClient ==
  ASSUME NEW t, IsTxn(t), NEW cur, NEW k \in Nat, OnTopWith(t, k, cur)
  PROVE  /\ ClientStack(FinishCursor(t, cur)) = ClientStack(t)
         /\ FinishCursor(t, cur).work = t.work
BY FinishClient, FinishIsTxn, OneOnTop DEF FinishCursor, OnTopWith

\* A batch of an open cursor.
LEMMA NextBatchClient ==
  ASSUME NEW t, IsTxn(t), NEW cur, IsCursor(cur), cur.open,
         NEW k \in Nat, OnTopWith(t, k, cur)
  PROVE  /\ ClientStack(NextBatch(t, cur).txn) = ClientStack(t)
         /\ ~cur.fails \/ t.stack[Len(t.stack)].mark = Len(t.work) =>
              NextBatch(t, cur).txn.work = t.work
<1>1. cur.held /\ OnTop(t, 1)
  <2>1. cur \in [open : {TRUE}, unread : Nat, fails : BOOLEAN, held : {TRUE}]
    BY OpenIsCursor
  <2>2. cur.held /\ OnTop(t, k + 1)
    BY <2>1 DEF OnTopWith
  <2> QED BY <2>2, OneOnTop
<1>2. CASE cur.unread >= BatchRows
  BY <1>2 DEF NextBatch
<1>3. CASE ~(cur.unread >= BatchRows) /\ cur.fails
  <2>1. NextBatch(t, cur).txn = Recover(t)
    BY <1>3 DEF NextBatch
  <2>2. t.work \in Seq(Nat) /\ SubSeq(t.work, 1, Len(t.work)) = t.work
    BY TxnParts
  <2> QED BY <1>1, <1>3, <2>1, <2>2, RecoverClient, RecoverWork
<1>4. CASE ~(cur.unread >= BatchRows) /\ ~cur.fails
  <2>1. NextBatch(t, cur).txn = FinishCursor(t, cur)
    BY <1>4 DEF NextBatch
  <2> QED BY <2>1, FinishCursorClient
<1> QED BY <1>2, <1>3, <1>4

\* The opening of one.
LEMMA OpenClient ==
  ASSUME NEW t, IsTxn(t), NEW q, NEW o \in OpenResults(t, q)
  PROVE  /\ ClientStack(o.txn) = ClientStack(t) /\ o.txn.work = t.work
         /\ o.ok => o.txn.stack[Len(o.txn.stack)].mark = Len(o.txn.work)
<1>1. CASE ~Accepts(t)
  <2>1. o = OpenResult(t, NoCursor, plans, FALSE, "none")
    BY <1>1, OpenResultsAre
  <2> QED BY <2>1 DEF OpenResult
<1>2. CASE Accepts(t)
  <2>1. PICK begun : begun = Begin(t, FALSE)
    OBVIOUS
  <2>2. \/ o \in OpenFails(begun, q) \cup OpenFailsOnStalePlan(begun, q)
        \/ o \in OpenSucceeds(begun, q)
        \/ o = OpenResult(begun, NoCursor, plans, FALSE, "bindError")
        \/ o = OpenResult(Abort(t), NoCursor, plans, FALSE, "lateCancel")
    BY <1>2, <2>1, OpenResultsAre
  <2>3. \/ o.txn = Recover(Abort(begun)) /\ o.ok = FALSE
        \/ o.txn \in {begun, Abort(begun)}
        \/ o.txn = Abort(t) /\ o.ok = FALSE
    BY <2>2 DEF OpenFails, OpenFailsOnStalePlan, OpenSucceeds, OpenResult
  <2>4. /\ IsTxn(begun) /\ OnTop(begun, 1) /\ begun.work = t.work
        /\ begun.stack[Len(begun.stack)].mark = Len(t.work)
        /\ ClientStack(begun) = ClientStack(t)
    BY <1>2, <2>1, BegunClient
  <2>5. PICK stopped : stopped = Abort(begun)
    OBVIOUS
  <2>6. IsTxn(stopped) /\ stopped.stack = begun.stack /\ stopped.work = t.work
    BY <2>4, <2>5, AbortIsTxn
  <2>7. OnTop(stopped, 1) /\ ClientStack(stopped) = ClientStack(t)
    BY <2>4, <2>6, OnTopOfSameStack, ClientStackSame
  <2>8. ClientStack(Recover(stopped)) = ClientStack(t) /\ Recover(stopped).work = t.work
    <3>1. t.work \in Seq(Nat) /\ SubSeq(t.work, 1, Len(t.work)) = t.work
      BY TxnParts
    <3>2. stopped.stack[Len(stopped.stack)].mark = Len(t.work)
      BY <2>4, <2>6
    <3> QED BY <2>6, <2>7, <3>1, <3>2, RecoverClient, RecoverWork
  <2>9. ClientStack(Abort(t)) = ClientStack(t) /\ Abort(t).work = t.work
    BY AbortIsTxn, ClientStackSame
  <2> QED BY <2>3, <2>4, <2>5, <2>6, <2>7, <2>8, <2>9
<1> QED BY <1>1, <1>2

\* Execute of a query: whatever comes of it, no work is done or undone.
LEMMA QueryClient ==
  ASSUME TypeOK, WrappersOnTop, NEW c \in Cursors, NEW q \in Queries, ExecuteQuery(c, q)
  PROVE  /\ ClientStack(txn') = ClientStack(txn) /\ txn'.work = txn.work /\ db' = db
         /\ \E ok \in BOOLEAN : \E event : reply' = Reply("QUERY", ok, event)
<1>1. PICK t : t = FinishCursor(txn, cursors[c])
  OBVIOUS
<1>2. PICK o \in OpenResults(t, q) :
        LET first == IF o.ok THEN NextBatch(o.txn, o.cur) ELSE o IN
        /\ txn' = first.txn
        /\ cursors' = [cursors EXCEPT ![c] = first.cur]
        /\ plans' = o.plans
        /\ reply' = Reply("QUERY", first.ok, o.event)
  BY <1>1 DEF ExecuteQuery
<1>3. PICK k \in Nat : k = OtherHolders(c)
  BY HoldersFinite
<1>4. IsTxn(txn) /\ OnTopWith(txn, k, cursors[c]) /\ plans \in Plans
  BY <1>3, OnTopFrom DEF TypeOK, Plans
<1>5. /\ IsTxn(t) /\ OnTop(t, k)
      /\ ClientStack(t) = ClientStack(txn) /\ t.work = txn.work
  BY <1>1, <1>4, FinishCursorIsTxn, FinishCursorOnTop, FinishCursorClient
<1>6. /\ IsTxn(o.txn) /\ IsCursor(o.cur) /\ o.ok \in BOOLEAN
      /\ OnTopWith(o.txn, k, o.cur) /\ (o.ok => o.cur.open)
  BY <1>4, <1>5, OpenResultsType, OpenOnTop
<1>7. /\ ClientStack(o.txn) = ClientStack(txn) /\ o.txn.work = txn.work
      /\ o.ok => o.txn.stack[Len(o.txn.stack)].mark = Len(o.txn.work)
  BY <1>5, OpenClient
<1>8. db' = db
  BY DEF ExecuteQuery
<1>9. CASE o.ok
  <2>1. /\ txn' = NextBatch(o.txn, o.cur).txn
        /\ reply' = Reply("QUERY", NextBatch(o.txn, o.cur).ok, o.event)
    BY <1>2, <1>9
  <2>2. NextBatch(o.txn, o.cur).ok \in BOOLEAN
    BY <1>6, NextBatchType
  <2>3. /\ ClientStack(NextBatch(o.txn, o.cur).txn) = ClientStack(o.txn)
        /\ NextBatch(o.txn, o.cur).txn.work = o.txn.work
    BY <1>6, <1>7, <1>9, NextBatchClient
  <2> QED BY <1>7, <1>8, <2>1, <2>2, <2>3
<1>10. CASE ~o.ok
  BY <1>2, <1>6, <1>7, <1>8, <1>10
<1> QED BY <1>6, <1>9, <1>10

\* Fetch: the error of a late row goes back to the cursor's wrapper.
LEMMA FetchClient ==
  ASSUME TypeOK, WrappersOnTop, NEW c \in Cursors, Fetch(c)
  PROVE  /\ ClientStack(txn') = ClientStack(txn) /\ db' = db
         /\ ~cursors[c].fails => txn'.work = txn.work
         /\ \E ok \in BOOLEAN : reply' = Reply("FETCH", ok, "none")
<1>1. PICK k \in Nat : k = OtherHolders(c)
  BY HoldersFinite
<1>2. IsTxn(txn) /\ OnTopWith(txn, k, cursors[c]) /\ IsCursor(cursors[c])
  BY <1>1, OnTopFrom DEF TypeOK
<1>3. db' = db
  BY DEF Fetch
<1>4. CASE cursors[c].open
  <2>1. /\ txn' = NextBatch(txn, cursors[c]).txn
        /\ reply' = Reply("FETCH", NextBatch(txn, cursors[c]).ok, "none")
    BY <1>4 DEF Fetch
  <2>2. NextBatch(txn, cursors[c]).ok \in BOOLEAN
    BY <1>2, NextBatchType
  <2>3. /\ ClientStack(NextBatch(txn, cursors[c]).txn) = ClientStack(txn)
        /\ ~cursors[c].fails => NextBatch(txn, cursors[c]).txn.work = txn.work
    BY <1>2, <1>4, NextBatchClient
  <2> QED BY <1>3, <2>1, <2>2, <2>3
<1>5. CASE ~cursors[c].open
  <2>1. txn' = txn /\ reply' = Reply("FETCH", TRUE, "none")
    BY <1>5 DEF Fetch
  <2> QED BY <1>3, <2>1
<1> QED BY <1>4, <1>5

\* A cursor finished before COMMIT, ROLLBACK or LOGOFF.
LEMMA DrainClient ==
  ASSUME TypeOK, WrappersOnTop, NEW c \in Cursors, DrainCursor(c)
  PROVE  /\ ClientStack(txn') = ClientStack(txn) /\ txn'.work = txn.work
         /\ db' = db /\ reply' = reply
<1>1. PICK k \in Nat : k = OtherHolders(c)
  BY HoldersFinite
<1>2. IsTxn(txn) /\ OnTopWith(txn, k, cursors[c])
  BY <1>1, OnTopFrom DEF TypeOK
<1>3. txn' = FinishCursor(txn, cursors[c]) /\ db' = db /\ reply' = reply
  BY DEF DrainCursor
<1> QED BY <1>2, <1>3, FinishCursorClient

\* DML: a statement that is answered with success is in the work, and one that
\* is answered with an error is not.
LEMMA ExecuteChangeClient ==
  ASSUME TypeOK, NEW returning \in BOOLEAN, ExecuteChange(returning)
  PROVE  /\ ClientStack(txn') = ClientStack(txn) /\ db' = db
         /\ \E ok \in BOOLEAN : \E event :
              /\ reply' = Reply("CHANGE", ok, event)
              /\ Quiet /\ ~txn.aborted =>
                   txn'.work = IF ok THEN Append(txn.work, changes + 1) ELSE txn.work
<1>1. IsTxn(txn) /\ changes + 1 \in Nat
  BY DEF TypeOK
<1>2. PICK r \in ChangeResults(txn, changes + 1, returning) :
        txn' = r.txn /\ reply' = Reply("CHANGE", r.ok, r.event)
  BY DEF ExecuteChange
<1>3. r.ok \in BOOLEAN
  BY <1>1, ChangeResultsType
<1>4. Quiet /\ ~txn.aborted => r.event # "lateCancel"
  BY ChangeResultsAre DEF Quiet, Poisonous
<1>5. /\ ClientStack(r.txn) = ClientStack(txn)
      /\ ~txn.aborted /\ r.event # "lateCancel" =>
           r.txn.work = IF r.ok THEN Append(txn.work, changes + 1) ELSE txn.work
  BY <1>1, ChangeClient
<1>6. db' = db
  BY DEF ExecuteChange
<1> QED BY <1>2, <1>3, <1>4, <1>5, <1>6

\* Array DML: the rows before the one that fails are in the work.
LEMMA ExecuteBatchClient ==
  ASSUME TypeOK, ExecuteBatch
  PROVE  /\ ClientStack(txn') = ClientStack(txn) /\ db' = db
         /\ \E ok \in BOOLEAN : \E event :
              /\ reply' = Reply("CHANGE", ok, event)
              /\ Quiet /\ ~txn.aborted =>
                   IF ok THEN txn'.work = Append(Append(txn.work, changes + 1), changes + 2)
                   ELSE txn'.work \in {txn.work, Append(txn.work, changes + 1)}
<1>1. IsTxn(txn) /\ changes + 1 \in Nat /\ changes + 2 \in Nat
  BY DEF TypeOK
<1>2. PICK r1 \in ChangeResults(txn, changes + 1, FALSE) :
        IF ~r1.ok THEN txn' = r1.txn /\ reply' = Reply("CHANGE", FALSE, r1.event)
        ELSE \E r2 \in ChangeResults(r1.txn, changes + 2, FALSE) :
               txn' = r2.txn /\ reply' = Reply("CHANGE", r2.ok, r2.event)
  BY DEF ExecuteBatch
<1>3. ASSUME NEW t, IsTxn(t), NEW d \in Nat, NEW r \in ChangeResults(t, d, FALSE)
      PROVE  /\ ClientStack(r.txn) = ClientStack(t)
             /\ IsTxn(r.txn) /\ r.ok \in BOOLEAN
             /\ Quiet /\ ~t.aborted =>
                  /\ r.txn.work = IF r.ok THEN Append(t.work, d) ELSE t.work
                  /\ ~r.txn.aborted
  <2>1. IsTxn(r.txn) /\ r.ok \in BOOLEAN
    BY <1>3, ChangeResultsType
  <2>2. Quiet /\ ~t.aborted => r.event # "lateCancel"
    BY <1>3, ChangeResultsAre DEF Quiet, Poisonous
  <2>3. /\ ClientStack(r.txn) = ClientStack(t)
        /\ ~t.aborted /\ r.event # "lateCancel" =>
             r.txn.work = IF r.ok THEN Append(t.work, d) ELSE t.work
    BY <1>3, ChangeClient
  <2>4. ~t.aborted /\ r.event # "lateCancel" => ~r.txn.aborted
    <3>1. OnTop(t, 0)
      BY <1>3, TxnParts DEF OnTop
    <3> QED BY <1>3, <3>1, ChangeOnTop
  <2> QED BY <2>1, <2>2, <2>3, <2>4
<1>4. db' = db
  BY DEF ExecuteBatch
<1>5. /\ ClientStack(r1.txn) = ClientStack(txn) /\ IsTxn(r1.txn) /\ r1.ok \in BOOLEAN
      /\ Quiet /\ ~txn.aborted =>
           /\ r1.txn.work = IF r1.ok THEN Append(txn.work, changes + 1) ELSE txn.work
           /\ ~r1.txn.aborted
  BY <1>1, <1>3
<1>6. CASE ~r1.ok
  <2>1. txn' = r1.txn /\ reply' = Reply("CHANGE", FALSE, r1.event)
    BY <1>2, <1>6
  <2> QED BY <1>4, <1>5, <1>6, <2>1
<1>7. CASE r1.ok
  <2>1. PICK r2 \in ChangeResults(r1.txn, changes + 2, FALSE) :
          txn' = r2.txn /\ reply' = Reply("CHANGE", r2.ok, r2.event)
    BY <1>2, <1>7
  <2>2. /\ ClientStack(r2.txn) = ClientStack(r1.txn) /\ r2.ok \in BOOLEAN
        /\ Quiet /\ ~r1.txn.aborted =>
             r2.txn.work = IF r2.ok THEN Append(r1.txn.work, changes + 2) ELSE r1.txn.work
    BY <1>1, <1>3, <1>5
  <2> QED BY <1>4, <1>5, <1>7, <2>1, <2>2
<1> QED BY <1>6, <1>7

\* As long as no transaction control is run over an open cursor, no statement,
\* and no batch of rows, of any client, takes one of its savepoints: whatever
\* fails, finish_statement and recover_statement_error find their own wrapper.
THEOREM SessionSavepoints ==
  ASSUME "boundaryOverCursor" \notin Allow
  PROVE  Spec => ClientSavepointsSurvive
<1> DEFINE Inv  == TypeOK /\ WrappersOnTop /\ BusyWhileDraining
           Step == reply'.op \in {"QUERY", "FETCH", "CHANGE"} =>
                     ClientStack(txn') = ClientStack(txn)
<1>1. Inv /\ [Next]_vars => [Step]_vars
  <2> SUFFICES ASSUME Inv, Next, reply'.op \in {"QUERY", "FETCH", "CHANGE"}
               PROVE  ClientStack(txn') = ClientStack(txn)
    OBVIOUS
  <2> USE DEF Reply
  <2>1. CASE \E c \in Cursors, q \in Queries : ExecuteQuery(c, q)
    BY <2>1, QueryClient
  <2>2. CASE \E c \in Cursors : Fetch(c) \/ DrainCursor(c)
    BY <2>2, FetchClient, DrainClient
  <2>3. CASE (\E returning \in BOOLEAN : ExecuteChange(returning)) \/ ExecuteBatch
    BY <2>3, ExecuteChangeClient, ExecuteBatchClient
  <2>4. ~ExecuteDdl /\ ~ExecuteTransactionSql
    BY ExecuteDdlIs DEF ExecuteTransactionSql, CommitWork, RollbackWork
  <2>5. /\ ~ClientSet
        /\ \A s \in Savepoints : ~ClientSavepoint(s) /\ ~ClientRollbackTo(s) /\ ~ClientRelease(s)
    <3>1. ASSUME NEW op, op \notin {"QUERY", "FETCH", "CHANGE"}, NEW after, NEW ok
          PROVE  ~Direct(op, after, ok)
      BY <3>1 DEF Direct
    <3>2. /\ "SET" \notin {"QUERY", "FETCH", "CHANGE"}
          /\ "SAVEPOINT" \notin {"QUERY", "FETCH", "CHANGE"}
          /\ "ROLLBACK TO" \notin {"QUERY", "FETCH", "CHANGE"}
          /\ "RELEASE" \notin {"QUERY", "FETCH", "CHANGE"}
      OBVIOUS
    <3>3. ~ClientSet
      BY <3>1, <3>2, Zenon DEF ClientSet
    <3>4. ASSUME NEW s \in Savepoints
          PROVE  ~ClientSavepoint(s) /\ ~ClientRollbackTo(s) /\ ~ClientRelease(s)
      BY <3>1, <3>2, Zenon DEF ClientSavepoint, ClientRollbackTo, ClientRelease
    <3> QED BY <3>3, <3>4
  <2>6. ~(\E op \in {"COMMIT", "ROLLBACK", "LOGOFF"} : BeginDrain(op))
    BY DEF BeginDrain, Busy
  <2>7. ~EndDrain /\ ~Disconnect
    BY DEF EndDrain, Disconnect, CommitWork, RollbackWork
  <2> QED BY <2>1, <2>2, <2>3, <2>4, <2>5, <2>6, <2>7 DEF Next
<1>2. Spec => []Inv
  <2>1. Init => TypeOK /\ WrappersOnTop
    BY InitType, InitOnTop
  <2>2. TypeOK /\ WrappersOnTop /\ [Next]_vars => (TypeOK /\ WrappersOnTop)'
    BY NextType, StepOnTop
  <2> QED BY <2>1, <2>2, DrainsAreBusy, PTL DEF Spec
<1> QED BY <1>1, <1>2, PTL DEF Spec, ClientSavepointsSurvive

-----------------------------------------------------------------------------
(* The promise of OracleTxn.                                               *)

Marks(S) == [i \in DOMAIN S |-> [name |-> S[i].name, mark |-> S[i].mark]]

Mark == [name : Savepoints \cup {Wrapper}, mark : Nat]

LEMMA MarksAre ==
  ASSUME NEW S \in Seq(Entry)
  PROVE  /\ Marks(S) \in Seq(Mark) /\ Len(Marks(S)) = Len(S)
         /\ \A i \in 1..Len(S) : Marks(S)[i] = [name |-> S[i].name, mark |-> S[i].mark]
<1>1. DOMAIN S = 1..Len(S) /\ Len(S) \in Nat
  OBVIOUS
<1>2. ASSUME NEW i \in 1..Len(S)
      PROVE  [name |-> S[i].name, mark |-> S[i].mark] \in Mark
  <2>1. S[i] \in Entry
    BY <1>1
  <2> QED BY <2>1 DEF Entry, Mark
<1>3. Marks(S) = [i \in 1..Len(S) |-> [name |-> S[i].name, mark |-> S[i].mark]]
  BY <1>1 DEF Marks
<1>4. Marks(S) \in [1..Len(S) -> Mark]
  BY <1>2, <1>3
<1> HIDE DEF Mark
<1>5. Marks(S) \in Seq(Mark) /\ Len(Marks(S)) = Len(S)
  BY <1>1, <1>4
<1> QED BY <1>3, <1>5

LEMMA MarksPushed ==
  ASSUME NEW S \in Seq(Entry), NEW e \in Entry
  PROVE  Marks(Append(S, e)) = Append(Marks(S), [name |-> e.name, mark |-> e.mark])
<1>1. PICK P \in Seq(Entry) : P = Append(S, e)
  <2>1. Append(S, e) \in Seq(Entry)
    OBVIOUS
  <2> QED BY <2>1
<1>2. /\ Len(P) = Len(S) + 1 /\ Len(S) \in Nat /\ P[Len(S) + 1] = e
      /\ \A i \in 1..Len(S) : P[i] = S[i]
  BY <1>1
<1>3. PICK m : m = [name |-> e.name, mark |-> e.mark]
  OBVIOUS
<1>4. m \in Mark
  BY <1>3 DEF Entry, Mark
<1>5. PICK A : A = Marks(S)
  OBVIOUS
<1>6. PICK B : B = Marks(P)
  OBVIOUS
<1>7. /\ A \in Seq(Mark) /\ Len(A) = Len(S)
      /\ \A i \in 1..Len(S) : A[i] = [name |-> S[i].name, mark |-> S[i].mark]
  BY <1>5, MarksAre
<1>8. /\ B \in Seq(Mark) /\ Len(B) = Len(P)
      /\ \A i \in 1..Len(P) : B[i] = [name |-> P[i].name, mark |-> P[i].mark]
  BY <1>6, MarksAre
<1>9. /\ Append(A, m) \in Seq(Mark) /\ Len(Append(A, m)) = Len(S) + 1
      /\ Append(A, m)[Len(S) + 1] = m /\ \A i \in 1..Len(S) : Append(A, m)[i] = A[i]
  BY <1>4, <1>7
<1>10. ASSUME NEW i \in 1..(Len(S) + 1) PROVE B[i] = Append(A, m)[i]
  <2>1. CASE i = Len(S) + 1
    BY <1>2, <1>3, <1>8, <1>9, <2>1
  <2>2. CASE i # Len(S) + 1
    <3>1. i \in 1..Len(S) /\ i \in 1..Len(P)
      BY <1>2, <2>2
    <3> QED BY <1>2, <1>7, <1>8, <1>9, <3>1
  <2> QED BY <2>1, <2>2
<1>11. B = Append(A, m)
  BY <1>2, <1>8, <1>9, <1>10, SeqEqual
<1> QED BY <1>1, <1>3, <1>5, <1>6, <1>11

LEMMA MarksCut ==
  ASSUME NEW S \in Seq(Entry), NEW p \in 1..Len(S)
  PROVE  Marks(SubSeq(S, 1, p)) = SubSeq(Marks(S), 1, p)
<1>1. PICK P : P = SubSeq(S, 1, p)
  OBVIOUS
<1>2. P \in Seq(Entry) /\ Len(P) = p /\ p \in Nat /\ p <= Len(S) /\ \A i \in 1..p : P[i] = S[i]
  BY <1>1
<1>3. PICK A : A = Marks(S)
  OBVIOUS
<1>4. PICK B : B = Marks(P)
  OBVIOUS
<1>5. /\ A \in Seq(Mark) /\ Len(A) = Len(S)
      /\ \A i \in 1..Len(S) : A[i] = [name |-> S[i].name, mark |-> S[i].mark]
  BY <1>3, MarksAre
<1>6. /\ B \in Seq(Mark) /\ Len(B) = p
      /\ \A i \in 1..p : B[i] = [name |-> P[i].name, mark |-> P[i].mark]
  BY <1>2, <1>4, MarksAre
<1>7. /\ SubSeq(A, 1, p) \in Seq(Mark) /\ Len(SubSeq(A, 1, p)) = p
      /\ \A i \in 1..p : SubSeq(A, 1, p)[i] = A[i]
  BY <1>2, <1>5
<1>8. ASSUME NEW i \in 1..p PROVE B[i] = SubSeq(A, 1, p)[i]
  <2>1. i \in 1..Len(S) /\ P[i] = S[i]
    BY <1>2
  <2>2. B[i] = A[i]
    BY <1>5, <1>6, <2>1
  <2> QED BY <1>7, <2>2
<1>9. B = SubSeq(A, 1, p)
  BY <1>6, <1>7, <1>8, SeqEqual
<1> QED BY <1>1, <1>3, <1>4, <1>9

LEMMA SameRange ==
  ASSUME NEW f
  PROVE  Oracle!Range(f) = Range(f)
BY DEF Oracle!Range, Range

LEMMA AnswerIs ==
  ASSUME NEW op, NEW ok, NEW event, reply' = Reply(op, ok, event)
  PROVE  [op |-> reply'.op, ok |-> reply'.ok] = Oracle!Answer(op, ok)
BY DEF Reply, Oracle!Answer

LEMMA MarksNext == ClientMarks' = Marks(ClientStack(txn'))
BY DEF ClientMarks, Marks

LEMMA MarksKept ==
  ASSUME ClientStack(txn') = ClientStack(txn)
  PROVE  ClientMarks' = ClientMarks
BY MarksNext DEF ClientMarks, Marks

LEMMA MarksGone ==
  ASSUME NEW t, t.stack = <<>>
  PROVE  Marks(ClientStack(t)) = <<>>
<1>1. ClientStack(t) = <<>> /\ <<>> \in Seq(Entry) /\ Len(<<>>) = 0
  BY ClientStackEmpty
<1>2. Marks(ClientStack(t)) \in Seq(Mark) /\ Len(Marks(ClientStack(t))) = 0
  BY <1>1, MarksAre
<1> QED BY <1>2, EmptySeq

LEMMA OracleInit == Init => Oracle!Init
<1> SUFFICES ASSUME Init PROVE Oracle!Init
  OBVIOUS
<1>1. txn = Fresh /\ db = {} /\ reply = Reply("AUTH", TRUE, "none")
  BY DEF Init
<1>2. txn.work = <<>> /\ txn.stack = <<>>
  BY <1>1 DEF Fresh
<1>3. ClientMarks = <<>>
  BY <1>2, MarksGone DEF ClientMarks, Marks
<1>4. [op |-> reply.op, ok |-> reply.ok] = Oracle!Answer("AUTH", TRUE)
  BY <1>1 DEF Reply, Oracle!Answer
<1> QED BY <1>1, <1>2, <1>3, <1>4 DEF Oracle!Init

\* Queries, batches of rows and settings.
LEMMA ReadRefines ==
  ASSUME QuietInv, Quiet,
         \/ \E c \in Cursors, q \in Queries : ExecuteQuery(c, q)
         \/ \E c \in Cursors : Fetch(c)
         \/ ClientSet
  PROVE  Oracle!Read
<1>1. TypeOK /\ WrappersOnTop /\ ~txn.aborted /\ \A c \in Cursors : ~cursors[c].fails
  BY DEF QuietInv, Usable
<1>2. /\ ClientStack(txn') = ClientStack(txn) /\ txn'.work = txn.work /\ db' = db
      /\ \E op \in {"QUERY", "FETCH", "SET"}, ok \in BOOLEAN : \E event :
           reply' = Reply(op, ok, event)
  <2>1. CASE \E c \in Cursors, q \in Queries : ExecuteQuery(c, q)
    BY <1>1, <2>1, QueryClient
  <2>2. CASE \E c \in Cursors : Fetch(c)
    BY <1>1, <2>2, FetchClient
  <2>3. CASE ClientSet
    <3>1. ASSUME Direct("SET", Abort(txn), FALSE)
          PROVE  txn' = txn
      <4>1. ~Accepts(txn)
        BY <3>1 DEF Direct, Quiet, Poisonous
      <4>2. ~txn.open
        BY <1>1, <4>1 DEF Accepts
      <4> QED BY <3>1, <4>2 DEF Direct, Abort
    <3>2. PICK ok \in BOOLEAN : Direct("SET", txn, ok) \/ Direct("SET", Abort(txn), ok)
      BY <2>3 DEF ClientSet
    <3>3. \E event : reply' = Reply("SET", ok, event)
      BY <3>2 DEF Direct
    <3>4. txn' = txn /\ db' = db
      BY <2>3, <3>1 DEF ClientSet, Direct
    <3> QED BY <3>2, <3>3, <3>4
  <2> QED BY <2>1, <2>2, <2>3
<1>3. \E op \in {"QUERY", "FETCH", "SET"}, ok \in BOOLEAN :
        [op |-> reply'.op, ok |-> reply'.ok] = Oracle!Answer(op, ok)
  BY <1>2, AnswerIs
<1> QED BY <1>2, <1>3, MarksKept DEF Oracle!Read

\* One row, or two.
LEMMA AppendOne ==
  ASSUME NEW w \in Seq(Nat), NEW d \in 1..MaxChanges
  PROVE  Append(w, d) = w \o <<d>> /\ <<d>> \in [1..1 -> 1..MaxChanges]
<1>1. MaxChanges \in Nat /\ d \in Nat
  BY SessionAssumption
<1>2. Append(w, d) = w \o <<d>>
  BY <1>1, AppendIsConcat
<1> QED BY <1>2

LEMMA AppendTwo ==
  ASSUME NEW w \in Seq(Nat), NEW d \in 1..MaxChanges, NEW e \in 1..MaxChanges
  PROVE  Append(Append(w, d), e) = w \o <<d, e>> /\ <<d, e>> \in [1..2 -> 1..MaxChanges]
<1>1. MaxChanges \in Nat /\ d \in Nat /\ e \in Nat
  BY SessionAssumption
<1>2. PICK A : A = Append(Append(w, d), e)
  OBVIOUS
<1>3. PICK p : p = <<d, e>>
  OBVIOUS
<1>4. p \in Seq(Nat) /\ Len(p) = 2 /\ p[1] = d /\ p[2] = e
  BY <1>1, <1>3
<1>5. PICK B : B = w \o p
  OBVIOUS
<1>6. /\ A \in Seq(Nat) /\ Len(A) = Len(w) + 2 /\ A[Len(w) + 1] = d /\ A[Len(w) + 2] = e
      /\ \A i \in 1..Len(w) : A[i] = w[i]
  BY <1>1, <1>2
<1>7. /\ B \in Seq(Nat) /\ Len(B) = Len(w) + 2 /\ B[Len(w) + 1] = d /\ B[Len(w) + 2] = e
      /\ \A i \in 1..Len(w) : B[i] = w[i]
  <2>1. /\ B \in Seq(Nat) /\ Len(B) = Len(w) + Len(p)
        /\ \A i \in 1..(Len(w) + Len(p)) :
             B[i] = IF i <= Len(w) THEN w[i] ELSE p[i - Len(w)]
    BY <1>4, <1>5, ConcatProperties
  <2>2. /\ Len(w) \in Nat /\ Len(w) + 1 \in 1..(Len(w) + 2) /\ Len(w) + 2 \in 1..(Len(w) + 2)
        /\ (Len(w) + 1) - Len(w) = 1 /\ (Len(w) + 2) - Len(w) = 2
        /\ ~(Len(w) + 1 <= Len(w)) /\ ~(Len(w) + 2 <= Len(w))
    OBVIOUS
  <2>3. B[Len(w) + 1] = p[1] /\ B[Len(w) + 2] = p[2]
    BY <1>4, <2>1, <2>2
  <2>4. ASSUME NEW i \in 1..Len(w) PROVE B[i] = w[i]
    <3>1. i \in 1..(Len(w) + 2) /\ i <= Len(w)
      BY <2>2
    <3> QED BY <1>4, <2>1, <3>1
  <2> QED BY <1>4, <2>1, <2>3, <2>4
<1>8. ASSUME NEW i \in 1..(Len(w) + 2) PROVE A[i] = B[i]
  <2>1. i \in 1..Len(w) \/ i = Len(w) + 1 \/ i = Len(w) + 2
    OBVIOUS
  <2> QED BY <1>6, <1>7, <2>1
<1>9. A = B
  BY <1>6, <1>7, <1>8, SeqEqual
<1>10. <<d, e>> \in [1..2 -> 1..MaxChanges]
  OBVIOUS
<1> QED BY <1>2, <1>3, <1>5, <1>9, <1>10

\* DML.
LEMMA ChangeRefines ==
  ASSUME QuietInv, Quiet, (\E returning \in BOOLEAN : ExecuteChange(returning)) \/ ExecuteBatch
  PROVE  Oracle!ChangeSome
<1>1. TypeOK /\ ~txn.aborted /\ changes \in Nat /\ txn.work \in Seq(Nat)
  BY TxnParts DEF QuietInv, Usable, TypeOK
<1>2. MaxChanges \in Nat
  BY SessionAssumption
<1>3. ASSUME ClientStack(txn') = ClientStack(txn), db' = db, NEW ok \in BOOLEAN, NEW event,
             reply' = Reply("CHANGE", ok, event),
             \/ ~ok /\ txn'.work = txn.work
             \/ \E n \in 1..2 : \E d \in [1..n -> 1..MaxChanges] : txn'.work = txn.work \o d
      PROVE  Oracle!ChangeSome
  <2>1. [op |-> reply'.op, ok |-> reply'.ok] = Oracle!Answer("CHANGE", ok)
    BY <1>3, AnswerIs
  <2>2. ClientMarks' = ClientMarks
    BY <1>3, MarksKept
  <2>3. CASE ~ok /\ txn'.work = txn.work
    <3>1. 0 \in 0..2
      OBVIOUS
    <3> QED BY <1>3, <2>1, <2>2, <2>3, <3>1 DEF Oracle!ChangeSome
  <2>4. ASSUME NEW n \in 1..2, NEW d \in [1..n -> 1..MaxChanges], txn'.work = txn.work \o d
        PROVE  Oracle!ChangeSome
    <3>1. n \in 0..2 /\ n > 0 /\ n # 0
      OBVIOUS
    <3> QED BY <1>3, <2>1, <2>2, <2>4, <3>1 DEF Oracle!ChangeSome
  <2> QED BY <1>3, <2>3, <2>4
<1>4. 1 \in 1..2 /\ 2 \in 1..2
  OBVIOUS
<1>5. ASSUME NEW returning \in BOOLEAN, ExecuteChange(returning)
      PROVE  Oracle!ChangeSome
  <2>1. PICK d \in 1..MaxChanges : d = changes + 1
    BY <1>1, <1>2, <1>5 DEF ExecuteChange
  <2>2. PICK ok \in BOOLEAN : \E event :
          /\ reply' = Reply("CHANGE", ok, event)
          /\ txn'.work = IF ok THEN Append(txn.work, d) ELSE txn.work
    BY <1>1, <1>5, <2>1, ExecuteChangeClient
  <2>3. ClientStack(txn') = ClientStack(txn) /\ db' = db
    BY <1>1, <1>5, ExecuteChangeClient
  <2> QED BY <1>1, <1>3, <1>4, <2>2, <2>3, AppendOne
<1>6. CASE ExecuteBatch
  <2>1. PICK d \in 1..MaxChanges : d = changes + 1
    BY <1>1, <1>2, <1>6 DEF ExecuteBatch
  <2>2. PICK e \in 1..MaxChanges : e = changes + 2
    BY <1>1, <1>2, <1>6 DEF ExecuteBatch
  <2>3. PICK ok \in BOOLEAN : \E event :
          /\ reply' = Reply("CHANGE", ok, event)
          /\ IF ok THEN txn'.work = Append(Append(txn.work, d), e)
             ELSE txn'.work \in {txn.work, Append(txn.work, d)}
    BY <1>1, <1>6, <2>1, <2>2, ExecuteBatchClient
  <2>4. ClientStack(txn') = ClientStack(txn) /\ db' = db
    BY <1>1, <1>6, ExecuteBatchClient
  <2>5. /\ Append(txn.work, d) = txn.work \o <<d>> /\ <<d>> \in [1..1 -> 1..MaxChanges]
        /\ Append(Append(txn.work, d), e) = txn.work \o <<d, e>>
        /\ <<d, e>> \in [1..2 -> 1..MaxChanges]
    BY <1>1, AppendOne, AppendTwo
  <2>6. \/ ~ok /\ txn'.work = txn.work
        \/ txn'.work = txn.work \o <<d>>
        \/ txn'.work = txn.work \o <<d, e>>
    BY <2>3, <2>5
  <2> QED BY <1>3, <1>4, <2>3, <2>4, <2>5, <2>6
<1> QED BY <1>5, <1>6

\* COMMIT, refused or not, ROLLBACK, DDL, and every end of the session.
LEMMA EndRefines ==
  ASSUME QuietInv, ExecuteDdl \/ ExecuteTransactionSql \/ EndDrain \/ Disconnect
  PROVE  Oracle!Commit \/ Oracle!Ddl \/ Oracle!RefuseCommit \/ Oracle!Rollback
<1>1. Committed(txn) = Range(txn.work)
  BY DEF QuietInv, Usable, Committed
<1>2. /\ Fresh.work = <<>> /\ Fresh.stack = <<>>
      /\ NoBlock.work = <<>> /\ NoBlock.stack = <<>>
  BY DEF Fresh, NoBlock
<1>3. ASSUME txn' \in {Fresh, NoBlock}
      PROVE  Oracle!NewTransaction
  <2>1. txn'.stack = <<>> /\ txn'.work = <<>>
    BY <1>2, <1>3
  <2> QED BY <2>1, MarksNext, MarksGone DEF Oracle!NewTransaction
<1>4. ASSUME NEW t, NEW r \in CommitResults(t)
      PROVE  r.txn \in {Fresh, NoBlock} /\ r.ok \in BOOLEAN
  BY <1>4, CommitResultsAre
<1>5. ASSUME NEW r \in CommitResults(txn)
      PROVE  (r.ok /\ r.durable = Range(txn.work)) \/ (~r.ok /\ r.durable = {})
  <2>1. CASE r.durable = Committed(txn) /\ r.ok = TRUE
    BY <1>1, <2>1
  <2>2. CASE r.durable = {} /\ r.ok = FALSE
    BY <2>2
  <2> QED BY <1>5, <2>1, <2>2, CommitResultsAre
<1>6. ASSUME NEW op \in {"COMMIT", "DDL"}, NEW event, reply' = Reply(op, FALSE, event),
             db' = db, txn' \in {Fresh, NoBlock}
      PROVE  Oracle!RefuseCommit
  <2>1. [op |-> reply'.op, ok |-> reply'.ok] = Oracle!Answer(op, FALSE)
    BY <1>6, AnswerIs
  <2> QED BY <1>3, <1>6, <2>1 DEF Oracle!RefuseCommit
<1>7. ASSUME CommitWork("COMMIT")
      PROVE  Oracle!Commit \/ Oracle!RefuseCommit
  <2>1. PICK r \in CommitResults(txn) :
          db' = db \cup r.durable /\ txn' = r.txn /\ reply' = Reply("COMMIT", r.ok, r.event)
    BY <1>7 DEF CommitWork
  <2>2. CASE r.ok
    <3>1. reply' = Reply("COMMIT", TRUE, r.event) /\ db' = db \cup Range(txn.work)
          /\ txn' \in {Fresh, NoBlock}
      BY <1>4, <1>5, <2>1, <2>2
    <3>2. [op |-> reply'.op, ok |-> reply'.ok] = Oracle!Answer("COMMIT", TRUE)
      BY <3>1, AnswerIs
    <3> QED BY <1>3, <3>1, <3>2, SameRange DEF Oracle!Commit
  <2>3. CASE ~r.ok
    <3>1. reply' = Reply("COMMIT", FALSE, r.event) /\ db' = db /\ txn' \in {Fresh, NoBlock}
      BY <1>4, <1>5, <2>1, <2>3
    <3> QED BY <1>6, <3>1
  <2> QED BY <2>2, <2>3
<1>8. ASSUME NEW op \in {"ROLLBACK", "LOGOFF"}, RollbackWork(op)
      PROVE  Oracle!Rollback
  <2>1. txn' = Fresh /\ db' = db /\ reply' = Reply(op, TRUE, "none")
    BY <1>8 DEF RollbackWork
  <2>2. [op |-> reply'.op, ok |-> reply'.ok] = Oracle!Answer(op, TRUE)
    BY <2>1, AnswerIs
  <2> QED BY <1>3, <1>8, <2>1, <2>2 DEF Oracle!Rollback
<1>9. CASE ExecuteDdl
  <2>1. PICK first \in CommitResults(txn) :
          /\ db' = db \cup first.durable
          /\ \/ ~first.ok /\ txn' = first.txn /\ reply' = Reply("DDL", FALSE, first.event)
             \/ first.ok /\ txn' = Fresh /\ reply' = Reply("DDL", FALSE, "none")
             \/ /\ first.ok
                /\ \E second \in CommitResults(first.txn) :
                     txn' = second.txn /\ reply' = Reply("DDL", second.ok, second.event)
    BY <1>9, ExecuteDdlIs
  <2>2. CASE ~first.ok
    <3>1. reply' = Reply("DDL", FALSE, first.event) /\ db' = db /\ txn' \in {Fresh, NoBlock}
      BY <1>4, <1>5, <2>1, <2>2
    <3> QED BY <1>6, <3>1
  <2>3. CASE first.ok
    <3>1. db' = db \cup Range(txn.work)
      BY <1>5, <2>1, <2>3
    <3>2. txn' \in {Fresh, NoBlock}
          /\ \E ok \in BOOLEAN : \E event : reply' = Reply("DDL", ok, event)
      BY <1>4, <2>1, <2>3
    <3>3. PICK ok \in BOOLEAN : \E event : reply' = Reply("DDL", ok, event)
      BY <3>2
    <3>4. [op |-> reply'.op, ok |-> reply'.ok] = Oracle!Answer("DDL", ok)
      BY <3>3, AnswerIs
    <3> QED BY <1>3, <3>1, <3>2, <3>4, SameRange DEF Oracle!Ddl
  <2> QED BY <2>2, <2>3
<1>10. CASE ExecuteTransactionSql \/ EndDrain \/ Disconnect
  BY <1>7, <1>8, <1>10 DEF ExecuteTransactionSql, EndDrain, Disconnect
<1> QED BY <1>9, <1>10

\* Outside a block a command about savepoints is refused, and changes nothing.
LEMMA RefuseRefines ==
  ASSUME NEW op \in {"SAVEPOINT", "ROLLBACK TO"}, Direct(op, txn, FALSE)
  PROVE  Oracle!RefuseSavepoint
<1>1. txn' = txn /\ db' = db /\ \E event : reply' = Reply(op, FALSE, event)
  BY DEF Direct
<1>2. [op |-> reply'.op, ok |-> reply'.ok] = Oracle!Answer(op, FALSE)
  BY <1>1, AnswerIs
<1> QED BY <1>1, <1>2, MarksKept DEF Oracle!RefuseSavepoint

\* SAVEPOINT of the client's.
LEMMA SavepointRefines ==
  ASSUME QuietInv, NEW s \in Savepoints, ClientSavepoint(s)
  PROVE  Oracle!Savepoint(s) \/ Oracle!RefuseSavepoint
<1>0. CASE ~Accepts(txn)
  <2>1. DefineSavepoint(txn, s) = txn /\ Accepts(txn) = FALSE
    BY <1>0 DEF DefineSavepoint, Accepts
  <2>2. Direct("SAVEPOINT", txn, FALSE)
    BY <2>1, Zenon DEF ClientSavepoint
  <2> QED BY <2>2, RefuseRefines
<1> SUFFICES ASSUME Accepts(txn) PROVE Oracle!Savepoint(s)
  BY <1>0
<1>1. IsTxn(txn) /\ ~txn.aborted
  BY DEF QuietInv, Usable, TypeOK
<1>2. PICK t : t = DefineSavepoint(txn, s)
  OBVIOUS
<1>3. PICK e : e = [name |-> s, mark |-> Len(txn.work), timeout |-> txn.timeout]
  OBVIOUS
<1>4. Direct("SAVEPOINT", t, Accepts(txn))
  BY <1>2 DEF ClientSavepoint
<1>5. txn' = t /\ db' = db
  BY <1>4 DEF Direct
<1>6. reply' = Reply("SAVEPOINT", TRUE, "none")
  <2>1. Accepts(txn) = TRUE
    BY DEF Accepts
  <2>2. Direct("SAVEPOINT", t, TRUE)
    BY <1>4, <2>1, Zenon
  <2> QED BY <2>2 DEF Direct
<1>7. [op |-> reply'.op, ok |-> reply'.ok] = Oracle!Answer("SAVEPOINT", TRUE)
  BY <1>6, AnswerIs
<1>8. t.stack = Append(txn.stack, e) /\ t.work = txn.work
  BY <1>1, <1>2, <1>3, DefineIsTxn
<1>9. e \in Entry /\ e.name = s /\ e.mark = Len(txn.work) /\ s # Wrapper
  BY <1>1, <1>3, TxnParts, SessionAssumption DEF Entry
<1>10. ClientStack(t) = Append(ClientStack(txn), e)
  BY <1>1, <1>8, <1>9, ClientStackPushed
<1>11. ClientStack(txn) \in Seq(Entry)
  BY <1>1, ClientStackType
<1>12. Marks(ClientStack(t)) =
         Append(Marks(ClientStack(txn)), [name |-> s, mark |-> Len(txn.work)])
  BY <1>9, <1>10, <1>11, MarksPushed
<1>13. ClientMarks' = Append(ClientMarks, [name |-> s, mark |-> Len(txn.work)])
  BY <1>5, <1>12, MarksNext DEF ClientMarks, Marks
<1> QED BY <1>5, <1>7, <1>8, <1>13 DEF Oracle!Savepoint

\* ROLLBACK TO one of them.
LEMMA RollbackToRefines ==
  ASSUME QuietInv, Quiet, NEW s \in Savepoints, ClientRollbackTo(s)
  PROVE  (\E i \in DOMAIN ClientMarks : Oracle!RollbackTo(i)) \/ Oracle!RefuseSavepoint
<1>1. IsTxn(txn) /\ ~txn.aborted
  BY DEF QuietInv, Usable, TypeOK
<1>1a. CASE ~HasSavepoint(txn, s)
  <2>1. ~Accepts(txn)
    BY <1>1a DEF ClientRollbackTo, Direct, Quiet, Poisonous
  <2>2. ~txn.open
    BY <1>1, <2>1 DEF Accepts
  <2>3. RollbackToSavepoint(txn, s) = txn /\ HasSavepoint(txn, s) = FALSE
    BY <1>1a, <2>2 DEF RollbackToSavepoint, Abort, HasSavepoint
  <2>4. Direct("ROLLBACK TO", txn, FALSE)
    BY <2>3, Zenon DEF ClientRollbackTo
  <2> QED BY <2>4, RefuseRefines
<1> SUFFICES ASSUME HasSavepoint(txn, s)
             PROVE  \E i \in DOMAIN ClientMarks : Oracle!RollbackTo(i)
  BY <1>1a
<1>2. HasSavepoint(txn, s)
  OBVIOUS
<1>3. PICK n : n = Innermost(txn, s)
  OBVIOUS
<1>4. PICK t : t = RollbackToSavepoint(txn, s)
  OBVIOUS
<1>5. t.work = SubSeq(txn.work, 1, txn.stack[n].mark) /\ t.stack = SubSeq(txn.stack, 1, n)
  BY <1>2, <1>3, <1>4 DEF RollbackToSavepoint
<1>6. txn' = t /\ db' = db
  BY <1>4 DEF ClientRollbackTo, Direct
<1>7. reply' = Reply("ROLLBACK TO", TRUE, "none")
  <2>1. HasSavepoint(txn, s) = TRUE
    BY <1>2 DEF HasSavepoint
  <2>2. Direct("ROLLBACK TO", RollbackToSavepoint(txn, s), TRUE)
    BY <2>1, Zenon DEF ClientRollbackTo
  <2> QED BY <2>2 DEF Direct
<1>8. [op |-> reply'.op, ok |-> reply'.ok] = Oracle!Answer("ROLLBACK TO", TRUE)
  BY <1>7, AnswerIs
<1>9. PICK C \in Seq(Entry) : C = ClientStack(txn)
  BY <1>1, ClientStackType
<1>10. PICK p \in 1..Len(C) :
         /\ ClientStack(t) = SubSeq(C, 1, p)
         /\ C[p] = txn.stack[n]
         /\ \A j \in 1..Len(C) : C[j].name = s => j <= p
  BY <1>1, <1>2, <1>3, <1>5, <1>9, ClientStackCut
<1>11. txn.stack[n].name = s
  BY <1>1, <1>2, <1>3, InnermostIs
<1>12. PICK A : A = Marks(C)
  OBVIOUS
<1>13. /\ A \in Seq(Mark) /\ Len(A) = Len(C) /\ DOMAIN A = 1..Len(C)
       /\ \A i \in 1..Len(C) : A[i].name = C[i].name /\ A[i].mark = C[i].mark
  <2>1. /\ A \in Seq(Mark) /\ Len(A) = Len(C)
        /\ \A i \in 1..Len(C) : A[i] = [name |-> C[i].name, mark |-> C[i].mark]
    BY <1>12, MarksAre
  <2>2. DOMAIN A = 1..Len(C)
    BY <2>1, LenProperties
  <2>3. ASSUME NEW i \in 1..Len(C)
        PROVE  A[i].name = C[i].name /\ A[i].mark = C[i].mark
    <3>1. A[i] = [name |-> C[i].name, mark |-> C[i].mark]
      BY <2>1
    <3> QED BY <3>1
  <2> QED BY <2>1, <2>2, <2>3
<1>14. ClientMarks = A
  BY <1>9, <1>12 DEF ClientMarks, Marks
<1>15. ClientMarks' = SubSeq(A, 1, p)
  BY <1>6, <1>10, <1>12, MarksNext, MarksCut
<1>16. \A j \in DOMAIN A : A[j].name = A[p].name => j <= p
  BY <1>10, <1>11, <1>13
<1>17. p \in DOMAIN A /\ txn'.work = SubSeq(txn.work, 1, A[p].mark)
  BY <1>5, <1>6, <1>10, <1>13
<1>18. Oracle!RollbackTo(p)
  BY <1>6, <1>8, <1>14, <1>15, <1>16, <1>17 DEF Oracle!RollbackTo
<1> QED BY <1>14, <1>17, <1>18

\* Every step of a session that none of the poisonous events disturbs, and
\* whose client releases no savepoint, is one that was promised.
LEMMA StepRefines ==
  ASSUME QuietInv, BusyWhileDraining, Quiet, "releaseSavepoint" \notin Allow, Next
  PROVE  Oracle!Next \/ UNCHANGED Oracle!vars
<1>1. CASE \/ \E c \in Cursors, q \in Queries : ExecuteQuery(c, q)
           \/ \E c \in Cursors : Fetch(c)
           \/ ClientSet
  BY <1>1, ReadRefines DEF Oracle!Next
<1>2. CASE (\E returning \in BOOLEAN : ExecuteChange(returning)) \/ ExecuteBatch
  BY <1>2, ChangeRefines DEF Oracle!Next
<1>3. CASE ExecuteDdl \/ ExecuteTransactionSql \/ EndDrain \/ Disconnect
  BY <1>3, EndRefines DEF Oracle!Next
<1>4. ASSUME NEW s \in Savepoints, ClientSavepoint(s) \/ ClientRollbackTo(s) \/ ClientRelease(s)
      PROVE  Oracle!Next
  <2>1. ~ClientRelease(s)
    BY DEF ClientRelease
  <2> QED BY <1>4, <2>1, SavepointRefines, RollbackToRefines DEF Oracle!Next
<1>5. ASSUME NEW op \in {"COMMIT", "ROLLBACK", "LOGOFF"}, BeginDrain(op)
      PROVE  Oracle!Working
  <2>1. txn' = txn /\ db' = db /\ reply' = Reply("BUSY", TRUE, "none")
    BY <1>5 DEF BeginDrain, Busy
  <2>2. [op |-> reply'.op, ok |-> reply'.ok] = Oracle!Answer("BUSY", TRUE)
    BY <2>1, AnswerIs
  <2> QED BY <2>1, <2>2, MarksKept DEF Oracle!Working
<1>6. ASSUME NEW c \in Cursors, DrainCursor(c)
      PROVE  UNCHANGED Oracle!vars
  <2>1. TypeOK /\ WrappersOnTop
    BY DEF QuietInv
  <2>2. /\ ClientStack(txn') = ClientStack(txn) /\ txn'.work = txn.work
        /\ db' = db /\ reply' = reply
    BY <1>6, <2>1, DrainClient
  <2> QED BY <2>2, MarksKept DEF Oracle!vars
<1>7. (\E op \in {"COMMIT", "ROLLBACK", "LOGOFF"} : BeginDrain(op)) => Oracle!Next
  BY <1>5 DEF Oracle!Next
<1> QED BY <1>1, <1>2, <1>3, <1>4, <1>6, <1>7 DEF Next

\* The refinement: what a client sees of the session over PostgreSQL - a
\* wrapper around every statement, savepoints held by cursors it has not read
\* to the end, leaked wrappers of statements whose values could not be
\* converted - is a behaviour of OracleTxn.
THEOREM SessionKeepsPromise ==
  ASSUME Allow \cap Poisonous = {}, "releaseSavepoint" \notin Allow
  PROVE  Spec => KeepsPromise
<1>1. Quiet
  BY DEF Quiet
<1>2. QuietInv /\ BusyWhileDraining /\ [Next]_vars => [Oracle!Next]_(Oracle!vars)
  <2> SUFFICES ASSUME QuietInv, BusyWhileDraining, [Next]_vars
               PROVE  Oracle!Next \/ UNCHANGED Oracle!vars
    OBVIOUS
  <2>1. CASE Next
    BY <1>1, <2>1, StepRefines
  <2>2. CASE UNCHANGED vars
    <3>1. txn' = txn /\ db' = db /\ reply' = reply
      BY <2>2 DEF vars
    <3> QED BY <3>1, MarksKept DEF Oracle!vars
  <2> QED BY <2>1, <2>2
<1> QED BY <1>2, OracleInit, QuietInvariant, DrainsAreBusy, PTL DEF Spec, KeepsPromise, Oracle!Spec
=============================================================================
