--------------------------- MODULE MariaDbSession ---------------------------
(***************************************************************************)
(* One Oracle session over its MariaDB connection: the OracleBackend of    *)
(* src/mariadb.rs.  Results are buffered whole, so a cursor holds nothing  *)
(* on the server; what is left is the transaction.                         *)
(*                                                                         *)
(* MariaDB, unlike PostgreSQL, never aborts a transaction over a failed    *)
(* statement, but it ends one in many ways (DDL, START TRANSACTION, a      *)
(* deadlock), and outside one a statement commits by itself.  The proxy    *)
(* has to keep a transaction open at all times, and does not always.       *)
(*                                                                         *)
(* Every departure from what Oracle would do has a name in Events, and     *)
(* happened collects those a behaviour has met; each property says which   *)
(* of them it survives.                                                    *)
(***************************************************************************)
EXTENDS Naturals, Sequences, FiniteSets, SaveLists

CONSTANTS
  Savepoints,  \* names the client gives its savepoints
  Wrapper,     \* dbsaci_statement
  MaxChanges,  \* bound: changes a behaviour attempts
  MaxEvents    \* bound: different events a behaviour meets

Events ==
  {"lost",              \* the link drops and is replaced by a new connection
   "inDoubt",           \* the link drops under a COMMIT the server has carried out
   "deadlock",          \* MariaDB rolls the transaction back to end a deadlock
   "batchError",        \* a later statement of a batch fails
   "program",           \* a PL/SQL block or definition runs
   "ddlBindError",      \* a bind of DDL cannot be converted
   "setTransaction",    \* SET TRANSACTION
   "releaseSavepoint",  \* the client releases a savepoint
   "insteadOf",         \* DML on a view with an INSTEAD OF trigger fails half-way
   "returningError",    \* UPDATE ... RETURNING fails after its UPDATE
   "returningSequence", \* NEXTVAL in a statement with RETURNING
   "failedSequence"}    \* NEXTVAL in a statement that fails

ASSUME MariaDbAssumption ==
  /\ Wrapper \notin Savepoints
  /\ MaxChanges \in Nat /\ MaxEvents \in Nat

VARIABLES
  srv,       \* the connection's transaction, its savepoints and what is durable
  link,      \* is the connection alive?
  triggers,  \* has an INSTEAD OF trigger been registered (instead_of)?
  seen,      \* has the session asked for NEXTVAL (sequences_with_currval)?
  drawn,     \* has a NEXTVAL of this session been evaluated?
  changes,   \* changes attempted; each has its number
  believed,  \* what an Oracle client concludes from the answers
  happened,  \* the events met
  reply      \* the last answer

proxy == <<triggers, seen>>
vars == <<srv, link, proxy, drawn, changes, believed, happened, reply>>

Reply(op, ok) == [op |-> op, ok |-> ok]

NoWork == [pending |-> <<>>, marks |-> <<>>, durable |-> {}]

-----------------------------------------------------------------------------
(* MariaDB, one command at a time. *)

NewConnection(db) == [open |-> TRUE, work |-> <<>>, saves |-> <<>>, db |-> db]

SqlCommit(s) ==
  [open |-> FALSE, work |-> <<>>, saves |-> <<>>, db |-> s.db \cup Range(s.work)]

SqlRollback(s) == [open |-> FALSE, work |-> <<>>, saves |-> <<>>, db |-> s.db]

\* START TRANSACTION commits what is open.
SqlStart(s) == [SqlCommit(s) EXCEPT !.open = TRUE]

HasSave(s, n) == Named(s.saves, n)

\* Outside a transaction this does nothing, and says nothing.
SqlSavepoint(s, n) ==
  IF ~s.open THEN s ELSE [s EXCEPT !.saves = Saved(@, n, Len(s.work))]

SqlRollbackTo(s, n) ==
  IF ~HasSave(s, n) THEN s
  ELSE [s EXCEPT !.work = SubSeq(@, 1, s.saves[Position(s.saves, n)].mark),
                 !.saves = SubSeq(@, 1, Position(s.saves, n))]

\* Later savepoints go too.
SqlRelease(s, n) ==
  IF ~HasSave(s, n) THEN s ELSE [s EXCEPT !.saves = SubSeq(@, 1, Position(s.saves, n) - 1)]

SqlChange(s, d) ==
  IF s.open THEN [s EXCEPT !.work = Append(@, d)] ELSE [s EXCEPT !.db = @ \cup {d}]

\* The victim of a deadlock loses its transaction, and is in a new one.
SqlDeadlock(s) == [s EXCEPT !.work = <<>>, !.saves = <<>>]

-----------------------------------------------------------------------------
(* The client's conclusions: Oracle's rules applied to the answers. *)

Kept(b) == [NoWork EXCEPT !.durable = b.durable \cup Range(b.pending)]

Dropped(b) == [NoWork EXCEPT !.durable = b.durable]

Marked(b, n) == [b EXCEPT !.marks = Saved(@, n, Len(b.pending))]

BackTo(b, n) ==
  IF ~Named(b.marks, n) THEN b
  ELSE [b EXCEPT !.pending = SubSeq(@, 1, b.marks[Position(b.marks, n)].mark),
                 !.marks = SubSeq(@, 1, Position(b.marks, n))]

Unmarked(b, n) ==
  IF ~Named(b.marks, n) THEN b
  ELSE [b EXCEPT !.marks = SubSeq(@, 1, Position(b.marks, n) - 1)]

Accepted(b, ds) == [b EXCEPT !.pending = @ \o ds]

-----------------------------------------------------------------------------
(* Statements: each has a set of results, the transaction after it and the *)
(* answer, with the event it stands for.                                   *)

Result(s, ok, event) == [srv |-> s, ok |-> ok, event |-> event]

\* Mutant: a failed statement is only rolled back.
RecoverByRollback(s) == SqlRollbackTo(s, Wrapper)

\* A failed statement: both commands' own errors are dropped.
Recover(s) == SqlRelease(SqlRollbackTo(s, Wrapper), Wrapper)

\* An ordinary statement under dbsaci_statement.  Its RELEASE fails when there
\* is no savepoint, and with it the answer.
OrdinaryResults(s, d) ==
  LET begun == SqlSavepoint(s, Wrapper)
      run   == SqlChange(begun, d)
  IN  {Result(SqlRelease(run, Wrapper), HasSave(run, Wrapper), "none"),
       Result(Recover(begun), FALSE, "none"),
       Result(s, FALSE, "none"),          \* a bind fails before anything is sent
       Result(Recover(SqlDeadlock(begun)), FALSE, "deadlock")}

\* Mutant: a batch is not wrapped, and ends with the transaction restarted.
BatchRestarts(s, d) ==
  {Result(SqlStart(SqlChange(SqlChange(s, d), d + 1)), TRUE, "none"),
   Result(s, FALSE, "none")}

\* A statement of the request, when none or the first has run, is the victim of a
\* deadlock: the answer is an error.
DeadlockAfter(runs) == {Result(SqlDeadlock(t), FALSE, "deadlock") : t \in runs}

\* A statement translated to several, here two: an error returns at once, and
\* leaves the savepoint and the effects of the first.
BatchResults(s, d) ==
  LET begun == SqlSavepoint(s, Wrapper)
      first == SqlChange(begun, d)
      both  == SqlChange(first, d + 1)
  IN  {Result(SqlRelease(both, Wrapper), HasSave(both, Wrapper), "none"),
       Result(begun, FALSE, "batchError"),
       Result(first, FALSE, "batchError")} \cup DeadlockAfter({begun, first})

\* A block or definition runs outside any savepoint; START TRANSACTION follows,
\* unless it failed: then its work, or the end of a transaction that its own
\* DDL committed, stays as it is.
ProgramResults(s, d) ==
  {Result(SqlStart(SqlChange(s, d)), TRUE, "program"),
   Result(s, FALSE, "program"),
   Result(SqlChange(s, d), FALSE, "program"),
   Result(SqlCommit(SqlChange(s, d)), FALSE, "program")}

\* DML on a view whose trigger is expanded in the proxy: the body's statements
\* run outside any savepoint.
InsteadOfResults(s, d) ==
  {Result(SqlChange(s, d), TRUE, "none"),
   Result(s, FALSE, "none"),
   Result(SqlChange(s, d), FALSE, "insteadOf")} \cup DeadlockAfter({s, SqlChange(s, d)})

\* execute_returning: no savepoint.  Its UPDATE is followed by a SELECT, which
\* may fail, as may the encoding of its rows.
ReturningResults(s, d) ==
  {Result(SqlChange(s, d), TRUE, "none"),
   Result(s, FALSE, "none"),
   Result(SqlChange(s, d), FALSE, "returningError"),
   Result(SqlDeadlock(s), FALSE, "deadlock")}

\* Mutant: a failed DDL statement returns at once.
DdlReturnsEarly(s) ==
  {Result(SqlStart(SqlCommit(s)), TRUE, "none"), Result(SqlCommit(s), FALSE, "none"),
   Result(SqlCommit(s), FALSE, "ddlBindError")}

\* execute_ddl: COMMIT, then the statement, then COMMIT and START TRANSACTION
\* even when it failed, but not when one of its binds did.
DdlResults(s) ==
  {Result(SqlStart(SqlCommit(s)), ok, "none") : ok \in BOOLEAN}
    \cup {Result(SqlCommit(s), FALSE, "ddlBindError")}

\* SET TRANSACTION commits whatever is open.
SetTransactionResults(s) ==
  {Result(SqlStart(SqlCommit(s)), TRUE, "setTransaction"),
   Result(SqlCommit(s), FALSE, "setTransaction")}

\* Over a dead link every command fails, and nothing but a query replaces it.
Served(results) == IF link THEN results ELSE {Result(srv, FALSE, "none")}

-----------------------------------------------------------------------------
(* Sequences. *)

Uses == {"none", "nextval", "currval"}

\* check_and_record_sequence_pseudocolumns: CURRVAL before any NEXTVAL is
\* refused; NEXTVAL counts as drawn before the statement runs.
Refused(use) == use = "currval" /\ ~seen

\* Mutant: only a statement that succeeds counts.
RecordsSuccess(use, ok) == seen' = (seen \/ (use = "nextval" /\ ok))

Records(use, ok) == seen' = (seen \/ use = "nextval")

\* A statement that fails may have evaluated its NEXTVAL, or not.
Draws(use, ok) ==
  drawn' \in IF use # "nextval" THEN {drawn} ELSE IF ok THEN {TRUE} ELSE {drawn, TRUE}

SequenceEvents(use, ok) == IF use = "nextval" /\ ~ok THEN {"failedSequence"} ELSE {}

-----------------------------------------------------------------------------
(* Requests. *)

Meets(events) ==
  /\ happened' = happened \cup (events \ {"none"})
  /\ Cardinality(happened') <= MaxEvents

Deadlocks(deadlock) == IF deadlock THEN {"deadlock"} ELSE {}

Init ==
  /\ srv = NewConnection({})
  /\ link = TRUE /\ triggers = FALSE /\ seen = FALSE /\ drawn = FALSE
  /\ changes = 0
  /\ believed = NoWork
  /\ happened = {}
  /\ reply = Reply("AUTH", TRUE)

\* Mutant: every query gets a new connection.
QueryReconnects(use) ==
  /\ srv' = NewConnection(srv.db) /\ link' = TRUE
  /\ reply' = Reply("QUERY", TRUE)
  /\ UNCHANGED <<proxy, drawn, changes, believed, happened>>

\* open_cursor, the one path of every query.  A dead link is replaced and the
\* query tried again; when that fails too the dead link stays.  A query that
\* locks (SELECT ... FOR UPDATE) may be the victim of a deadlock.
Query(use) ==
  /\ UNCHANGED <<triggers, changes, believed>>
  /\ IF Refused(use)
       THEN /\ reply' = Reply("QUERY", FALSE)
            /\ UNCHANGED <<srv, link, seen, drawn, happened>>
       ELSE \E ok \in BOOLEAN :
            /\ Records(use, ok)
            /\ reply' = Reply("QUERY", ok)
            /\ \E deadlock \in {FALSE, link /\ ~ok} :
                 /\ \/ link /\ UNCHANGED link /\ srv' = IF deadlock THEN SqlDeadlock(srv) ELSE srv
                    \/ ~link /\ link' = TRUE /\ srv' = NewConnection(srv.db)
                    \/ ~link /\ ~ok /\ UNCHANGED <<srv, link>>
                 /\ Meets(Deadlocks(deadlock) \cup SequenceEvents(use, ok))
            /\ Draws(use, ok)

\* The answer to a statement that changes something, with the changes it has
\* made if it succeeds.
Answers(op, r, ds, events) ==
  /\ srv' = r.srv
  /\ changes' = changes + Len(ds)
  /\ believed' = IF r.ok THEN Accepted(believed, ds) ELSE believed
  /\ reply' = Reply(op, r.ok)
  /\ Meets(events \cup {r.event})

Room(n) == changes + n <= MaxChanges

\* execute_simple on DML, on a translated batch, on a program, on DML of a view.
Dml(use) ==
  /\ Room(1) /\ ~Refused(use)
  /\ \E r \in Served(OrdinaryResults(srv, changes + 1)) :
       /\ Records(use, r.ok)
       /\ Draws(use, r.ok)
       /\ Answers("CHANGE", r, <<changes + 1>>, SequenceEvents(use, r.ok))
  /\ UNCHANGED <<link, triggers>>

RefusedDml ==
  /\ Refused("currval")
  /\ reply' = Reply("CHANGE", FALSE)
  /\ UNCHANGED <<srv, link, proxy, drawn, changes, believed, happened>>

Batch ==
  /\ Room(2)
  /\ \E r \in Served(BatchResults(srv, changes + 1)) :
       Answers("CHANGE", r, <<changes + 1, changes + 2>>, {})
  /\ UNCHANGED <<link, proxy, drawn>>

\* A deadlock in a program is an error it may handle, and go on from.
Program ==
  /\ Room(1)
  /\ \E deadlock \in {FALSE, link} :
       \E r \in Served(ProgramResults(IF deadlock THEN SqlDeadlock(srv) ELSE srv, changes + 1)) :
         Answers("CHANGE", r, <<changes + 1>>, Deadlocks(deadlock))
  /\ UNCHANGED <<link, proxy, drawn>>

InsteadOfDml ==
  /\ Room(1) /\ triggers
  /\ \E r \in Served(InsteadOfResults(srv, changes + 1)) :
       Answers("CHANGE", r, <<changes + 1>>, {})
  /\ UNCHANGED <<link, proxy, drawn>>

\* An array of binds, here two rows: each is a statement of its own, and the
\* first that fails ends the request.
ArrayDml ==
  /\ Room(2)
  /\ \E r1 \in Served(OrdinaryResults(srv, changes + 1)) :
       IF ~r1.ok THEN Answers("CHANGE", r1, <<changes + 1>>, {})
       ELSE \E r2 \in OrdinaryResults(r1.srv, changes + 2) :
            /\ srv' = r2.srv
            /\ changes' = changes + 2
            /\ believed' = Accepted(believed, IF r2.ok THEN <<changes + 1, changes + 2>>
                                              ELSE <<changes + 1>>)
            /\ reply' = Reply("CHANGE", r2.ok)
            /\ Meets({r2.event})
  /\ UNCHANGED <<link, proxy, drawn>>

\* Statements with RETURNING skip the sequence check.
Returning(use) ==
  /\ Room(1) /\ use # "currval"
  /\ \E r \in Served(ReturningResults(srv, changes + 1)) :
       /\ Draws(use, r.ok)
       /\ Answers("CHANGE", r, <<changes + 1>>,
                  IF use = "nextval" THEN {"returningSequence"} ELSE {})
  /\ UNCHANGED <<link, proxy>>

\* DDL; Oracle commits before it whatever becomes of it.
Ddl(ofTrigger) ==
  /\ \E r \in Served(IF ofTrigger THEN {Result(SqlStart(SqlCommit(srv)), TRUE, "none")}
                     ELSE DdlResults(srv)) :
       /\ srv' = r.srv
       /\ triggers' = (triggers \/ (ofTrigger /\ r.ok))
       /\ reply' = Reply("DDL", r.ok)
       /\ Meets({r.event})
  /\ believed' = Kept(believed)
  /\ UNCHANGED <<link, seen, drawn, changes>>

Control(op, after, ok, told) ==
  /\ srv' = IF link THEN after ELSE srv
  /\ reply' = Reply(op, link /\ ok)
  /\ believed' = IF link /\ ok THEN told ELSE believed
  /\ UNCHANGED <<link, proxy, drawn, changes, happened>>

Commit == Control("COMMIT", SqlStart(SqlCommit(srv)), TRUE, Kept(believed))

\* Mutant: START TRANSACTION alone ends the transaction, by committing it.
RollbackByStart == Control("ROLLBACK", SqlStart(srv), TRUE, Dropped(believed))

Rollback == Control("ROLLBACK", SqlStart(SqlRollback(srv)), TRUE, Dropped(believed))

Savepoint(n) == Control("SAVEPOINT", SqlSavepoint(srv, n), TRUE, Marked(believed, n))

RollbackTo(n) ==
  Control("ROLLBACK TO", SqlRollbackTo(srv, n), HasSave(srv, n), BackTo(believed, n))

Release(n) ==
  /\ srv' = IF link THEN SqlRelease(srv, n) ELSE srv
  /\ reply' = Reply("RELEASE", link /\ HasSave(srv, n))
  /\ believed' = IF reply'.ok THEN Unmarked(believed, n) ELSE believed
  /\ Meets({"releaseSavepoint"})
  /\ UNCHANGED <<link, proxy, drawn, changes>>

SetTransaction ==
  /\ \E r \in Served(SetTransactionResults(srv)) : Answers("SET", r, <<>>, {})
  /\ UNCHANGED <<link, proxy, drawn>>

\* The connection dies; MariaDB rolls its transaction back.
LoseLink ==
  /\ link /\ link' = FALSE
  /\ srv' = SqlRollback(srv)
  /\ Meets({"lost"})
  /\ UNCHANGED <<proxy, drawn, changes, believed, reply>>

\* It dies under a COMMIT: the work is durable and the answer an error.
LoseCommit ==
  /\ link /\ link' = FALSE
  /\ srv' = SqlCommit(srv)
  /\ reply' = Reply("COMMIT", FALSE)
  /\ Meets({"inDoubt"})
  /\ UNCHANGED <<proxy, drawn, changes, believed>>

Next ==
  \/ \E use \in Uses : Query(use) \/ Dml(use) \/ Returning(use)
  \/ RefusedDml \/ Batch \/ Program \/ InsteadOfDml \/ ArrayDml
  \/ \E ofTrigger \in BOOLEAN : Ddl(ofTrigger)
  \/ Commit \/ Rollback \/ SetTransaction
  \/ \E n \in Savepoints : Savepoint(n) \/ RollbackTo(n) \/ Release(n)
  \/ LoseLink \/ LoseCommit

Spec == Init /\ [][Next]_vars

-----------------------------------------------------------------------------
(* Properties. *)

Mark == [name : Savepoints \cup {Wrapper}, mark : Nat]

\* A transaction and its savepoints, which point into the work, in order; outside
\* one there is nothing.
Transaction(s) ==
  /\ s \in [open : BOOLEAN, work : Seq(Nat), saves : Seq(Mark), db : SUBSET Nat]
  /\ Ordered(s.saves, Len(s.work))
  /\ ~s.open => s.work = <<>> /\ s.saves = <<>>

Requests ==
  {"AUTH", "QUERY", "CHANGE", "DDL", "COMMIT", "ROLLBACK", "SAVEPOINT", "ROLLBACK TO",
   "RELEASE", "SET"}

\* Every variable has its type; savepoints point into the work, in order, only a
\* transaction has any, and dbsaci_statement does not outlive its statement.
TypeOK ==
  /\ Transaction(srv)
  /\ HasSave(srv, Wrapper) => "batchError" \in happened
  /\ link \in BOOLEAN /\ triggers \in BOOLEAN /\ seen \in BOOLEAN /\ drawn \in BOOLEAN
  /\ changes \in Nat
  /\ believed \in [pending : Seq(Nat), marks : Seq(Mark), durable : SUBSET Nat]
  /\ happened \subseteq Events
  /\ reply \in [op : Requests, ok : BOOLEAN]

Met(events) == happened \cap events # {}

Present == Range(srv.work) \cup srv.db
Promised == Range(believed.pending) \cup believed.durable

\* The connection is always inside a transaction, so no statement commits by
\* itself: COMMIT, ROLLBACK and DDL, failed or not, end with START TRANSACTION.
\* Only an error between the two, or a program that commits, breaks it.
InTransaction ==
  link /\ ~Met({"ddlBindError", "setTransaction", "program"}) => srv.open

\* A change answered with success and not rolled back is in the transaction or
\* durable: nothing loses it but a lost link or a deadlock, which no answer tells
\* the client of.
NoChangeLost == ~Met({"lost", "deadlock"}) => Promised \subseteq Present

\* Nothing else is: what was answered with an error, or rolled back, leaves no
\* trace, unless the statement ran outside dbsaci_statement, its batch returned
\* early, no transaction was open to roll back, or the answer was lost.
NothingUnasked ==
  ~Met({"batchError", "program", "insteadOf", "returningError",
        "ddlBindError", "setTransaction", "inDoubt"}) =>
    Present \subseteq Promised

\* What the client has not committed is not durable: it may still roll it back.
PendingNotDurable ==
  ~Met({"program", "ddlBindError", "setTransaction", "inDoubt"}) =>
    srv.db \cap Range(believed.pending) = {}

\* CURRVAL is let through exactly when the session has drawn a value: the proxy's
\* record, made before the statement runs and not made for RETURNING, is right
\* unless a NEXTVAL failed or came with RETURNING.  A new connection keeps it.
CurrvalTracked ==
  /\ ~Met({"failedSequence"}) => (seen => drawn)
  /\ ~Met({"returningSequence"}) => (drawn => seen)

Oracle == INSTANCE OracleTxn WITH
  pending <- srv.work,
  marks   <- srv.saves,
  durable <- srv.db,
  answer  <- reply

\* While nothing of Events happens, the session keeps the promise of OracleTxn.
KeepsPromise ==
  /\ Oracle!Init
  /\ [][happened' = {} => [Oracle!Next]_(Oracle!vars)]_vars
=============================================================================
