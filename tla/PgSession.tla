----------------------------- MODULE PgSession -----------------------------
(***************************************************************************)
(* One Oracle session over its PostgreSQL connection: the command loop of  *)
(* handle_connection in src/server.rs (Execute, Fetch, Commit, Rollback,   *)
(* Logoff) driving the per-statement savepoint wrapper and the streamed    *)
(* cursors of src/backend.rs.                                              *)
(*                                                                         *)
(* PostgreSQL runs the commands of a connection in order, so the portal    *)
(* behind a cursor has run to its end, or to its error, before any later   *)
(* command starts; the rows the client has not fetched wait in the driver. *)
(* An error the proxy has not read yet has therefore already aborted the   *)
(* transaction.  (Results larger than the driver's buffers are the subject *)
(* of another module.)                                                     *)
(*                                                                         *)
(* Allow names the events the environment may produce beyond ordinary      *)
(* success and failure; see Events.                                        *)
(***************************************************************************)
EXTENDS PgTxn, FiniteSets

CONSTANTS
  Cursors,        \* cursor ids the client uses
  Queries,        \* query texts, for the prepared-statement cache
  Savepoints,     \* names the client gives its own savepoints
  Allow,          \* the events that may happen
  StatementTimeout, \* is --statement-timeout-ms configured?
  MaxChanges,     \* bound: changes a behaviour attempts
  MaxRows,        \* bound: rows of a result
  BatchRows,      \* rows handed over by one Execute or Fetch
  MaxDepth        \* bound: savepoints alive before another may be leaked or made

Events == {"bindError",          \* a bind value cannot be converted
           "lateRowError",       \* a result fails after its first batch
           "lateCancel",         \* a break lands beside the statement it aims at
           "stalePlan",          \* DDL changes the result type of a cached plan
           "directError",        \* a command run outside the wrapper fails
           "refusedCommit",      \* the server refuses a COMMIT: a deferred
                                 \* constraint, a serialization failure
           "releaseSavepoint",   \* the client releases a savepoint of its own
           "boundaryOverCursor"} \* transaction control by SQL while cursors are open

ASSUME SessionAssumption ==
  /\ Wrapper \notin Savepoints
  /\ IsFiniteSet(Cursors)
  /\ Allow \subseteq Events
  /\ StatementTimeout \in BOOLEAN
  /\ MaxChanges \in Nat /\ MaxRows \in Nat /\ MaxDepth \in Nat
  /\ BatchRows \in Nat \ {0}

VARIABLES
  txn,       \* the transaction block on the server
  db,        \* the changes that are durable
  cursors,   \* the cursors map of the command loop
  plans,     \* stmt_cache: what the driver believes of each query's plan
  changes,   \* how many changes have been attempted; each has its number
  rejected,  \* the changes whose own statement was answered with an error
  phase,     \* "idle", the request being served in several steps, or "closed"
  reply      \* the last answer

vars == <<txn, db, cursors, plans, changes, rejected, phase, reply>>

NoCursor == [open |-> FALSE, unread |-> 0, fails |-> FALSE, held |-> FALSE]

OpenCursors == {c \in Cursors : cursors[c].open}

\* What a reply answers: a request, or none yet.
Ops == {"AUTH", "BUSY", "QUERY", "FETCH", "CHANGE", "DDL", "COMMIT", "ROLLBACK",
        "LOGOFF", "SAVEPOINT", "ROLLBACK TO", "RELEASE", "SET"}

Reply(op, ok, event) == [op |-> op, ok |-> ok, event |-> event]

Busy == Reply("BUSY", TRUE, "none")

Init ==
  /\ txn = Fresh
  /\ db = {}
  /\ cursors = [c \in Cursors |-> NoCursor]
  /\ plans = [q \in Queries |-> "none"]
  /\ changes = 0
  /\ rejected = {}
  /\ phase = "idle"
  /\ reply = Reply("AUTH", TRUE, "none")

-----------------------------------------------------------------------------
(* The wrapper. *)

\* begin_statement_ex
Begin(t, timed) ==
  LET s == DefineSavepoint(t, Wrapper) IN
  IF timed /\ StatementTimeout /\ Accepts(t) THEN SetTimeout(s) ELSE s

\* finish_statement
Finish(t) == ReleaseSavepoint(t, Wrapper)

\* Mutant: the recovery only releases.
RecoverByRelease(t) == Finish(t)

\* recover_statement_error: "ROLLBACK TO wrapper; RELEASE wrapper", where the
\* failure of the first command skips the second.
Recover(t) ==
  IF HasSavepoint(t, Wrapper) THEN Finish(RollbackToSavepoint(t, Wrapper))
  ELSE Abort(t)

\* The results an operation can have here, given what Allow lets happen.
Possible(results) == {r \in results : r.event \in Allow \cup {"none"}}

\* Mutant: a value is converted after the statement has run, not before.
ChangeResultsConvertedLate(t, d, returning) ==
  LET begun == Begin(t, ~returning)
      run   == Change(begun, d)
      Result(after, ok, event) == [txn |-> after, ok |-> ok, event |-> event]
  IN  IF ~Accepts(t) THEN {Result(t, FALSE, "none")}
      ELSE Possible({Result(Finish(run), TRUE, "none"),
                     Result(Finish(run), FALSE, "bindError")})

\* execute_simple_with_binds on an ordinary statement (returning = FALSE) and
\* execute_returning, which goes through a cursor it drains: no timeout is set
\* and a failed RELEASE goes unnoticed.
ChangeResults(t, d, returning) ==
  LET begun == Begin(t, ~returning)
      run   == Change(begun, d)
      Result(after, ok, event) == [txn |-> after, ok |-> ok, event |-> event]
  IN  IF ~Accepts(t) THEN {Result(t, FALSE, "none")}
      ELSE Possible({Result(Finish(run), TRUE, "none"),
                     Result(Recover(Abort(run)), FALSE, "none"),
                     Result(begun, FALSE, "bindError"),
                     Result(Abort(t), FALSE, "lateCancel"),
                     Result(Abort(run), returning, "lateCancel")})

-----------------------------------------------------------------------------
(* Cursors. *)

\* RowCursor::finish; the error of the RELEASE is dropped.
FinishCursor(t, cur) == IF cur.held THEN Finish(t) ELSE t

\* Mutant: a failed cursor keeps its place in the map and its savepoint_held.
NextBatchKeepsFailed(t, cur) ==
  IF cur.unread >= BatchRows
    THEN [txn |-> t, cur |-> [cur EXCEPT !.unread = @ - BatchRows], ok |-> TRUE]
  ELSE IF cur.fails
    THEN [txn |-> Recover(t), cur |-> cur, ok |-> FALSE]
  ELSE [txn |-> FinishCursor(t, cur), cur |-> NoCursor, ok |-> TRUE]

\* Mutant: a batch is taken while any row is left.
NextBatchOverruns(t, cur) ==
  IF cur.unread + 1 >= BatchRows
    THEN [txn |-> t, cur |-> [cur EXCEPT !.unread = @ - BatchRows], ok |-> TRUE]
  ELSE [txn |-> FinishCursor(t, cur), cur |-> NoCursor, ok |-> TRUE]

\* RowCursor::next_batch.  A full batch leaves the cursor open even when it
\* took the last row: only the next call meets the end.
NextBatch(t, cur) ==
  IF cur.unread >= BatchRows
    THEN [txn |-> t, cur |-> [cur EXCEPT !.unread = @ - BatchRows], ok |-> TRUE]
  ELSE IF cur.fails
    THEN [txn |-> Recover(t), cur |-> NoCursor, ok |-> FALSE]
  ELSE [txn |-> FinishCursor(t, cur), cur |-> NoCursor, ok |-> TRUE]

Forget(p, q) == [p EXCEPT ![q] = "none"]

\* prepare_cached: a miss prepares, and clears a cache that is at its cap
\* (which statements fill it is left open).
PreparedPlans(q) ==
  IF plans[q] # "none" THEN {plans}
  ELSE {[plans EXCEPT ![q] = "valid"],
        [p \in Queries |-> IF p = q THEN "valid" ELSE "none"]}

OpenResult(after, cur, ps, ok, event) ==
  [txn |-> after, cur |-> cur, plans |-> ps, ok |-> ok, event |-> event]

\* The statement is refused by the server, in prepare or in query_raw.
OpenFails(begun, q) ==
  {OpenResult(Recover(Abort(begun)), NoCursor, Forget(ps, q), FALSE, "none") :
     ps \in PreparedPlans(q) \cup {plans}}

\* A stale plan fails at Bind, which aborts the transaction; the loop forgets
\* the plan and prepares again, in the aborted transaction, where that is
\* refused.
OpenFailsOnStalePlan(begun, q) ==
  {OpenResult(Recover(Abort(begun)), NoCursor, Forget(plans, q), FALSE, "stalePlan")}

\* It runs, to its end or to an error after some of its rows.
OpenSucceeds(begun, q) ==
  {OpenResult(IF x.fails THEN Abort(begun) ELSE begun,
              [open |-> TRUE, unread |-> x.rows, fails |-> x.fails, held |-> TRUE],
              x.plans, TRUE,
              IF x.fails /\ x.rows >= BatchRows THEN "lateRowError" ELSE "none") :
     x \in [rows : 0..MaxRows, fails : BOOLEAN, plans : PreparedPlans(q)]}

\* open_cursor_with_binds.
OpenResults(t, q) ==
  LET begun == Begin(t, FALSE) IN
  IF ~Accepts(t) THEN {OpenResult(t, NoCursor, plans, FALSE, "none")}
  ELSE Possible({OpenResult(begun, NoCursor, plans, FALSE, "bindError"),
                 OpenResult(Abort(t), NoCursor, plans, FALSE, "lateCancel")}
                \cup IF plans[q] = "stale" THEN OpenFailsOnStalePlan(begun, q)
                     ELSE OpenFails(begun, q) \cup OpenSucceeds(begun, q))

-----------------------------------------------------------------------------
(* Requests. *)

\* Room for one more savepoint that outlives its statement.
Room == Len(txn.stack) < MaxDepth

\* SQL that moves the transaction's boundaries or its savepoints.
BoundaryAllowed == OpenCursors = {} \/ "boundaryOverCursor" \in Allow

\* Execute of a query: the cursor open under this id is finished, the new one
\* opened, and its first batch taken.
ExecuteQuery(c, q) ==
  /\ phase = "idle" /\ Room
  /\ \E o \in OpenResults(FinishCursor(txn, cursors[c]), q) :
       LET first == IF o.ok THEN NextBatch(o.txn, o.cur) ELSE o IN
       /\ txn' = first.txn
       /\ cursors' = [cursors EXCEPT ![c] = first.cur]
       /\ plans' = o.plans
       /\ reply' = Reply("QUERY", first.ok, o.event)
  /\ UNCHANGED <<db, changes, rejected, phase>>

\* Fetch: an unknown cursor is answered with an empty, final batch.
Fetch(c) ==
  /\ phase = "idle"
  /\ IF cursors[c].open
       THEN LET b == NextBatch(txn, cursors[c]) IN
            /\ txn' = b.txn
            /\ cursors' = [cursors EXCEPT ![c] = b.cur]
            /\ reply' = Reply("FETCH", b.ok, "none")
       ELSE /\ reply' = Reply("FETCH", TRUE, "none")
            /\ UNCHANGED <<txn, cursors>>
  /\ UNCHANGED <<db, plans, changes, rejected, phase>>

\* Execute of DML, with or without RETURNING ... INTO.
ExecuteChange(returning) ==
  /\ phase = "idle" /\ Room
  /\ changes < MaxChanges
  /\ changes' = changes + 1
  /\ \E r \in ChangeResults(txn, changes', returning) :
       /\ txn' = r.txn
       /\ rejected' = IF r.ok THEN rejected ELSE rejected \cup {changes'}
       /\ reply' = Reply("CHANGE", r.ok, r.event)
  /\ UNCHANGED <<db, cursors, plans, phase>>

\* Execute with an array of binds, here two rows: each row is a statement of
\* its own, the first failure ends the batch and earlier rows stay.
ExecuteBatch ==
  /\ phase = "idle" /\ Room
  /\ changes + 2 <= MaxChanges
  /\ changes' = changes + 2
  /\ \E r1 \in ChangeResults(txn, changes + 1, FALSE) :
       IF ~r1.ok
         THEN /\ txn' = r1.txn
              /\ rejected' = rejected \cup {changes + 1}
              /\ reply' = Reply("CHANGE", FALSE, r1.event)
         ELSE \E r2 \in ChangeResults(r1.txn, changes + 2, FALSE) :
              /\ txn' = r2.txn
              /\ rejected' = IF r2.ok THEN rejected ELSE rejected \cup {changes + 2}
              /\ reply' = Reply("CHANGE", r2.ok, r2.event)
  /\ UNCHANGED <<db, cursors, plans, phase>>

\* Mutant: a refused COMMIT is answered like one that was carried out.
CommitResultsUntold(t) ==
  LET Result(after, durable, ok, event) ==
        [txn |-> after, durable |-> durable, ok |-> ok, event |-> event]
  IN  Possible({Result(Fresh, Committed(t), TRUE, "none")}
               \cup IF Accepts(t) THEN {Result(NoBlock, {}, TRUE, "refusedCommit")}
                    ELSE {})

\* "COMMIT; BEGIN".  A COMMIT that is refused rolls back, and ends the batch
\* there: the BEGIN is not run, and the connection is outside a transaction
\* until a later batch opens one.  Outside a block COMMIT is only a warning.
CommitResults(t) ==
  LET Result(after, durable, ok, event) ==
        [txn |-> after, durable |-> durable, ok |-> ok, event |-> event]
  IN  Possible({Result(Fresh, Committed(t), TRUE, "none")}
               \cup IF Accepts(t) THEN {Result(NoBlock, {}, FALSE, "refusedCommit")}
                    ELSE {})

\* DDL may change what some of the cached plans return.
AfterDdl(ps) ==
  LET changeable == IF "stalePlan" \in Allow THEN {q \in Queries : ps[q] = "valid"} ELSE {}
  IN  {[q \in Queries |-> IF q \in changed THEN "stale" ELSE ps[q]] :
         changed \in SUBSET changeable}

\* Execute of DDL: "COMMIT; BEGIN", the statement outside any savepoint, then
\* "COMMIT; BEGIN" or "ROLLBACK; BEGIN".  Open cursors are left alone.
ExecuteDdl ==
  /\ phase = "idle" /\ BoundaryAllowed
  /\ \E first \in CommitResults(txn) :
       /\ db' = db \cup first.durable
       /\ \/ /\ ~first.ok
             /\ txn' = first.txn
             /\ reply' = Reply("DDL", FALSE, first.event)
             /\ UNCHANGED plans
          \/ /\ first.ok
             /\ txn' = Fresh
             /\ reply' = Reply("DDL", FALSE, "none")
             /\ UNCHANGED plans
          \/ /\ first.ok
             /\ \E second \in CommitResults(first.txn) :
                  /\ txn' = second.txn
                  /\ reply' = Reply("DDL", second.ok, second.event)
                  /\ plans' \in IF second.ok THEN AfterDdl(plans) ELSE {plans}
  /\ UNCHANGED <<cursors, changes, rejected, phase>>

\* The transaction-control branches of execute_simple_with_binds.
CommitWork(op) ==
  \E r \in CommitResults(txn) :
    /\ db' = db \cup r.durable
    /\ txn' = r.txn
    /\ reply' = Reply(op, r.ok, r.event)

RollbackWork(op) ==
  /\ txn' = Fresh
  /\ reply' = Reply(op, TRUE, "none")
  /\ UNCHANGED db

\* The same verbs sent as SQL text through Execute: no cursor is drained.
ExecuteTransactionSql ==
  /\ phase = "idle" /\ BoundaryAllowed
  /\ CommitWork("COMMIT") \/ RollbackWork("ROLLBACK")
  /\ UNCHANGED <<cursors, plans, changes, rejected, phase>>

\* A command the backend runs as it is, outside the wrapper: when it fails
\* nothing recovers the transaction.  Where no statement can start there is
\* nothing left to spoil.
Direct(op, after, succeeds) ==
  /\ phase = "idle" /\ BoundaryAllowed
  /\ LET event == IF succeeds \/ ~Accepts(txn) THEN "none" ELSE "directError" IN
       /\ event \in Allow \cup {"none"}
       /\ reply' = Reply(op, succeeds, event)
  /\ txn' = after
  /\ UNCHANGED <<db, cursors, plans, changes, rejected, phase>>

\* Mutant: the client's savepoint is made inside the statement wrapper.
ClientSavepointWrapped(s) ==
  Room /\ Direct("SAVEPOINT", Finish(DefineSavepoint(Begin(txn, FALSE), s)), Accepts(txn))

ClientSavepoint(s) ==
  Room /\ Direct("SAVEPOINT", DefineSavepoint(txn, s), Accepts(txn))

ClientRollbackTo(s) ==
  Direct("ROLLBACK TO", RollbackToSavepoint(txn, s), HasSavepoint(txn, s))

ClientRelease(s) ==
  /\ "releaseSavepoint" \in Allow
  /\ Direct("RELEASE", ReleaseSavepoint(txn, s), Accepts(txn) /\ HasSavepoint(txn, s))

\* SET TIME ZONE, SET TRANSACTION, SET CONSTRAINTS: outside a block they
\* succeed, with a warning or for the connection.
ClientSet ==
  \/ Direct("SET", txn, ~txn.aborted)
  \/ Direct("SET", Abort(txn), FALSE)

\* The Commit, Rollback and Logoff functions first finish every cursor, one
\* await after the other, then act.
BeginDrain(op) ==
  /\ phase = "idle"
  /\ phase' = op
  /\ reply' = Busy
  /\ UNCHANGED <<txn, db, cursors, plans, changes, rejected>>

DrainCursor(c) ==
  /\ phase \in {"COMMIT", "ROLLBACK", "LOGOFF"}
  /\ cursors[c].open
  /\ txn' = FinishCursor(txn, cursors[c])
  /\ cursors' = [cursors EXCEPT ![c] = NoCursor]
  /\ UNCHANGED <<db, plans, changes, rejected, phase, reply>>

EndDrain ==
  /\ OpenCursors = {}
  /\ \/ phase = "COMMIT" /\ CommitWork("COMMIT") /\ phase' = "idle"
     \/ phase = "ROLLBACK" /\ RollbackWork("ROLLBACK") /\ phase' = "idle"
     \/ phase = "LOGOFF" /\ RollbackWork("LOGOFF") /\ phase' = "closed"
  /\ UNCHANGED <<cursors, plans, changes, rejected>>

\* The session ends in any other way: the client is gone, reaped or aborted.
\* The connection is dropped and the server rolls back.
Disconnect ==
  /\ phase # "closed"
  /\ phase' = "closed"
  /\ RollbackWork("LOGOFF")
  /\ cursors' = [c \in Cursors |-> NoCursor]
  /\ UNCHANGED <<plans, changes, rejected>>

Next ==
  \/ \E c \in Cursors, q \in Queries : ExecuteQuery(c, q)
  \/ \E c \in Cursors : Fetch(c) \/ DrainCursor(c)
  \/ \E returning \in BOOLEAN : ExecuteChange(returning)
  \/ ExecuteBatch
  \/ ExecuteDdl
  \/ ExecuteTransactionSql
  \/ \E s \in Savepoints : ClientSavepoint(s) \/ ClientRollbackTo(s) \/ ClientRelease(s)
  \/ ClientSet
  \/ \E op \in {"COMMIT", "ROLLBACK", "LOGOFF"} : BeginDrain(op)
  \/ EndDrain
  \/ Disconnect

Spec == Init /\ [][Next]_vars

-----------------------------------------------------------------------------
(* Properties. *)

Entry == [name : Savepoints \cup {Wrapper}, mark : Nat, timeout : BOOLEAN]

\* A transaction, with its savepoints' marks in order and within the work, and
\* with neither outside a block.
IsTxn(t) ==
  /\ t \in [open : BOOLEAN, work : Seq(Nat), stack : Seq(Entry), aborted : BOOLEAN,
            timeout : BOOLEAN]
  /\ \A i \in DOMAIN t.stack : t.stack[i].mark <= Len(t.work)
  /\ \A i, j \in DOMAIN t.stack : i <= j => t.stack[i].mark <= t.stack[j].mark
  /\ ~t.open => t = NoBlock

\* An open cursor holds the savepoint of its statement.
IsCursor(cur) ==
  \/ cur = NoCursor
  \/ cur \in [open : {TRUE}, unread : Nat, fails : BOOLEAN, held : {TRUE}]

Replies == [op : Ops, ok : BOOLEAN, event : Events \cup {"none"}]

\* Every variable has its type, and a ROLLBACK TO never lengthens the work.
TypeOK ==
  /\ IsTxn(txn)
  /\ db \subseteq Nat
  /\ DOMAIN cursors = Cursors
  /\ \A c \in Cursors : IsCursor(cursors[c])
  /\ plans \in [Queries -> {"none", "valid", "stale"}]
  /\ changes \in Nat
  /\ rejected \subseteq Nat
  /\ phase \in {"idle", "COMMIT", "ROLLBACK", "LOGOFF", "closed"}
  /\ reply \in Replies

\* The events that can leave the transaction aborted behind the client's back,
\* or take a savepoint from it.
Poisonous == {"lateRowError", "lateCancel", "directError", "boundaryOverCursor"}

\* No statement leaves the transaction aborted (25P02), so the next one is not
\* refused for it: what begin_statement_ex and recover_statement_error are for.
\* And after a refused COMMIT, whose batch never reached its BEGIN, no work is
\* answered with success until a block is open again: a change is never made,
\* nor a savepoint set, in autocommit.
TransactionUsable ==
  /\ ~txn.aborted
  /\ reply.ok /\ reply.op \notin {"FETCH", "SET", "BUSY"} => txn.open

\* The cursors whose savepoint_held is set.
Holders == {c \in Cursors : cursors[c].held}

\* Every cursor that still holds its statement's savepoint finds one: the
\* innermost savepoints are wrappers, at least as many as there are holders,
\* so the RELEASE of RowCursor::finish never meets a missing savepoint and
\* never takes one of the client's with it.
WrappersOnTop ==
  /\ Cardinality(Holders) <= Len(txn.stack)
  /\ \A i \in DOMAIN txn.stack :
       i > Len(txn.stack) - Cardinality(Holders) => txn.stack[i].name = Wrapper

\* A change whose statement was answered with an error never becomes durable,
\* whatever is committed later (recover_statement_error).
RejectedNeverDurable == db \cap rejected = {}

\* COMMIT, as DDL before it runs, is all or nothing and tells which: either it
\* has made durable every change of the transaction that was answered with
\* success, so that no later statement's error took one away, or the server
\* refused it, nothing became durable and the client is told (the "COMMIT;
\* BEGIN" of execute_simple_with_binds and of execute_ddl_with_binds).
CommitKeepsWork ==
  [][reply'.op \in {"COMMIT", "DDL"} =>
       \/ Range(txn.work) \ rejected \subseteq db'
       \/ reply'.event = "refusedCommit" /\ ~reply'.ok /\ db' = db]_vars

\* "A PostgreSQL transaction is already open for every Oracle session"
\* (execute_simple_with_binds, on the client's BEGIN).
BlockAlwaysOpen == phase # "closed" => txn.open

\* The client's own savepoints.
ClientStack(t) ==
  LET mine[k \in 0..Len(t.stack)] ==
        IF k = 0 THEN <<>>
        ELSE IF t.stack[k].name = Wrapper THEN mine[k - 1]
        ELSE Append(mine[k - 1], t.stack[k])
  IN mine[Len(t.stack)]

\* Running a statement, or fetching from a cursor, leaves the client's own
\* savepoints alone: no RELEASE of a wrapper goes through one of them.
ClientSavepointsSurvive ==
  [][reply'.op \in {"QUERY", "FETCH", "CHANGE"} => ClientStack(txn') = ClientStack(txn)]_vars

\* A plan made stale by DDL is prepared again without the client noticing (the
\* retry loop of open_cursor_with_binds).
StalePlanInvisible == reply.event = "stalePlan" => reply.ok

\* No statement_timeout is in force while a query streams
\* (open_cursor_with_binds begins its statement without one).
StreamsRunUntimed ==
  [][reply'.op = "QUERY" /\ reply'.ok => ~txn'.timeout]_vars

\* What they return to.
ClientMarks ==
  LET S == ClientStack(txn) IN [i \in DOMAIN S |-> [name |-> S[i].name, mark |-> S[i].mark]]

Oracle == INSTANCE OracleTxn WITH
  pending <- txn.work,
  marks   <- ClientMarks,
  durable <- db,
  answer  <- [op |-> reply.op, ok |-> reply.ok]

\* The session, every request of it, keeps the promise of OracleTxn.
KeepsPromise == Oracle!Spec
=============================================================================
