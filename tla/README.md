# dbsaci in TLA+

dbsaci lets Oracle clients (OCI, ojdbc, python-oracledb, ODP.NET, oracle-rs) talk to
PostgreSQL or MariaDB. It accepts the Oracle wire protocol (TNS packets that
carry TTC messages), translates the SQL, runs it on the other server and answers
in Oracle's format. This directory models what in it is hard to test: the
transaction a session has on either server, the cursor ids by which requests name
statements, breaks that race the statements they aim at, the login of five kinds of
client, the life of sessions in the process, the installation of shared objects by
concurrent connections, the bytes in between, and what translated statements compute.

Paths below are relative to the repository; `server.rs` is `src/server.rs`, and so on.

## Inventory

| Part | Code | State it keeps | Operations | What makes it correct | Modules |
|---|---|---|---|---|---|
| Accept loop, registry, drain | `server.rs` 18-112, 255-386 | next id, active count, the map behind `/sessions`, abort handles | accept, register, set user, end of a task, kill, shutdown signal, drain | the gauge is exact, live sessions can be found and killed, kills and drains end | `SessionLifecycle` |
| Command loop | `server.rs` 949-1857 | open cursors, cursor-id maps, last statement, sequence byte | Execute, re-execute, Fetch, Commit, Rollback, Logoff, Marker | cursors and statements meet under the right id; a failed request leaves the transaction as it was | `CursorIds`, `PgSession`, `WireExchange`, `BreakRace` |
| Break | `server.rs` 1922-1946, 1964-2010 | none beyond the socket | race a statement against a client's break | every call is answered once, breaks hit their own call | `BreakRace` |
| PostgreSQL backend | `backend.rs` | the transaction block on the server, prepared statements, session time zone | open cursor, next batch, finish, DML, RETURNING, DDL, COMMIT/ROLLBACK, direct commands, cancel | a statement that fails changes nothing and breaks nothing; COMMIT commits what was accepted | `PgTxn`, `PgSession` |
| Facade installation | `backend.rs` 286-531 | objects and a version marker in the database | connections after a deploy install them | installed once, completely, and readable by everybody | `FacadeInstall` |
| MariaDB backend | `mariadb.rs` | connection, sequences used, INSTEAD OF triggers | as the PostgreSQL one, plus reconnect and retry | as above; a lost connection is not hidden | `MariaDbSession` |
| TNS transport | `tns.rs` | framing mode, idle timeout, read buffer | read and write packets, drain markers | packets keep their boundaries | `Responses`, `BreakRace`, `Handshake` |
| Negotiation, authentication | `server.rs` 510-948, `auth.rs`, `credentials.rs`, `profile.rs` | challenge, keys, dialect of the client | CONNECT to backend connection | only a client that proves the password gets a session, and every reply has the layout its client reads | `Handshake` |
| Codecs | `wire.rs`, `ttc.rs`, `buffer.rs`, and the value conversions of `backend.rs` and `mariadb.rs` | none | decode requests, encode answers | a bind reaches its placeholder and a value its reader unchanged | `TtcBuffer` to `WireExchange` |
| Translation | `translate/mod.rs` | none | Oracle SQL to the backend's SQL | the new statement computes what Oracle would have | `SqlRows` to `SqlTranslation` |
| Operations surface | `ops.rs`, `server.rs` 419-510 | a token | `/healthz`, `/readyz`, `/metrics`, `/sessions` | kills need the token off loopback | kill only |

How they interact: the accept loop spawns one tokio task per client. The task owns
its socket, one backend connection and the maps of the command loop, and serves
one request at a time. It shares with the others only the counters, the registry and
the database. A session's PostgreSQL connection is driven by a second task that
tokio-postgres wants spawned; the two talk over channels. An operator reaches a
session through its abort handle. A client's break is read while a statement is
awaited, and becomes a cancel request on a connection of its own.

What is hard: commands of several open cursors interleave in one transaction, where
they share a savepoint name; errors surface several requests after they happened on
the server; a task may end, or be aborted, at any await and before its first poll;
cancels race what they cancel; MariaDB ends transactions on its own; every reply has
up to four layouts, chosen by what was negotiated earlier; a translated statement may
compute something else. `PROJECT.json` lists the
hazards line by line.

## Modules

How they depend on each other:

    PgTxn <- PgSession <- PgSessionProofs         BreakRace <- BreakRaceProofs
    SaveLists <- OracleTxn <- PgSession           Handshake <- MCHandshake, HandshakeProofs
    SaveLists, OracleTxn <- MariaDbSession <- MariaDbSessionProofs
    SessionLifecycle <- SessionLifecycleProofs    FacadeInstall <- FacadeInstallProofs
    CursorIds <- MCCursorIds, CursorIdsProofs
    TtcBuffer <- OracleValues <- ResultColumns <- Responses
                 OracleValues <- ExecuteRequests <- BoundParameters
                 Responses, BoundParameters <- OracleClients <- WireExchange <- MCWire, WireProofs
    SqlRows <- RowLimits, OuterJoins, Hierarchies, Pivots, SqlExpressions, RowWrites
        all of these <- SqlTranslation <- MCSqlTranslation

Each component is cut where it meets the next: `PgSession` takes a cursor as given where
`CursorIds` takes a statement's outcome as given (the two meet in the `cursors` map);
`WireExchange` has one statement at a time and every byte, the other two have several
and none; `BreakRace` has the packets of calls and breaks and nothing in them;
`Handshake` ends where those begin.

### PgSession and the code

`PgTxn` is PostgreSQL as the backend uses it: a transaction block with a stack of
savepoints of which several may have one name, the aborted state (25P02), the
connection outside any block (25P01), and `SET LOCAL statement_timeout`. `OracleTxn` is what an Oracle client is promised, with no
server in sight: pending changes, savepoints, durable changes (`SaveLists` has the lists of
savepoints it shares with `MariaDbSession`). `PgSession!KeepsPromise`
and `MariaDbSession!KeepsPromise` state that the two sessions implement it. In one
point the two servers differ for every client to see, and `OracleTxn` allows either: a
savepoint set again under its name is forgotten in Oracle and MariaDB, and hidden in
PostgreSQL. After `SAVEPOINT a; SAVEPOINT b; SAVEPOINT a; ROLLBACK TO b` a client of Oracle
has no savepoint a; one of PostgreSQL, to which the proxy passes these commands as they
are, has the first one back. The attempt to prove the refinement brought this up.

| Variable | Code |
|---|---|
| `txn` | the transaction block of the session's connection; `open` is FALSE where a refused COMMIT has left it without one |
| `db` | the changes PostgreSQL has made durable |
| `cursors` | `cursors` of `handle_connection`; `held` is `RowCursor::savepoint_held`, `unread` and `fails` what the server still has for it |
| `plans` | `stmt_cache`, and whether the server still agrees with the cached plan |
| `changes`, `rejected` | numbers for the changes attempted, and those answered with an error |
| `phase` | "idle" between requests; COMMIT, ROLLBACK and LOGOFF finish cursor after cursor before they act |
| `reply` | the last answer |

| Action | Code |
|---|---|
| `ExecuteQuery`, `Fetch` | the query branch of Execute and the Fetch branch, with `open_cursor_with_binds`, `next_batch` and `finish` |
| `ExecuteChange`, `ExecuteBatch` | `execute_simple_with_binds`, `execute_returning`, and the array-DML loop |
| `ExecuteDdl` | `execute_ddl_with_binds`, with its two batches `COMMIT; BEGIN`, either of which may be refused |
| `CommitWork` in `ExecuteTransactionSql` and `EndDrain` | the COMMIT branch of `execute_simple_with_binds` |
| `ExecuteTransactionSql` | COMMIT or ROLLBACK sent as SQL text, which finishes no cursor |
| `ClientSavepoint`, `ClientRollbackTo`, `ClientRelease`, `ClientSet` | the commands run outside the wrapper |
| `BeginDrain`, `DrainCursor`, `EndDrain` | the Commit, Rollback and Logoff functions |
| `Disconnect` | any other end of the session |

A request that is refused before it reaches the backend (it cannot be parsed, bound
or translated) changes none of these variables; nor does the client's closing of a
cursor, which the command loop skips. Commands of a connection are executed by
PostgreSQL in order, so a cursor's query has run to its end or its error before any
later command starts; `OpenSucceeds` decides at once how many rows there are and
whether an error follows them, and `NextBatch` lets the client find out.

`Allow` names the events that may happen beyond success and plain failure. Each
stands for something the code meets:

| Event | Meaning |
|---|---|
| `bindError` | `PostgresBind::from_oracle` fails after SAVEPOINT was sent; the wrapper stays |
| `stalePlan` | DDL changes the result type of a cached plan |
| `lateRowError` | a result fails after its first batch has been answered |
| `lateCancel` | a break's cancel request lands on SAVEPOINT or RELEASE instead of the statement |
| `directError` | a SET, SAVEPOINT or ROLLBACK TO outside the wrapper fails |
| `refusedCommit` | the server refuses a COMMIT: a deferred constraint (`SET CONSTRAINTS` is passed through, `backend.rs` 801), a serialization failure |
| `releaseSavepoint` | the client sends RELEASE, which Oracle does not have |
| `boundaryOverCursor` | transaction control as SQL text, or DDL, while cursors are open |

Which property survives which event (checked one event at a time; `-` fails):

| | none, bindError, stalePlan, refusedCommit | lateRowError | lateCancel | directError | boundaryOverCursor |
|---|---|---|---|---|---|
| RejectedNeverDurable | yes | yes | yes | yes | yes |
| WrappersOnTop | yes | yes | yes | yes | - |
| ClientSavepointsSurvive | yes | yes | yes | yes | - |
| TransactionUsable | yes | - | - | - | - |
| CommitKeepsWork | yes | - | - | - | - |
| KeepsPromise | yes | - | - | - | - |

A COMMIT that is refused (`CommitResults`) rolls its transaction back and ends the batch
`COMMIT; BEGIN` (`backend.rs` 758, 870, 881) before its BEGIN. The client is told, the accepted work is gone
and the connection is outside any block. There a wrapped statement is answered with an error, since its
SAVEPOINT is one (25P01), as are the client's own savepoint commands; a SET succeeds; the client's
BEGIN is swallowed (772-779) and does not help. The next COMMIT, ROLLBACK or DDL opens a
block again. So nothing is ever committed by itself (`TransactionUsable`), COMMIT is all or nothing and says
which (`CommitKeepsWork`), and what the client sees is a step of `OracleTxn`: its `RefuseCommit` is Oracle's ORA-02091,
a statement may fail without effect, `RefuseSavepoint` lets a savepoint command fail. What Oracle would not do
is refuse every statement until the next COMMIT or ROLLBACK; `OracleTxn` does not say when a statement
fails. The comment at 772, "A PostgreSQL transaction is already open for every Oracle session", is
`BlockAlwaysOpen`, and `PgSession_refused_commit.cfg` its counterexample.

### MariaDbSession and the code

Results are buffered whole here, so nothing of a query stays on the connection.
What is left is the transaction, which MariaDB never aborts over a failed statement but
ends on its own in many ways, and outside of which a statement commits by itself.

| Variable | Code |
|---|---|
| `srv` | MariaDB: is a transaction open, its work and savepoints, what is durable |
| `link` | whether the connection is alive; a dead one stays in place until a query replaces it (`open_cursor`) |
| `triggers` | `instead_of` is not empty |
| `seen`, `drawn` | `sequences_with_currval`, and whether the session has really drawn a value |
| `believed` | what a client concludes from the answers, by Oracle's rules |
| `happened` | the events met so far |

| Action | Code |
|---|---|
| `Query` | `open_cursor_with_binds`, with `reconnect` and the second try |
| `Dml`, `RefusedDml`, `ArrayDml` | `execute_simple` under `dbsaci_statement`, with `check_and_record_sequence_pseudocolumns` |
| `Batch` | a statement translated to several |
| `Program`, `InsteadOfDml`, `Returning` | the three paths without a savepoint |
| `Ddl`, `SetTransaction` | what commits by itself |
| `Commit`, `Rollback`, `Savepoint`, `RollbackTo`, `Release` | transaction control |
| `LoseLink`, `LoseCommit` | the connection dies, idle or under a COMMIT |

Any statement may be the victim of a deadlock: a change, a row of an array, a locking query, a statement of a batch or of an
INSTEAD OF expansion, one inside a program, which may handle the error and go on. A COMMIT is not refused by
InnoDB, which has no deferred constraints: it fails with the link only (`LoseCommit`).

`Events` names the twelve departures from Oracle (a lost connection, a deadlock, an error
in the middle of a batch, a program, ...). Each property names those it does not survive;
that list is the property's content, and every other event may happen in it:

| Property | Does not survive |
|---|---|
| `InTransaction` | ddlBindError, setTransaction, program |
| `NoChangeLost` | lost, deadlock |
| `NothingUnasked` | batchError, program, insteadOf, returningError, ddlBindError, setTransaction, inDoubt |
| `PendingNotDurable` | program, ddlBindError, setTransaction, inDoubt |
| `CurrvalTracked` | failedSequence in one direction, returningSequence in the other |
| `KeepsPromise` | any |

### BreakRace and the code

One client and one session exchange packets; `up` and `down` are the two directions,
`half` says that the first packet to the server has arrived in part. `server` is "reading" in
the command loop, "racing" inside `race_break`, "busy" under a call that is not raced
(COMMIT, ROLLBACK, DDL). `rounds` counts the awaits of one call that are raced: an Execute
awaits the query and its first batch. `torn` records that `select!` dropped a read together with
the bytes it had consumed: the next read starts inside a packet (`Misread`). The read beside a statement has
the idle deadline of every read, and meets the end of the stream of a client that has gone: either ends the
session in mid-statement (`RaceReadFails`). `cancels` are
cancel requests on their way, which hit whatever runs when they arrive. The client is a
thin driver: a marker makes it send RESET, discard everything up to the next marker and
take the error behind it. A `patient` one waits for the marker of its own break even when the
answer came first (python-oracledb); another does not. `RacePacket` answers a marker with a marker
and drops any other packet, as the code does.

### Handshake and the code

From CONNECT to the command loop. `server` follows `handle_connection`: "connect", "reconnect" after
RESEND, "negotiate" (the loop that takes the remaining messages in the client's order), "auth2",
"backend", "serving". `Requests` and `Reads` are the five drivers as `profile.rs` and the
comments of `server.rs` describe them: what each sends, and which layout of a reply it can read
where it waits. Ciphers are symbolic: what is encrypted under a key is read with that key and is
Garbage under any other. `Insert` and `PasswordFor` are the layers of `credentials.rs`. The client may
vanish, fall silent, or break; the backend may refuse after the client has been told that it is
logged in.

### FacadeInstall and the code

Every step of `PostgresBackend::connect` is an action, each batch one implicit transaction of
PostgreSQL. `db` is what is installed, as versions; `granted` what every role may read. `admin` says
whether a connection's role may create objects, `version` which release it runs. `Fault` is a
batch that fails or a connection that dies, in any step, at most `MaxFaults` times.

### SessionLifecycle and the code

`acceptor` is the place `run_with_listener` has reached; `task[i]` follows the spawned
future: "spawned" (not polled yet), "running" (it has made `_guard` and `_reg`),
"unregistered" (`_reg` dropped), "ended" (`_guard` dropped too). A task that is
aborted before its first poll goes from "spawned" to "ended" and drops nothing.
`listed` is `SESSIONS`, `active` is `ACTIVE_SESSIONS`, `backend[i]` the connection the
second task drives: it is closed once the session's handle is gone and no statement
is under way. `Accept` and `Register` are separate steps because the new task may run
on another thread between `tokio::spawn` and `sessions_register`. Dropping the
backend handle, `_reg` and `_guard` are consecutive steps that other threads see in
between. `DrainLoopEnds` and `DrainReports` are apart because the counter is read twice.

### CursorIds and the code

`ids`, `nextId`, `texts`, `bySeq`, `last`, `current` and `open` are `oci_cursor_ids`,
`oci_next_cursor_id`, `oci_id_to_sql`, `oci_seq_to_sql`, `last_execute`, `cursor_id` and
`cursors`. A statement is a text with a list of bind datatypes; bind values play no
part. Where the code keeps a cursor, `open` has the handle whose request opened it, so
that a Fetch can be held against the handle it is for. `round` says whether the counter
has come round. The client is what the wire tells it: OCI learns the id of every
statement that succeeds (but not from the acknowledgement of a re-executed change),
ojdbc and ODP.NET one while rows are left, other thin drivers the constant 1 while
rows are left.

| Action | Code |
|---|---|
| `Execute` | 0x5E with SQL text |
| `NewParse` | OCI's 0x5E that names a cursor and brings new datatypes |
| `CachedExecute` | ojdbc's 0x5E that names a cursor |
| `Reexecute` | 0x04 and 0x4E; `named` is FALSE when an OCI client sends cursor id 0 |
| `Fetch` | 0x05 |
| `EndTransaction` | the Commit and Rollback functions, which drain `cursors` |

An Execute is entered in the maps before it is bound or translated, so a request that
is refused later ("refused", or "error" when the backend refuses it) has still moved
them. Of a client without ids the code's comment says that it re-parses whenever its
statement changes; the model's re-executes only what it ran last.

The server keeps one cursor and one list of datatypes for a text (for all texts, with
a thin client), so two handles with one text disturb each other: a second Execute ends
the first one's result, and its datatypes decode the first one's binds. `mixed` holds
the handles this may have happened to, by id: one that ran, or knows, an id another
handle went by, until it sends its text again. The two main properties are about the
others; `TwoLiveCursors` leaves `mixed` out and is violated.

### The wire modules and the code

| Module | Code |
|---|---|
| `TtcBuffer` | `buffer.rs`: compact integers, length-prefixed and chunked values |
| `OracleValues` | NUMBER, DATE, TIMESTAMP, INTERVAL and BINARY_DOUBLE in both directions (`wire.rs` 3880-, the encoders of `backend.rs` and `mariadb.rs`) |
| `ResultColumns` | how a column of either database is described, and how its values are put on the wire |
| `Responses` | the replies in the layouts of the thin, jdbc and OCI families, and packet framing |
| `ExecuteRequests` | `strip_piggyback` and the parsers of Execute, re-execute and Fetch |
| `BoundParameters` | `bind_parameters`, `split_returning_into`, and the two databases' bind conversions |
| `OracleClients` | external: how the clients write requests and read replies, from the comments, captures and tests of the repository |
| `WireExchange` | one session: a client runs a statement, executes it again, fetches it to the end |

A parser takes a payload and a position and returns what it read and the position after it,
or "short" or "bad". SQL text is a sequence of bytes that stand for its tokens, as far
as the scanners of `wire.rs` tell them apart: keywords that begin a statement, quotes,
comments, the words of RETURNING ... INTO, and placeholders. In `OracleClients` the
other side is written independently of the server's, so that the two agree only where
both are right about the format.

### SqlTranslation and the code

Translating keeps no state; what can go wrong is that the new statement means something
else. Each module gives the meaning of one group of statements twice: Oracle's, written
independently of the code (the definitions named `Oracles...`), and that of the statement
the code produces, run by the backend. A statement is a record of what its meaning
depends on, not its text; values are numbers or NULL with SQL's three-valued comparisons,
tables are sequences, sets or maps of few rows.

| Module | Code |
|---|---|
| `RowLimits` | `strip_rownum_predicate`, `rownum_effect`, `least_expr`, the limit in `translate_query`; `rewrite_mariadb_fetch_with_ties` |
| `OuterJoins` | `translate_legacy_outer_join` (`tree`) and `rewrite_legacy_outer_join_text`; `rewrite_mariadb_full_outer_join` |
| `Hierarchies` | `rewrite_connect_by_for`, for a table and for `dual` |
| `Pivots` | `rewrite_unpivot`, `rewrite_unpivot_mariadb`, `rewrite_pivot`, `rewrite_keep_aggregates` |
| `SqlExpressions` | the part of `rewrite_expr` about empty texts, with DECODE, NVL2 and LNNVL |
| `RowWrites` | `rewrite_merge_matched_delete`, `rewrite_merge_set_aliases`, `rewrite_merge_mariadb`; `rewrite_insert_all` and its MariaDB form |

`SqlTranslation` composes them: a behaviour is one statement, its action records Oracle's
answer beside the one the client gets, and the two invariants compare them. The code is
right only within limits, which are predicates of their own (`MisreadLimit`, `InOrder`,
`WalksAlike`, `UnpivotsAlike`, `KeepsAlike`, `AsksOfEmpty`, `MergesAlike`, `InsertsAlike`):
they are the invariants' content. Each of their conjuncts is needed: without it TLC finds a
statement that answers otherwise, and the departures are listed below.

## Runs

| Run | Expectation | What it shows |
|---|---|---|
| `discipline` | holds | two cursors, two client savepoints, three changes, plans that go stale, binds that fail, COMMITs that are refused: the wrapper keeps the transaction usable and nothing commits itself, cursors find their savepoints, the client's savepoints survive, COMMIT is all or nothing and says which, and the session implements `OracleTxn` |
| `all_events` | holds | every event at once: a change answered with an error is never durable |
| `direct_error` | violated | a failed direct command, then COMMIT answered OK: the accepted change is lost |
| `mariadb` | holds | one savepoint, three changes, up to two different events in any order, deadlocks of every kind of statement among them: the table above |
| `lifecycle` | holds | two sessions, kills and a shutdown: gauge, registry, kill, drain |
| `cursor_ids` | holds | two handles, two queries and a change, every kind of client, an id counter that comes round: a handle whose id is its own runs and fetches what it means |
| `two_live_cursors` | violated | a Fetch of a thin client's first result returns rows of its second |
| `break_race` | holds | three calls of up to two awaits, two breaks: an answer is always its own call's, nothing is left on the wire between calls, every call is answered or the session ends |
| `handshake` | holds | five drivers, both releases, right and wrong passwords, known and unknown users, with and without an idle deadline, a break or a proof without a password where another message is expected: replies fit their reader, the verdict is about the password alone, a login ends |
| `facade` | holds | two connections of one release or two, with two faults anywhere: the marker tells the truth, what it vouches for is open to everybody, no needless installation, everybody connects |
| `wire` | holds | four families of clients, two databases, twenty columns, twenty binds: binds arrive as sent, values are read as they are held, every row arrives once |
| `translation` | holds | 28 000 statements of twelve kinds over tables of up to three or four rows: within the limits the properties name, the rows or tables are Oracle's, or the statement is refused |

The violations are disagreements between the code and its own comments, docs or tests,
each with its quotation under "findings" in `PROJECT.json`.

Six further configurations are counterexamples, kept for the reader and violated when run:

| Configuration | Property | What it shows |
|---|---|---|
| `PgSession_boundary_over_cursor.cfg` | `ClientSavepointsSurvive` | SAVEPOINT while a cursor streams, then the end of the cursor: the savepoint is gone |
| `PgSession_refused_commit.cfg` | `BlockAlwaysOpen` | a refused COMMIT leaves the session outside any transaction, against the comment at `backend.rs` 772 |
| `PgSession_stale_plan.cfg` | `StalePlanInvisible` | the silent re-parse of a stale plan is refused in the transaction its Bind aborted |
| `PgSession_timed_stream.cfg` | `StreamsRunUntimed` | the timeout of an earlier DML is in force for a streamed query |
| `SessionLifecycle_kill.cfg` | `KillReleases` | a killed session is gone while its statement runs on |
| `SessionLifecycle_listing.cfg` | `EndedUnlisted` | a session that ends before it is registered stays listed |

### Bounds

`Cursors` has two members: what can go wrong between cursors goes wrong
between two, and the proofs cover any number. `MaxChanges` 3 allows an array DML
beside a single one, `MaxRows` 2 with `BatchRows` 1 gives empty results, results
that end on a batch boundary and results that need a further Fetch. `MaxDepth` bounds
how many savepoints may exist before a statement that could leak one more, so
wrappers leaked by `bindError`, wrappers of cursors and a client savepoint meet. In
`discipline` there are two names for savepoints, the least with which one is set again
after another was.
In `mariadb`, `MaxEvents` 2 lets every event meet every other once; three changes
leave room for one before and two after the event that matters.
`translation` has values below, at and beyond each boundary of its tables, NULLs, ties,
duplicates and every hierarchy of three rows; no translation looks at more than two
rows, or three tables, at once.
`MaxSessions` is 2: every race is between the accept loop, an operator and one task,
and the second session shows that others are left alone. In `cursor_ids` two handles
give every way of sharing an id, and `MaxId` 4 leaves an OCI client two ids for three
texts, a jdbc client exactly three. The one sequence byte makes every request alias the
one before, the worst a wrapped counter can do. In `break_race` two breaks are the least with
which one break's marker meets another call's recovery; the third call is there to receive what
the second leaves behind. In `facade` two faults let an installation be cut short and
its repair be cut short again. In `wire`, `ShortMax` 9 and `ChunkSize` 4 (252 and
32767 in the code) make values of a dozen bytes take the long and the chunked form, `CallNumbers`
9 (255 in the code) lets the sequence byte repeat, and results of three rows with requests for one to three meet
every end of a batch.

Deadlock checking is off where the system stops on its own (a session closes, a process
stops, a client has all it wanted); `BreakRace`, `Handshake` and `FacadeInstall` name their
ends as an action that changes nothing, and keep the check.

### Fairness

`PgSession`, `MariaDbSession` and `CursorIds` state none, and no liveness.

* `SessionLifecycle` assumes that tokio polls what can be polled (first polls, aborts, the drops
  that follow, the connection task's farewell) and that the clock moves. It assumes nothing of
  clients, of operators or of how long a statement takes: a session that never ends is what `DrainEnds`
  is about, and a statement that never ends what the kill counterexample is about.
* `BreakRace` assumes that packets arrive and are read, that statements end, and that the idle
  deadline of the command loop's read fires (that of the read beside a statement may or may not); nothing makes the client call, break or leave, or a cancel request arrive.
* `Handshake` assumes the server's steps and its idle deadline, nothing of the client.
* `FacadeInstall` assumes that each connection's next command is answered, and nothing of faults.
* `WireExchange` assumes that the server answers a request, that the client reads the answer, and that
  it asks on while it believes that there are more rows. These are stated over `turn`, since each is
  the only step of `Next` that moves it that way.

### Mutations

Each property is broken by a mutation of the model that a slip in the code would
amount to; the operators named "Mutant" or "mutation" in the modules are those: a
recovery without ROLLBACK TO, a cursor kept after its error, a savepoint sent through
the wrapper, a guard bound to `_`, a kill that unlists and does not abort, a break answered
twice, a DDL that returns before its START TRANSACTION, a check not repeated under the lock,
a verifier chosen by the release alone, a scale put on the wire unconverted, `ROWNUM < n` that
keeps n rows, an ELSE taken as soon as one condition is false.

## Proofs

Proved with TLAPS for every value of the constants.

`PgSessionProofs`:

* `SessionType`: `TypeOK`. It carries the facts the rest stands on: marks of
  savepoints are ordered and lie within the work, and a cursor in the map is open and
  holds a savepoint.
* `SessionWrappers`: unless `boundaryOverCursor` is allowed, `WrappersOnTop`. The
  argument is about `OnTop(t, k)`, "the k innermost savepoints are wrappers": each
  operation of the backend adds or takes as many wrappers as holders appear or
  disappear. A leaked wrapper only makes more of them, which is why `bindError` is
  harmless; a cursor does not find its own savepoint but finds one.
* `SessionUsable`, `SessionCommits`: without the four poisonous events
  (`lateRowError`, `lateCancel`, `directError`, `boundaryOverCursor`) the transaction is
  usable after every step, and a COMMIT or DDL makes every accepted change durable or is refused, says so and
  makes none. The invariant adds that an open cursor will not fail, and that the reply is "BUSY" while
  a drain is under way. `AlwaysInBlock`, which needs no assumption on `Allow`, says that whatever is answered
  with success was done inside a block: outside one no wrapper can start (`SavepointIsOpen`), and
  the next COMMIT, ROLLBACK or DDL either opens one or is answered with an error.
* `SessionRejects`: for every `Allow`, a rejected change is never durable. The invariant
  (`Pure`) says that a rejected change can only sit in an aborted transaction, above
  the mark of every savepoint: whatever clears the abort takes the change with it.
* `SessionSavepoints`: unless `boundaryOverCursor` is allowed, `ClientSavepointsSurvive`. The
  client's savepoints are what is left of the stack without its wrappers (`ClientStack`, a
  recursive function of the stack: what it has after k entries is related to what it has after
  k + 1 by `MineSteps`, and `MineAgrees`, `ClientStackCut` take the least k where they
  would fail). Each operation of the wrapper pushes a wrapper, or cuts the stack below one that is on top.
* `SessionKeepsPromise`: without the poisonous events and `releaseSavepoint` the session
  refines `OracleTxn`. A statement that fails goes back to the mark of its own wrapper, which is
  where its work began (`BegunClient`, `RecoverWork`), so it has made its changes or none (`ChangeClient`);
  a query's recovery undoes nothing, since its own changed nothing (`QueryClient`); a ROLLBACK TO
  keeps of the client's savepoints those up to the newest of its name (`ClientStackCut`).
  What is finished of cursors before a COMMIT is invisible. A refused COMMIT, in the Commit function, as text or in either
  batch of a DDL, is `RefuseCommit` (`RefuseRefines`); outside a block there is no work and no savepoint
  (`NoBlockIsTxn`), and what is refused there is a step that changes nothing.

`HandshakeProofs`: `HandshakeTypes`, `EveryReplyFits`, `OnlyThePasswordDecides`, and
`RightfulPassword`. That a reply fits its reader depends on what the server has learnt from the
requests before. The invariant (`HandshakeInvariant`) says that the client's requests, the sent and
the unsent, are the last ones of its driver in their one order (`InOrder`, `ClientInv`); that at most one
is on its way or being answered, the one the client waits on (`UpInv`), and that a reply on its way is
of the shape its request asks for (`DownInv`, `Shaped`); and that whichever request the server reads next,
it has learnt what the ones before it tell (`Ready`, `ServerInv`): whether native encryption was
spoken of, the version list, the dialect, the capabilities. Of a key it says that it was made from the
password of the user who logs in, so that a proof that can be read under it was made by somebody who knows
the password. The one reply that is not asked for, the error of a backend that cannot be reached, is
on its way behind the last of the login, where every driver reads an error. `RightfulPassword` is
about the lists: for lists of any length the lookup of `credentials.rs`, which loads them item by item,
finds the last item of that name, in any case, and otherwise the fallback.

`SessionLifecycleProofs`: `LifecycleType` (`TypeOK`, which no run repeats, as with `FacadeType`), `LifecycleCounts`, `LifecycleListed`,
`LifecycleDrained`, `LifecycleEntries`. The invariant adds that ids are handed out in
order and that a task that is spawned or running is in the registry, except the one
the accept loop is about to register.

`CursorIdsProofs`: `CursorIdsType`, `CursorIdsApart`, `CursorIdsResolve`,
`CursorIdsFetch`. The server's part of the invariant (`MapsInv`) needs nothing of the
client: a text found under an id goes by that id (`Inverse`) even after the counter
came round, and the last Execute is found under its own (`LastEntry`). The client's
part says that a handle's id leads to the statement it was prepared with and to its own
rows, unless the handle is mixed (`KnownInv`, `ReadingInv`), and that two handles with
one id both are (`SharedInv`). `Served` carries it through every request that runs a
statement. Only `OneIdPerText` ends when the counter comes round.

`MariaDbSessionProofs`: `MariaDbType`, `MariaDbInTransaction`, `MariaDbNoChangeLost`,
`MariaDbNothingUnasked`, `MariaDbPendingNotDurable`, `MariaDbCurrval`, and the refinement
`MariaDbKeepsPromise`. That no change is lost is not inductive: a ROLLBACK TO shortens the server's
work and the client's pending changes each by a mark of its own. `LossInv` and `AskInv` therefore say it
of every savepoint as well: what the client has up to its mark, the server has up to its own, and the other
way round. For that the two must agree on the savepoints: the server's are among the client's, in
the same order (`Agree`), since it may lose some that the client still believes in (a deadlock, a program), but
never has one the client does not know. `Outcome` is what any statement may do to the transaction (its
own changes, whole or not at all, unless it met one of the events; the client's savepoints
intact, or gone with the transaction); every path of the code is shown to be one (`OrdinaryOutcome`,
`BatchOutcome`, ...), and one lemma, `StatementStep`, carries the invariant through any of them. The
refinement uses that as long as nothing has happened the link is alive, a transaction is open and
`dbsaci_statement` is not in it (`Quiet`).

`FacadeInstallProofs`: `FacadeType`, `FacadeMarkerHonest`, `FacadeMarkedIsOpen`,
`FacadeNoNeedlessInstall`. None of the three is inductive. The invariant `Inv` adds that whoever
is at work under the lock holds it unless taking it failed (`HoldInv`), that a role without
rights is turned away at the first batch (`AdminInv`), that a marker needs its schema and the
installation the `dbms_lob` schema (`TableInv`, `LobInv`), that what has been installed so far is the
installer's release (`InStage`, in `ReleaseInv` for one release about and in `OrderInv` for several), and
that what is marked is open or about to be opened by the one that holds the lock (`OpenInv`). A
step that fails is remembered in `faults`, which discharges the rest.

`BreakRaceProofs`: `BreakRaceType`, `BreakRaceAnswers`, `BreakRaceQuiet`. Neither of the two safety
properties says enough of what is under way: the invariant lists, for every state of the client, which
packets can be in either direction and whether the server is at work (`WhenIdle` to `WhenReset`, each
a handful of words of at most three packets, with the server reading or not), that the calls
and answers among them are those of the call in hand (`CallsAre`, `AnswersAre`), and that a call
that has not run has no answer (`Unanswered`). Once a torn read or the end of the session has cut the
direction to the server off, only what is on its way to the client matters (`DownWords`). All this holds of clients in step, patient
ones or those that break once (`InStep`); what needs no order of the two sides, the types among it, holds of
all (`FrameInv`).

`WireProofs` follows a request from the driver's bytes to the call that runs, for every value,
every length and every place in a message; the run has some twenty values of each kind, and
`ShortMax` and `ChunkSize` scaled down. What these codecs compute is defined by recursive functions
over data, and each is taken by its least counterexample: the proof states what the function is at the
start and at a step (`ReadsIs`, `ValuesIs`), assumes that the claim fails somewhere, and takes the
least place where it does. `StandsAt(w, d, at)`, "the bytes w stand in the message d from at on", is what the
lemmas hand on: a sequence that stands somewhere stands there in its parts (`StandsInParts`), and every
reader is shown to return what was written and the place behind it, whatever follows.

* `IntegersReadBack`, `ValuesReadBack`, `FieldsReadBack`: the primitives of `buffer.rs`, integers of each
  width, values that are short, absent or in as many chunks as they take, and runs of such fields.
* `EveryPlaceholderItsName`, `EveryNumberItsValue`: the parameters `bind_parameters` makes, for a
  statement of any length. The index of a name is its place among the distinct ones in the order of first
  occurrence (`IndexesFollowNames`); reuse of a value for PostgreSQL's `$n` and repetition for
  MariaDB's `?` come to the same (`PlacesHoldTheirValues`).
* `RowsReadBack`, `FetchesReadBack`, `ReexecutesReadBack`, `ExecutesReadBack`: what the parsers make of what
  a thin driver writes. For an Execute the descriptors, which the strict reader walks one by one, each
  end where the next begins, and none is mistaken for the row that follows; a re-execute's row,
  searched for from the front, is found where it is and no earlier. `Executable` says what a driver
  sends: a text, rows of one shape, every value one its type carries.
* `ExecutesRunAsSent`: the strict reading is the one that counts (`ReadThenRun`); the tolerant one and the
  cached statement are not reached.
* `RequestsFoundBehindCloses`, `ExecutesRunBehindCloses`: `strip_piggyback` finds the request behind any number of closes, if
  they are quiet: no byte of theirs, with the next, looks like the start of a message. `CloseOfThreeHidesTheRequest`
  shows that this cannot be dropped.
* `PacketsReadBack`, `FetchPacketsReadBack`, `ExecutesArrive`: packets, in both header forms, up to the length
  at which they are confused; and the whole way, from `Transmitted` to the statement that is run.

* `ThinBindsAsSent`: `BoundAsSent` as an invariant of the sessions of a thin driver (`Thin`: neither ojdbc nor OCI, with
  the large packets all of them negotiate). It is not inductive: that a request binds the right values depends on what the server keeps
  from the last one, and that a fetch is a fetch on the client not asking for rows it was refused.
  `ThinInv` adds that the call in hand is one a driver makes of its statement (`CallInv`), that between calls the server keeps that statement
  with the types of the row the client last sent (`LastInv`; nothing else would make a re-execute's untyped row readable),
  that what is on the wire is that call, whole and alone (`WireInv`), and that a client asks on only for a query that was
  answered without an error (`ViewInv`). The three requests are `CallsAreServed`; that what the
  server was asked binds as `BoundAsSent` says is `AsSentIsBound`, from `RowIsBound`, which says it of one row.
  Four named hypotheses stand beside the specification. `ThinWorld` and `Thin` are about the constants and the driver: the statements are texts a driver can send
  (`Drivable`), the values are such as their bytes say (`Sendable`, and `Honest`: decoded for the backend's style they are what was
  meant), the closes are quiet, an array of executions has binds and no outputs. `RequestFits` is that the
  request is one packet below 512 KB, the length from which the two header forms are confused. `RefusalsSeen` is that
  a client whose binds were refused has read an error; it is part of `ReadAsHeld`
  (`RefusalsAreRead`), which the run `wire` checks. Before it was proved, TLC had found `ThinInv` to hold in the sessions of `MCWire`'s thin
  drivers, and `ThinWorld` of its values.

The layouts of ojdbc (`kind = "jdbc"`) and OCI, and the replies, are not covered.

Assumptions: those named `...Assumption` in the modules, on the constants only.

Only model-checked: the liveness properties (`KillEnds`, `DrainEnds`, `CallsAnswered`, `LoginEnds`,
`EveryoneConnects`, `EveryRowArrives`: fairness and leads-to are out of the prover's reach),
and three invariants as wholes. `BoundAsSent` is proved for thin drivers; ojdbc's and OCI's requests, which the server
reads by searching (`wire.rs` 1621-), are only in the run. `ReadAsHeld` is about what every pair of a column and a layout makes of every value: its encoders
work on digits and dates, where each case is a computation of its own; the run has it for the values of its columns.
`RowsAsOracles` and `WritesAsOracles` rest on the folds and recursive operators of translated statements:
`SqlTranslation` extends `SqlExpressions`, whose RECURSIVE operators shut TLAPS out, and what they compute for
every table would need induction over tables, with an operator for a parameter, which the installed
provers cannot instantiate. For recursive functions of
one argument a least counterexample stands in for it, in `PgSessionProofs`, `HandshakeProofs` and `WireProofs`.

## What modelling it brought up

Beside the two findings that runs show, reading the code closely enough to model it
turned up the following. The models leave these inputs out, or model what the code does and exempt
it from the property by name.

* After a COMMIT that PostgreSQL refuses, every statement is answered with an error until the client sends
  COMMIT, ROLLBACK or DDL: the batch `COMMIT; BEGIN` (`backend.rs` 758) ends before its BEGIN, and the client's own BEGIN is swallowed.
* A `RETURNING`, re-execute or DML answer to an OCI client carries its row count in one byte.
* A row value longer than 252 bytes is sent to an OCI client with a truncated length byte, and a
  cursor id above 255 is truncated in "more rows" answers.
* `count_named_binds` tells `:a` from `:A`, the placeholders' rewriting does not: a re-execute
  of a text with both fails for OCI clients. `:2 ... :1` are indexed by their numbers where Oracle
  binds by position.
* An array execution without binds (`executemany(sql, n)`) runs once, not `n` times: a batch is asked for by
  `num_iters > 1 && bind_rows.len() > 1` (`server.rs` 1390-1392), and without binds there are no rows.
* An array of binds takes its datatypes from its first row when SQL is chosen (`server.rs` 1399).
* `read_ub8` expects a second length byte after lengths 5 to 7; TIMESTAMP WITH TIME ZONE binds of OCI
  clients keep a flag bit in the zone hour; a 7-byte RAW beginning like a descriptor is read as NULL.
* `strip_piggyback` (`wire.rs` 163-195) looks for the request behind deferred closes by a byte that begins
  messages followed by a function it knows (`KNOWN_FUNCS`, 166-168). Function 3 is one, so an id whose last
  byte is 3, as cursor 3's is (ojdbc and OCI get it, `server.rs` 966-972 and 1194-1203), stops it one byte early, before `3 3 94`: the request is taken for a function 3
  and not run, although the comment (158-162) says that the request is what is processed. An id that ends in 17 makes it
  look on behind the request's first byte. `CloseOfThreeHidesTheRequest` proves the first; the closes of the `wire` run
  (none, or the ids 5 and 300) avoid both.
* PostgreSQL values of types uuid, json, time and oid arrive as NULL; NaN and Infinity as 0.
* MariaDB's MEDIUMINT and YEAR columns are described as VARCHAR and encoded as NUMBER; a query with binds
  loses fractional seconds; a NULL in a BINARY_DOUBLE column fails the query.
* A packet with a large header whose length is a multiple of 65536 has zeros where the legacy checksum is, and from
  524288 on its first two bytes are a plausible legacy length, so that it reads as one of the older form
  (`tns.rs` 481-497, the comment at 477-480 has it that they cannot). No packet is so long with the SDU of 8192
  the server accepts; it is the bound of `PacketsReadBack`.
* A helper of the facade that failed once is not installed again: `facade_installed` looks at four objects that
  stand for all.
* The idle deadline of a packet spans the whole packet, so that a slow sender of a large one is
  cut off although it is not idle (`tns.rs` 193).

Translated statements that compute something else than Oracle does, exempted by name in `SqlTranslation`:

* `ROWNUM <> n` returns all rows, a negative number beside `ROWNUM - k` is read as zero, a bound that is NULL
  limits nothing, and COUNT and DISTINCT are limited after they are computed.
* FETCH WITH TIES on MariaDB ranks with DENSE_RANK, so that ties push no later row out.
* A table marked `(+)` must follow its partners in FROM; a FULL OUTER JOIN on MariaDB whose ON also matches
  NULLs returns such rows twice.
* CONNECT BY tells loops by the column named first: where that is NULL rows are lost. A loop is never
  ORA-01436. CONNECT_BY_ISLEAF in WHERE replaces the whole clause, whatever it is compared with. Siblings are
  sorted as text, and those of one key interleave with each other's children. `n >= LEVEL` gives one row.
* UNPIVOT on PostgreSQL keeps NULLs when nothing follows the clause, and on both backends when WHERE has an OR;
  SELECT * over it has other columns. PIVOT drops a second aggregate and the outer select list.
* `agg(x) KEEP (...)` is the x of one row, whichever comes first, not the aggregate over those that tie.
* A condition on a text that is computed and comes out empty finds `''` where Oracle has NULL.
* A MERGE with both branches on MariaDB is an upsert on the primary key: ON, the SET list's values and WHERE are
  dropped, and its DELETE asks of inserted rows too and sees the new value twice. WHERE together with DELETE
  is refused after the first statement has run. On PostgreSQL the alias stripped from the SET list makes
  `d.v = d.v + s.v` ambiguous.
* INSERT FIRST inserts under every condition that holds; ELSE is not taken when a condition is unknown; a clause
  without VALUES takes the following ones along on PostgreSQL; MariaDB reads a source that is a target again.

## Not modelled

* The rest of `translate/mod.rs`: PL/SQL blocks, definitions, triggers, LATERAL, LISTAGG, date
  arithmetic, conversion functions, identifiers and literals. These change how a statement is written, or
  name a function of the backend whose meaning is not in the source. Of what is modelled, not its parsing:
  statements in other than the usual clause order, nested subqueries, CONNECT_BY_ROOT and
  SYS_CONNECT_BY_PATH, GROUP BY inside a merge's source, the ORDER BY of a FULL OUTER JOIN.
* The attention handshake with a thick client after a timed-out statement (urgent byte, `drain_markers`):
  the source says that what that client does is not known, so there is nothing to model it against.
* Results larger than the channel tokio-postgres buffers: an open cursor then blocks later commands of its
  connection. `PgSession` takes a result as having run to its end on the server.
* OVERSION and LOGOFF replies, `substitute` of literals (unused by the server), error positions
  and the mapping of error codes, MariaDB's own text rewriting.
* TLS, configuration, the HTTP surface of the health endpoint, metrics other than the session gauge,
  the session time zone.
* Failures of PostgreSQL itself: when its connection is lost every further request fails, and the session
  is what `Disconnect` leaves.

## Checking it

`tlc -config X.cfg M` for the runs of `PROJECT.json`, `tlapm M.tla` for the proof modules. The longest
run is `wire` (under a minute); from nothing the proofs of
`WireProofs` take some twenty minutes, those of the other modules some minutes each. What would come next:
the channel between a session and its PostgreSQL connection filling up (`backend.rs` 207), which `PgSession` leaves out, and
the requests of ojdbc and OCI as theorems.
