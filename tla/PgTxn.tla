------------------------------- MODULE PgTxn -------------------------------
(***************************************************************************)
(* The part of PostgreSQL that the per-statement wrapper of src/backend.rs *)
(* leans on: the transaction block of a connection with its stack of       *)
(* savepoints.  A transaction is a record                                  *)
(*   open     whether the connection is inside a block: a COMMIT that is   *)
(*            refused ends the block it was sent in;                       *)
(*   work     the changes made since BEGIN, in order;                      *)
(*   stack    the live savepoints, outermost first, each with the length   *)
(*            of work and the statement_timeout setting it remembers;      *)
(*   aborted  "current transaction is aborted" (SQLSTATE 25P02);           *)
(*   timeout  whether SET LOCAL statement_timeout is in force.             *)
(* Every command of the wrapper is an operator from a transaction to the   *)
(* transaction PostgreSQL is left with.                                    *)
(***************************************************************************)
EXTENDS Naturals, Sequences, Functions

\* The savepoint dbsaci puts around each statement it runs.
Wrapper == "dbsaci_statement"

\* What BEGIN leaves.
Fresh == [open |-> TRUE, work |-> <<>>, stack |-> <<>>, aborted |-> FALSE,
          timeout |-> FALSE]

\* Outside any block: the commands about savepoints are errors (25P01).
NoBlock == [open |-> FALSE, work |-> <<>>, stack |-> <<>>, aborted |-> FALSE,
            timeout |-> FALSE]

\* Whether a SAVEPOINT, and so a wrapped statement, can start.
Accepts(t) == t.open /\ ~t.aborted

\* An error; outside a block it has nothing to abort.
Abort(t) == IF t.open THEN [t EXCEPT !.aborted = TRUE] ELSE t

HasSavepoint(t, name) == \E i \in DOMAIN t.stack : t.stack[i].name = name

\* A name may be defined more than once: commands see the innermost one.
Innermost(t, name) ==
  CHOOSE i \in DOMAIN t.stack :
    /\ t.stack[i].name = name
    /\ \A j \in DOMAIN t.stack : t.stack[j].name = name => j <= i

\* SAVEPOINT name.  In an aborted transaction, and outside a block, the command
\* is refused.
DefineSavepoint(t, name) ==
  IF ~Accepts(t) THEN t
  ELSE [t EXCEPT !.stack = Append(@, [name    |-> name,
                                      mark    |-> Len(t.work),
                                      timeout |-> t.timeout])]

\* RELEASE SAVEPOINT name: forgets it and every savepoint made after it, and
\* keeps the work.  A missing name is an error, and any error aborts.
ReleaseSavepoint(t, name) ==
  IF t.aborted \/ ~HasSavepoint(t, name) THEN Abort(t)
  ELSE [t EXCEPT !.stack = SubSeq(@, 1, Innermost(t, name) - 1)]

\* ROLLBACK TO SAVEPOINT name: the one command besides COMMIT and ROLLBACK an
\* aborted transaction obeys.  It undoes work and settings, keeps the
\* savepoint and clears the error.
RollbackToSavepoint(t, name) ==
  IF ~HasSavepoint(t, name) THEN Abort(t)
  ELSE LET i == Innermost(t, name) IN
       [open    |-> t.open,
        work    |-> SubSeq(t.work, 1, t.stack[i].mark),
        stack   |-> SubSeq(t.stack, 1, i),
        aborted |-> FALSE,
        timeout |-> t.stack[i].timeout]

\* A successful change, and a SET LOCAL statement_timeout.
Change(t, d)     == [t EXCEPT !.work = Append(@, d)]
SetTimeout(t)    == [t EXCEPT !.timeout = TRUE]

\* What "COMMIT; BEGIN" makes durable: COMMIT of an aborted transaction is
\* answered without an error and is a rollback.
Committed(t) == IF t.aborted THEN {} ELSE Range(t.work)
=============================================================================
