----------------------------- MODULE OracleTxn -----------------------------
(***************************************************************************)
(* What an Oracle client is promised about its transaction, whatever the   *)
(* server behind the proxy does: a statement either changes the            *)
(* transaction and is answered with success, or leaves it as it was and is *)
(* answered with an error; savepoints last until COMMIT, ROLLBACK, DDL or  *)
(* a ROLLBACK TO an older one; a COMMIT answered with success makes every  *)
(* pending change durable, and so does DDL before it runs; a COMMIT that   *)
(* is refused, by a deferred constraint say, makes none durable, is        *)
(* answered with an error and leaves nothing pending (ORA-02091).          *)
(*                                                                         *)
(* Servers differ in one point: when the name of a savepoint is set again, *)
(* the older savepoint is forgotten (Oracle, MariaDB) or only hidden, and  *)
(* is back once the newer one is gone (PostgreSQL).  Either is allowed.    *)
(***************************************************************************)
EXTENDS Naturals, Sequences, SaveLists

CONSTANTS Savepoints, MaxChanges

VARIABLES
  pending,   \* the changes of the open transaction, in order
  marks,     \* its savepoints, each with the length of pending it returns to
  durable,   \* the changes made durable
  answer     \* the last answer: the request's kind and whether it succeeded

vars == <<pending, marks, durable, answer>>

Answer(op, ok) == [op |-> op, ok |-> ok]

Init ==
  /\ pending = <<>> /\ marks = <<>> /\ durable = {}
  /\ answer = Answer("AUTH", TRUE)

\* A request whose work is under way.
Working ==
  /\ answer' = Answer("BUSY", TRUE)
  /\ UNCHANGED <<pending, marks, durable>>

\* Queries, fetches and session settings never touch the transaction.
Read ==
  /\ \E op \in {"QUERY", "FETCH", "SET"}, ok \in BOOLEAN : answer' = Answer(op, ok)
  /\ UNCHANGED <<pending, marks, durable>>

\* DML, or an array of it: on an error the rows before the failing one stay.
ChangeSome ==
  /\ \E n \in 0..2, ok \in BOOLEAN :
       /\ ok => n > 0
       /\ answer' = Answer("CHANGE", ok)
       /\ IF n = 0 THEN pending' = pending
          ELSE \E d \in [1..n -> 1..MaxChanges] : pending' = pending \o d
  /\ UNCHANGED <<marks, durable>>

Savepoint(s) ==
  /\ \/ marks' = Saved(marks, s, Len(pending))
     \/ marks' = Append(marks, [name |-> s, mark |-> Len(pending)])
  /\ answer' = Answer("SAVEPOINT", TRUE)
  /\ UNCHANGED <<pending, durable>>

\* The newest savepoint of a name is the one that is seen.
RollbackTo(i) ==
  /\ \A j \in DOMAIN marks : marks[j].name = marks[i].name => j <= i
  /\ pending' = SubSeq(pending, 1, marks[i].mark)
  /\ marks' = SubSeq(marks, 1, i)
  /\ answer' = Answer("ROLLBACK TO", TRUE)
  /\ UNCHANGED durable

\* There is no such savepoint, or none can be set.
RefuseSavepoint ==
  /\ \E op \in {"SAVEPOINT", "ROLLBACK TO"} : answer' = Answer(op, FALSE)
  /\ UNCHANGED <<pending, marks, durable>>

NewTransaction == pending' = <<>> /\ marks' = <<>>

Commit ==
  /\ durable' = durable \cup Range(pending)
  /\ NewTransaction
  /\ answer' = Answer("COMMIT", TRUE)

Ddl ==
  /\ durable' = durable \cup Range(pending)
  /\ NewTransaction
  /\ \E ok \in BOOLEAN : answer' = Answer("DDL", ok)

\* The transaction cannot be committed, and is rolled back.
RefuseCommit ==
  /\ NewTransaction
  /\ \E op \in {"COMMIT", "DDL"} : answer' = Answer(op, FALSE)
  /\ UNCHANGED durable

Rollback ==
  /\ NewTransaction
  /\ \E op \in {"ROLLBACK", "LOGOFF"} : answer' = Answer(op, TRUE)
  /\ UNCHANGED durable

Next ==
  \/ Working
  \/ Read
  \/ ChangeSome
  \/ \E s \in Savepoints : Savepoint(s)
  \/ \E i \in DOMAIN marks : RollbackTo(i)
  \/ RefuseSavepoint
  \/ Commit
  \/ Ddl
  \/ RefuseCommit
  \/ Rollback

Spec == Init /\ [][Next]_vars
=============================================================================
