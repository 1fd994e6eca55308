----------------------------- MODULE RowWrites -----------------------------
(* Statements that write several rows: MERGE, which PostgreSQL runs as     *)
(* MERGE and MariaDB as the joins and upserts it is taken apart into, and  *)
(* INSERT ALL and INSERT FIRST.                                            *)
(* A row is [k, w, v], k the table's primary key and v possibly NULL; the  *)
(* target is a set of rows, the source a sequence of them.  A merge is     *)
(*   [server, table, source, on, update, where, delete, insert, only]:     *)
(* the column ON equates, what UPDATE sets v to ("none" for no such        *)
(* branch, the source's v, or the sum of both), whether it has a WHERE     *)
(* (source.v = 1), whether it goes on DELETE WHERE target.v = 1, what      *)
(* INSERT makes of v ("none", the source's or NULL) and whether it has     *)
(* that WHERE.                                                             *)
EXTENDS SqlRows, TLC

Joins(q, t, s) == t[q.on] = s[q.on]
IsOne(v) == IsTrue("=", v, Value(1))
NewValue(q, t, s) == IF q.update = "sum" THEN Plus(t.v, s.v) ELSE s.v
Inserted(q, s) == [s EXCEPT !.v = IF q.insert = "null" THEN Null ELSE @]

Sources(q) == DOMAIN q.source
PartnersOf(q, t) == {i \in Sources(q) : Joins(q, t, q.source[i])}
Unmatched(q) == {i \in Sources(q) : \A t \in q.table : ~Joins(q, t, q.source[i])}

(* A table that would hold a key twice refuses the statement.              *)
KeysUnique(rows) == \A a, b \in rows : a.k = b.k => a = b

(* The unmatched source rows, each a row of its own: two of one key are    *)
(* refused even when they are alike.                                       *)
AddRows(q, rows, from) ==
    LET added == {Inserted(q, q.source[i]) : i \in from}
    IN  IF \/ ~KeysUnique(rows \cup added)
           \/ Cardinality({q.source[i].k : i \in from}) # Cardinality(from)
           \/ \E r \in rows, a \in added : r.k = a.k
        THEN Refused(q.table) ELSE Answered(rows \cup added)

(***************************************************************************)
(* Oracle's MERGE, and PostgreSQL's of the statement as it is rewritten.   *)
(***************************************************************************)
(* The rows of the matched branch after it: updated, or deleted when the   *)
(* new value says so.  More than one source row for a row is an error.     *)
Updating(q, t) ==
    IF q.update = "none" THEN {}
    ELSE {i \in PartnersOf(q, t) : q.where => IsOne(q.source[i].v)}

AfterUpdate(q) ==
    {t \in q.table : Updating(q, t) = {}} \cup
    UNION {{[t EXCEPT !.v = NewValue(q, t, q.source[i])] :
               i \in {s \in Updating(q, t) : ~(q.delete /\ IsOne(NewValue(q, t, q.source[s])))}} :
           t \in q.table}

ToInsert(q) ==
    IF q.insert = "none" THEN {}
    ELSE {i \in Unmatched(q) : q.only => IsOne(q.source[i].v)}

OraclesMerge(q) ==
    IF \E t \in q.table : Cardinality(Updating(q, t)) > 1 THEN Refused(q.table)
    ELSE AddRows(q, AfterUpdate(q), ToInsert(q))

(* PostgreSQL's has no WHERE in a branch, and the alias its SET list loses *)
(* leaves v of the sum with two tables to be of.  The DELETE comes before  *)
(* the UPDATE, its condition with the new value in place of the column.    *)
PostgresMerge(q) ==
    IF q.where \/ q.only \/ q.update = "sum" THEN Refused(q.table)
    ELSE IF \E t \in q.table : q.update # "none" /\ Cardinality(PartnersOf(q, t)) > 1
    THEN Refused(q.table)
    ELSE AddRows(q, AfterUpdate(q), ToInsert(q))

(***************************************************************************)
(* MariaDB's: UPDATE ... INNER JOIN, INSERT ... WHERE NOT EXISTS, INSERT   *)
(* ... ON DUPLICATE KEY UPDATE, and DELETE ... INNER JOIN after it.        *)
(***************************************************************************)
(* Of several partners any one gives the value.                            *)
UpdateJoin(q) ==
    {IF Updating(q, t) = {} THEN t
     ELSE [t EXCEPT !.v = NewValue(q, t, q.source[CHOOSE i \in Updating(q, t) : TRUE])] :
        t \in q.table}

InsertMissing(q) == AddRows(q, q.table, Unmatched(q))

(* Neither ON, nor the SET list's values, nor a WHERE is left in it: a row *)
(* whose key is there takes the value that would have been inserted.       *)
Upsert(q) ==
    FoldLeft(LAMBDA rows, s :
        IF \E t \in rows : t.k = s.k
        THEN {IF t.k = s.k THEN [t EXCEPT !.v = Inserted(q, s).v] ELSE t : t \in rows}
        ELSE rows \cup {Inserted(q, s)}, q.table, q.source)

(* The condition has the SET list's expression in place of the column, but *)
(* is asked of the rows the first statement left; with a WHERE in the list *)
(* it is no expression, and the second statement is refused after the      *)
(* first has run.                                                          *)
DeleteJoin(q, rows) ==
    IF ~q.delete THEN Answered(rows)
    ELSE IF q.where THEN Refused(rows)
    ELSE Answered({t \in rows : \A i \in Sources(q) :
             ~(Joins(q, t, q.source[i]) /\ IsOne(NewValue(q, t, q.source[i])))})

rewrite_merge_mariadb(q) ==
    CASE q.insert = "none" /\ q.update # "none" -> DeleteJoin(q, UpdateJoin(q))
      [] q.insert # "none" /\ q.update = "none" -> InsertMissing(q)
      [] q.insert # "none" /\ q.update # "none" -> DeleteJoin(q, Upsert(q))

(***************************************************************************)
(* INSERT ALL and INSERT FIRST: [server, first, clauses, source, own].     *)
(* The clauses are [when, into, values]: the condition they stand under    *)
(* ("always", "is 1", "is positive" or "else"), one of two tables, and     *)
(* whether they have a VALUES list.  The source is a sequence of values;   *)
(* with `own` it is what the first table holds.                            *)
(***************************************************************************)
Holds(when, v) ==
    CASE when = "always" -> TRUE
      [] when = "is 1" -> IsTrue("=", v, Value(1))
      [] when = "is positive" -> IsTrue(">", v, Value(0))

Fails(when, v) ==
    CASE when = "is 1" -> IsFalse("=", v, Value(1))
      [] when = "is positive" -> IsFalse(">", v, Value(0))

Conditions(clauses) == {clauses[i].when : i \in DOMAIN clauses} \ {"always", "else"}

Held(q) == <<IF q.own THEN q.source ELSE <<>>, <<>>>>

(* Each source row goes to the clauses whose condition holds, with FIRST   *)
(* to those of the first such condition, and to ELSE's when none does.     *)
Takes(q, i, v) ==
    LET holding == {k \in DOMAIN q.clauses : q.clauses[k].when # "else" /\ Holds(q.clauses[k].when, v)}
    IN  CASE q.clauses[i].when = "else" -> holding = {}
          [] q.first -> i \in holding /\ \A k \in holding : k < i => q.clauses[k].when = q.clauses[i].when
          [] OTHER -> i \in holding

OraclesMultiInsert(q) ==
    Answered([t \in 1..2 |-> Held(q)[t] \o
        FlattenSeq([i \in DOMAIN q.clauses |->
            IF q.clauses[i].into # t THEN <<>>
            ELSE SelectSeq(q.source, LAMBDA v : Takes(q, i, v))])])

\* A mutation for Selected: ELSE is taken where any of the conditions is false.
SelectedWhereAnyFails(clauses, i, source) ==
    SelectSeq(source, LAMBDA v :
        IF clauses[i].when = "else" THEN \E w \in Conditions(clauses) : Fails(w, v)
        ELSE Holds(clauses[i].when, v))

(* The translation: an INSERT of its own for each clause, under the        *)
(* condition alone; ELSE's is that each condition is false.                *)
Selected(clauses, i, source) ==
    SelectSeq(source, LAMBDA v :
        IF clauses[i].when = "else" THEN \A w \in Conditions(clauses) : Fails(w, v)
        ELSE Holds(clauses[i].when, v))

(* PostgreSQL's: one statement, which reads the source once.  The clauses  *)
(* from the first without VALUES on are dropped; the last cannot be, for   *)
(* the query is taken to start behind the last list.                       *)
WithValues(clauses) ==
    SubSeq(clauses, 1, Cardinality({i \in DOMAIN clauses : \A k \in 1..i : clauses[k].values}))

rewrite_insert_all(q) ==
    LET clauses == WithValues(q.clauses)
    IN  IF clauses = <<>> \/ ~Last(q.clauses).values THEN Refused(Held(q))
        ELSE Answered([t \in 1..2 |-> Held(q)[t] \o
                 FlattenSeq([i \in DOMAIN clauses |->
                     IF clauses[i].into # t THEN <<>> ELSE Selected(clauses, i, q.source)])])

(* MariaDB's: a batch of statements, each of which reads the source anew.  *)
rewrite_insert_all_mariadb(q) ==
    IF \E i \in DOMAIN q.clauses : ~q.clauses[i].values THEN Refused(Held(q))
    ELSE Answered(FoldLeft(LAMBDA tables, i :
             [tables EXCEPT ![q.clauses[i].into] =
                 @ \o Selected(q.clauses, i, IF q.own THEN tables[1] ELSE q.source)],
             Held(q), [i \in DOMAIN q.clauses |-> i]))
=============================================================================
