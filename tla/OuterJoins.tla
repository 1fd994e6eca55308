---------------------------- MODULE OuterJoins -----------------------------
(* Outer joins: Oracle's comma-separated tables with marked conditions     *)
(* (b.c = a.c (+)), which the translation makes ANSI joins of, and FULL    *)
(* OUTER JOIN, which the one to MariaDB makes two joins of.                *)
(* Each table has one column; a joined row maps a table's name to the      *)
(* position of its row in the table, 0 when it has been padded with NULLs. *)
(* A legacy query is [from, rows, where, tree]: the names in the order of  *)
(* FROM, the tables, the conditions [tables, marked], which equate the     *)
(* columns of two tables or that of one with 1, `marked` being the table   *)
(* that may be padded or "none", and which of the two translations works:  *)
(* the one on the statement's text or the one on a subquery's tree.        *)
EXTENDS SqlRows, TLC, BagsExt

Condition(tables, marked) == [tables |-> tables, marked |-> marked]

Column(q, row, t) == IF row[t] = 0 THEN Null ELSE q.rows[t][row[t]]

Meets(q, row, conditions) ==
    \A p \in conditions :
        \A t, u \in p.tables :
            IsTrue("=", Column(q, row, t),
                   IF Cardinality(p.tables) = 1 THEN Value(1) ELSE Column(q, row, u))

(***************************************************************************)
(* ANSI joins of rows with one more table.                                 *)
(***************************************************************************)
Positions(q, t) == {<<t, i>> : i \in DOMAIN q.rows[t]}
With(row, position) == row @@ (position[1] :> position[2])

InnerJoin(q, rows, t, on) ==
    {joined \in {With(row, p) : row \in rows, p \in Positions(q, t)} : Meets(q, joined, on)}

LeftJoin(q, rows, t, on) ==
    InnerJoin(q, rows, t, on) \cup
    {With(row, <<t, 0>>) : row \in {r \in rows :
        \A p \in Positions(q, t) : ~Meets(q, With(r, p), on)}}

RightJoin(q, rows, placed, t, on) ==
    InnerJoin(q, rows, t, on) \cup
    {With([u \in placed |-> 0], p) : p \in {s \in Positions(q, t) :
        \A row \in rows : ~Meets(q, With(row, s), on)}}

Base(q) == {(q.from[1] :> i) : i \in DOMAIN q.rows[q.from[1]]}

(***************************************************************************)
(* The translation: each table is joined in the order of FROM, on the      *)
(* marked conditions that connect it to one already there or are about it  *)
(* alone.                                                                  *)
(***************************************************************************)
JoinPreds(q) == {p \in ToSet(q.where) : p.marked # "none"}
Outer(q) == {p.marked : p \in JoinPreds(q)}

Connecting(q, j, t) ==
    {p \in JoinPreds(q) \ j.used :
        t \in p.tables /\ (Cardinality(p.tables) = 1 \/ (p.tables \ {t}) \cap j.placed # {})}

(* A table with a mark is left-joined; one without is joined, and where    *)
(* the first table has a mark the text's translation keeps all its rows.   *)
Joined(q, j, t, on) ==
    CASE t \in Outer(q) -> LeftJoin(q, j.rows, t, on)
      [] t \notin Outer(q) /\ on # {} /\ q.from[1] \in Outer(q) /\ ~q.tree ->
             RightJoin(q, j.rows, j.placed, t, on)
      [] OTHER -> InnerJoin(q, j.rows, t, on)

Place(q, j, t) ==
    LET on == Connecting(q, j, t)
    IN  [rows |-> Joined(q, j, t, on),
         placed |-> j.placed \cup {t},
         used |-> j.used \cup on,
         refused |-> j.refused \/ (t \in Outer(q) /\ on = {})]

(* Conditions that found no place are filters; a LEFT JOIN without ON is   *)
(* refused.                                                                *)
translate_legacy_outer_join(q) ==
    LET joins == FoldLeft(LAMBDA j, t : Place(q, j, t),
                          [rows |-> Base(q), placed |-> {q.from[1]}, used |-> {},
                           refused |-> FALSE],
                          Tail(q.from))
    IN  IF joins.refused THEN Refused({})
        ELSE Answered({row \in joins.rows : Meets(q, row, ToSet(q.where) \ joins.used)})

(***************************************************************************)
(* Oracle: the tables without a mark are joined, then each marked one to   *)
(* those its conditions name, whatever their order in FROM.                *)
(***************************************************************************)
Partners(q, t) == UNION {p.tables : p \in {c \in JoinPreds(q) : c.marked = t}} \ {t}

JoinOrder(q) ==
    CHOOSE s \in SetToSeqs(ToSet(q.from)) :
        \A i \in DOMAIN s :
            IF s[i] \in Outer(q) THEN Partners(q, s[i]) \subseteq ToSet(SubSeq(s, 1, i - 1))
            ELSE \A k \in 1..i : s[k] \notin Outer(q)

OraclesJoin(q) ==
    LET order == JoinOrder(q)
        rows == FoldLeft(LAMBDA j, t :
                    IF t \in Outer(q)
                    THEN LeftJoin(q, j, t, {p \in JoinPreds(q) : p.marked = t})
                    ELSE InnerJoin(q, j, t, {}),
                    Base([q EXCEPT !.from = order]), Tail(order))
    IN  Answered({row \in rows : Meets(q, row, ToSet(q.where) \ JoinPreds(q))})

(***************************************************************************)
(* FULL OUTER JOIN: [rows, nullsafe, filter].  The two tables are "l" and  *)
(* "r"; ON equates their columns, and with nullsafe a NULL of the one also *)
(* goes with a NULL of the other; the filter asks nothing, or 1 of a side. *)
(***************************************************************************)
Pairs(q) == {[l |-> i, r |-> k] : i \in DOMAIN q.rows.l, k \in DOMAIN q.rows.r}

On(q, row) ==
    \/ IsTrue("=", Column(q, row, "l"), Column(q, row, "r"))
    \/ q.nullsafe /\ Column(q, row, "l") = Null /\ Column(q, row, "r") = Null

Matched(q) == {row \in Pairs(q) : On(q, row)}
LeftAlone(q) == {[l |-> i, r |-> 0] : i \in DOMAIN q.rows.l \ {m.l : m \in Matched(q)}}
RightAlone(q) == {[l |-> 0, r |-> k] : k \in DOMAIN q.rows.r \ {m.r : m \in Matched(q)}}

Filtered(q, rows) ==
    {row \in rows : q.filter = "none" \/ IsTrue("=", Column(q, row, q.filter), Value(1))}

OraclesFullJoin(q) ==
    Answered(SetToBag(Filtered(q, Matched(q) \cup LeftAlone(q) \cup RightAlone(q))))

(* All of the left join, then the rows of the right join whose left column *)
(* is NULL, each with the filter.                                          *)
rewrite_mariadb_full_outer_join(q) ==
    Answered(SetToBag(Filtered(q, Matched(q) \cup LeftAlone(q)))
             (+) SetToBag({row \in Filtered(q, Matched(q) \cup RightAlone(q)) :
                               Column(q, row, "l") = Null}))
=============================================================================
