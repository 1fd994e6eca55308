------------------------------- MODULE Pivots ------------------------------
(* Queries that turn columns into rows and rows into columns, and the      *)
(* aggregates of the first or last rows of a group.                        *)
(* UNPIVOT: [rows, server, include, tail, star], each row [id, c], c the   *)
(* sequence of the columns turned into rows; whether NULLs are included;   *)
(* what follows the clause ("nothing", "order", WHERE name = 1: "where",   *)
(* or WHERE name = 1 OR name = 2: "either"); and whether the query selects *)
(* every column or names the id, the name and the value.                   *)
EXTENDS SqlRows

Turned(rows) ==
    {[id |-> rows[i].id, name |-> n, c |-> rows[i].c] : i \in DOMAIN rows, n \in 1..2}
TurnedValue(t) == t.c[t.name]

Asked(q, t) ==
    CASE q.tail = "where" -> t.name = 1
      [] q.tail = "either" -> t.name \in {1, 2}
      [] OTHER -> TRUE

Named(t) == <<Value(t.id), Value(t.name), TurnedValue(t)>>

OraclesUnpivot(q) ==
    Answered({Named(t) : t \in {u \in Turned(q.rows) :
                                    (q.include \/ TurnedValue(u) # Null) /\ Asked(q, u)}})

(* The NULLs are left out by a condition put before the first of WHERE's,  *)
(* from which an OR then parts the second.                                 *)
NotNullAnd(q, t) ==
    IF q.tail = "either" THEN (TurnedValue(t) # Null /\ t.name = 1) \/ t.name = 2
    ELSE TurnedValue(t) # Null /\ Asked(q, t)

(* PostgreSQL: every column of the table is there beside the two; where    *)
(* nothing follows the clause there is no condition.                       *)
rewrite_unpivot(q) ==
    Answered({IF q.star THEN <<Value(t.id)>> \o t.c \o <<Value(t.name), TurnedValue(t)>> ELSE Named(t) :
        t \in {u \in Turned(q.rows) :
                  IF q.include \/ q.tail = "nothing" THEN Asked(q, u) ELSE NotNullAnd(q, u)}})

(* MariaDB: a SELECT for each column, of the columns the query names.      *)
rewrite_unpivot_mariadb(q) ==
    Answered({IF q.star THEN Tail(Named(t)) ELSE Named(t) :
        t \in {u \in Turned(q.rows) : IF q.include THEN Asked(q, u) ELSE NotNullAnd(q, u)}})

(***************************************************************************)
(* PIVOT: [rows, items, aggregate, second, star], each row [g, f, m]: the  *)
(* group, what is turned into columns and what is aggregated; the values   *)
(* of f that become columns, the aggregate ("sum", "count", "rows" for     *)
(* COUNT( * )), whether a second one follows, and whether the query selects*)
(* every column or the group and the first of them.                        *)
(***************************************************************************)
Aggregate(how, values) ==
    LET known == SelectSeq(values, LAMBDA v : v # Null)
    IN  CASE how = "rows" -> Value(Len(values))
          [] how = "count" -> Value(Len(known))
          [] how = "sum" -> FoldLeft(LAMBDA s, v : IF s = Null THEN v ELSE Plus(s, v), Null, known)
          [] how = "min" -> IF known = <<>> THEN Null ELSE Value(Min({v[1] : v \in ToSet(known)}))

Measures(rows) == [i \in DOMAIN rows |-> rows[i].m]
Of(q, g, item) ==
    Measures(SelectSeq(q.rows, LAMBDA r : r.g = g /\ IsTrue("=", r.f, item)))

Groups(q) == {q.rows[i].g : i \in DOMAIN q.rows}
PivotColumns(q, g) == [i \in DOMAIN q.items |-> Aggregate(q.aggregate, Of(q, g, q.items[i]))]

OraclesPivot(q) ==
    Answered({<<g>> \o LET columns == IF q.second
                                      THEN FlattenSeq([i \in DOMAIN q.items |->
                                               <<PivotColumns(q, g)[i],
                                                 Aggregate("count", Of(q, g, q.items[i]))>>])
                                      ELSE PivotColumns(q, g)
                       IN  IF q.star THEN columns ELSE <<columns[1]>> : g \in Groups(q)})

(* One aggregate of the measure where f has the item's value, for each     *)
(* item, whatever the query selects; COUNT( * ) has no measure to take.    *)
rewrite_pivot(q) ==
    IF q.aggregate = "rows" THEN Refused({})
    ELSE Answered({<<g>> \o PivotColumns(q, g) : g \in Groups(q)})

(***************************************************************************)
(* agg(m) KEEP (DENSE_RANK FIRST | LAST ORDER BY g): [rows, last,          *)
(* aggregate].                                                             *)
(***************************************************************************)
EdgeRows(q) ==
    LET edge == (IF q.last THEN Max(Groups(q)) ELSE Min(Groups(q)))
    IN  SelectSeq(q.rows, LAMBDA r : r.g = edge)

OraclesKeep(q) == Answered(<<Aggregate(q.aggregate, Measures(EdgeRows(q)))>>)

(* The first of an array in that order: of several rows that sort first,   *)
(* any one.                                                                *)
rewrite_keep_aggregates(q, i) == Answered(<<EdgeRows(q)[i].m>>)
=============================================================================
