----------------------------- MODULE RowLimits -----------------------------
(* Queries that keep the first rows: ROWNUM conditions, which the          *)
(* translation to PostgreSQL takes out of WHERE and makes a LIMIT of, and  *)
(* FETCH FIRST n ROWS WITH TIES, which the one to MariaDB makes a rank of. *)
(* A table is the sequence of its one column in the order it is read; a    *)
(* query is                                                                *)
(*   [rows, where, shape \in {"rows", "count", "distinct"}, ordered]       *)
(* and each conjunct of its WHERE is a comparison of the column with a     *)
(* number, of ROWNUM (plus or minus a number) with a bound, on either      *)
(* side, or ROWNUM [NOT] BETWEEN two bounds.                               *)
EXTENDS SqlRows, TLC

(* A bound: a number in the text, or a bind or any other expression, known *)
(* only to the database.                                                   *)
Literal(n) == [literal |-> TRUE, value |-> Value(n)]
Bind(v) == [literal |-> FALSE, value |-> v]

(* The column compared with a number; ROWNUM + shift op bound, or with     *)
(* flipped bound op ROWNUM + shift; ROWNUM BETWEEN low AND high.           *)
ColumnIs(op, n) == [on |-> "column", op |-> op, bound |-> Literal(n)]
Rownum(op, bound) == [on |-> "rownum", op |-> op, flipped |-> FALSE, shift |-> 0, bound |-> bound]
RownumBetween(low, high, negated) ==
    [on |-> "between", low |-> low, high |-> high, negated |-> negated]

(***************************************************************************)
(* What a condition on ROWNUM becomes.                                     *)
(***************************************************************************)
Limit(bound) == [means |-> "limit", bound |-> bound]
EmptyResult == [means |-> "empty"]
AllRows == [means |-> "all"]
NotUnderstood == [means |-> "nothing"]

(* A negative number reads as zero.                                        *)
const_u64(bound) == Max({bound.value[1], 0})

Between(p) ==
    IF p.negated \/ ~p.low.literal THEN NotUnderstood
    ELSE IF const_u64(p.low) > 1 \/ (p.high.literal /\ const_u64(p.high) < 1) THEN EmptyResult
    ELSE Limit(p.high)

(* What the shift leaves of the bound: numbers only, and no less than zero.*)
Shifted(p) ==
    IF p.shift = 0 THEN p.bound
    ELSE Literal(Max({const_u64(p.bound) - p.shift, 0}))

OfDynamic(op, bound) ==
    CASE op = "<=" -> Limit(bound)
      [] op = "<" -> Limit(Bind(Plus(bound.value, Value(-1))))
      [] OTHER -> NotUnderstood

\* A mutation for OfConstant: ROWNUM < n keeps n rows.
OfConstantOneTooMany(op, n) ==
    CASE op \in {"<=", "<"} -> IF n < 1 THEN EmptyResult ELSE Limit(Literal(n))
      [] op = "=" -> IF n = 1 THEN Limit(Literal(1)) ELSE EmptyResult
      [] op \in {"<>", ">=", ">"} -> IF n <= 1 THEN AllRows ELSE EmptyResult

OfConstant(op, n) ==
    CASE op = "<=" -> IF n < 1 THEN EmptyResult ELSE Limit(Literal(n))
      [] op = "<" -> IF n <= 1 THEN EmptyResult ELSE Limit(Literal(n - 1))
      [] op = "=" -> IF n = 1 THEN Limit(Literal(1)) ELSE EmptyResult
      [] op = "<>" -> IF n = 1 THEN EmptyResult ELSE AllRows
      [] op = ">=" -> IF n <= 1 THEN AllRows ELSE EmptyResult
      [] op = ">" -> IF n < 1 THEN AllRows ELSE EmptyResult

Comparison(p) ==
    IF p.shift # 0 /\ (p.flipped \/ ~p.bound.literal) THEN NotUnderstood
    ELSE LET op == IF p.flipped THEN Flip(p.op) ELSE p.op
         IN  IF Shifted(p).literal THEN OfConstant(op, const_u64(Shifted(p)))
             ELSE OfDynamic(op, Shifted(p))

rownum_effect(p) ==
    CASE p.on = "column" -> NotUnderstood
      [] p.on = "between" -> Between(p)
      [] OTHER -> Comparison(p)

(***************************************************************************)
(* The WHERE clause without them, and the limit that stands for them.      *)
(***************************************************************************)
\* Of two numbers the smaller; otherwise the database's LEAST, which passes over a NULL.
least_expr(a, b) ==
    IF a.literal /\ b.literal
    THEN IF const_u64(b) < const_u64(a) THEN b ELSE a
    ELSE Bind(IF a.value = Null THEN b.value
              ELSE IF b.value = Null THEN a.value
              ELSE Value(Min({a.value[1], b.value[1]})))

NoLimit == Bind(Null)

strip_rownum_predicate(where) ==
    LET effects == [i \in DOMAIN where |-> rownum_effect(where[i])]
        limits == SelectSeq(effects, LAMBDA e : e.means = "limit")
    IN  [kept |-> SelectSeq(where, LAMBDA p : rownum_effect(p).means = "nothing"),
         limited |-> limits # <<>> \/ \E i \in DOMAIN effects : effects[i].means = "empty",
         limit |-> IF \E i \in DOMAIN effects : effects[i].means = "empty" THEN Literal(0)
                   ELSE IF limits = <<>> THEN NoLimit
                   ELSE FoldLeft(LAMBDA kept, e : least_expr(kept, e.bound),
                                 limits[1].bound, Tail(limits))]

(* What the shape of a query makes of the rows it has read.                *)
Shaped(shape, rows) ==
    CASE shape = "rows" -> rows
      [] shape = "count" -> <<Len(rows)>>
      [] shape = "distinct" -> InSequence(ToSet(rows))

(* LIMIT n at the database: all rows when n is NULL.                       *)
FirstRows(limit, rows) ==
    IF limit.value = Null THEN rows ELSE SubSeq(rows, 1, Min({limit.value[1], Len(rows)}))

Passing(p, row) == IsTrue(p.op, Value(row), p.bound.value)

(* The translated query: without ORDER BY the limit is the last thing      *)
(* done; with one it is taken inside a derived table of all columns, whose *)
(* rows the projection is then made of.  A ROWNUM left in WHERE is a       *)
(* window function there, which PostgreSQL refuses, as it does a negative  *)
(* limit.                                                                  *)
translate_query(q) ==
    LET stripped == strip_rownum_predicate(q.where)
        read == SelectSeq(q.rows, LAMBDA row :
                    \A i \in DOMAIN stripped.kept : Passing(stripped.kept[i], row))
        distinct == IF q.shape = "distinct" THEN InSequence(ToSet(read)) ELSE read
    IN  IF \/ \E i \in DOMAIN stripped.kept : stripped.kept[i].on # "column"
           \/ stripped.limit.value # Null /\ stripped.limit.value[1] < 0
        THEN Refused(<<>>)
        ELSE IF ~q.ordered \/ ~stripped.limited
        THEN Answered(FirstRows(stripped.limit, Shaped(q.shape, read)))
        ELSE Answered(Shaped(IF q.shape = "distinct" THEN "rows" ELSE q.shape,
                             FirstRows(stripped.limit, distinct)))

(***************************************************************************)
(* Oracle: the rows are numbered as they pass the conditions, before they  *)
(* are counted, made distinct or sorted.                                   *)
(***************************************************************************)
Passes(p, row, number) ==
    LET rownum == Value(number + (IF p.on = "rownum" THEN p.shift ELSE 0))
    IN  CASE p.on = "column" -> Passing(p, row)
          [] p.on = "rownum" -> IF p.flipped THEN IsTrue(p.op, p.bound.value, rownum)
                                ELSE IsTrue(p.op, rownum, p.bound.value)
          [] OTHER -> LET low == p.low.value high == p.high.value
                      IN  IF p.negated
                          THEN IsFalse(">=", rownum, low) \/ IsFalse("<=", rownum, high)
                          ELSE IsTrue(">=", rownum, low) /\ IsTrue("<=", rownum, high)

OraclesFirst(q) ==
    Answered(Shaped(q.shape,
        FoldLeft(LAMBDA taken, row :
                     IF \A i \in DOMAIN q.where : Passes(q.where[i], row, Len(taken) + 1)
                     THEN Append(taken, row) ELSE taken,
                 <<>>, q.rows)))

(***************************************************************************)
(* WITH TIES: [rows, most].  Oracle's: the first rows and those that sort  *)
(* with the last of them.  MariaDB's: every row whose dense rank is among  *)
(* the first.                                                              *)
(***************************************************************************)
Sorted(rows) == SortSeq(rows, <)
Before(rows, row) == {i \in DOMAIN rows : rows[i] < row}

OraclesTies(q) ==
    Answered(SelectSeq(Sorted(q.rows), LAMBDA row : Cardinality(Before(q.rows, row)) < q.most))

DenseRank(rows, row) == 1 + Cardinality({rows[i] : i \in Before(rows, row)})

rewrite_mariadb_fetch_with_ties(q) ==
    Answered(SelectSeq(Sorted(q.rows), LAMBDA row : DenseRank(q.rows, row) <= q.most))
=============================================================================
