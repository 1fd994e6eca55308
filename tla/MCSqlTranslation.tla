------------------------- MODULE MCSqlTranslation --------------------------
(* An instance of SqlTranslation for TLC: tables of up to three rows, and  *)
(* each shape of statement over them.                                      *)
EXTENDS SqlTranslation

Few == {Null, Value(1), Value(2)}

(***************************************************************************)
(* Row limits: one ROWNUM condition of every kind, or two, beside one on   *)
(* the column; numbers from below zero to beyond the table.                *)
(***************************************************************************)
Numbers == {Literal(n) : n \in -1..3}
Bounds == Numbers \cup {Bind(v) : v \in {Null, Value(0), Value(2)}}
RownumConditions ==
    {[Rownum(op, b) EXCEPT !.flipped = f, !.shift = s] :
        op \in {"<", "<=", "=", "<>", ">=", ">"}, b \in Bounds, f \in BOOLEAN, s \in {-1, 0, 1}}
    \cup {RownumBetween(l, h, n) : l \in Bounds, h \in Bounds, n \in BOOLEAN}
Wheres ==
    {<<p>> : p \in RownumConditions} \cup {<<ColumnIs(">", 1), p>> : p \in RownumConditions}
    \cup {<<Rownum("<=", a), Rownum(op, b)>> : a \in Bounds, op \in {"<", ">"}, b \in Bounds}

MCLimits ==
    [rows : {<<2, 2, 1>>, <<1, 3, 2>>}, where : Wheres, shape : {"rows"}, ordered : {FALSE}]
    \cup [rows : {<<2, 1, 2>>, <<2, 2, 1>>}, where : {<<Rownum("<=", Literal(n))>> : n \in 0..3},
          shape : {"rows", "count", "distinct"}, ordered : BOOLEAN]

MCTies == [rows : UNION {[1..n -> 1..3] : n \in 0..4}, most : 1..3]

(***************************************************************************)
(* Outer joins: three tables in every order, b and c joined to a or c to b,*)
(* or two tables with the mark on either.                                  *)
(***************************************************************************)
Tables == {"a", "b", "c"}
Contents == {[a |-> <<Value(1), Value(2)>>, b |-> <<Value(2), Null>>, c |-> <<Value(2), Value(1)>>],
             [a |-> <<Value(1), Null>>, b |-> <<Value(1), Value(1)>>, c |-> <<Null>>],
             [a |-> <<Value(1)>>, b |-> <<>>, c |-> <<Value(1), Value(2)>>]}
Trees ==
    {<<Condition({"a", "b"}, "b"), Condition({"a", "c"}, "c")>>,
     <<Condition({"a", "b"}, "b"), Condition({"b", "c"}, "c")>>,
     <<Condition({"a", "b"}, "b"), Condition({"a", "c"}, "none")>>,
     <<Condition({"a", "b"}, "b"), Condition({"b", "c"}, "b")>>}
Extras == {<<>>, <<Condition({"b"}, "b")>>, <<Condition({"b"}, "none")>>,
           <<Condition({"c"}, "none")>>}

MCLegacyJoins ==
    {[from |-> f, rows |-> r, where |-> t \o e, tree |-> x] :
        f \in SetToSeqs(Tables), r \in Contents, t \in Trees, e \in Extras, x \in BOOLEAN}
    \cup {[from |-> f, rows |-> r, where |-> <<Condition({"a", "b"}, "b")>> \o e, tree |-> x] :
        f \in SetToSeqs({"a", "b"}), r \in Contents,
        e \in {<<>>, <<Condition({"b"}, "b")>>, <<Condition({"a"}, "none")>>}, x \in BOOLEAN}

Columns == UNION {[1..n -> Few] : n \in 0..2}
MCFullJoins ==
    [rows : {[l |-> l, r |-> r] : l \in Columns, r \in Columns}, nullsafe : BOOLEAN,
     filter : {"none", "l", "r"}]

(***************************************************************************)
(* Hierarchies: every table of three rows, loops among them.               *)
(***************************************************************************)
Hierarchy(mgr, keys) == [i \in 1..3 |-> [mgr |-> mgr[i], key |-> keys[i]]]
MCWalked ==
    [rows : {Hierarchy(m, <<3, 2, 9>>) : m \in [1..3 -> {Null, Value(1), Value(2), Value(3)}]},
     down : BOOLEAN, first : {"id", "mgr"}, nocycle : BOOLEAN,
     start : {"all", "roots", "one"}, leaf : {"none", "0", "1"}, without : {0, 2}, siblings : {FALSE}]
    \cup
    [rows : {Hierarchy(m, k) : m \in [1..3 -> {Null, Value(1), Value(2)}],
                               k \in {<<3, 2, 9>>, <<1, 10, 9>>, <<1, 2, 2>>}},
     down : {TRUE}, first : {"id"}, nocycle : {TRUE}, start : {"all", "roots"}, leaf : {"none"},
     without : {0}, siblings : {TRUE}]

MCLevels == [op : {"<", "<="}, most : 0..4, flipped : BOOLEAN]

(***************************************************************************)
(* Pivots: two columns turned, two groups, values of which some are NULL.  *)
(***************************************************************************)
MCUnpivots ==
    [rows : {<<[id |-> 1, c |-> a], [id |-> 2, c |-> b]>> :
                a \in [1..2 -> {Null, Value(1)}], b \in [1..2 -> {Null, Value(2)}]} \cup {<<>>},
     server : {"postgres", "mariadb"}, include : BOOLEAN,
     tail : {"nothing", "order", "where", "either"}, star : BOOLEAN]

PivotRows == [g : {1, 2}, f : Few, m : {Null, Value(3)}]
MCPivotQueries ==
    [rows : UNION {[1..n -> {[r EXCEPT !.g = Value(r.g)] : r \in PivotRows}] : n \in 0..2},
     items : {<<Value(1), Value(2)>>}, aggregate : {"sum", "count", "rows"},
     second : BOOLEAN, star : BOOLEAN]

MCKeeps ==
    [rows : UNION {[1..n -> [g : 1..2, m : {Null, Value(0), Value(3)}]] : n \in 1..3},
     last : BOOLEAN, aggregate : {"sum", "min", "count"}]

(***************************************************************************)
(* Expressions: conditions over ||, TRIM, columns and literals.            *)
(***************************************************************************)
Leaves ==
    {ColumnText(v) : v \in {Null, Value(<<" ">>), Value(<<"a">>)}}
    \cup {LiteralText(v) : v \in {EmptyText, Value(<<"a">>)}}
Simple == Leaves \cup {Apply("trim", <<a>>) : a \in Leaves}
Texts == Simple \cup {Apply("concat", <<a, b>>) : a \in Simple, b \in Simple}
MCExpressions ==
    Texts \cup {Apply("concat", <<a, b>>) : a \in Texts, b \in Leaves}
    \cup {Apply(op, <<a, b>>) : op \in {"equal", "decode", "lnnvl"}, a \in Texts, b \in Simple}
    \cup {Apply("nvl2", <<a>>) : a \in Texts}

(***************************************************************************)
(* Writes.                                                                 *)
(***************************************************************************)
Row(k, w, v) == [k |-> k, w |-> w, v |-> v]
Targets == {{}, {Row(1, 1, Value(1)), Row(2, 2, Null)}, {Row(1, 2, Value(0)), Row(2, 2, Value(1))},
            {Row(1, 1, Null), Row(2, 1, Value(2)), Row(4, 3, Value(1))}}
SourceRows ==
    {<<Row(1, 1, Value(1))>>, <<Row(2, 1, Value(0)), Row(3, 3, Value(1))>>,
     <<Row(1, 2, Null), Row(3, 1, Value(2))>>, <<Row(2, 2, Value(1)), Row(2, 2, Value(2))>>,
     <<Row(1, 3, Value(0)), Row(2, 1, Value(1)), Row(5, 2, Value(1))>>, <<>>}

MCMerges ==
    {q \in [server : {"postgres", "mariadb"}, table : Targets, source : SourceRows, on : {"k", "w"},
            update : {"none", "source", "sum"}, where : BOOLEAN, delete : BOOLEAN,
            insert : {"none", "source", "null"}, only : BOOLEAN] :
        /\ q.update = "none" => ~q.where /\ ~q.delete /\ q.insert # "none"
        /\ q.insert = "none" => ~q.only}

Clause(when, into, values) == [when |-> when, into |-> into, values |-> values]
ClauseLists ==
    {<<Clause("always", 1, TRUE), Clause("always", 2, v), Clause("always", 1, TRUE)>> : v \in BOOLEAN}
    \cup {<<Clause("always", 2, TRUE), Clause("always", 1, v)>> : v \in BOOLEAN}
    \cup {<<Clause("is 1", i, TRUE), Clause("is positive", 2, TRUE), Clause("else", k, v)>> :
            i \in 1..2, k \in 1..2, v \in BOOLEAN}
    \cup {<<Clause("is 1", 1, v), Clause("is 1", 2, TRUE), Clause("else", 2, TRUE)>> : v \in BOOLEAN}

MCMultiInserts ==
    {q \in [server : {"postgres", "mariadb"}, first : BOOLEAN, clauses : ClauseLists,
            source : UNION {[1..n -> {Null, Value(0), Value(1), Value(2)}] : n \in 0..2}, own : BOOLEAN] :
        q.first => \A i \in DOMAIN q.clauses : q.clauses[i].when # "always"}
=============================================================================
