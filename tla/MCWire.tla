------------------------------- MODULE MCWire -------------------------------
(***************************************************************************)
(* WireExchange with sample statements and values.  A value to bind is     *)
(* given in Oracle's form and by its meaning; a column by the value the    *)
(* database holds and what a client is to read of it.                      *)
(***************************************************************************)
EXTENDS WireExchange

Client(kind, completion, newer, oci, large) ==
  [kind |-> kind, completion |-> completion, newer |-> newer, oci |-> oci, large |-> large]

MCClients == {Client("thin", TRUE, FALSE, FALSE, TRUE), Client("lenient", FALSE, FALSE, FALSE, TRUE),
              Client("jdbc", TRUE, TRUE, FALSE, FALSE), Client("oci", TRUE, FALSE, TRUE, TRUE)}

MCBackends == {"postgres", "mariadb"}

\* Values to bind.
N(neg, digits, point) == Decimal(neg, digits, point)
Time(nanos, offset) == [date |-> <<2024, 8, 3>>, clock |-> <<13, 14, 15>>, nanos |-> nanos, offset |-> offset]
Day == <<120, 124, 8, 3, 14, 15, 16>>
Bind(type, size, wire, t, v, thick) ==
  [type |-> type, size |-> size, wire |-> wire, means |-> [t |-> t, v |-> v], thick |-> thick]

Inf == <<127, 240, 0, 0, 0, 0, 0, 0>>
Long == <<97, 7, 98, 99, 100, 101, 102, 103, 104, 105, 106>>

MCBindValues ==
  [ text     |-> Bind(1, 16, <<97, 98>>, "text", <<97, 98>>, TRUE),
    none     |-> Bind(1, 4, Null, "null", Null, TRUE),
    minus    |-> Bind(2, 22, <<61, 100, 102>>, "number", N(TRUE, <<1>>, 3), TRUE),
    stamp    |-> Bind(180, 11, Day \o <<7, 91, 202, 0>>, "time", Time(123456000, <<>>), TRUE),
    long     |-> Bind(96, 16, Long, "text", Long, TRUE),
    fraction |-> Bind(2, 22, <<193, 2, 51>>, "number", N(FALSE, <<1, 5>>, 1), TRUE),
    small    |-> Bind(2, 22, <<192, 8>>, "number", N(FALSE, <<7>>, -1), TRUE),
    zero     |-> Bind(2, 22, <<128>>, "number", Zero, TRUE),
    raw      |-> Bind(23, 4, <<1, 7, 255>>, "raw", <<1, 7, 255>>, TRUE),
    date     |-> Bind(12, 7, Day, "time", Time(0, <<>>), FALSE),
    zoned    |-> Bind(181, 13, Day \o <<0, 0, 0, 0, 25, 90>>, "time", Time(0, <<5, 30>>), FALSE),
    double   |-> Bind(101, 8, <<191, 248, 0, 0, 0, 0, 0, 0>>, "double", <<63, 248, 0, 0, 0, 0, 0, 0>>, TRUE),
    infinite |-> Bind(101, 8, [Inf EXCEPT ![1] = 255], "refused", Inf, TRUE) ]
MCAgain == {"text", "none", "minus", "stamp"}

\* Statements that change rows.
Change(sql, kind, changed, array, thick) ==
  [sql |-> sql, kind |-> kind, changed |-> changed, array |-> array, thick |-> thick,
   returns |-> <<193, 2>>, on |-> MCBackends]

A == 97  B == 98  CapA == 65
MCChanges ==
  [ insert |-> Change(<<Word, A>>, "insert", 1, FALSE, TRUE),
    quoted |-> Change(<<Word, Quoted, A, Comment, B, Comma, A>>, "update", 3, FALSE, TRUE),
    cases |-> Change(<<Word, A, CapA>>, "delete", 2, FALSE, FALSE),
    numbered |-> Change(<<Word, 49, Comma, 50, 49>>, "merge", 2, FALSE, TRUE),
    array |-> Change(<<Word, A, Comma, B>>, "insert", 1, TRUE, FALSE),
    ddl |-> Change(<<Word, Comment>>, "ddl", 0, FALSE, TRUE),
    block |-> Change(<<PlSql, Word>>, "other", 0, FALSE, TRUE),
    returning |-> Change(<<Word, A, Returning, Word, Into, B>>, "update", 1, FALSE, FALSE),
    returningall |-> Change(<<Word, Returning, Word, Into, B>>, "delete", 1, FALSE, FALSE) ]

\* Queries: what the database holds, what a strict thin or thick client reads, and what the others do.
Col(db, type, mod, decimals, declared, other) ==
  [db |-> db, type |-> type, mod |-> mod, decimals |-> decimals, declared |-> declared,
   binaryCharset |-> other, yearToMonth |-> other]
K(k, v) == [k |-> k, v |-> v, decimal |-> Zero]
Absent == K("null", Null)
Query(token, col, value, type, seen, otherType, otherSeen) ==
  [sql |-> <<Open, Word, token>>, col |-> col, binary |-> FALSE, rows |-> <<value, Absent, value>>,
   seen |-> [strict |-> [type |-> type, values |-> <<seen, Null, seen>>],
             other |-> [type |-> otherType, values |-> <<otherSeen, Null, otherSeen>>]],
   on |-> {col.db}, thick |-> TRUE]
Same(token, col, value, type, seen) == Query(token, col, value, type, seen, type, seen)
Pg(type, mod, declared, other) == Col("postgres", type, mod, 0, declared, other)
My(type, mod, decimals, declared, other) == Col("mariadb", type, mod, decimals, declared, other)
Num(groups, weight, sign, scale) ==
  K("numeric", [groups |-> groups, weight |-> weight, sign |-> sign, scale |-> scale])
Float == [k |-> "double", v |-> <<63, 248, 0, 0, 0, 0, 0, 0>>, decimal |-> N(FALSE, <<1, 5>>, 1)]
Span(months, days, secs, micros) ==
  K("interval", [months |-> months, days |-> days, secs |-> secs, micros |-> micros])

MCQueries ==
  [ int4 |-> Same(Comma, Pg("int4", <<>>, "no", FALSE), K("number", N(FALSE, <<1, 2>>, 4)), 2, N(FALSE, <<1, 2>>, 4)),
    int8 |-> Same(Comma, Pg("int8", <<>>, "no", FALSE), K("number", N(TRUE, <<1>>, 3)), 2, N(TRUE, <<1>>, 3)),
    numeric |-> Same(Comma, Pg("numeric", <<5, 2>>, "no", FALSE), Num(<<12, 3400>>, 0, "plus", 2), 2, N(FALSE, <<1, 2, 3, 4>>, 2)),
    minusnum |-> Same(Comma, Pg("numeric", <<>>, "no", FALSE), Num(<<700>>, -1, "minus", 2), 2, N(TRUE, <<7>>, -1)),
    hundred |-> Same(Comma, Pg("numeric", <<>>, "no", FALSE), Num(<<100>>, 1, "plus", 0), 2, N(FALSE, <<1>>, 7)),
    text |-> Same(Comma, Pg("text", <<>>, "no", FALSE), K("text", <<97, 7, 98>>), 1, <<97, 7, 98>>),
    bytea |-> Same(Comma, Pg("bytea", <<>>, "no", FALSE), K("raw", <<0, 255>>), 23, <<0, 255>>),
    bool |-> Same(Comma, Pg("bool", <<>>, "no", FALSE), K("number", N(FALSE, <<1>>, 1)), 2, N(FALSE, <<1>>, 1)),
    date |-> Same(Comma, Pg("date", <<>>, "no", FALSE), K("time", Time(0, <<>>)), 12, Time(0, <<>>)),
    timestamp |-> Same(Comma, Pg("timestamp", <<>>, "no", FALSE), K("time", Time(5000, <<>>)), 180, Time(5000, <<>>)),
    timestamptz |-> Same(Comma, Pg("timestamptz", <<>>, "no", FALSE), K("time", Time(0, <<5, 30>>)), 181, Time(0, <<5, 30>>)),
    months |-> Query(Comma, Pg("interval", <<>>, "no", TRUE), Span(-14, 0, 0, 0), 182, <<-1, 58>>, 1, <<45, 1, 2>>),
    days |-> Query(Comma, Pg("interval", <<>>, "no", FALSE), Span(0, 1, 90061, 0), 183, <<2, 61, 61, 61, 0>>,
             1, <<43, 2, 1, 1, 1, 0, 0, 0>>),
    float8 |-> Query(Comma, Pg("float8", <<>>, "double", FALSE), Float, 101, Float.v, 2, Float.decimal),
    mylong |-> Same(Comma, My("longlong", <<>>, 0, "no", FALSE), K("number", N(FALSE, <<1, 2>>, 4)), 2, N(FALSE, <<1, 2>>, 4)),
    mydecimal |-> Same(Comma, My("decimal", <<5, 2>>, 2, "no", FALSE), K("number", N(TRUE, <<7>>, -1)), 2, N(TRUE, <<7>>, -1)),
    mybinary |-> Same(Comma, My("string", <<>>, 0, "no", TRUE), K("raw", <<0, 255>>), 23, <<0, 255>>),
    mytext |-> Same(Comma, My("var_string", <<>>, 0, "no", FALSE), K("text", <<97, 98>>), 1, <<97, 98>>),
    mydate |-> Same(Comma, My("datetime", <<>>, 0, "no", FALSE), K("time", Time(0, <<>>)), 12, Time(0, <<>>)),
    mydatetime |-> Same(Comma, My("datetime", <<>>, 6, "no", FALSE), K("time", Time(5000, <<>>)), 180, Time(5000, <<>>)) ]

MCCloses == {<<>>, <<5, 300>>}
MCSizes  == {0, 1, 2, 3}
=============================================================================
