-------------------------- MODULE BoundParameters --------------------------
(***************************************************************************)
(* From the values of an Execute to the parameters of the database's       *)
(* statement: bind_parameters and split_returning_into of wire.rs,         *)
(* PostgresBind::from_oracle of backend.rs and bind_value of mariadb.rs.   *)
(* The values are those of DecodeBind, the SQL text its tokens.            *)
(***************************************************************************)
EXTENDS ExecuteRequests

Upcase(name) == IF name \in Lower THEN name - 32 ELSE name

Occurrences(sql) ==
  LET upto[n \in 0..Len(sql)] == IF n = 0 THEN <<>>
                                 ELSE IF sql[n] \in Placeholders THEN Append(upto[n - 1], sql[n])
                                 ELSE upto[n - 1]
  IN  upto[Len(sql)]

(* What a sequence has, each once, in the order of its first occurrence.   *)
Added(seen, x) == IF \E i \in DOMAIN seen : seen[i] = x THEN seen ELSE Append(seen, x)

Distinct(s) ==
  LET upto[n \in 0..Len(s)] == IF n = 0 THEN <<>> ELSE Added(upto[n - 1], s[n])
  IN  upto[Len(s)]

(* The value each placeholder takes: a number names its own, a name the    *)
(* next free one at its first occurrence.                                  *)
Unnumbered == [names |-> {}, next |-> 0, out |-> <<>>]

Numbered(s, token, name) ==
  LET known == {e \in s.names : e.name = name}
      n == token - 48
  IN  IF token \in Digits
      THEN [s EXCEPT !.out = Append(@, n), !.next = IF n > @ THEN n ELSE @]
      ELSE IF known # {} THEN [s EXCEPT !.out = Append(@, (CHOOSE e \in known : TRUE).index)]
      ELSE [names |-> s.names \cup {[name |-> name, index |-> s.next + 1]}, next |-> s.next + 1,
            out |-> Append(s.out, s.next + 1)]

IndexesBy(sql, name(_)) ==
  LET tokens == Occurrences(sql)
      after[k \in 0..Len(tokens)] == IF k = 0 THEN Unnumbered
                                     ELSE Numbered(after[k - 1], tokens[k], name(tokens[k]))
  IN  after[Len(tokens)].out

\* A mutation for BindIndexes: names keep their case.
BindIndexesByCase(sql) == IndexesBy(sql, LAMBDA token : token)

BindIndexes(sql) == IndexesBy(sql, Upcase)

(* What a value is to each database.  The empty text is NULL to Oracle and *)
(* so to PostgreSQL; MariaDB's times have no offset and it no booleans.    *)
PgParameter(value) ==
  CASE value.t = "text" /\ value.v = <<>> -> [t |-> "null", v |-> Null]
    [] value.t = "double" /\ ~Finite(value.v) -> [t |-> "refused", v |-> Null]
    [] OTHER -> value

MyParameter(value) ==
  CASE value.t = "time" -> [value EXCEPT !.v.offset = <<>>]
    [] value.t = "boolean" -> [t |-> "number", v |-> Decimal(FALSE, IF value.v THEN <<1>> ELSE <<>>, 1)]
    [] value.t = "double" /\ ~Finite(value.v) -> [t |-> "refused", v |-> Null]
    [] OTHER -> value

(* PostgreSQL gets each value once and its number at every place, MariaDB  *)
(* the value again for each.  A block or a routine has none.               *)
BindParameters(sql, binds, style) ==
  LET indexes == BindIndexes(sql)
      once == Distinct(indexes)
      sent == IF style = "postgres" THEN once ELSE indexes
      parameter(i) == IF style = "postgres" THEN PgParameter(binds[i]) ELSE MyParameter(binds[i])
      place(k) == IF style = "mariadb" THEN k
                  ELSE CHOOSE j \in DOMAIN once : once[j] = indexes[k]
      values == [k \in DOMAIN sent |-> parameter(sent[k])]
  IN  IF sql[1] = PlSql THEN Got([values |-> <<>>, places |-> <<>>], 0)
      ELSE IF \E k \in DOMAIN indexes : indexes[k] \notin DOMAIN binds THEN Fail("missing")
      ELSE IF \E k \in DOMAIN values : values[k].t = "refused" THEN Fail("refused")
      ELSE Got([values |-> values, places |-> [k \in DOMAIN indexes |-> place(k)]], 0)

(* The last RETURNING outside quotes whose INTO names outputs: the text    *)
(* without them, and how many there are.                                   *)
SplitReturningInto(sql) ==
  LET at == Latest(sql, LAMBDA i : sql[i] = Returning)
      into == First(sql, at + 1, Len(sql), LAMBDA i : sql[i] = Into)
      outs == Occurrences(SubSeq(sql, into + 1, Len(sql)))
  IN  IF at = 0 \/ into = 0 \/ outs = <<>> THEN None
      ELSE [sql |-> SubSeq(sql, 1, into - 1), outs |-> Len(outs)]
=============================================================================
