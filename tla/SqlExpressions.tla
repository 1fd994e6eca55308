--------------------------- MODULE SqlExpressions --------------------------
(* Expressions over texts: Oracle has no empty text, every one is NULL;    *)
(* PostgreSQL tells the two apart.  A text is the sequence of its          *)
(* characters, a value the sequence of at most one text.  An expression is *)
(* [op, args]: a column or literal with its value; a || b; TRIM(a), for a  *)
(* function that may leave nothing; and the conditions CASE a WHEN ...,    *)
(* DECODE(a, b, 't', 'f'), NVL2(a, 't', 'f') and LNNVL(a = b).             *)
EXTENDS SqlRows

EmptyText == Value(<<>>)
ColumnText(v) == [op |-> "column", value |-> v]
LiteralText(v) == [op |-> "literal", value |-> v]
Apply(op, args) == [op |-> op, args |-> args]

Yes(condition) == IF condition THEN Value(<<"t">>) ELSE Value(<<"f">>)
Characters(v) == IF v = Null THEN <<>> ELSE v[1]
Trimmed(v) == IF v = Null THEN Null ELSE Value(SelectSeq(v[1], LAMBDA c : c # " "))
SameText(a, b) == a # Null /\ b # Null /\ a = b

(* Each operator on the values of its arguments, as PostgreSQL has it.     *)
Computed(op, v) ==
    CASE op = "concat" -> IF v[1] = Null \/ v[2] = Null THEN Null
                          ELSE Value(v[1][1] \o v[2][1])
      [] op = "trim" -> Trimmed(v[1])
      [] op = "equal" -> Yes(SameText(v[1], v[2]))
      [] op = "same" -> Yes(v[1] = v[2])
      [] op = "given" -> Yes(v[1] # Null)
      [] op = "not true" -> Yes(~SameText(v[1], v[2]))
      [] op = "coalesce" -> IF v[1] = Null THEN EmptyText ELSE v[1]

RECURSIVE Evaluate(_)
Evaluate(e) ==
    IF e.op \in {"column", "literal"} THEN e.value
    ELSE Computed(e.op, [i \in DOMAIN e.args |-> Evaluate(e.args[i])])

(***************************************************************************)
(* Oracle: the same operators on values of which none is empty, except that*)
(* || passes over NULL.                                                    *)
(***************************************************************************)
NullIfEmpty(v) == IF v = EmptyText THEN Null ELSE v

OracleComputed(op, v) ==
    CASE op = "concat" -> Value(Characters(v[1]) \o Characters(v[2]))
      [] op = "decode" -> Computed("same", v)
      [] op = "nvl2" -> Computed("given", v)
      [] op = "lnnvl" -> Computed("not true", v)
      [] OTHER -> Computed(op, v)

RECURSIVE OraclesValue(_)
OraclesValue(e) ==
    NullIfEmpty(IF e.op \in {"column", "literal"} THEN e.value
                ELSE OracleComputed(e.op, [i \in DOMAIN e.args |-> OraclesValue(e.args[i])]))

(***************************************************************************)
(* The translation.                                                        *)
(***************************************************************************)
(* An operand of || becomes COALESCE(operand, ''), unless it is a literal. *)
wrap_coalesce_empty(e) ==
    IF e.op = "literal" /\ e.value # Null THEN e ELSE Apply("coalesce", <<e>>)

rewrite_decode(args) == Apply("same", args)
rewrite_nvl2(args) == Apply("given", args)
rewrite_lnnvl(args) == Apply("not true", args)

RECURSIVE rewrite_expr(_)
rewrite_expr(e) ==
    IF e.op \in {"column", "literal"}
    THEN IF e.op = "literal" /\ e.value = EmptyText THEN LiteralText(Null) ELSE e
    ELSE LET args == [i \in DOMAIN e.args |-> rewrite_expr(e.args[i])]
         IN  CASE e.op = "concat" -> Apply("concat", [i \in DOMAIN args |->
                                                        wrap_coalesce_empty(args[i])])
               [] e.op = "decode" -> rewrite_decode(args)
               [] e.op = "nvl2" -> rewrite_nvl2(args)
               [] e.op = "lnnvl" -> rewrite_lnnvl(args)
               [] OTHER -> Apply(e.op, args)

(* What the client reads: on the wire an empty text is a NULL.             *)
TranslatedValue(e) == NullIfEmpty(Evaluate(rewrite_expr(e)))
=============================================================================
