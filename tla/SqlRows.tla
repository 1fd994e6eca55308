------------------------------ MODULE SqlRows ------------------------------
(* What the translated statements are about: values, comparisons, and the  *)
(* answer of a statement, as the databases at both ends define them.  A    *)
(* value is the sequence of at most one integer, the empty one being NULL; *)
(* a comparison is true, false or, when NULL takes part in it, unknown.    *)
EXTENDS Integers, SequencesExt, FiniteSetsExt

Null == <<>>
Value(n) == <<n>>

(* A table or a result is read in one order at both ends where neither     *)
(* says which: two such results are the same when they hold the same rows  *)
(* the same number of times.                                               *)
SameBag(s, t) == ToBag(s) = ToBag(t)

InSequence(S) == FoldSet(LAMBDA e, s : Append(s, e), <<>>, S)

Compare(op, a, b) ==
    CASE op = "<" -> a < b
      [] op = "<=" -> a <= b
      [] op = "=" -> a = b
      [] op = "<>" -> a # b
      [] op = ">=" -> a >= b
      [] op = ">" -> a > b

(* True: neither false nor unknown, as a WHERE clause asks it.             *)
IsTrue(op, a, b) == a # Null /\ b # Null /\ Compare(op, a[1], b[1])

(* False: what NOT makes true.                                             *)
IsFalse(op, a, b) == a # Null /\ b # Null /\ ~Compare(op, a[1], b[1])

(* The comparison read from its other side.                                *)
Flip(op) ==
    CASE op = "<" -> ">"
      [] op = "<=" -> ">="
      [] op = ">" -> "<"
      [] op = ">=" -> "<="
      [] OTHER -> op

Plus(a, b) == IF a = Null \/ b = Null THEN Null ELSE Value(a[1] + b[1])

(* The answer of a statement: the rows of a query or the tables a          *)
(* statement leaves, and whether it was refused with an error.             *)
Answered(rows) == [refused |-> FALSE, rows |-> rows]
Refused(rows) == [refused |-> TRUE, rows |-> rows]
=============================================================================
