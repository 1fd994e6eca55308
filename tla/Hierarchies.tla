---------------------------- MODULE Hierarchies ----------------------------
(* CONNECT BY queries, which the translation makes a recursive query of.   *)
(* A table maps each row's id, from 1 on, to [mgr, key]: the id of the row *)
(* above it or NULL, and what siblings may be sorted by.  A query is       *)
(*   [rows, down, first, nocycle, start, leaf, without, siblings]:         *)
(* whether the condition leads from a row to those under it or to the one  *)
(* above it, which column it names first, whether it says NOCYCLE, where   *)
(* it starts ("all", "roots" or "one", the row 1), what WHERE asks of      *)
(* CONNECT_BY_ISLEAF ("none", "1" or "0") and which id it leaves out (0 for*)
(* none), and whether the siblings are sorted.                             *)
EXTENDS SqlRows, TLC

Ids(q) == DOMAIN q.rows
Cell(q, id, column) == IF column = "id" THEN Value(id) ELSE q.rows[id].mgr

(* rewrite_prior: the PRIOR column is the row's one step back, the other   *)
(* that of the row itself.                                                 *)
Connects(q, prior, id) ==
    IF q.down THEN IsTrue("=", Value(prior), Cell(q, id, "mgr"))
    ELSE IsTrue("=", Cell(q, prior, "mgr"), Value(id))

Starts(q, id) ==
    CASE q.start = "all" -> TRUE
      [] q.start = "roots" -> q.rows[id].mgr = Null
      [] q.start = "one" -> id = 1

Walks(q) ==
    {path \in UNION {[1..n -> Ids(q)] : n \in 1..Cardinality(Ids(q)) + 1} :
        /\ Starts(q, path[1])
        /\ \A i \in 2..Len(path) : Connects(q, path[i - 1], path[i])}

IsLeaf(q, id) == \A c \in Ids(q) : ~Connects(q, id, c)
(* A walk sorts by what its rows sort by, and one before all that go on    *)
(* from it.                                                                *)
SortsBefore(rank, a, b) ==
    \/ IsStrictPrefix([i \in DOMAIN a |-> rank[a[i]]], [i \in DOMAIN b |-> rank[b[i]]])
    \/ \E i \in DOMAIN a \cap DOMAIN b :
           /\ \A k \in 1..i - 1 : rank[a[k]] = rank[b[k]]
           /\ rank[a[i]] < rank[b[i]]

Nodes(paths) == [i \in DOMAIN paths |-> <<Last(paths[i]), Len(paths[i])>>]

(* The rows walked to with their levels, sorted if the siblings are.       *)
Listed(q, paths, rank) ==
    Answered(Nodes(IF q.siblings
                   THEN SortSeq(InSequence(paths), LAMBDA a, b : SortsBefore(rank, a, b))
                   ELSE InSequence(paths)))

(***************************************************************************)
(* Oracle: a walk that comes back to a row on it is an error, and with     *)
(* NOCYCLE goes no further; WHERE is asked of the rows walked to; siblings *)
(* of one key are in some order, each followed by the rows under it.       *)
(***************************************************************************)
Straight(path) == \A i, k \in DOMAIN path : i # k => path[i] # path[k]

Wanted(q, id) ==
    /\ q.leaf = "none" \/ (q.leaf = "1" <=> IsLeaf(q, id))
    /\ id # q.without

OraclesWalk(q) ==
    IF ~q.nocycle /\ \E p \in Walks(q) : ~Straight(p) THEN Refused(<<>>)
    ELSE Listed(q, {p \in Walks(q) : Straight(p) /\ Wanted(q, Last(p))},
                [id \in Ids(q) |-> q.rows[id].key * (Cardinality(Ids(q)) + 1) + id])

(***************************************************************************)
(* The translation: the path carries the values of the column named first, *)
(* and a row is walked to when its value is not among them.                *)
(***************************************************************************)
not_cycle(q, path) ==
    \A i \in 2..Len(path) :
        /\ Cell(q, path[i], q.first) # Null
        /\ \A k \in 1..i - 1 :
               Cell(q, path[k], q.first) \notin {Null, Cell(q, path[i], q.first)}

(* A key as text: two digits sort by the first.                            *)
AsText(n) == IF n < 10 THEN 10 * n ELSE n

Kept(q, id) == IF q.leaf = "none" THEN id # q.without ELSE IsLeaf(q, id)

rewrite_connect_by(q) ==
    Listed(q, {p \in Walks(q) : not_cycle(q, p) /\ Kept(q, Last(p))},
           [id \in Ids(q) |-> AsText(q.rows[id].key)])

(***************************************************************************)
(* SELECT LEVEL FROM dual CONNECT BY LEVEL op n: [op, most, flipped].      *)
(***************************************************************************)
OraclesLevels(q) ==
    Answered(1..Max({1, CASE q.op = "<=" -> q.most [] q.op = "<" -> q.most - 1}))

(* What follows the word LEVEL is the bound, and 0 when the bound is       *)
(* before it, on the other side of the comparison (which is then >= or >). *)
GenerateLevels(q) ==
    LET n == IF q.flipped THEN 0 ELSE q.most
    IN  Answered(1..Max({1, IF q.op = "<=" /\ ~q.flipped THEN n ELSE n - 1}))
=============================================================================
