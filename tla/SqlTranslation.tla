--------------------------- MODULE SqlTranslation --------------------------
(* What a client asks in Oracle's SQL and what it is answered: a statement *)
(* is translated, the backend runs what it has become, and the answer is   *)
(* beside the one Oracle would have given.  The statements are those whose *)
(* translation changes what is computed and not how it is written.         *)
EXTENDS RowLimits, OuterJoins, Hierarchies, Pivots, SqlExpressions, RowWrites

CONSTANTS
    Limits, Ties, LegacyJoins, FullJoins, Walked, Levels,      \* the statements asked
    Unpivots, PivotQueries, Keeps, Expressions, Merges, MultiInserts

VARIABLES
    query,     \* the statement, one of those of the kind `kind`
    kind,      \* the constant it is of, by a name of one of its statements
    answer     \* what Oracle means by it and what the client got, once it has been run

vars == <<query, kind, answer>>

Unanswered == [given |-> FALSE]

Init ==
    /\ answer = Unanswered
    /\ \/ kind = "limit" /\ query \in Limits
       \/ kind = "ties" /\ query \in Ties
       \/ kind = "join" /\ query \in LegacyJoins
       \/ kind = "full join" /\ query \in FullJoins
       \/ kind = "walk" /\ query \in Walked
       \/ kind = "levels" /\ query \in Levels
       \/ kind = "unpivot" /\ query \in Unpivots
       \/ kind = "pivot" /\ query \in PivotQueries
       \/ kind = "keep" /\ query \in Keeps
       \/ kind = "expression" /\ query \in Expressions
       \/ kind = "merge" /\ query \in Merges
       \/ kind = "multi-insert" /\ query \in MultiInserts

(* A statement of one kind: what it should answer and what it does.        *)
Run(asked, meant, got) ==
    /\ kind = asked
    /\ ~answer.given
    /\ answer' = [given |-> TRUE, meant |-> meant, got |-> got]
    /\ UNCHANGED <<query, kind>>

RunLimit == Run("limit", OraclesFirst(query), translate_query(query))
RunTies == Run("ties", OraclesTies(query), rewrite_mariadb_fetch_with_ties(query))
RunJoin == Run("join", OraclesJoin(query), translate_legacy_outer_join(query))
RunFullJoin == Run("full join", OraclesFullJoin(query), rewrite_mariadb_full_outer_join(query))
RunWalk == Run("walk", OraclesWalk(query), rewrite_connect_by(query))
RunLevels == Run("levels", OraclesLevels(query), GenerateLevels(query))

RunPivot == Run("pivot", OraclesPivot(query), rewrite_pivot(query))

RunUnpivot ==
    Run("unpivot", OraclesUnpivot(query),
        IF query.server = "postgres" THEN rewrite_unpivot(query) ELSE rewrite_unpivot_mariadb(query))

(* Of rows that sort alike PostgreSQL puts any one first.                  *)
RunKeep ==
    kind = "keep" /\ \E i \in DOMAIN EdgeRows(query) :
        Run("keep", OraclesKeep(query), rewrite_keep_aggregates(query, i))

RunExpression ==
    Run("expression", Answered(OraclesValue(query)), Answered(TranslatedValue(query)))

RunMerge ==
    Run("merge", OraclesMerge(query),
        IF query.server = "postgres" THEN PostgresMerge(query) ELSE rewrite_merge_mariadb(query))

RunMultiInsert ==
    Run("multi-insert", OraclesMultiInsert(query),
        IF query.server = "postgres" THEN rewrite_insert_all(query)
        ELSE rewrite_insert_all_mariadb(query))

Next ==
    \/ RunLimit \/ RunTies \/ RunJoin \/ RunFullJoin \/ RunWalk \/ RunLevels
    \/ RunPivot \/ RunUnpivot \/ RunKeep \/ RunExpression \/ RunMerge \/ RunMultiInsert

Spec == Init /\ [][Next]_vars
-----------------------------------------------------------------------------
(***************************************************************************)
(* The statements whose translation means the same, and those it knows it  *)
(* does not: what is in neither is refused.                                *)
(***************************************************************************)
(* A ROWNUM condition the translation can read: numbers only, and the      *)
(* shift on ROWNUM's left-hand side.                                       *)
Readable(p) ==
    CASE p.on = "column" -> TRUE
      [] p.on = "between" -> ~p.negated /\ p.low.literal /\ p.high.literal
      [] OTHER -> p.bound.literal /\ (p.shift = 0 \/ ~p.flipped)

(* Those it misreads: ROWNUM <> n lets the first n - 1 rows through and no *)
(* more; a negative number is not zero once it is shifted; a NULL bound    *)
(* limits nothing; and what is counted or made distinct is limited after   *)
(* that.                                                                   *)
MisreadLimit(q) ==
    \/ \E i \in DOMAIN q.where :
           \/ q.where[i].on = "rownum" /\ q.where[i].op = "<>"
           \/ q.where[i].on = "rownum" /\ q.where[i].shift < 0 /\ q.where[i].bound.literal
                  /\ q.where[i].bound.value[1] < 0
           \/ q.where[i].on = "rownum" /\ q.where[i].bound.value = Null
           \/ q.where[i].on = "between" /\ q.where[i].high.value = Null
    \/ q.shape = "count" /\ ~q.ordered
    \/ q.shape = "distinct"

(* Every table with a mark comes after those its conditions join it to;    *)
(* of two tables, on the text, the first may be the one with the mark, if  *)
(* no condition is about it alone.                                         *)
InOrder(q) ==
    \/ \A i \in DOMAIN q.from : q.from[i] \in Outer(q) =>
           i > 1 /\ Partners(q, q.from[i]) \subseteq ToSet(SubSeq(q.from, 1, i - 1))
    \/ /\ Len(q.from) = 2 /\ ~q.tree /\ Outer(q) = {q.from[1]}
       /\ \A p \in JoinPreds(q) : Cardinality(p.tables) = 2

(* The walk is told its turns by a column that is never NULL on it, or by  *)
(* the one that PRIOR does not step through; WHERE asks for the leaves     *)
(* alone or not at all (which rows of a loop are leaves is not said here); *)
(* and siblings have keys of their own that sort as their text does.       *)
Loops(q) == \E p \in Walks(q) : ~Straight(p)

SortAsText(q) ==
    \A a, b \in Ids(q) : a # b =>
        (q.rows[a].key < q.rows[b].key <=> AsText(q.rows[a].key) < AsText(q.rows[b].key))
        /\ q.rows[a].key # q.rows[b].key

WalksAlike(q) ==
    /\ q.first = "mgr" => \A p \in Walks(q) : \A i \in DOMAIN p :
           Len(p) > 1 => q.rows[p[i]].mgr # Null
    /\ Loops(q) => q.nocycle /\ q.first = "id" /\ q.leaf = "none"
    /\ q.leaf = "none" \/ (q.leaf = "1" /\ q.without = 0)
    /\ q.siblings => SortAsText(q)

(* The NULLs stay in when nothing follows the clause, or an OR does; and   *)
(* SELECT * has the columns that were turned, on MariaDB not even the id.  *)
UnpivotsAlike(q) ==
    /\ ~q.star
    /\ q.include \/ (q.tail # "either" /\ (q.tail = "nothing" => q.server = "mariadb"))

(* The value of one row is that of the aggregate over it.                  *)
KeepsAlike(q) == q.aggregate \in {"sum", "min"} /\ Len(EdgeRows(q)) = 1

(* No condition is asked of a text that has come out empty.                *)
AsksOfEmpty(e) ==
    e.op \in {"equal", "decode", "nvl2", "lnnvl"} /\
    \E i \in DOMAIN e.args : Evaluate(rewrite_expr(e.args[i])) = EmptyText

(* On MariaDB a merge of both branches is an upsert on the key, and one    *)
(* that deletes sees the new value twice and the rows it has inserted.     *)
MergesAlike(q) ==
    \/ q.server = "postgres"
    \/ /\ ~q.only /\ ~OraclesMerge(q).refused
       /\ q.delete => q.update = "source" /\ ~q.where /\ q.insert = "none"
       /\ (q.update # "none" /\ q.insert # "none") =>
              q.on = "k" /\ q.update = "source" /\ q.insert = "source" /\ ~q.where

(* FIRST is not exclusive, ELSE is not taken where a condition is unknown, *)
(* a clause without VALUES takes those after it along, and on MariaDB a    *)
(* source that is a target grows between the clauses.                      *)
InsertsAlike(q) ==
    /\ \A i \in DOMAIN q.clauses : q.clauses[i].values
    /\ q.first => \A i \in DOMAIN q.source :
           Cardinality({w \in Conditions(q.clauses) : Holds(w, q.source[i])}) < 2
    /\ (\E i \in DOMAIN q.clauses : q.clauses[i].when = "else") => Null \notin ToSet(q.source)
    /\ (q.server = "mariadb" /\ q.own) =>
           \A i \in DOMAIN q.clauses : q.clauses[i].into = 1 => i = Len(q.clauses)
-----------------------------------------------------------------------------
SameRows == answer.got.refused = answer.meant.refused /\ SameBag(answer.got.rows, answer.meant.rows)

(* A query answers with Oracle's rows or is refused.  Outside what its     *)
(* translation is known to misread, a ROWNUM query that can be read gets   *)
(* the rows Oracle numbers first and any other is refused; WITH TIES gets  *)
(* every row Oracle gives and, without ties, no other; joins whose tables  *)
(* are in order get Oracle's combinations, padded ones included; and a     *)
(* hierarchy gets each row at each level Oracle walks to it at, in         *)
(* Oracle's order where siblings are sorted.  An UNPIVOT gets Oracle's     *)
(* rows, a PIVOT of one aggregate its columns, KEEP the value of the one   *)
(* row it keeps, and an expression its value, an empty text being NULL.    *)
RowsAsOracles ==
    answer.given =>
        CASE kind = "limit" /\ ~MisreadLimit(query) ->
                 /\ ~answer.got.refused => SameRows
                 /\ answer.got.refused => \E i \in DOMAIN query.where : ~Readable(query.where[i])
          [] kind = "ties" ->
                 /\ IsPrefix(answer.meant.rows, answer.got.rows)
                 /\ IsInjective(query.rows) => answer.got = answer.meant
          [] kind = "join" /\ InOrder(query) -> answer.got = answer.meant
          [] kind = "full join" /\ ~query.nullsafe -> answer.got = answer.meant
          [] kind = "walk" /\ WalksAlike(query) ->
                 SameRows /\ (query.siblings => answer.got = answer.meant)
          [] kind = "unpivot" /\ UnpivotsAlike(query) -> answer.got = answer.meant
          [] kind = "pivot" /\ query.star /\ ~query.second ->
                 answer.got.refused \/ answer.got = answer.meant
          [] kind = "keep" /\ KeepsAlike(query) -> answer.got = answer.meant
          [] kind = "expression" /\ ~AsksOfEmpty(query) -> answer.got = answer.meant
          [] kind = "levels" /\ ~query.flipped -> answer.got = answer.meant
          [] OTHER -> TRUE

(* A statement that writes several rows leaves the tables as Oracle would, *)
(* or is refused and leaves them as they were; outside what its            *)
(* translation is known to do otherwise, this holds of each branch of a    *)
(* MERGE on either backend, and of each clause of a multi-table insert.    *)
WritesAsOracles ==
    answer.given =>
        CASE kind = "merge" /\ MergesAlike(query) ->
                 IF answer.got.refused THEN answer.got.rows = query.table
                 ELSE answer.got = answer.meant
          [] kind = "multi-insert" /\ InsertsAlike(query) ->
                 /\ answer.got.refused = answer.meant.refused
                 /\ \A t \in 1..2 : SameBag(answer.got.rows[t], answer.meant.rows[t])
          [] OTHER -> TRUE
=============================================================================
