----------------------------- MODULE SaveLists -----------------------------
(***************************************************************************)
(* The savepoints of a transaction, oldest first: each has a name of its   *)
(* own and the number of changes made before it.                           *)
(***************************************************************************)
EXTENDS Naturals, SequencesExt

Named(saves, n) == \E i \in DOMAIN saves : saves[i].name = n

Position(saves, n) == CHOOSE i \in DOMAIN saves : saves[i].name = n

Others(saves, n) ==
  IF Named(saves, n) THEN RemoveAt(saves, Position(saves, n)) ELSE saves

\* Naming a savepoint again moves it.
Saved(saves, n, mark) == Append(Others(saves, n), [name |-> n, mark |-> mark])

\* The savepoints of a transaction with len changes: no two have one name, and
\* each points no further than the next.
Ordered(saves, len) ==
  /\ \A i \in DOMAIN saves : saves[i].mark <= len
  /\ \A i, j \in DOMAIN saves : i < j => /\ saves[i].mark <= saves[j].mark
                                         /\ saves[i].name # saves[j].name
=============================================================================
