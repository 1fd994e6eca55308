-------------------------- MODULE CursorIdsProofs --------------------------
(***************************************************************************)
(* Theorems of CursorIds, for any number of handles, texts, datatype       *)
(* lists, sequence bytes and ids.                                          *)
(*                                                                         *)
(* The maps of the server keep their part of the invariant whatever the    *)
(* client does (MapsKept); what a client remembers stays right for every   *)
(* request that runs a statement (Served), whichever of the four it is.    *)
(***************************************************************************)
EXTENDS CursorIds, TLAPS

\* Until the counter comes round, ids are given to one text each, ...
Issued ==
  round # "again" /\ dialect # "thin" =>
    /\ \A p, q \in Texts : ids[p] = ids[q] /\ ids[p] # 0 => p = q
    /\ \A q \in Texts : ids[q] # 0 => texts[ids[q]] # None /\ texts[ids[q]].sql = q

\* ... because the counter is ahead of them until it has given the largest.
Ahead == round = "first" => \A q \in Texts : ids[q] < nextId

\* A text found under an id goes by that id, even after the counter has come round.
Inverse ==
  dialect # "thin" =>
    \A i \in Ids : texts[i] # None => ids[texts[i].sql] = i

\* The last Execute is found under its id.
LastEntry ==
  last # None => /\ dialect # "thin" => ids[last.sql] # 0 /\ texts[ids[last.sql]] = last
                 /\ dialect = "thin" => texts[current] = last

ThinCurrent == dialect = "thin" => current = 1

MapsInv == Issued /\ Ahead /\ Inverse /\ LastEntry /\ ThinCurrent

\* What a handle that shares its id with no other knows is what the server has.
KnownInv ==
  \A h \in Handles : known[h] # 0 =>
    /\ prepared[h] # None
    /\ h \notin mixed => texts[known[h]] = prepared[h]
    /\ dialect = "thin" => known[h] = 1

\* Handles that go by one id are known to.
SharedInv ==
  \A g, h \in Handles : g # h /\ known[g] = known[h] /\ known[g] # 0 =>
    g \in mixed /\ h \in mixed

\* The rows a handle is reading stream under the id it knows; none do, once they
\* have been cut off.
ReadingInv ==
  \A h \in Handles \ mixed :
    /\ reading[h] = "rows" => known[h] # 0 /\ open[known[h]] = h
    /\ reading[h] = "cut" /\ known[h] # 0 => open[known[h]] = None

\* A client that sends no ids re-executes only what the server ran last.
LatestInv ==
  \A h \in Handles : latest = h =>
    /\ prepared[h] # None
    /\ h \notin mixed /\ dialect # "oci" => last = prepared[h]

ClientInv == KnownInv /\ SharedInv /\ ReadingInv

IInv == TypeOK /\ MapsInv /\ ClientInv /\ LatestInv /\ RunsWhatWasMeant /\ FetchReadsOwn

(***************************************************************************)
(* The maps of the server.                                                 *)
(***************************************************************************)
\* The counter stays within the ids, and moves up while it has not given the largest.
LEMMA SuccessorRange ==
  ASSUME NEW i \in Ids
  PROVE  Successor(i) \in Ids /\ (i # MaxId => i < Successor(i))
BY CursorIdsAssumption, SMT DEF Successor, Ids

\* The types of what Remember sets, and where it leaves the statement.
LEMMA RememberType ==
  ASSUME TypeOK, NEW s \in Statements, NEW seq \in Seqs, Remember(s, seq), ThinCurrent
  PROVE  /\ ids' \in [Texts -> 0..MaxId] /\ nextId' \in Ids
         /\ round' \in {"first", "spent", "again"}
         /\ texts' \in [Ids -> Statements \cup {None}]
         /\ bySeq' \in [Seqs -> Statements \cup {None}]
         /\ last' = s /\ current' \in Ids /\ current' # 0
         /\ texts' = [texts EXCEPT ![current'] = s]
         /\ dialect # "thin" => ids'[s.sql] = current'
         /\ dialect = "thin" => current' = current
         /\ \A q \in Texts : ids[q] # 0 => ids'[q] = ids[q]
<1>1. s.sql \in Texts BY DEF Statements
<1>2. Ids \subseteq 0..MaxId /\ \A i \in Ids : i # 0
  BY CursorIdsAssumption, SMT DEF Ids
<1>3. Successor(nextId) \in Ids BY SuccessorRange DEF TypeOK
<1>4. ids[s.sql] # 0 => ids[s.sql] \in Ids
  BY <1>1, CursorIdsAssumption, SMT DEF TypeOK, Ids
<1>5. CASE dialect = "thin"
  BY <1>1, <1>2, <1>5 DEF TypeOK, Remember
<1>6. CASE dialect # "thin" /\ ids[s.sql] # 0
  BY <1>1, <1>2, <1>4, <1>6 DEF TypeOK, Remember
<1>7. CASE dialect # "thin" /\ ids[s.sql] = 0
  <2>1. /\ current' = nextId /\ nextId' = Successor(nextId)
        /\ ids' = [ids EXCEPT ![s.sql] = nextId]
        /\ round' \in {"first", "spent", "again"}
        /\ last' = s /\ bySeq' = [bySeq EXCEPT ![seq] = s]
        /\ texts' = [texts EXCEPT ![current'] = s]
    BY <1>7 DEF Remember
  <2> QED BY <1>1, <1>2, <1>3, <1>7, <2>1 DEF TypeOK
<1> QED BY <1>5, <1>6, <1>7

\* Remembering a statement keeps the maps in agreement.
LEMMA MapsKept ==
  ASSUME TypeOK, MapsInv, NEW s \in Statements, NEW seq \in Seqs,
         Remember(s, seq), dialect' = dialect
  PROVE  MapsInv'
<1>1. s.sql \in Texts /\ s # None BY CursorIdsAssumption DEF Statements
<1>2. /\ last' = s /\ current' \in Ids /\ current' # 0
      /\ texts' = [texts EXCEPT ![current'] = s]
      /\ dialect # "thin" => ids'[s.sql] = current'
      /\ dialect = "thin" => current' = current
      /\ \A q \in Texts : ids[q] # 0 => ids'[q] = ids[q]
      /\ texts' \in [Ids -> Statements \cup {None}]
  BY RememberType DEF MapsInv
<1>3. texts'[current'] = s /\ \A i \in Ids \ {current'} : texts'[i] = texts[i]
  BY <1>2 DEF TypeOK
<1>4. ThinCurrent' BY <1>2 DEF MapsInv, ThinCurrent
<1>5. LastEntry' BY <1>1, <1>2, <1>3 DEF LastEntry
<1>6. Inverse'
  <2> SUFFICES ASSUME dialect # "thin", NEW i \in Ids, texts'[i] # None
               PROVE  ids'[texts'[i].sql] = i
    BY DEF Inverse
  <2>1. CASE i = current' BY <1>2, <1>3, <2>1
  <2>2. CASE i # current'
    <3>1. texts'[i] = texts[i] BY <1>3, <2>2
    <3>2. ids[texts[i].sql] = i BY <3>1 DEF MapsInv, Inverse
    <3>3. texts[i].sql \in Texts BY <3>1 DEF TypeOK, Statements
    <3>4. i # 0 BY SMT DEF Ids
    <3> QED BY <1>2, <3>1, <3>2, <3>3, <3>4
  <2> QED BY <2>1, <2>2
<1>7. CASE dialect = "thin"
  <2>1. UNCHANGED <<ids, nextId, round>> BY <1>7 DEF Remember
  <2> QED BY <1>4, <1>5, <1>6, <1>7, <2>1 DEF MapsInv, Issued, Ahead
<1>8. CASE dialect # "thin" /\ ids[s.sql] # 0
  <2>1. UNCHANGED <<ids, nextId, round>> /\ current' = ids[s.sql]
    BY <1>8 DEF Remember
  <2>2. Ahead' BY <2>1 DEF MapsInv, Ahead
  <2>3. Issued'
    <3> SUFFICES ASSUME round # "again", NEW q \in Texts, ids[q] # 0
                 PROVE  texts'[ids[q]] # None /\ texts'[ids[q]].sql = q
      BY <1>8, <2>1 DEF MapsInv, Issued
    <3>1. ids[q] \in Ids BY CursorIdsAssumption, SMT DEF TypeOK, Ids
    <3>2. texts[ids[q]] # None /\ texts[ids[q]].sql = q
      BY <1>8 DEF MapsInv, Issued
    <3>3. ids[q] = current' => q = s.sql BY <1>1, <1>8, <2>1 DEF MapsInv, Issued
    <3> QED BY <1>1, <1>3, <3>1, <3>2, <3>3
  <2> QED BY <1>4, <1>5, <1>6, <2>2, <2>3 DEF MapsInv
<1>9. CASE dialect # "thin" /\ ids[s.sql] = 0
  <2>1. /\ current' = nextId /\ nextId' = Successor(nextId)
        /\ ids' = [ids EXCEPT ![s.sql] = nextId]
        /\ round' = IF round = "first" /\ nextId # MaxId THEN "first"
                    ELSE IF round = "first" THEN "spent" ELSE "again"
    BY <1>9 DEF Remember
  <2>2. /\ ids'[s.sql] = nextId
        /\ \A q \in Texts \ {s.sql} : ids'[q] = ids[q]
    BY <1>1, <2>1 DEF TypeOK
  <2>3. nextId \in Nat /\ \A q \in Texts : ids[q] \in Nat
    BY SMT DEF TypeOK, Ids
  <2>4. round' # "again" => round = "first"
    BY <2>1
  <2>5. round' # "again" => \A q \in Texts : ids[q] < nextId
    BY <2>4 DEF MapsInv, Ahead
  <2>6. Ahead'
    <3> SUFFICES ASSUME round' = "first", NEW q \in Texts
                 PROVE  ids'[q] < nextId'
      BY DEF Ahead
    <3>1. nextId # MaxId BY <2>1
    <3>2. nextId < nextId' /\ nextId' \in Nat
      BY <2>1, <3>1, SuccessorRange, SMT DEF TypeOK, Ids
    <3>3. ids[q] < nextId BY <2>5
    <3>4. ids'[q] = nextId \/ ids'[q] = ids[q] BY <2>2
    <3> QED BY <2>3, <3>2, <3>3, <3>4, SMT
  <2>7. Issued'
    <3> SUFFICES ASSUME round' # "again"
                 PROVE  /\ \A p, q \in Texts : ids'[p] = ids'[q] /\ ids'[p] # 0 => p = q
                        /\ \A q \in Texts : ids'[q] # 0 =>
                             texts'[ids'[q]] # None /\ texts'[ids'[q]].sql = q
      BY DEF Issued
    <3>1. \A q \in Texts : ids[q] # nextId BY <2>3, <2>5, SMT
    <3>2. /\ \A p, q \in Texts : ids[p] = ids[q] /\ ids[p] # 0 => p = q
          /\ \A q \in Texts : ids[q] # 0 => texts[ids[q]] # None /\ texts[ids[q]].sql = q
      BY <1>9, <2>4 DEF MapsInv, Issued
    <3>3. \A q \in Texts : ids[q] # 0 => ids[q] \in Ids
      BY CursorIdsAssumption, SMT DEF TypeOK, Ids
    <3>4. ASSUME NEW p \in Texts, NEW q \in Texts, ids'[p] = ids'[q], ids'[p] # 0
          PROVE  p = q
      BY <2>2, <3>1, <3>2, <3>4
    <3>5. ASSUME NEW q \in Texts, ids'[q] # 0
          PROVE  texts'[ids'[q]] # None /\ texts'[ids'[q]].sql = q
      <4>1. CASE q = s.sql BY <1>1, <1>3, <2>1, <2>2, <4>1
      <4>2. CASE q # s.sql
        <5>1. ids'[q] = ids[q] /\ ids[q] \in Ids \ {current'}
          BY <2>1, <2>2, <3>1, <3>3, <3>5, <4>2
        <5> QED BY <1>3, <3>2, <3>5, <5>1
      <4> QED BY <4>1, <4>2
    <3> QED BY <3>4, <3>5
  <2> QED BY <1>4, <1>5, <1>6, <2>6, <2>7 DEF MapsInv
<1> QED BY <1>7, <1>8, <1>9

(***************************************************************************)
(* A request that runs a statement of text q for handle h under the id     *)
(* current'; the client goes by `id` afterwards.                           *)
(***************************************************************************)
\* The types of what a served request sets.
LEMMA ServedType ==
  ASSUME TypeOK, NEW h \in Handles, NEW s, s.sql \in Texts, NEW outcome,
         NEW id \in 0..MaxId, NEW kept \in SUBSET Handles,
         current' \in Ids,
         Run(h, s, outcome), Answered(h, outcome, id), Mixing(h, kept)
  PROVE  /\ open' \in [Ids -> Handles \cup {None}]
         /\ known' \in [Handles -> 0..MaxId]
         /\ reading' \in [Handles -> {"done", "rows", "cut"}]
         /\ latest' \in Handles \cup {None}
         /\ mixed' \subseteq Handles
<1>1. open' \in [Ids -> Handles \cup {None}] BY DEF TypeOK, Run
<1>2. known' \in [Handles -> 0..MaxId] BY DEF TypeOK, Answered
<1>3. reading' \in [Handles -> {"done", "rows", "cut"}] BY DEF TypeOK, Answered
<1>4. latest' \in Handles \cup {None} BY DEF Answered
<1>5. mixed' \subseteq Handles BY DEF Mixing, Sharing
<1> QED BY <1>1, <1>2, <1>3, <1>4, <1>5

\* What clients know of their handles stays right, of the handle that was served and
\* of the others: an id is theirs alone, or they are among the mixed.
LEMMA Served ==
  ASSUME TypeOK, ClientInv, NEW h \in Handles, NEW s, s.sql \in Texts,
         NEW outcome \in Outcomes(s.sql),
         NEW id \in 0..MaxId, NEW kept \in SUBSET Handles,
         current' \in Ids, current' # 0,
         dialect' = dialect, dialect = "thin" => current' = 1,
         Run(h, s, outcome), Answered(h, outcome, id), Mixing(h, kept),
         mixed \ {h} \subseteq kept,
         \A i \in Ids \ {current'} : texts'[i] = texts[i],
         \A g \in Handles \ {h} : prepared'[g] = prepared[g],
         outcome = "more" => id = current',
         id # 0 => prepared'[h] # None,
         id = 0 \/ id = current' \/ (id = known[h] /\ h \in kept),
         id = current' /\ h \notin kept => texts'[current'] = prepared'[h]
  PROVE  ClientInv'
<1>1. /\ known' = [known EXCEPT ![h] = id]
      /\ reading' = [reading EXCEPT ![h] = IF outcome = "more" THEN "rows" ELSE "done"]
  BY DEF Answered
<1>2. /\ known'[h] = id
      /\ \A g \in Handles \ {h} : known'[g] = known[g]
      /\ reading'[h] = IF outcome = "more" THEN "rows" ELSE "done"
      /\ \A g \in Handles \ {h} : reading'[g] = reading[g]
  BY <1>1 DEF TypeOK
<1>3. /\ kept \subseteq mixed'
      /\ \A g \in Handles \ {h} : known[g] = current' => g \in mixed' /\ h \in mixed'
  BY DEF Mixing, Sharing
<1>4. \A i \in Ids \ {current'} : open'[i] = open[i] BY DEF Run, TypeOK
<1>5. outcome = "more" => open'[current'] = h
  BY DEF Run, TypeOK, Outcomes, AllOutcomes, Failures
<1>6. \A g \in Handles \ {h} :
        g \notin mixed' => g \notin mixed /\ known[g] # current'
  BY <1>3
<1>7. \A g \in Handles : known[g] # 0 => known[g] \in Ids
  BY CursorIdsAssumption, SMT DEF TypeOK, Ids
<1>8. KnownInv'
  <2> SUFFICES ASSUME NEW g \in Handles, known'[g] # 0
               PROVE  /\ prepared'[g] # None
                      /\ g \notin mixed' => texts'[known'[g]] = prepared'[g]
                      /\ dialect = "thin" => known'[g] = 1
    BY DEF KnownInv
  <2>1. CASE g = h BY <1>2, <1>3, <2>1 DEF ClientInv, KnownInv
  <2>2. CASE g # h
    BY <1>2, <1>6, <1>7, <2>2 DEF ClientInv, KnownInv
  <2> QED BY <2>1, <2>2
<1>9. SharedInv'
  <2>1. ASSUME NEW g \in Handles \ {h}, known[g] = id, id # 0
        PROVE  g \in mixed' /\ h \in mixed'
    <3>1. CASE id = current' BY <1>3, <2>1, <3>1
    <3>2. CASE id = known[h] /\ h \in kept
      <4>1. g \in mixed BY <2>1, <3>2 DEF ClientInv, SharedInv
      <4> QED BY <1>3, <3>2, <4>1
    <3> QED BY <2>1, <3>1, <3>2
  <2>2. ASSUME NEW f \in Handles, NEW g \in Handles, f # g,
               known'[f] = known'[g], known'[f] # 0
        PROVE  f \in mixed' /\ g \in mixed'
    <3>1. CASE f = h BY <1>2, <2>1, <2>2, <3>1
    <3>2. CASE g = h BY <1>2, <2>1, <2>2, <3>2
    <3>3. CASE f # h /\ g # h
      <4>1. f \in mixed /\ g \in mixed
        BY <1>2, <2>2, <3>3 DEF ClientInv, SharedInv
      <4> QED BY <1>3, <3>3, <4>1
    <3> QED BY <3>1, <3>2, <3>3
  <2> QED BY <2>2 DEF SharedInv
<1>10. ReadingInv'
  <2> SUFFICES ASSUME NEW g \in Handles, g \notin mixed'
               PROVE  /\ reading'[g] = "rows" => known'[g] # 0 /\ open'[known'[g]] = g
                      /\ reading'[g] = "cut" /\ known'[g] # 0 => open'[known'[g]] = None
    BY DEF ReadingInv
  <2>1. CASE g = h BY <1>2, <1>5, <2>1
  <2>2. CASE g # h
    <3>1. g \notin mixed /\ known[g] # current' BY <1>6, <2>2
    <3>2. known'[g] = known[g] /\ reading'[g] = reading[g] BY <1>2, <2>2
    <3>3. known[g] # 0 => open'[known[g]] = open[known[g]] BY <1>4, <1>7, <3>1
    <3> QED BY <3>1, <3>2, <3>3 DEF ClientInv, ReadingInv
  <2> QED BY <2>1, <2>2
<1> QED BY <1>8, <1>9, <1>10 DEF ClientInv

\* What a client can be left with: the id of the answer, none, or after a failure the
\* one it had.
LEMMA ToldIds ==
  ASSUME current' \in Ids, NEW id \in 0..MaxId, NEW outcome
  PROVE  /\ Told(outcome, id) \in 0..MaxId
         /\ Told(outcome, id) \in {id, 0, current'}
         /\ outcome = "more" => Told(outcome, id) = current'
BY CursorIdsAssumption, SMT DEF Told, Failures, Ids

\* The statement that is found is one that was executed.
LEMMA ResolvedType ==
  ASSUME TypeOK, NEW id \in 0..MaxId, NEW seq \in Seqs
  PROVE  /\ Hint(id) \in Statements \cup {None}
         /\ Resolved(id, seq) \in Statements \cup {None}
<1>1. id # 0 => texts[id] \in Statements \cup {None}
  BY SMT DEF TypeOK, Ids
<1>2. bySeq[seq] \in Statements \cup {None} /\ last \in Statements \cup {None}
  BY DEF TypeOK
<1> QED BY <1>1, <1>2 DEF Hint, Resolved, FirstOf

\* At the beginning the maps are empty and nobody knows an id.
LEMMA InitIInv == Init => IInv
<1> SUFFICES ASSUME Init PROVE IInv OBVIOUS
<1>1. 1 \in Ids /\ 2 \in Ids /\ 3 \in Ids /\ 0 \in 0..MaxId
  BY CursorIdsAssumption, SMT DEF Ids
<1>2. nextId \in Ids /\ current \in Ids BY <1>1 DEF Init
<1>3. TypeOK BY <1>1, <1>2 DEF Init, TypeOK, Requests
<1>4. Ahead BY <1>2, SMT DEF Init, Ahead, Ids
<1>5. MapsInv
  BY <1>4 DEF Init, MapsInv, Issued, Inverse, LastEntry, ThinCurrent
<1>6. ClientInv BY DEF Init, ClientInv, KnownInv, SharedInv, ReadingInv
<1>7. LatestInv BY CursorIdsAssumption DEF Init, LatestInv
<1>8. RunsWhatWasMeant /\ FetchReadsOwn
  BY DEF Init, RunsWhatWasMeant, FetchReadsOwn
<1> QED BY <1>3, <1>5, <1>6, <1>7, <1>8 DEF IInv

\* An Execute with text brings all it needs, and begins its handle anew.
LEMMA ExecuteKeeps ==
  ASSUME IInv, NEW h \in Handles, NEW s \in Statements, NEW seq \in Seqs,
         NEW outcome \in AllOutcomes, Execute(h, s, seq, outcome)
  PROVE  IInv'
<1>1. TypeOK /\ MapsInv /\ ClientInv /\ LatestInv BY DEF IInv
<1>2. /\ outcome \in Outcomes(s.sql) /\ Remember(s, seq) /\ Run(h, s, outcome)
      /\ prepared' = [prepared EXCEPT ![h] = s]
      /\ Answered(h, outcome, Told(outcome, 0)) /\ Mixing(h, mixed \ {h})
      /\ reply' = [request |-> "execute", apart |-> TRUE, meant |-> s, done |-> s]
      /\ dialect' = dialect
  BY DEF Execute
<1>3. s.sql \in Texts /\ s # None BY CursorIdsAssumption DEF Statements
<1>4. /\ ids' \in [Texts -> 0..MaxId] /\ nextId' \in Ids
      /\ round' \in {"first", "spent", "again"}
      /\ texts' \in [Ids -> Statements \cup {None}]
      /\ bySeq' \in [Seqs -> Statements \cup {None}]
      /\ last' = s /\ current' \in Ids /\ current' # 0
      /\ texts' = [texts EXCEPT ![current'] = s]
  BY <1>1, <1>2, RememberType DEF MapsInv
<1>5. 0 \in 0..MaxId BY CursorIdsAssumption, SMT
<1>6. /\ Told(outcome, 0) \in 0..MaxId /\ Told(outcome, 0) \in {0, current'}
      /\ outcome = "more" => Told(outcome, 0) = current'
  BY <1>4, <1>5, ToldIds
<1>7. mixed \ {h} \in SUBSET Handles BY <1>1 DEF TypeOK
<1>8. prepared' \in [Handles -> Statements \cup {None}] /\ prepared'[h] = s
      /\ \A g \in Handles \ {h} : prepared'[g] = prepared[g]
  BY <1>1, <1>2 DEF TypeOK
<1>9. MapsInv' BY <1>1, <1>2, MapsKept
<1>10. dialect = "thin" => current' = 1
  BY <1>2, <1>9 DEF MapsInv, ThinCurrent
<1>11. texts'[current'] = s /\ \A i \in Ids \ {current'} : texts'[i] = texts[i]
  BY <1>1, <1>4 DEF TypeOK
<1>12. /\ open' \in [Ids -> Handles \cup {None}]
       /\ known' \in [Handles -> 0..MaxId]
       /\ reading' \in [Handles -> {"done", "rows", "cut"}]
       /\ latest' \in Handles \cup {None}
       /\ mixed' \subseteq Handles
  BY <1>1, <1>2, <1>3, <1>4, <1>6, <1>7, ServedType
<1>13. ClientInv'
  BY <1>1, <1>2, <1>3, <1>4, <1>6, <1>7, <1>8, <1>11, <1>10, Served
<1>14. TypeOK'
  <2>1. dialect' \in Dialects BY <1>1, <1>2 DEF TypeOK
  <2>2. reply' \in [request : Requests, apart : BOOLEAN,
                    meant : Statements \cup Handles \cup {None},
                    done : Statements \cup Handles \cup {None}]
    BY <1>2 DEF Requests
  <2> QED BY <1>4, <1>8, <1>12, <2>1, <2>2 DEF TypeOK
<1>15. LatestInv' BY <1>2, <1>3, <1>4, <1>8 DEF LatestInv, Answered
<1>16. RunsWhatWasMeant' /\ FetchReadsOwn'
  BY <1>2 DEF RunsWhatWasMeant, FetchReadsOwn
<1> QED BY <1>13, <1>14, <1>9, <1>15, <1>16 DEF IInv

\* A handle that shares its id with no other, and knows one, names the statement it
\* was prepared with, and that statement goes by the id.
LEMMA NamedStatement ==
  ASSUME TypeOK, MapsInv, ClientInv, NEW h \in Handles, known[h] # 0, h \notin mixed
  PROVE  /\ texts[known[h]] = prepared[h] /\ prepared[h] # None
         /\ Hint(known[h]) = prepared[h]
         /\ dialect # "thin" => ids[prepared[h].sql] = known[h]
<1>1. texts[known[h]] = prepared[h] /\ prepared[h] # None
  BY DEF ClientInv, KnownInv
<1>2. known[h] \in Ids BY CursorIdsAssumption, SMT DEF TypeOK, Ids
<1> QED BY <1>1, <1>2 DEF Hint, MapsInv, Inverse

\* An Execute without text, from either of the clients that send it, of statement s
\* that is under the handle's id but for fresh datatypes.
LEMMA NamedExecuteKeeps ==
  ASSUME IInv, NEW h \in Handles, NEW s \in Statements, NEW seq \in Seqs,
         NEW outcome \in Outcomes(s.sql), dialect # "thin", dialect' = dialect,
         known[h] # 0, Hint(known[h]) # None, s.sql = Hint(known[h]).sql,
         Remember(s, seq), Run(h, s, outcome),
         Answered(h, outcome, Told(outcome, known[h])), Mixing(h, mixed),
         prepared' \in [Handles -> Statements \cup {None}],
         \A g \in Handles \ {h} : prepared'[g] = prepared[g],
         prepared'[h] # None,
         h \notin mixed => prepared'[h] = s,
         reply' = [request |-> "name", apart |-> h \notin mixed,
                   meant |-> prepared'[h], done |-> s]
  PROVE  IInv'
<1>1. TypeOK /\ MapsInv /\ ClientInv /\ LatestInv BY DEF IInv
<1>2. s.sql \in Texts /\ s # None BY CursorIdsAssumption DEF Statements
<1>3. /\ ids' \in [Texts -> 0..MaxId] /\ nextId' \in Ids
      /\ round' \in {"first", "spent", "again"}
      /\ texts' \in [Ids -> Statements \cup {None}]
      /\ bySeq' \in [Seqs -> Statements \cup {None}]
      /\ last' = s /\ current' \in Ids /\ current' # 0
      /\ texts' = [texts EXCEPT ![current'] = s]
      /\ ids'[s.sql] = current'
      /\ \A q \in Texts : ids[q] # 0 => ids'[q] = ids[q]
  BY <1>1, RememberType DEF MapsInv
<1>4. known[h] \in 0..MaxId BY <1>1 DEF TypeOK
<1>5. /\ Told(outcome, known[h]) \in 0..MaxId
      /\ Told(outcome, known[h]) \in {known[h], 0, current'}
      /\ outcome = "more" => Told(outcome, known[h]) = current'
  BY <1>3, <1>4, ToldIds
<1>6. mixed \in SUBSET Handles BY <1>1 DEF TypeOK
<1>7. h \notin mixed => known[h] = current'
  BY <1>1, <1>2, <1>3, NamedStatement
<1>8. texts'[current'] = s /\ \A i \in Ids \ {current'} : texts'[i] = texts[i]
  BY <1>1, <1>3 DEF TypeOK
<1>9. /\ open' \in [Ids -> Handles \cup {None}]
      /\ known' \in [Handles -> 0..MaxId]
      /\ reading' \in [Handles -> {"done", "rows", "cut"}]
      /\ latest' \in Handles \cup {None}
      /\ mixed' \subseteq Handles
  BY <1>1, <1>2, <1>3, <1>5, <1>6, ServedType
<1>10. dialect = "thin" => current' = 1 OBVIOUS
<1>11. ClientInv'
  BY <1>1, <1>2, <1>3, <1>5, <1>6, <1>7, <1>8, <1>10, Served
<1>12. TypeOK'
  <2>1. dialect' \in Dialects BY <1>1 DEF TypeOK
  <2>2. reply' \in [request : Requests, apart : BOOLEAN,
                    meant : Statements \cup Handles \cup {None},
                    done : Statements \cup Handles \cup {None}]
    <3>1. (h \notin mixed) \in BOOLEAN OBVIOUS
    <3>2. prepared'[h] \in Statements \cup {None} OBVIOUS
    <3>3. "name" \in Requests BY DEF Requests
    <3> QED BY <3>1, <3>2, <3>3
  <2> QED BY <1>3, <1>9, <2>1, <2>2 DEF TypeOK
<1>13. MapsInv' BY <1>1, MapsKept
<1>14. LatestInv'
  <2>1. latest' = h /\ (h \notin mixed' => h \notin mixed) BY DEF Answered, Mixing
  <2> QED BY <1>2, <1>3, <2>1 DEF LatestInv
<1>15. RunsWhatWasMeant' /\ FetchReadsOwn'
  BY DEF RunsWhatWasMeant, FetchReadsOwn
<1> QED BY <1>11, <1>12, <1>13, <1>14, <1>15 DEF IInv

\* OCI's new parse sends datatypes of its own.
LEMMA NewParseKeeps ==
  ASSUME IInv, NEW h \in Handles, NEW types \in BindTypes, NEW seq \in Seqs,
         NEW outcome \in AllOutcomes, NewParse(h, types, seq, outcome)
  PROVE  IInv'
<1> DEFINE s == [sql |-> Hint(known[h]).sql, types |-> types]
<1>1. TypeOK /\ MapsInv /\ ClientInv BY DEF IInv
<1>2. /\ dialect = "oci" /\ known[h] # 0 /\ Hint(known[h]) # None
      /\ outcome \in Outcomes(s.sql) /\ Remember(s, seq) /\ Run(h, s, outcome)
      /\ prepared' = [prepared EXCEPT ![h].types = types]
      /\ Answered(h, outcome, Told(outcome, known[h])) /\ Mixing(h, mixed)
      /\ reply' = [request |-> "name", apart |-> h \notin mixed,
                   meant |-> [prepared[h] EXCEPT !.types = types], done |-> s]
      /\ dialect' = dialect
  BY DEF NewParse
<1>3. known[h] \in 0..MaxId BY <1>1 DEF TypeOK
<1>4. Hint(known[h]) \in Statements BY <1>1, <1>2, <1>3, ResolvedType
<1>5. s \in Statements /\ s.sql = Hint(known[h]).sql BY <1>4 DEF Statements
<1>6. prepared[h] \in Statements
  BY <1>1, <1>2 DEF TypeOK, ClientInv, KnownInv
<1>7. [prepared[h] EXCEPT !.types = types] \in Statements BY <1>6 DEF Statements
<1>8. /\ prepared' \in [Handles -> Statements \cup {None}]
      /\ prepared'[h] = [prepared[h] EXCEPT !.types = types]
      /\ \A g \in Handles \ {h} : prepared'[g] = prepared[g]
  BY <1>1, <1>2, <1>7 DEF TypeOK
<1>9. prepared'[h] # None BY <1>7, <1>8, CursorIdsAssumption
<1>10. h \notin mixed => prepared'[h] = s
  <2>1. h \notin mixed => Hint(known[h]) = prepared[h] BY <1>1, <1>2, NamedStatement
  <2> QED BY <1>6, <1>8, <2>1 DEF Statements
<1>11. reply' = [request |-> "name", apart |-> h \notin mixed,
                 meant |-> prepared'[h], done |-> s]
  BY <1>2, <1>8
<1>12. dialect # "thin" BY <1>2
<1> HIDE DEF s
<1> QED BY <1>2, <1>5, <1>8, <1>9, <1>10, <1>11, <1>12, NamedExecuteKeeps

\* ojdbc's statement cache binds as before.
LEMMA CachedExecuteKeeps ==
  ASSUME IInv, NEW h \in Handles, NEW seq \in Seqs,
         NEW outcome \in AllOutcomes, CachedExecute(h, seq, outcome)
  PROVE  IInv'
<1> DEFINE s == Hint(known[h])
<1>1. TypeOK /\ MapsInv /\ ClientInv BY DEF IInv
<1>2. /\ dialect = "jdbc" /\ known[h] # 0 /\ s # None
      /\ outcome \in Outcomes(s.sql) /\ Remember(s, seq) /\ Run(h, s, outcome)
      /\ Answered(h, outcome, Told(outcome, known[h])) /\ Mixing(h, mixed)
      /\ reply' = [request |-> "name", apart |-> h \notin mixed,
                   meant |-> prepared[h], done |-> s]
      /\ dialect' = dialect /\ prepared' = prepared
  BY DEF CachedExecute
<1>3. known[h] \in 0..MaxId BY <1>1 DEF TypeOK
<1>4. s \in Statements BY <1>1, <1>2, <1>3, ResolvedType
<1>5. prepared' \in [Handles -> Statements \cup {None}] BY <1>1, <1>2 DEF TypeOK
<1>6. prepared'[h] # None BY <1>1, <1>2 DEF ClientInv, KnownInv
<1>7. h \notin mixed => prepared'[h] = s BY <1>1, <1>2, NamedStatement
<1>8. dialect # "thin" BY <1>2
<1>9. Hint(known[h]) # None /\ s.sql = Hint(known[h]).sql BY <1>2
<1> HIDE DEF s
<1> QED BY <1>2, <1>4, <1>5, <1>6, <1>7, <1>8, <1>9, NamedExecuteKeeps

\* A re-execute of a handle that shares its id runs under that id, or with none under
\* the one the server gave to the text it ran last.
LEMMA ReexecuteKeeps ==
  ASSUME IInv, NEW h \in Handles, NEW named \in BOOLEAN, NEW seq \in Seqs,
         NEW outcome \in AllOutcomes, Reexecute(h, named, seq, outcome)
  PROVE  IInv'
<1> DEFINE s == Resolved(IF named THEN known[h] ELSE 0, seq)
           id == IF dialect = "oci" /\ s.sql \in Changes
                   THEN known[h] ELSE Told(outcome, known[h])
           kept == mixed \cup (IF named THEN {} ELSE {h})
<1>1. TypeOK /\ MapsInv /\ ClientInv /\ LatestInv BY DEF IInv
<1>2. /\ named \/ dialect = "oci"
      /\ IF dialect = "oci" /\ named THEN known[h] # 0 ELSE latest = h
      /\ s # None /\ outcome \in Outcomes(s.sql)
      /\ current' = IF dialect # "thin" /\ ids[s.sql] # 0 THEN ids[s.sql] ELSE current
      /\ Run(h, s, outcome) /\ Answered(h, outcome, id) /\ Mixing(h, kept)
      /\ reply' = [request |-> IF named THEN "name" ELSE "previous",
                   apart |-> h \notin mixed, meant |-> prepared[h], done |-> s]
      /\ UNCHANGED <<dialect, ids, nextId, round, texts, bySeq, last, prepared>>
  BY DEF Reexecute
<1>3. known[h] \in 0..MaxId /\ 0 \in 0..MaxId
  BY <1>1, CursorIdsAssumption, SMT DEF TypeOK
<1>4. s \in Statements BY <1>1, <1>2, <1>3, ResolvedType
<1>5. s.sql \in Texts BY <1>4 DEF Statements
<1>6. kept \in SUBSET Handles /\ mixed \ {h} \subseteq kept BY <1>1 DEF TypeOK
<1>7. prepared[h] # None
  BY <1>1, <1>2 DEF ClientInv, KnownInv, LatestInv
<1>8. h \notin kept => /\ s = prepared[h] /\ texts[current'] = prepared[h]
                       /\ known[h] # 0 => known[h] = current'
  <2> SUFFICES ASSUME h \notin kept
               PROVE  /\ s = prepared[h] /\ texts[current'] = prepared[h]
                      /\ known[h] # 0 => known[h] = current'
    OBVIOUS
  <2>1. named /\ h \notin mixed OBVIOUS
  <2>2. known[h] # 0 =>
          /\ texts[known[h]] = prepared[h]
          /\ dialect # "thin" => ids[prepared[h].sql] = known[h]
          /\ dialect = "thin" => known[h] = 1
    BY <1>1, <2>1, NamedStatement DEF ClientInv, KnownInv
  <2>3. CASE dialect = "oci"
    <3>1. s = prepared[h] BY <1>2, <1>7, <2>1, <2>2, <2>3 DEF Resolved, FirstOf
    <3> HIDE DEF s, id, kept
    <3> QED BY <1>2, <2>1, <2>2, <2>3, <3>1
  <2>4. CASE dialect # "oci"
    <3>1. s = last BY <2>4 DEF Resolved
    <3>2. last = prepared[h] BY <1>1, <1>2, <2>1, <2>4 DEF LatestInv
    <3> HIDE DEF s, id, kept
    <3>3. CASE dialect = "thin"
      <4>1. current' = current /\ current = 1
        BY <1>1, <1>2, <3>3 DEF MapsInv, ThinCurrent
      <4>2. texts[current] = last
        BY <1>1, <1>7, <3>2, <3>3 DEF MapsInv, LastEntry
      <4> QED BY <2>2, <3>1, <3>2, <3>3, <4>1, <4>2
    <3>4. CASE dialect # "thin"
      <4>1. ids[last.sql] # 0 /\ texts[ids[last.sql]] = last
        BY <1>1, <1>7, <3>2, <3>4 DEF MapsInv, LastEntry
      <4>2. current' = ids[last.sql] BY <1>2, <3>1, <3>4, <4>1
      <4> QED BY <2>2, <3>1, <3>2, <3>4, <4>1, <4>2
    <3> QED BY <3>3, <3>4
  <2> QED BY <2>3, <2>4
<1> HIDE DEF s
<1>9. current' \in Ids /\ current' # 0
  <2>1. ids[s.sql] # 0 => ids[s.sql] \in Ids
    BY <1>1, <1>5, CursorIdsAssumption, SMT DEF TypeOK, Ids
  <2>2. current \in Ids BY <1>1 DEF TypeOK
  <2>3. \A i \in Ids : i # 0 BY SMT DEF Ids
  <2> QED BY <1>2, <2>1, <2>2, <2>3
<1>10. dialect = "thin" => current' = 1
  BY <1>1, <1>2 DEF MapsInv, ThinCurrent
<1>11. /\ Told(outcome, known[h]) \in 0..MaxId
       /\ Told(outcome, known[h]) \in {known[h], 0, current'}
       /\ outcome = "more" => Told(outcome, known[h]) = current'
  BY <1>3, <1>9, ToldIds
<1>12. outcome = "more" => s.sql \notin Changes
  BY <1>2, CursorIdsAssumption DEF Outcomes, AllOutcomes, Failures
<1>13. id \in 0..MaxId /\ id \in {known[h], 0, current'}
       /\ (outcome = "more" => id = current')
  BY <1>3, <1>11, <1>12
<1> HIDE DEF id, kept
<1>14. /\ open' \in [Ids -> Handles \cup {None}]
       /\ known' \in [Handles -> 0..MaxId]
       /\ reading' \in [Handles -> {"done", "rows", "cut"}]
       /\ latest' \in Handles \cup {None}
       /\ mixed' \subseteq Handles
  BY <1>1, <1>2, <1>5, <1>6, <1>9, <1>13, ServedType
<1>15. ClientInv'
  <2>1. \A i \in Ids \ {current'} : texts'[i] = texts[i] BY <1>2
  <2>2. \A g \in Handles \ {h} : prepared'[g] = prepared[g] BY <1>2
  <2>3. id = 0 \/ id = current' \/ (id = known[h] /\ h \in kept) BY <1>8, <1>13
  <2>4. id = current' /\ h \notin kept => texts'[current'] = prepared'[h]
    BY <1>2, <1>8
  <2>5. id # 0 => prepared'[h] # None BY <1>2, <1>7
  <2>6. outcome \in Outcomes(s.sql) /\ dialect' = dialect BY <1>2
  <2> QED BY <1>1, <1>2, <1>5, <1>6, <1>9, <1>10, <1>13, <2>1, <2>2, <2>3, <2>4,
             <2>5, <2>6, Served
<1>16. TypeOK'
  <2>1. /\ dialect' \in Dialects /\ ids' \in [Texts -> 0..MaxId] /\ nextId' \in Ids
        /\ round' \in {"first", "spent", "again"}
        /\ texts' \in [Ids -> Statements \cup {None}]
        /\ bySeq' \in [Seqs -> Statements \cup {None}]
        /\ last' \in Statements \cup {None}
        /\ prepared' \in [Handles -> Statements \cup {None}]
    BY <1>1, <1>2 DEF TypeOK
  <2>2. reply' \in [request : Requests, apart : BOOLEAN,
                    meant : Statements \cup Handles \cup {None},
                    done : Statements \cup Handles \cup {None}]
    <3>1. (h \notin mixed) \in BOOLEAN OBVIOUS
    <3>2. prepared[h] \in Statements \cup {None} BY <1>1 DEF TypeOK
    <3>3. (IF named THEN "name" ELSE "previous") \in Requests BY DEF Requests
    <3> QED BY <1>2, <1>4, <3>1, <3>2, <3>3
  <2> QED BY <1>9, <1>14, <2>1, <2>2 DEF TypeOK
<1>17. MapsInv'
  <2>1. current' # current => dialect # "thin" BY <1>2
  <2> QED BY <1>1, <1>2, <2>1
          DEF MapsInv, Issued, Ahead, Inverse, LastEntry, ThinCurrent
<1>18. LatestInv'
  <2>1. latest' = h /\ (h \notin mixed' => h \notin mixed)
    BY <1>2 DEF Answered, Mixing, kept
  <2> QED BY <1>1, <1>2, <1>7, <2>1 DEF LatestInv
<1>19. RunsWhatWasMeant'
  <2> SUFFICES ASSUME named, h \notin mixed PROVE s = prepared[h]
    BY <1>2 DEF RunsWhatWasMeant
  <2> QED BY <1>8 DEF kept
<1>20. FetchReadsOwn' BY <1>2 DEF FetchReadsOwn
<1> QED BY <1>15, <1>16, <1>17, <1>18, <1>19, <1>20 DEF IInv

\* A Fetch takes rows of the cursor its handle knows; nobody else's, if no other
\* handle knows it.
LEMMA FetchKeeps ==
  ASSUME IInv, NEW h \in Handles, NEW outcome \in AllOutcomes, Fetch(h, outcome)
  PROVE  IInv'
<1>1. TypeOK /\ MapsInv /\ ClientInv /\ LatestInv BY DEF IInv
<1>2. /\ reading[h] # "done" /\ known[h] # 0
      /\ open' = [open EXCEPT ![known[h]] = IF outcome = "more" THEN @ ELSE None]
      /\ known' = [known EXCEPT ![h] =
           IF outcome = "more" \/ dialect = "oci" THEN @ ELSE 0]
      /\ reading' = [reading EXCEPT ![h] = IF outcome = "more" THEN @ ELSE "done"]
      /\ reply' = [request |-> "fetch", apart |-> h \notin mixed,
                   meant |-> IF reading[h] = "rows" THEN h ELSE None,
                   done |-> open[known[h]]]
      /\ UNCHANGED <<dialect, ids, nextId, round, texts, bySeq, last, current,
                     prepared, latest, mixed>>
  BY DEF Fetch
<1>3. \A g \in Handles : known[g] # 0 => known[g] \in Ids
  BY <1>1, CursorIdsAssumption, SMT DEF TypeOK, Ids
<1>4. /\ \A i \in Ids \ {known[h]} : open'[i] = open[i]
      /\ outcome = "more" => open' = open
  BY <1>1, <1>2, <1>3 DEF TypeOK
<1>5. /\ known'[h] \in {known[h], 0}
      /\ \A g \in Handles \ {h} : known'[g] = known[g] /\ reading'[g] = reading[g]
      /\ outcome = "more" => known'[h] = known[h] /\ reading'[h] = reading[h]
      /\ outcome # "more" => reading'[h] = "done"
  BY <1>1, <1>2 DEF TypeOK
<1>6. TypeOK'
  <2>1. open' \in [Ids -> Handles \cup {None}] BY <1>1, <1>2 DEF TypeOK
  <2>2. 0 \in 0..MaxId BY CursorIdsAssumption, SMT
  <2>3. known' \in [Handles -> 0..MaxId] BY <1>1, <1>2, <2>2 DEF TypeOK
  <2>4. reading' \in [Handles -> {"done", "rows", "cut"}] BY <1>1, <1>2 DEF TypeOK
  <2>5. reply' \in [request : Requests, apart : BOOLEAN,
                    meant : Statements \cup Handles \cup {None},
                    done : Statements \cup Handles \cup {None}]
    <3>1. (h \notin mixed) \in BOOLEAN OBVIOUS
    <3>2. open[known[h]] \in Handles \cup {None} BY <1>1, <1>2, <1>3 DEF TypeOK
    <3>3. "fetch" \in Requests BY DEF Requests
    <3> QED BY <1>2, <3>1, <3>2, <3>3
  <2> QED BY <1>1, <1>2, <2>1, <2>3, <2>4, <2>5 DEF TypeOK
<1>7. MapsInv'
  BY <1>1, <1>2 DEF MapsInv, Issued, Ahead, Inverse, LastEntry, ThinCurrent
<1>8. KnownInv'
  BY <1>1, <1>2, <1>5 DEF ClientInv, KnownInv
<1>9. SharedInv'
  BY <1>1, <1>2, <1>5 DEF ClientInv, SharedInv
<1>10. ReadingInv'
  <2> SUFFICES ASSUME NEW g \in Handles, g \notin mixed
               PROVE  /\ reading'[g] = "rows" => known'[g] # 0 /\ open'[known'[g]] = g
                      /\ reading'[g] = "cut" /\ known'[g] # 0 => open'[known'[g]] = None
    BY <1>2 DEF ReadingInv
  <2>1. CASE g = h BY <1>1, <1>4, <1>5, <2>1 DEF ClientInv, ReadingInv
  <2>2. CASE g # h
    <3>1. known[g] # known[h] BY <1>1, <1>2, <2>2 DEF ClientInv, SharedInv
    <3>2. known[g] # 0 => open'[known[g]] = open[known[g]] BY <1>3, <1>4, <3>1
    <3> QED BY <1>1, <1>5, <2>2, <3>2 DEF ClientInv, ReadingInv
  <2> QED BY <2>1, <2>2
<1>11. LatestInv' BY <1>1, <1>2 DEF LatestInv
<1>12. RunsWhatWasMeant' BY <1>2 DEF RunsWhatWasMeant
<1>13. FetchReadsOwn'
  <2> SUFFICES ASSUME h \notin mixed
               PROVE  open[known[h]] = IF reading[h] = "rows" THEN h ELSE None
    BY <1>2 DEF FetchReadsOwn
  <2>1. reading[h] \in {"rows", "cut"} BY <1>1, <1>2 DEF TypeOK
  <2> QED BY <1>1, <1>2, <2>1 DEF ClientInv, ReadingInv
<1> QED BY <1>6, <1>7, <1>8, <1>9, <1>10, <1>11, <1>12, <1>13 DEF IInv, ClientInv

\* COMMIT and ROLLBACK cut every result off, and nobody is given rows afterwards.
LEMMA EndTransactionKeeps == IInv /\ EndTransaction => IInv'
<1> SUFFICES ASSUME IInv, EndTransaction PROVE IInv' OBVIOUS
<1>1. TypeOK /\ MapsInv /\ ClientInv /\ LatestInv /\ RunsWhatWasMeant /\ FetchReadsOwn
  BY DEF IInv
<1>2. /\ open' = [i \in Ids |-> None]
      /\ reading' = [h \in Handles |-> IF reading[h] = "rows" THEN "cut" ELSE reading[h]]
      /\ UNCHANGED <<dialect, ids, nextId, round, texts, bySeq, last, current,
                     prepared, known, latest, mixed, reply>>
  BY DEF EndTransaction
<1>3. \A h \in Handles : known[h] # 0 => known[h] \in Ids
  BY <1>1, CursorIdsAssumption, SMT DEF TypeOK, Ids
<1>4. TypeOK'
  <2>1. open' \in [Ids -> Handles \cup {None}] BY <1>2
  <2>2. reading' \in [Handles -> {"done", "rows", "cut"}] BY <1>1, <1>2 DEF TypeOK
  <2> QED BY <1>1, <1>2, <2>1, <2>2 DEF TypeOK
<1>5. MapsInv'
  BY <1>1, <1>2 DEF MapsInv, Issued, Ahead, Inverse, LastEntry, ThinCurrent
<1>6. KnownInv' /\ SharedInv' BY <1>1, <1>2 DEF ClientInv, KnownInv, SharedInv
<1>7. ReadingInv' BY <1>2, <1>3 DEF ReadingInv
<1>8. LatestInv' /\ RunsWhatWasMeant' /\ FetchReadsOwn'
  BY <1>1, <1>2 DEF LatestInv, RunsWhatWasMeant, FetchReadsOwn
<1> QED BY <1>4, <1>5, <1>6, <1>7, <1>8 DEF IInv, ClientInv

(***************************************************************************)
(* The theorems.                                                           *)
(***************************************************************************)
\* Every step keeps the invariant.
LEMMA StepKeepsIInv == IInv /\ [Next]_vars => IInv'
<1> SUFFICES ASSUME IInv, [Next]_vars PROVE IInv' OBVIOUS
<1>1. CASE Next
  <2>1. CASE \E h \in Handles, seq \in Seqs, outcome \in AllOutcomes :
               \/ \E s \in Statements : Execute(h, s, seq, outcome)
               \/ \E types \in BindTypes : NewParse(h, types, seq, outcome)
               \/ CachedExecute(h, seq, outcome)
               \/ \E named \in BOOLEAN : Reexecute(h, named, seq, outcome)
    BY <2>1, ExecuteKeeps, NewParseKeeps, CachedExecuteKeeps, ReexecuteKeeps
  <2>2. CASE \E h \in Handles, outcome \in {"more", "done", "error"} : Fetch(h, outcome)
    <3>1. {"more", "done", "error"} \subseteq AllOutcomes BY DEF AllOutcomes, Failures
    <3> QED BY <2>2, <3>1, FetchKeeps
  <2>3. CASE EndTransaction BY <2>3, EndTransactionKeeps
  <2> QED BY <1>1, <2>1, <2>2, <2>3 DEF Next
<1>2. CASE UNCHANGED vars
  BY <1>2 DEF vars, server, client, IInv, TypeOK, MapsInv, Issued, Ahead, Inverse,
     LastEntry, ThinCurrent, ClientInv, KnownInv, SharedInv, ReadingInv, LatestInv,
     RunsWhatWasMeant, FetchReadsOwn
<1> QED BY <1>1, <1>2

\* The invariant holds of every behaviour of a session.
LEMMA CursorIdsInv == Spec => []IInv
BY InitIInv, StepKeepsIInv, PTL DEF Spec

\* Every map of the command loop holds what it is for: ids in range, statements that
\* were executed, cursors of handles that opened them.
THEOREM CursorIdsType == Spec => []TypeOK
<1>1. IInv => TypeOK BY DEF IInv
<1> QED BY <1>1, CursorIdsInv, PTL

\* For any number of texts and ids: until oci_next_cursor_id comes round, no id is
\* given to two texts, and oci_id_to_sql has the text it was given to.
THEOREM CursorIdsApart == Spec => []OneIdPerText
<1>1. IInv => OneIdPerText BY DEF IInv, MapsInv, Issued, OneIdPerText
<1> QED BY <1>1, CursorIdsInv, PTL

\* For every kind of client and any history: a request without text runs the
\* statement its handle was prepared with, if no other handle went by its id.
THEOREM CursorIdsResolve == Spec => []RunsWhatWasMeant
<1>1. IInv => RunsWhatWasMeant BY DEF IInv
<1> QED BY <1>1, CursorIdsInv, PTL

\* For every kind of client and any history: a Fetch returns the rows of its own
\* result, or none after COMMIT, if no other handle went by its id.
THEOREM CursorIdsFetch == Spec => []FetchReadsOwn
<1>1. IInv => FetchReadsOwn BY DEF IInv
<1> QED BY <1>1, CursorIdsInv, PTL

=============================================================================
