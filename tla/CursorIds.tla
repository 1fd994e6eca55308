----------------------------- MODULE CursorIds -----------------------------
(***************************************************************************)
(* Which statement a request means: the cursor ids the command loop of     *)
(* src/server.rs hands out, the maps it resolves them with, and a client   *)
(* that remembers the ids it was told.                                     *)
(*                                                                         *)
(* An Execute (0x5E) carries SQL text and bind datatypes, or names a       *)
(* cursor and omits the text; a re-execute (0x04, 0x4E) carries neither.   *)
(* A Fetch names the cursor whose rows it wants.  Three kinds of client    *)
(* differ in what they send and are told:                                  *)
(*   "oci"   is told the id of every statement, and names it from then on; *)
(*   "jdbc"  is told an id while rows are left, and names it meanwhile;    *)
(*   "thin"  is told the one id 1 while rows are left.                     *)
(***************************************************************************)
EXTENDS Naturals

CONSTANTS
  Dialects,          \* which kinds of client to consider
  Handles,           \* the client's statement handles
  Queries, Changes,  \* SQL texts, those that return rows and those that do not
  BindTypes,         \* lists of bind datatypes
  Seqs,              \* sequence bytes; the client's counter wraps
  MaxId,             \* the largest cursor id, 65535 in the code
  None               \* no statement, no handle

Texts == Queries \cup Changes
Statements == [sql : Texts, types : BindTypes]
Ids == 1..MaxId

ASSUME CursorIdsAssumption ==
  /\ Dialects \subseteq {"oci", "jdbc", "thin"}
  /\ MaxId \in Nat /\ MaxId >= 3
  /\ None \notin Handles /\ None \notin Statements
  /\ Queries \cap Changes = {}

VARIABLES
  dialect,   \* what the client negotiated
  ids,       \* oci_cursor_ids: SQL text -> id, 0 for none
  nextId,    \* oci_next_cursor_id
  round,     \* "first" time through the ids, all "spent", or some given "again"
  texts,     \* oci_id_to_sql: id -> statement
  bySeq,     \* oci_seq_to_sql: sequence byte -> statement
  last,      \* last_execute
  current,   \* cursor_id
  open,      \* cursors: id -> the handle whose rows are streamed under it
  prepared,  \* the client: a handle's text and the bind datatypes it last sent
  known,     \* the client: the cursor id a handle was told, 0 for none
  reading,   \* the client: is there more of a handle's result to "read"
  latest,    \* the client: the handle that last ran something
  mixed,     \* handles whose cursor id is not theirs alone, or that sent none
  reply      \* the last request: what was meant, and what was done

server == <<ids, nextId, round, texts, bySeq, last, current, open>>
client == <<prepared, known, reading, latest, mixed>>
vars == <<dialect, server, client, reply>>

Requests == {"none", "execute", "name", "previous", "fetch"}

TypeOK ==
  /\ dialect \in Dialects
  /\ ids \in [Texts -> 0..MaxId]
  /\ nextId \in Ids
  /\ round \in {"first", "spent", "again"}
  /\ texts \in [Ids -> Statements \cup {None}]
  /\ bySeq \in [Seqs -> Statements \cup {None}]
  /\ last \in Statements \cup {None}
  /\ current \in Ids
  /\ open \in [Ids -> Handles \cup {None}]
  /\ prepared \in [Handles -> Statements \cup {None}]
  /\ known \in [Handles -> 0..MaxId]
  /\ reading \in [Handles -> {"done", "rows", "cut"}]
  /\ latest \in Handles \cup {None}
  /\ mixed \subseteq Handles
  /\ reply \in [request : Requests, apart : BOOLEAN,
                meant : Statements \cup Handles \cup {None},
                done : Statements \cup Handles \cup {None}]

Init ==
  /\ dialect \in Dialects
  /\ ids = [q \in Texts |-> 0]
  /\ nextId = IF dialect = "oci" THEN 3 ELSE 1
  /\ round = "first"
  /\ texts = [i \in Ids |-> None]
  /\ bySeq = [s \in Seqs |-> None]
  /\ last = None
  /\ current = IF dialect = "oci" THEN 2 ELSE 1
  /\ open = [i \in Ids |-> None]
  /\ prepared = [h \in Handles |-> None]
  /\ known = [h \in Handles |-> 0]
  /\ reading = [h \in Handles |-> "done"]
  /\ latest = None
  /\ mixed = {}
  /\ reply = [request |-> "none", apart |-> TRUE, meant |-> None, done |-> None]

(***************************************************************************)
(* The maps.                                                               *)
(***************************************************************************)
\* Mutant: wrapping_add(1) alone.
SuccessorFromZero(id) == (id + 1) % (MaxId + 1)

\* wrapping_add(1).max(3)
Successor(id) == IF id = MaxId \/ id < 3 THEN 3 ELSE id + 1

\* Mutant: a counter that also moves when the text has an id already, and hands
\* out a fresh id each time.
RememberEachTime(s, seq) ==
  /\ last' = s
  /\ bySeq' = [bySeq EXCEPT ![seq] = s]
  /\ IF dialect = "thin"
       THEN UNCHANGED <<current, ids, nextId, round>>
       ELSE /\ current' = nextId
            /\ ids' = [ids EXCEPT ![s.sql] = nextId]
            /\ nextId' = Successor(nextId)
            /\ UNCHANGED round
  /\ texts' = [texts EXCEPT ![current'] = s]

\* An Execute is remembered before it is bound, translated or run: under its
\* sequence byte, as the last one, and under its id, a fresh one if the text has
\* none yet.
Remember(s, seq) ==
  /\ last' = s
  /\ bySeq' = [bySeq EXCEPT ![seq] = s]
  /\ IF dialect = "thin"
       THEN UNCHANGED <<current, ids, nextId, round>>
       ELSE IF ids[s.sql] # 0
       THEN current' = ids[s.sql] /\ UNCHANGED <<ids, nextId, round>>
       ELSE /\ current' = nextId
            /\ ids' = [ids EXCEPT ![s.sql] = nextId]
            /\ nextId' = Successor(nextId)
            /\ round' = IF round = "first" /\ nextId # MaxId THEN "first"
                        ELSE IF round = "first" THEN "spent" ELSE "again"
  /\ texts' = [texts EXCEPT ![current'] = s]

FirstOf(a, b, c) == IF a # None THEN a ELSE IF b # None THEN b ELSE c

\* The statement an Execute without text is a new parse of; 0 names none.
Hint(id) == IF id # 0 /\ texts[id] # None THEN texts[id] ELSE last

\* Mutant: the sequence byte is consulted first.
ResolvedBySequence(id, seq) ==
  IF dialect = "oci"
    THEN FirstOf(bySeq[seq], IF id = 0 THEN None ELSE texts[id], last)
    ELSE last

\* The statement a re-execute runs.
Resolved(id, seq) ==
  IF dialect = "oci"
    THEN FirstOf(IF id = 0 THEN None ELSE texts[id], bySeq[seq], last)
    ELSE last

(***************************************************************************)
(* Running the statement that was found.  `outcome` is "more" (rows are    *)
(* left), "done", "error" (the backend's), or "refused": it could not be   *)
(* bound or translated, and never reached the backend.                     *)
(***************************************************************************)
Failures == {"error", "refused"}
AllOutcomes == {"more", "done"} \cup Failures
Outcomes(q) == IF q \in Queries THEN AllOutcomes ELSE AllOutcomes \ {"more"}

\* Mutant: every open cursor is replaced.
RunClosesAll(h, s, outcome) ==
  open' = IF s.sql \in Queries /\ outcome # "refused"
            THEN [i \in Ids |-> IF i = current' /\ outcome = "more" THEN h ELSE None]
            ELSE open

\* A query replaces the cursor under the current id, and is kept while it has rows.
Run(h, s, outcome) ==
  open' = IF s.sql \in Queries /\ outcome # "refused"
            THEN [open EXCEPT ![current'] = IF outcome = "more" THEN h ELSE None]
            ELSE open

\* The id the client goes by after the answer: an error tells it none, and leaves it
\* with the one in `kept`.
Told(outcome, kept) ==
  IF outcome \in Failures THEN kept
  ELSE IF dialect = "oci" \/ outcome = "more" THEN current' ELSE 0

Answered(h, outcome, id) ==
  /\ known' = [known EXCEPT ![h] = id]
  /\ reading' = [reading EXCEPT ![h] = IF outcome = "more" THEN "rows" ELSE "done"]
  /\ latest' = h

\* The other handles that go by the id the request runs under.
Sharing(h) == {g \in Handles \ {h} : known[g] = current'}

Mixing(h, kept) ==
  mixed' = kept \cup (IF Sharing(h) = {} THEN {} ELSE Sharing(h) \cup {h})

(***************************************************************************)
(* The requests.                                                           *)
(***************************************************************************)
\* 0x5E with text and bind datatypes.
Execute(h, s, seq, outcome) ==
  /\ outcome \in Outcomes(s.sql)
  /\ Remember(s, seq)
  /\ Run(h, s, outcome)
  /\ prepared' = [prepared EXCEPT ![h] = s]
  /\ Answered(h, outcome, Told(outcome, 0))
  /\ Mixing(h, mixed \ {h})
  /\ reply' = [request |-> "execute", apart |-> TRUE, meant |-> s, done |-> s]
  /\ UNCHANGED dialect

\* 0x5E of an OCI client that names its cursor and sends new bind datatypes.
NewParse(h, types, seq, outcome) ==
  LET s == [sql |-> Hint(known[h]).sql, types |-> types] IN
  /\ dialect = "oci" /\ known[h] # 0 /\ Hint(known[h]) # None
  /\ outcome \in Outcomes(s.sql)
  /\ Remember(s, seq)
  /\ Run(h, s, outcome)
  /\ prepared' = [prepared EXCEPT ![h].types = types]
  /\ Answered(h, outcome, Told(outcome, known[h]))
  /\ Mixing(h, mixed)
  /\ reply' = [request |-> "name", apart |-> h \notin mixed,
               meant |-> [prepared[h] EXCEPT !.types = types], done |-> s]
  /\ UNCHANGED dialect

\* 0x5E of ojdbc's statement cache: it names a cursor, and binds as before.
CachedExecute(h, seq, outcome) ==
  LET s == Hint(known[h]) IN
  /\ dialect = "jdbc" /\ known[h] # 0 /\ s # None
  /\ outcome \in Outcomes(s.sql)
  /\ Remember(s, seq)
  /\ Run(h, s, outcome)
  /\ Answered(h, outcome, Told(outcome, known[h]))
  /\ Mixing(h, mixed)
  /\ reply' = [request |-> "name", apart |-> h \notin mixed,
               meant |-> prepared[h], done |-> s]
  /\ UNCHANGED <<dialect, prepared>>

\* 0x04 or 0x4E.  An OCI client names its cursor, or sends 0 for the one of the
\* call before; the others send a text again unless it is what they ran last.
\* OCI's acknowledgement of a change tells no id.
Reexecute(h, named, seq, outcome) ==
  LET s == Resolved(IF named THEN known[h] ELSE 0, seq) IN
  /\ named \/ dialect = "oci"
  /\ IF dialect = "oci" /\ named THEN known[h] # 0 ELSE latest = h
  /\ s # None /\ outcome \in Outcomes(s.sql)
  /\ current' = IF dialect # "thin" /\ ids[s.sql] # 0 THEN ids[s.sql] ELSE current
  /\ Run(h, s, outcome)
  /\ Answered(h, outcome, IF dialect = "oci" /\ s.sql \in Changes
                           THEN known[h] ELSE Told(outcome, known[h]))
  /\ Mixing(h, mixed \cup (IF named THEN {} ELSE {h}))
  /\ reply' = [request |-> IF named THEN "name" ELSE "previous",
               apart |-> h \notin mixed, meant |-> prepared[h], done |-> s]
  /\ UNCHANGED <<dialect, ids, nextId, round, texts, bySeq, last, prepared>>

\* Fetch: rows of the cursor that is named, or an empty last batch if none is open.
Fetch(h, outcome) ==
  /\ reading[h] # "done" /\ known[h] # 0
  /\ outcome \in IF open[known[h]] = None THEN {"done"} ELSE {"more", "done", "error"}
  /\ open' = [open EXCEPT ![known[h]] = IF outcome = "more" THEN @ ELSE None]
  /\ known' = [known EXCEPT ![h] = IF outcome = "more" \/ dialect = "oci" THEN @ ELSE 0]
  /\ reading' = [reading EXCEPT ![h] = IF outcome = "more" THEN @ ELSE "done"]
  /\ reply' = [request |-> "fetch", apart |-> h \notin mixed,
               meant |-> IF reading[h] = "rows" THEN h ELSE None,
               done |-> open[known[h]]]
  /\ UNCHANGED <<dialect, ids, nextId, round, texts, bySeq, last, current,
                 prepared, latest, mixed>>

\* COMMIT and ROLLBACK as functions of their own finish every open cursor.
EndTransaction ==
  /\ open' = [i \in Ids |-> None]
  /\ reading' = [h \in Handles |-> IF reading[h] = "rows" THEN "cut" ELSE reading[h]]
  /\ UNCHANGED <<dialect, ids, nextId, round, texts, bySeq, last, current,
                 prepared, known, latest, mixed, reply>>

Next ==
  \/ \E h \in Handles, seq \in Seqs, outcome \in AllOutcomes :
       \/ \E s \in Statements : Execute(h, s, seq, outcome)
       \/ \E types \in BindTypes : NewParse(h, types, seq, outcome)
       \/ CachedExecute(h, seq, outcome)
       \/ \E named \in BOOLEAN : Reexecute(h, named, seq, outcome)
  \/ \E h \in Handles, outcome \in {"more", "done", "error"} : Fetch(h, outcome)
  \/ EndTransaction

Spec == Init /\ [][Next]_vars

(***************************************************************************)
(* What the ids are for.                                                   *)
(***************************************************************************)
\* Until the counter comes round, a text has one id, an id one text, and the maps
\* agree: what an id was given out for is what oci_id_to_sql finds under it.
OneIdPerText ==
  round # "again" /\ dialect # "thin" =>
    /\ \A p, q \in Texts : ids[p] = ids[q] /\ ids[p] # 0 => p = q
    /\ \A q \in Texts : ids[q] # 0 => texts[ids[q]] # None /\ texts[ids[q]].sql = q

\* A request without text runs the text its handle was prepared with, and decodes
\* the binds with the datatypes it sent last, whatever ran in between and whatever
\* the sequence byte is; unless another handle has gone by the same id, of which the
\* server keeps one cursor and one list of datatypes.
RunsWhatWasMeant ==
  reply.request = "name" /\ reply.apart => reply.done = reply.meant

\* With the same exception: a Fetch returns rows of the result it is for as long as
\* there are any; and when COMMIT or ROLLBACK ended that result, no rows of another.
FetchReadsOwn ==
  reply.request = "fetch" /\ reply.apart => reply.done = reply.meant

\* Of two cursors that are live at once, whoever their client is, neither is given
\* rows of the other.
TwoLiveCursors == reply.request = "fetch" => reply.done \in {reply.meant, None}

=============================================================================
