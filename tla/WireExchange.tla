---------------------------- MODULE WireExchange ----------------------------
(***************************************************************************)
(* A client runs statements on the server and reads their results: from    *)
(* the bytes of its request to the parameters the database gets, and from  *)
(* the rows the database holds to the bytes of the replies.  One session,  *)
(* one statement at a time, executed, executed again with other values,    *)
(* and fetched until the client has been told that it has every row.       *)
(***************************************************************************)
EXTENDS OracleClients

CONSTANTS
  Clients,      \* [kind, completion, newer, oci, large]: what each negotiated
  Backends,     \* "postgres", "mariadb"
  Queries,      \* name -> [sql, col, binary, rows, seen]: a query of one column
  Changes,      \* name -> [sql, kind, returns, changed]: a statement that changes rows
  BindValues,   \* name -> [type, size, wire, means]: a value a client can bind
  Again,        \* the names of those it binds when it executes a statement again
  Closes,       \* the cursor ids it closes ahead of a request
  Sizes,        \* the rows it asks for with one request
  CallNumbers,  \* after how many calls their numbers repeat (255 in fact)
  MaxRuns       \* how often a session executes its statement

Kinds == {"insert", "update", "delete", "merge", "other"}

VARIABLES
  client, backend,
  stmt,         \* the name of the statement the client works on
  call,         \* its last request: [func, seq, sql, rows, size, closes, fetches, outs]
  toServer,     \* the bytes the server has not read
  toClient,     \* the bytes the client has not read
  asked,        \* the server: what it made of the request, [func, sql, rows] of parameters
  last,         \* the server: last_execute, [sql, types]
  cursor,       \* the server: the rows its open cursor has left, None when there is none
  sent,         \* the server: oci_rows_sent
  view,         \* the client: [cols, rows, more, count, code, seq]
  turn,         \* whose move it is: the "client" may send, the "server" has a request, or a "reply" waits
  runs

vars == <<client, backend, stmt, call, toServer, toClient, asked, last, cursor, sent, view, turn, runs>>

NoView == [cols |-> <<>>, rows |-> <<>>, more |-> FALSE, count |-> 0, code |-> 0, seq |-> 0]

Init == /\ client \in Clients
        /\ backend \in Backends
        /\ stmt = None /\ call = None /\ asked = None /\ last = None /\ cursor = None
        /\ toServer = <<>> /\ toClient = <<>> /\ turn = "client"
        /\ sent = 0 /\ runs = 0 /\ view = NoView

Idle == turn = "client"

IsQuery(name) == name \in DOMAIN Queries

Statement(name) == IF IsQuery(name) THEN Queries[name] ELSE Changes[name]

Bound(row) == [i \in DOMAIN row |-> BindValues[row[i]]]

\* A cursor of a thick or a jdbc client has an id of its own; the others' is 1.
CursorId == IF client.oci \/ client.newer THEN 3 ELSE 1

----------------------------------------------------------------------------
(* The client.                                                             *)

Send(c) == /\ turn = "client" /\ turn' = "server"
           /\ call' = c
           /\ toServer' = Transmitted(client, c, CursorId)
           /\ UNCHANGED <<client, backend, toClient, asked, last, cursor, sent>>

Call(func, name, rows, size, closes) ==
  [func |-> func, seq |-> IF call = None THEN 7 ELSE 1 + (call.seq % CallNumbers),
   sql |-> IF func = "fetch" THEN <<>> ELSE Statement(name).sql, rows |-> rows, size |-> size,
   closes |-> closes, fetches |-> IsQuery(name), outs |-> 0]

Outputs(sql) == IF SplitReturningInto(sql) = None THEN 0 ELSE SplitReturningInto(sql).outs

(* A thin client can bind a change for several rows at once.               *)
ClientExecutes ==
  /\ stmt = None
  /\ \E name \in DOMAIN Queries \cup DOMAIN Changes, size \in Sizes, closes \in Closes :
     \E row \in [1..Len(Names(Statement(name).sql)) -> DOMAIN BindValues] :
       LET s == Statement(name)
           rows == IF ~IsQuery(name) /\ s.array /\ ~client.oci THEN <<Bound(row), Bound(row)>>
                   ELSE <<Bound(row)>>
       IN  /\ Outputs(s.sql) > 0 => ThinStrict(client)
           /\ backend \in s.on
           /\ ~IsQuery(name) => size = 0
           /\ client.oci => s.thick /\ \A i \in DOMAIN row : BindValues[row[i]].thick
           /\ \A i \in DOMAIN row : i > 1 => row[i] \in Again
           /\ closes # <<>> => client.kind \in {"thin", "jdbc"}
           /\ stmt' = name /\ runs' = 1
           /\ Send([Call("execute", name, rows, size, closes) EXCEPT !.outs = Outputs(s.sql)])
           /\ view' = NoView

(* Executed again, a statement has values of the types it had.             *)
ClientExecutesAgain ==
  /\ stmt # None /\ runs < MaxRuns /\ ~view.more /\ view.code \in {0, NoMore}
  /\ call.outs = 0 /\ Len(call.rows) = 1
  /\ \E row \in [1..Len(call.rows[1]) -> Again] :
       /\ Types(Bound(row)) = Types(call.rows[1])
       /\ Send(Call("reexecute", stmt, <<Bound(row)>>, IF call.size = 0 THEN 1 ELSE call.size, <<>>))
       /\ view' = [NoView EXCEPT !.cols = view.cols]
       /\ runs' = runs + 1
       /\ UNCHANGED stmt

ClientFetches ==
  /\ view.more
  /\ \E size \in Sizes \ {0} : Send(Call("fetch", stmt, call.rows, size, <<>>))
  /\ UNCHANGED <<stmt, view, runs>>

(* Whether there are more rows is the absence of ORA-01403 to most, and to *)
(* oracle-rs a count that is not zero.                                     *)
ClientReads ==
  /\ turn = "reply" /\ turn' = "client" /\ toClient' = <<>>
  /\ \E got \in {ReadReply(client, toClient, call, view.cols)} :
         view' = IF got.r # "ok" THEN [view EXCEPT !.code = -1, !.more = FALSE]
                 ELSE [cols |-> got.v.cols, rows |-> view.rows \o got.v.reply.rows,
                       more |-> /\ IsQuery(stmt) /\ got.v.reply.code = 0
                                /\ client.kind = "lenient" => got.v.reply.count > 0,
                       count |-> got.v.reply.count, code |-> got.v.reply.code, seq |-> got.v.reply.seq]
  /\ UNCHANGED <<client, backend, stmt, call, toServer, asked, last, cursor, sent, runs>>

----------------------------------------------------------------------------
(* The database.  Its cursor knows that it is at its end when it is asked  *)
(* for more than there is; MariaDB's has counted its rows.                 *)

Described(q) == IF backend = "postgres" THEN PgMeta(q.col, client) ELSE MyMeta(q.col, client)

Encoded(q, value) == IF backend = "postgres" THEN PgBytes(q.col, value, Described(q), client)
                     ELSE MyBytes(q.col, value, Described(q), q.binary)

Cols(q) == <<[name |-> <<65>>, meta |-> Described(q)]>>

\* A mutation for Batch: the end is never seen.
BatchEndless(rows, n) ==
  LET taken == IF n < Len(rows) THEN n ELSE Len(rows)
  IN  [rows |-> SubSeq(rows, 1, taken), left |-> SubSeq(rows, taken + 1, Len(rows)), more |-> TRUE]

Batch(rows, n) ==
  LET taken == IF n < Len(rows) THEN n ELSE Len(rows)
  IN  [rows |-> SubSeq(rows, 1, taken), left |-> SubSeq(rows, taken + 1, Len(rows)),
       more |-> IF backend = "postgres" THEN n <= Len(rows) ELSE n < Len(rows)]

----------------------------------------------------------------------------
(* The server's answers.                                                   *)

Reply(payload) == toClient' = Packets(payload, client.large, client.oci)

Refuse(code, seq) ==
  /\ Reply(IF client.oci THEN ErrorResponseOci(code, 0, seq) ELSE ErrorResponse(client, code, 0))
  /\ UNCHANGED <<cursor, sent>>

AnswerQuery(request, func, seq) ==
  LET q == Queries[stmt]
      size == IF client.oci THEN 2 ELSE IF request.prefetch = 0 THEN 100
              ELSE IF request.prefetch > 50000 THEN 50000 ELSE request.prefetch
  IN  \E batch \in {Batch([i \in DOMAIN q.rows |-> <<Encoded(q, q.rows[i])>>], size)} :
      /\ Reply(IF client.oci THEN QueryResponseOci(Cols(q), batch.rows, CursorId, batch.more, func = Execute)
               ELSE QueryResponse(client, Cols(q), batch.rows, CursorId, batch.more, seq))
      /\ cursor' = IF batch.more THEN batch.left ELSE None
      /\ sent' = Len(batch.rows)

AnswerChange(request, func, seq) ==
  LET c == Changes[stmt]
      count == IF request.rows = <<>> THEN c.changed ELSE Len(request.rows) * c.changed
  IN  /\ Reply(IF client.oci /\ func = Reexec THEN ReexecuteResponseOci(count, seq)
               ELSE IF client.oci /\ c.kind = "ddl" THEN DdlResponseOci(CursorId, seq)
               ELSE IF client.oci THEN DmlResponseOci(count, CursorId, seq, c.kind)
               ELSE IF client.newer THEN DmlResponseJdbc(count, seq) ELSE DmlResponse(count))
      /\ UNCHANGED <<cursor, sent>>

AnswerReturning(request, split, bound) ==
  LET c == Changes[stmt]
      inputs == IF Len(request.types) >= split.outs THEN Len(request.types) - split.outs ELSE Len(bound)
  IN  /\ Reply(ReturningResponse(inputs, [k \in 1..split.outs |-> <<c.returns>>], 1))
      /\ UNCHANGED <<cursor, sent>>

(* The parameters the database gets, a row of them for each execution.  A  *)
(* row that cannot be bound fails the call.                                *)
BoundRows(request, sql) ==
  LET rows == IF request.rows = <<>> THEN <<request.binds>> ELSE request.rows
      bound == [i \in DOMAIN rows |-> BindParameters(sql, rows[i], backend)]
  IN  IF \E i \in DOMAIN bound : bound[i].r # "ok" THEN None ELSE [i \in DOMAIN bound |-> bound[i].v]

ServerRuns(d, seq) ==
  \E parsed \in {ParseCall(d, client.oci, last)} :
  \E split \in {SplitReturningInto(parsed.v.sql)} :
  \E bound \in {BoundRows(parsed.v, IF split = None THEN parsed.v.sql ELSE split.sql)} :
  LET request == parsed.v
      sql == IF split = None THEN request.sql ELSE split.sql
  IN  IF parsed.r # "ok" THEN Refuse(1008, seq) /\ asked' = None /\ UNCHANGED last
      ELSE /\ last' = IF d[4] = Execute /\ request.sql # <<>>
                      THEN [sql |-> request.sql, types |-> request.types] ELSE last
           /\ asked' = IF bound = None THEN None ELSE [func |-> d[4], sql |-> sql, rows |-> bound]
           /\ IF split # None /\ ~ThinStrict(client) THEN Refuse(3001, seq)
              ELSE IF bound = None THEN Refuse(1008, seq)
              ELSE IF request.sql # Statement(stmt).sql THEN Refuse(900, seq)
              ELSE IF split # None THEN AnswerReturning(request, split, bound[1].values)
              ELSE IF IsQuery(stmt) THEN AnswerQuery(request, d[4], seq)
              ELSE AnswerChange(request, d[4], seq)

Clamp(n, most) == IF n < 1 THEN 1 ELSE IF n > most THEN most ELSE n

ServerFetches(d, seq) ==
  \E request \in {IF client.oci THEN ParseFetchOci(d, CursorId) ELSE ParseFetch(d, CursorId)} :
  /\ asked' = [func |-> d[4], sql |-> <<>>, rows |-> <<>>]
  /\ UNCHANGED last
  /\ IF cursor = None \/ request.cursor \notin {0, CursorId}
     THEN /\ Reply(IF client.oci THEN FetchResponseOci(<<>>, <<>>, request.rows, CursorId, FALSE, sent)
                   ELSE FetchResponse(client, <<>>, FALSE))
          /\ UNCHANGED <<cursor, sent>>
     ELSE \E batch \in {Batch(cursor, Clamp(request.rows, IF client.oci THEN 500 ELSE 50000))} :
          /\ Reply(IF client.oci
                   THEN FetchResponseOci(Cols(Queries[stmt]), batch.rows, request.rows, CursorId, batch.more,
                                         sent + Len(batch.rows))
                   ELSE IF client.newer THEN FetchResponseJdbc(batch.rows, CursorId, batch.more, seq)
                   ELSE FetchResponse(client, batch.rows, batch.more))
          /\ cursor' = IF batch.more THEN batch.left ELSE None
          /\ sent' = sent + Len(batch.rows)

(* One round of the command loop.  A COMMIT or a ROLLBACK is acknowledged; *)
(* what follows a packet in the stream is the next one.                    *)
ServerAnswers ==
  /\ turn = "server" /\ turn' = "reply"
  /\ \E packet \in {ReadPacket(toServer, client.large, client.oci)} : \E d \in {Message(packet.payload)} :
         /\ toServer' = packet.rest
         /\ IF d[4] \in {Execute, Fetching, Reexec} THEN ServerRuns(d, d[5])
            ELSE IF d[4] = FetchRows THEN ServerFetches(d, d[5])
            ELSE /\ asked' = [func |-> d[4], sql |-> <<>>, rows |-> <<>>]
                 /\ Reply(IF client.newer THEN DmlResponseJdbc(0, d[5]) ELSE DmlResponse(0))
                 /\ UNCHANGED <<last, cursor, sent>>
  /\ UNCHANGED <<client, backend, stmt, call, view, runs>>

Next == \/ ClientExecutes \/ ClientExecutesAgain \/ ClientFetches \/ ClientReads \/ ServerAnswers

(* The server answers what has arrived, the client reads what it gets and  *)
(* asks on while there are more rows: each the only step of Next that moves *)
(* the turn that way in such a state.                                      *)
Served == turn = "server" /\ turn' = "reply"
Read   == turn = "reply" /\ turn' = "client"
Asked  == turn = "client" /\ view.more /\ turn' = "server"

Spec == Init /\ [][Next]_vars /\ WF_turn(Served) /\ WF_turn(Read) /\ WF_turn(Asked)

----------------------------------------------------------------------------
(* Properties.                                                             *)

Meant(value) ==
  CASE value.t = "text" /\ value.v = <<>> -> [t |-> "null", v |-> Null]
    [] value.t = "time" /\ backend = "mariadb" -> [value EXCEPT !.v.offset = <<>>]
    [] OTHER -> value

(* A value as a database takes it: an empty text is no value to either, as *)
(* the MariaDB session's mode says too.                                    *)
Taken(parameter) == IF parameter.v = <<>> THEN [t |-> "null", v |-> Null] ELSE parameter

SameValue(a, b) == a.t = b.t /\ a.v = b.v

ValueOf(row, token) ==
  LET names == Names(Statement(stmt).sql)
  IN  row[CHOOSE i \in DOMAIN names : names[i] = Upcase(token)].means

InputSql(c) == IF c.outs = 0 THEN c.sql ELSE SplitReturningInto(c.sql).sql

Bindable(c) ==
  \A i \in DOMAIN c.rows : \A k \in 1..(Len(c.rows[i]) - c.outs) : c.rows[i][k].means.t # "refused"

Functions == [execute |-> {Execute}, reexecute |-> {Reexec, Fetching}, fetch |-> {FetchRows}]

(* What the client sent is what the server does, whatever travelled with   *)
(* it: the function, the text, and at every placeholder of every row the   *)
(* value the client gave that name; a value no database has is refused and *)
(* none of the request is left to be read as the next.                     *)
BoundAsSent ==
  turn = "reply" =>
    /\ toServer = <<>>
    /\ (asked = None) <=> ~Bindable(call)
    /\ asked # None =>
         /\ asked.func \in Functions[call.func]
         /\ call.func # "fetch" =>
              /\ asked.sql = InputSql(call)
              /\ Len(asked.rows) = Len(call.rows)
              /\ \A i \in DOMAIN call.rows :
                   LET tokens == Occurrences(InputSql(call))
                       row == asked.rows[i]
                   IN  \A k \in DOMAIN tokens :
                         SameValue(Taken(row.values[row.places[k]]), Meant(ValueOf(call.rows[i], tokens[k])))

(* What the client has read is what the database holds: each row once and  *)
(* in order, however many requests brought them, in the column's type and  *)
(* with its value; the rows a change changed and what it returned; and the *)
(* number of its call to a client that looks for it.                       *)
Seen(q) == IF client.completion /\ ~client.newer THEN q.seen.strict ELSE q.seen.other

ReadAsHeld ==
  (Idle /\ stmt # None) =>
    IF ~Bindable(call) THEN view.code \notin {-1, 0}
    ELSE /\ view.code \in {0, NoMore}
         /\ IsQuery(stmt) =>
              LET q == Queries[stmt]
              IN  /\ Len(view.rows) <= Len(q.rows)
                  /\ ~view.more => Len(view.rows) = Len(q.rows)
                  /\ view.cols[1].type = Seen(q).type
                  /\ \A i \in DOMAIN view.rows :
                       ReadAs(client, view.cols[1].type, view.rows[i][1]) = Seen(q).values[i]
         /\ ~IsQuery(stmt) =>
              LET c == Changes[stmt]
              IN  /\ c.kind \in Kinds => view.count = c.changed * Len(call.rows)
                  /\ call.outs > 0 => view.rows = <<[k \in 1..call.outs |-> c.returns]>>
         /\ client.newer => view.seq = call.seq

(* A client that has begun a query reads it to its end.                    *)
EveryRowArrives == IsQuery(stmt) ~> (Idle /\ ~view.more)

(* A reply to a jdbc client has the number of its call, as the command     *)
(* loop's comment asks, errors included.                                   *)
CallNumberEchoed == (Idle /\ stmt # None /\ client.newer) => view.seq = call.seq
=============================================================================
