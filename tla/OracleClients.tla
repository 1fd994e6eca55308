--------------------------- MODULE OracleClients ---------------------------
(***************************************************************************)
(* What Oracle's clients put in their requests and how they read replies,  *)
(* as the comments, captures and tests of the repository describe it: the  *)
(* thin drivers (python-oracledb, and oracle-rs with the lenient layouts), *)
(* the jdbc ones and the thick one.  None of it is code of the server.     *)
(***************************************************************************)
EXTENDS BoundParameters, Responses

(* One value for each name, in the order the names first occur.            *)
Names(sql) == LET tokens == Occurrences(sql)
              IN  Distinct([k \in DOMAIN tokens |-> Upcase(tokens[k])])

Types(values) == [i \in DOMAIN values |-> values[i].type]

RowOf(values) == <<7>> \o EachOf(values, LAMBDA v : WriteValue(v.wire))

----------------------------------------------------------------------------
(* Requests.                                                               *)

Piggybacks(ids) ==
  IF ids = <<>> THEN <<>> ELSE <<17, 105, 9, 1>> \o WriteUb(Len(ids)) \o EachOf(ids, WriteUb)

ThinDescriptor(type) == <<type, 1, 0, 0>> \o WriteUb(4000) \o <<0, 0, 0, 0>> \o <<0, 1, 0, 0>>

(* The jdbc drivers have fewer options between the preamble and the text.  *)
(* An output has a descriptor and no value.                                *)
ThinExecute(client, call) ==
  LET options == IF client.kind = "jdbc" THEN Zeros(21)
                 ELSE <<0, IF call.rows[1] = <<>> THEN 0 ELSE 1>> \o WriteUb(Len(call.rows[1])) \o Zeros(25)
  IN  <<3, 94, call.seq>> \o WriteUb(32801) \o <<0, 1>> \o WriteUb(Len(call.sql))
      \o <<1>> \o WriteUb(13) \o <<0, 0, 0>> \o WriteUb(call.size) \o options \o WriteValue(call.sql)
      \o <<1, 1>> \o WriteUb(Len(call.rows)) \o Zeros(11)
      \o EachOf(Types(call.rows[1]), ThinDescriptor)
      \o (IF Len(call.rows[1]) = call.outs THEN <<>>
          ELSE EachOf(call.rows, LAMBDA row : RowOf(SubSeq(row, 1, Len(row) - call.outs))))

ThinReexecute(call, cursor) ==
  <<3, Reexec, call.seq>> \o WriteUb(cursor) \o WriteUb(call.size) \o <<0, 0, 0>>
  \o (IF call.rows[1] = <<>> THEN <<>> ELSE RowOf(call.rows[1]))

ThinFetch(call, cursor) == <<3, FetchRows, call.seq>> \o WriteUb(cursor) \o WriteUb(call.size)

(* The thick client's layout is that of a captured Execute.                *)
OciDescriptor(v) == <<v.type, 7, 0, 0>> \o Le(v.size, 4) \o Zeros(6) \o <<1, 16>> \o Zeros(17)

OciRow(values) ==
  <<7>> \o EachOf(values, LAMBDA v : IF v.wire = Null THEN <<253, 255>> ELSE <<Len(v.wire)>> \o v.wire)

OciExecute(call) ==
  <<3, 94, call.seq, 105, 128>> \o Zeros(6) \o <<254>> \o [i \in 1..7 |-> 255]
  \o Le(Len(call.sql), 4) \o Zeros(8) \o <<Len(call.sql)>> \o call.sql \o <<1>> \o Zeros(22)
  \o <<1>> \o Zeros(8) \o <<128>> \o Zeros(18)
  \o EachOf(call.rows[1], OciDescriptor) \o (IF call.rows[1] = <<>> THEN <<>> ELSE OciRow(call.rows[1]))

OciReexecute(call, cursor) ==
  <<3, IF call.fetches THEN Fetching ELSE Reexec, call.seq>> \o Le(cursor, 4) \o Zeros(8)
  \o (IF call.rows[1] = <<>> THEN <<>> ELSE OciRow(call.rows[1]))

OciFetch(call, cursor) == <<3, FetchRows, call.seq>> \o Le(cursor, 4) \o Le(call.size, 4)

Body(client, call, cursor) ==
  CASE call.func = "execute"   -> IF client.oci THEN OciExecute(call) ELSE ThinExecute(client, call)
    [] call.func = "reexecute" -> IF client.oci THEN OciReexecute(call, cursor) ELSE ThinReexecute(call, cursor)
    [] call.func = "fetch"     -> IF client.oci THEN OciFetch(call, cursor) ELSE ThinFetch(call, cursor)

(* oracle-rs declares its Fetch two bytes short, in a header of the older  *)
(* kind.                                                                   *)
Transmitted(client, call, cursor) ==
  LET payload == <<0, 0>> \o Piggybacks(call.closes) \o Body(client, call, cursor)
  IN  IF client.kind = "lenient" /\ call.func = "fetch"
      THEN PacketHeader(Len(payload) - 2, FALSE) \o payload
      ELSE PacketHeader(Len(payload), client.large) \o payload

----------------------------------------------------------------------------
(* Replies.  A payload is put together from its packets.                   *)

Assembled(stream, large) ==
  LET size(p) == PacketLength(SubSeq(stream, p, p + 7), large)
      from[p \in 1..(Len(stream) + 1)] ==
        IF p > Len(stream) THEN <<>> ELSE SubSeq(stream, p + 10, p + size(p) - 1) \o from[p + size(p)]
  IN  SubSeq(stream, 9, 10) \o from[1]

(* The columns a reply describes: [cols, at], the type and scale of each.  *)
ThinColumn(jdbc) ==
  IF jdbc THEN <<"u8", "u8", "u8", "ub2", "ub4", "ub4", "ub8", "ub4", "ub2", "ub2", "u8", "ub4", "ub4",
                 "u8", "u8", "ub4", "bytes", "ub4", "ub4", "ub2", "ub4">>
  ELSE <<"u8", "u8", "u8", "u8", "ub4", "ub4", "ub8", "bytes", "ub2", "ub2", "u8", "ub4", "ub4",
         "u8", "u8", "ub4", "bytes", "ub4", "ub4", "ub2", "ub4">>

ReadColumns(d, at, n, kinds) ==
  FoldLeft(LAMBDA got, i :
             IF got.r # "ok" THEN got
             ELSE Then(Fields(d, got.at, kinds), LAMBDA c :
                       Got(Append(got.v, [type |-> c.v[1], scale |-> c.v[4]]), c.at)),
           Got(<<>>, at), [i \in 1..n |-> i])

ReadDescribe(client, d, at) ==
  Then(Fields(d, at, <<"bytes", "ub4", "ub4", "u8">>), LAMBDA head :
  Then(ReadColumns(d, head.at, head.v[3], ThinColumn(client.newer)), LAMBDA cols :
  Then(Fields(d, cols.at, [i \in 1..6 |-> "ub4"]), LAMBDA tail : Got(cols.v, tail.at))))

ReadDescribeOci(d, at) ==
  LET n == LittleEndian(SubSeq(d, at + 32, at + 35))
      from[k \in 1..(n + 1)] ==          \* where each column begins
        IF k = 1 THEN at + 37 ELSE from[k - 1] + 51 + d[from[k - 1] + 31]
  IN  Got([k \in 1..n |-> [type |-> d[from[k]], scale |-> d[from[k] + 3]]], from[n + 1] + 32)

(* The messages behind that: rows, the outputs of a change, and the end of *)
(* the call.                                                               *)
RowHeaderKinds(client) == IF client.newer THEN <<"u8", "ub2", "ub2", "ub2", "ub2", "ub4", "ub4">>
                          ELSE <<"u8", "ub2", "ub4", "ub4", "ub2", "ub4", "ub4">>

EndKinds(client, fetch) ==
  IF client.newer
  THEN <<"ub4", "ub2", "ub4", "ub2", "ub2", "ub2", "ub2", "ub2", "u8", "u8", "ub2", "u8", "u8", "u8",
         "ub4", "ub2", "u8", "ub4", "ub2", "ub4", "u8", "u8", "ub2", "ub4", "ub4", "ub4", "ub4", "ub4",
         "ub4", "ub8">>
  ELSE <<"ub4", "ub2", "ub4", "ub2", "ub2", "ub2", "ub2", "ub2", "u8", "u8", "u8", "u8", "u8", "u8">>
       \o (IF fetch /\ ~client.completion THEN [i \in 1..10 |-> "u8"] ELSE <<"ub4", "ub2", "u8", "ub4", "ub2">>)
       \o <<"ub4", "u8", "u8", "ub2", "ub4", "bytes", "ub2", "ub4", "ub2", "ub4", "ub8">>
       \o (IF fetch \/ client.completion THEN <<>> ELSE <<"ub4", "ub4">>)

End(code, rows, seq) == [rows |-> <<>>, outs |-> <<>>, code |-> code, count |-> rows, seq |-> seq]

ReadEnd(client, d, at, fetch) ==
  LET n == IF fetch /\ ~client.completion /\ ~client.newer THEN 34 ELSE 29
  IN  Then(Fields(d, at, EndKinds(client, fetch)), LAMBDA f :
           Got(End(f.v[n], f.v[n + 1], IF client.newer THEN f.v[22] ELSE 0), f.at))

ReadRow(d, at, n) == Fields(d, at, [i \in 1..n |-> "bytes"])

ReadOutputs(d, at, n) ==
  Then(Fields(d, at, [i \in 1..(3 * n) |-> <<"ub4", "bytes", "ub4">>[1 + ((i - 1) % 3)]]), LAMBDA f :
       Got([i \in 1..n |-> f.v[3 * i - 1]], f.at))

ReadThin(client, d, at, cols, outs, fetch) ==
  LET from[p \in 1..(Len(d) + 1)] ==
        IF p > Len(d) THEN Fail("short")
        ELSE CASE d[p] = 4 -> ReadEnd(client, d, p + 1, fetch)
               [] d[p] = 6 -> Then(Fields(d, p + 1, RowHeaderKinds(client)), LAMBDA head : from[head.at])
               [] d[p] = 7 -> Then(IF outs > 0 THEN ReadOutputs(d, p + 1, outs) ELSE ReadRow(d, p + 1, cols),
                                   LAMBDA row : Then(from[row.at], LAMBDA rest :
                                                     [rest EXCEPT !.v.rows = <<row.v>> \o @]))
               [] d[p] = 8 -> Then(Fields(d, p + 1, [i \in 1..4 |-> "ub2"]), LAMBDA params : from[params.at])
               [] d[p] = 11 -> Then(Fields(d, p + 1, <<"u8", "ub2", "ub4", "ub4", "ub2", "ub2", "ub2">>),
                                    LAMBDA vector : from[vector.at + vector.v[2]])
               [] OTHER -> Fail("bad")
  IN  from[at]

(* The thick client's rows have a byte of length, its end of call a code   *)
(* at a fixed place, and the rows of a change come before it or in it.     *)
ReadRowOci(d, at, n) ==
  FoldLeft(LAMBDA got, i : IF d[got.at] = 0 THEN Got(Append(got.v, Null), got.at + 1)
                           ELSE Got(Append(got.v, SubSeq(d, got.at + 1, got.at + d[got.at])),
                                    got.at + d[got.at] + 1),
           Got(<<>>, at), [i \in 1..n |-> i])

ReadOci(d, at, cols, changed) ==
  LET from[p \in 1..(Len(d) + 1)] ==
        IF p + 18 > Len(d) THEN Fail("short")
        ELSE CASE d[p] = 4 -> Got(End(LittleEndian(SubSeq(d, p + 11, p + 12)), d[p + 7], 0), p)
               [] d[p] = 6 -> from[p + 22]
               [] d[p] = 7 -> Then(ReadRowOci(d, p + 1, cols), LAMBDA row :
                              Then(from[row.at], LAMBDA rest : [rest EXCEPT !.v.rows = <<row.v>> \o @]))
               [] d[p] = 8 -> Then(from[p + 35], LAMBDA rest :
                                   IF changed
                                   THEN [rest EXCEPT !.v.count = LittleEndian(SubSeq(d, p + 15, p + 18))]
                                   ELSE rest)
               [] d[p] = 13 -> from[p + 18]
               [] OTHER -> Fail("bad")
  IN  from[at]

(* A reply as the client sees it; it has the columns of the statement from *)
(* its first Execute on.                                                   *)
ReadMessage(client, d, call, cols) ==
  Then(IF d[3] # 16 THEN Got(cols, 3)
       ELSE IF client.oci THEN ReadDescribeOci(d, 3) ELSE ReadDescribe(client, d, 4), LAMBDA known :
  Then(IF client.oci THEN ReadOci(d, known.at, Len(known.v), call.func # "fetch" /\ known.v = <<>>)
       ELSE ReadThin(client, d, known.at, Len(known.v), call.outs, call.func = "fetch"), LAMBDA rest :
       Got([cols |-> known.v, reply |-> rest.v], rest.at)))

ReadReply(client, stream, call, cols) == ReadMessage(client, Assembled(stream, client.large), call, cols)

(* What a value of a described column means.                               *)
ReadAs(client, type, bytes) ==
  CASE bytes \in {Null, <<>>} -> Null
    [] type = 2 -> DecodeNumber(bytes)
    [] type = 181 /\ client.oci -> DecodeTime([bytes EXCEPT ![12] = @ % 64], 181)
    [] type \in {12, 180, 181} /\ ~(type = 181 /\ client.oci) -> DecodeTime(bytes, type)
    [] type \in {100, 101} -> DecodeBinary(bytes)
    [] OTHER -> bytes
=============================================================================
