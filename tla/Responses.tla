----------------------------- MODULE Responses -----------------------------
(***************************************************************************)
(* The replies of wire.rs, as the bytes of their payload.  The client is   *)
(* what it negotiated (completion, newer, oci); a column is its name and   *)
(* the meta of ResultColumns; a row is a value, or Null, for each column.  *)
(* The three families of clients read the same reply in different layouts: *)
(* the thin drivers compact integers, the jdbc ones compact integers in    *)
(* another order, the thick ones little-endian integers of fixed width.    *)
(***************************************************************************)
EXTENDS ResultColumns

CONSTANT OciChunk       \* OCI_CHUNK: the message bytes of one packet of a thick client

ASSUME OciChunkAssumption == OciChunk \in 1..8101

MoreFlag  == 32         \* 0x20: more rows
NoMore    == 1403       \* ORA-01403
LastFlags == 8192       \* END_OF_RESPONSE in the data flags
Rowid     == [i \in 1..13 |-> 97]       \* oci_random_rowid, whatever it draws

(* The text of an error is one byte here.                                  *)
Message1 == <<79>>

Charset(meta)     == IF meta.type = 1 THEN 873 ELSE 0
CharsetForm(meta) == IF meta.type = 1 THEN 1 ELSE 0

Dalc(bytes) == WriteUb(Len(bytes)) \o IF bytes = <<>> THEN <<>> ELSE <<Len(bytes)>> \o bytes

EachOf(items, Written(_)) == FlattenSeq([i \in DOMAIN items |-> Written(items[i])])

----------------------------------------------------------------------------
(* The columns of a query.                                                 *)

DescribeThin(cols) ==
  <<16, 0, 0>> \o WriteUb(Len(cols)) \o <<0>>
  \o EachOf(cols, LAMBDA c :
       <<c.meta.type, 0, c.meta.precision, c.meta.scale>> \o WriteUb(c.meta.size) \o <<0, 0, 0, 1, 1>>
       \o WriteUb(Charset(c.meta)) \o <<CharsetForm(c.meta)>> \o WriteUb(c.meta.size)
       \o <<0, 1, 0>> \o WriteUb(Len(c.name)) \o WriteValue(c.name) \o <<0, 0, 1, 1, 0>>)
  \o Zeros(6)

\* A mutation for DescribeJdbc: the scale is a plain byte.
DescribeJdbcRawScale(cols) ==
  <<16, 0, 0>> \o WriteUb(Len(cols)) \o <<0>>
  \o EachOf(cols, LAMBDA c :
       <<c.meta.type, 0, c.meta.precision, c.meta.scale>> \o WriteUb(c.meta.size)
       \o <<0, 0, 0, 1, 1>> \o WriteUb(Charset(c.meta)) \o <<CharsetForm(c.meta)>>
       \o WriteUb(c.meta.size) \o <<0, 1, Len(c.name)>> \o Dalc(c.name) \o <<0, 0, 1, 1, 0>>)
  \o Zeros(6)

DescribeJdbc(cols) ==
  <<16, 0, 0>> \o WriteUb(Len(cols)) \o <<0>>
  \o EachOf(cols, LAMBDA c :
       <<c.meta.type, 0, c.meta.precision>> \o WriteSb2(c.meta.scale) \o WriteUb(c.meta.size)
       \o <<0, 0, 0, 1, 1>> \o WriteUb(Charset(c.meta)) \o <<CharsetForm(c.meta)>>
       \o WriteUb(c.meta.size) \o <<0, 1, Len(c.name)>> \o Dalc(c.name) \o <<0, 0, 1, 1, 0>>)
  \o Zeros(6)

DescribeOci(cols) ==
  LET total == FoldLeft(LAMBDA n, c : n + c.meta.size, 0, cols)
      column(i) ==
        LET c == cols[i]
        IN  <<c.meta.type, 0, c.meta.precision, c.meta.scale>> \o Le(c.meta.size, 4) \o Zeros(11)
            \o Le(Charset(c.meta), 2) \o <<CharsetForm(c.meta)>> \o Le(c.meta.size, 2) \o Zeros(2)
            \o Le(IF Charset(c.meta) # 0 THEN 16382 ELSE 0, 2) \o Zeros(2)
            \o <<1, Len(c.name), Len(c.name)>> \o Be(Len(c.name), 4) \o c.name
            \o Zeros(8) \o Le(i - 1, 2) \o Zeros(4)
  IN  <<16, 23>> \o Zeros(23) \o <<3, 5, 44>> \o Le(total, 4) \o Le(Len(cols), 4) \o <<92>>
      \o FlattenSeq([i \in DOMAIN cols |-> column(i)])
      \o Le(7, 4) \o <<7, 120, 126, 8, 30, 3, 5, 51>> \o Zeros(4) \o Le(8168, 4)
      \o Le(2, 4) \o Le(2, 4) \o Zeros(4)

----------------------------------------------------------------------------
(* Rows.                                                                   *)

Row(row) == <<7>> \o EachOf(row, WriteValue)

(* The thick client's row has a length of one byte and no other form.      *)
RowOci(row) == <<7>> \o EachOf(row, LAMBDA v : IF v = Null THEN <<0>> ELSE <<Len(v) % 256>> \o v)

RowHeaderJdbc(rows) ==
  IF rows = <<>> THEN <<>>
  ELSE <<6, 0>> \o WriteUb(Len(rows)) \o <<0>> \o WriteUb(Len(rows)) \o <<0, 0, 0>>

RowHeaderFetch == <<6>> \o Zeros(7)

----------------------------------------------------------------------------
(* The end of a call: an error code, 0 for none, a count of rows, whether  *)
(* more rows are left, the position of an error.                           *)

EndMessage(code) == IF code = 0 THEN <<>> ELSE WriteValue(Message1)

EndHead(more, pos) ==
  <<4>> \o Zeros(6) \o WriteUb(IF more THEN 1 ELSE 0) \o WriteSb2(pos) \o Zeros(5)
  \o <<IF more THEN MoreFlag ELSE 0>>

EndOfCallStrict(code, rows, more, pos) ==
  EndHead(more, pos) \o Zeros(14) \o WriteUb(code) \o WriteUb(rows) \o EndMessage(code)

EndOfCallLenient(code, rows, more, pos) ==
  EndHead(more, pos) \o Zeros(14) \o WriteUb(code) \o WriteUb(rows) \o <<0, 0>> \o EndMessage(code)

EndOfCallFetch(code, rows, more) ==
  EndHead(more, 0) \o Zeros(19) \o WriteUb(code) \o WriteUb(rows) \o EndMessage(code)

EndOfCallJdbc(code, rows, more, seq, cursor, pos) ==
  <<4, 0, 0>> \o WriteUb(rows) \o WriteUb(code % 65536) \o <<0, 0>>
  \o WriteUb(IF more THEN IF cursor = 0 THEN 1 ELSE cursor ELSE 0) \o WriteSb2(pos) \o <<0, 0>>
  \o WriteUb(IF more THEN MoreFlag ELSE 0) \o Zeros(10) \o <<seq>> \o Zeros(6)
  \o WriteUb(code) \o WriteUb(rows) \o EndMessage(code)

NoMoreText == Message1
RowCountField(more) == IF more THEN 1 ELSE 0
CompleteCode(more) == IF more THEN 0 ELSE NoMore

----------------------------------------------------------------------------
(* An Execute of a query.                                                  *)

QueryResponse(client, cols, rows, cursor, more, seq) ==
  LET code == CompleteCode(more)
      count == RowCountField(more)
      strict == client.completion /\ ~client.newer
  IN  Be(IF strict /\ ~more THEN LastFlags ELSE 0, 2)
      \o (IF client.newer THEN DescribeJdbc(cols) \o RowHeaderJdbc(rows) ELSE DescribeThin(cols))
      \o EachOf(rows, Row)
      \o (IF ~client.completion THEN EndOfCallLenient(0, count, more, 0)
          ELSE IF client.newer THEN EndOfCallJdbc(code, count, more, seq, cursor, 0)
          ELSE EndOfCallStrict(code, count, more, 0) \o <<29>>)

(* The end of a thick client's call begins alike in every reply: the call  *)
(* counter, the rows, the code, and the cursor.                            *)
EndOci(status, ctr, rows, code, cursor) ==
  <<4>> \o Le(status, 4) \o <<ctr % 256, 0, rows>> \o Zeros(3) \o Le(code, 2) \o Zeros(4)
  \o cursor

EndTextOci(code, ok, n) ==
  IF code = 0 THEN Zeros(4) \o <<1, ok>>
  ELSE Le(code, 2) \o <<0, 0, 1, n, Len(NoMoreText)>> \o NoMoreText

QueryResponseOci(cols, rows, cursor, more, execute) ==
  LET sent == IF Len(rows) > 255 THEN 255 ELSE Len(rows)
      code == CompleteCode(more)
      ctr == CASE ~more /\ execute  -> cursor + 6
               [] ~more /\ ~execute -> cursor + 216
               [] more /\ execute   -> 2 * cursor + 21
               [] more /\ ~execute  -> cursor + 134
  IN  <<0, 0>> \o DescribeOci(cols) \o <<6, 34>> \o Le(Len(cols), 4) \o <<0, 0>> \o Le(2, 4) \o Zeros(10)
      \o EachOf(rows, RowOci)
      \o (IF execute THEN <<8, 6, 0, 171, 109, 45>> \o Zeros(5) \o Le(cursor, 4) \o Zeros(20)
                          \o <<13>> \o Be(13, 4) \o Rowid
          ELSE <<>>)
      \o (CASE ~more /\ execute ->
                 EndOci(1, ctr, sent, code, Le(cursor, 2)) \o Le(16 * Len(cols) - 2, 2) \o <<3, 0>>
                 \o Zeros(22) \o <<(ctr - 2) % 256, 0, 0, 1>> \o Zeros(17)
            [] ~more /\ ~execute ->
                 EndOci(1, ctr, sent, code, Le(2, 4)) \o Le(3, 4) \o Zeros(20) \o <<7, 0, 0, 1>> \o Zeros(17)
            [] more /\ execute ->
                 EndOci(1, ctr, sent, 0, <<cursor % 256, 0>>) \o <<(10 * cursor + 1) % 256, 0, 3>>
                 \o Zeros(23) \o <<(ctr - 19) % 256, 0, 0, 1>> \o Zeros(17)
            [] more /\ ~execute ->
                 EndOci(1, ctr, sent, 0, Le(cursor, 4)) \o Le(3, 4) \o Zeros(20)
                 \o <<(ctr - 129) % 256, 0, 0, 1>> \o Zeros(17))
      \o EndTextOci(code, 2, 1)

----------------------------------------------------------------------------
(* A Fetch.                                                                *)

FetchResponse(client, rows, more) ==
  Be(IF client.completion /\ ~more THEN LastFlags ELSE 0, 2)
  \o EachOf(rows, LAMBDA row : RowHeaderFetch \o Row(row))
  \o (IF client.completion
      THEN EndOfCallStrict(CompleteCode(more), RowCountField(more), more, 0) \o <<29>>
      ELSE EndOfCallFetch(CompleteCode(more), RowCountField(more), more))

FetchResponseJdbc(rows, cursor, more, seq) ==
  <<0, 0>> \o RowHeaderJdbc(rows) \o EachOf(rows, Row)
  \o EndOfCallJdbc(CompleteCode(more), RowCountField(more), more, seq, cursor, 0)

(* The thick client's carries the rows sent so far, of this cursor.        *)
FetchResponseOci(cols, rows, asked, cursor, more, total) ==
  LET code == CompleteCode(more)
      ctr == cursor + 134
      open == IF rows = <<>> THEN <<1, 0, 0, 0, 3>> \o Zeros(23) ELSE Le(cursor, 4) \o Le(3, 4) \o Zeros(20)
      sent == total % 256
  IN  <<0, 0>>
      \o (IF rows = <<>> THEN <<>>
          ELSE <<6, 2>> \o Le(Len(cols), 4) \o Zeros(2) \o Le(asked, 4) \o Zeros(10) \o EachOf(rows, RowOci))
      \o EndOci(1, ctr, sent, code, open) \o <<(ctr - 129) % 256>> \o Zeros(20)
      \o EndTextOci(code, 2, IF rows = <<>> THEN 2 ELSE sent)

----------------------------------------------------------------------------
(* Changes and definitions.  The thick client keeps the statement under    *)
(* the cursor id of the reply; the operation codes are Oracle's.           *)

DmlResponse(rows) == <<0, 0>> \o EndOfCallLenient(0, rows, FALSE, 0)

DmlResponseJdbc(rows, seq) == <<0, 0>> \o EndOfCallJdbc(0, rows, FALSE, seq, 0, 0)

DmlKinds == [insert |-> <<12, 2>>, update |-> <<7, 6>>, delete |-> <<12, 7>>, merge |-> <<11, 189>>,
             other |-> <<12, 2>>]

DmlResponseOci(rows, cursor, seq, kind) ==
  <<0, 0, 8, 6>> \o Zeros(9) \o Le(cursor, 4) \o Le(rows, 4) \o Zeros(16) \o <<13>> \o Be(13, 4) \o Rowid
  \o EndOci(2, seq + 139, 0, 0, Le(cursor, 2)) \o <<DmlKinds[kind][1], 0, DmlKinds[kind][2]>>
  \o Zeros(16) \o <<2>> \o Zeros(6) \o <<seq, 0, 0, 1, 0, 0, 0, 13, 0, 13, 1, 0, 1, 40>> \o Zeros(25)
  \o <<1, rows % 256>>

DdlResponseOci(cursor, seq) ==
  <<0, 0, 8, 6>> \o Zeros(9) \o Le(cursor, 4) \o Zeros(20) \o <<13>> \o Be(13, 4) \o Rowid
  \o EndOci(1, seq + 139, 0, 0, Le(cursor, 2)) \o <<0, 0, 1>> \o Zeros(23) \o <<seq, 0, 0, 1>> \o Zeros(22)

ReexecuteResponseOci(rows, seq) ==
  <<0, 0, 4>> \o Le(2, 4) \o <<(seq + 88) % 256, 0, rows % 256>> \o Zeros(9) \o Le(2, 4) \o Le(2, 4)
  \o <<0, 0, 194, 40, 1, 0, 1, 0, 0>> \o Zeros(4) \o <<1>> \o Zeros(6) \o <<seq, 0, 0, 1, 0, 0, 0>>
  \o <<13, 0, 13, 1, 0, 1, 40, 194, 0, 1, 0, 0>> \o Zeros(3) \o <<1>> \o Zeros(16) \o <<1, rows % 256>>

(* The values a change returns go back as the outputs among its binds:     *)
(* their directions, then for each output the values of the rows changed.  *)
ReturningResponse(inputs, outputs, rows) ==
  LET binds == inputs + Len(outputs)
  IN  Be(LastFlags, 2) \o <<11, 0>> \o WriteUb(binds) \o Zeros(5)
      \o [k \in 1..binds |-> IF k <= inputs THEN 32 ELSE 16]
      \o <<7>> \o EachOf(outputs, LAMBDA values :
                   WriteUb(Len(values)) \o EachOf(values, LAMBDA v : WriteValue(v) \o <<0>>))
      \o <<8, 0, 0, 0, 0>> \o EndOfCallStrict(0, rows, FALSE, 0) \o <<29>>

----------------------------------------------------------------------------
(* Errors.                                                                 *)

ErrorResponseOci(code, pos, seq) ==
  <<0, 0, 4>> \o Le(1, 4) \o <<(seq + 157) % 256>> \o Zeros(5) \o Le(code, 2) \o Zeros(4) \o <<3, 0>>
  \o Le(IF pos = 0 THEN 14 ELSE pos, 2) \o <<3>> \o Zeros(23) \o <<7>> \o Zeros(20) \o Le(code, 2)
  \o Zeros(3) \o <<Len(Message1)>> \o Message1

ErrorResponse(client, code, pos) ==
  IF client.newer THEN <<0, 0>> \o EndOfCallJdbc(code, 0, FALSE, 0, 0, pos)
  ELSE IF client.completion
  THEN Be(LastFlags, 2) \o EndOfCallStrict(code, 0, FALSE, pos) \o <<29>>
  ELSE <<0, 0>> \o EndOfCallLenient(code, 0, FALSE, pos)

----------------------------------------------------------------------------
(* The packets of a payload: one, or for the thick client as many as its   *)
(* SDU needs, each with the two bytes of data flags the payload begins     *)
(* with.  A header is a length, in two bytes or in four, a type and flags. *)

PacketHeader(n, large) == (IF large THEN Be(8 + n, 4) ELSE Be(8 + n, 2) \o <<0, 0>>) \o <<6, 0, 0, 0>>

(* The packets of a thick client, each with some data flags ahead.         *)
Split(payload, flagsOf(_)) ==
  LET pieces == Pieces(SubSeq(payload, 3, Len(payload)), OciChunk)
      packet(i) == flagsOf(i) \o pieces[i]
  IN  FlattenSeq([i \in DOMAIN pieces |-> PacketHeader(Len(packet(i)), TRUE) \o packet(i)])

\* A mutation for Packets: the later packets have no data flags.
PacketsFlagsOnce(payload, large, oci) ==
  IF oci /\ Len(payload) - 2 > OciChunk
  THEN Split(payload, LAMBDA i : IF i = 1 THEN SubSeq(payload, 1, 2) ELSE <<>>)
  ELSE PacketHeader(Len(payload), large) \o payload

Packets(payload, large, oci) ==
  IF oci /\ Len(payload) - 2 > OciChunk
  THEN Split(payload, LAMBDA i : SubSeq(payload, 1, 2))
  ELSE PacketHeader(Len(payload), large) \o payload

(* The length a header declares.  A large one that could be a legacy one   *)
(* is: the first two bytes are then a length, the next two are zero.       *)
PacketLength(header, large) ==
  LET small == BigEndian(SubSeq(header, 1, 2))
      legacy == SubSeq(header, 3, 4) = <<0, 0>> /\ small >= 8
  IN  IF ~large \/ legacy THEN small ELSE BigEndian(SubSeq(header, 1, 4))

(* A packet from the front of a stream: its payload and what follows it.   *)
(* A Fetch may declare less than it has: the server reads on until both    *)
(* of its integers are whole, except for a thick client.                   *)
ReadPacket(stream, large, oci) ==
  LET declared == PacketLength(SubSeq(stream, 1, 8), large) - 8
      after(off) == off + 1 + (stream[8 + off + 1] % 128)
      fetch == ~oci /\ declared >= 5 /\ stream[5] = 6 /\ SubSeq(stream, 11, 12) = <<3, 5>>
      whole == after(after(5))
      n == IF fetch /\ whole > declared THEN whole ELSE declared
  IN  [payload |-> SubSeq(stream, 9, 8 + n), rest |-> SubSeq(stream, 9 + n, Len(stream))]
=============================================================================
