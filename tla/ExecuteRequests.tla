-------------------------- MODULE ExecuteRequests --------------------------
(***************************************************************************)
(* How the server reads what a client asks it to run: strip_piggyback and  *)
(* the parsers of Execute, re-execute and Fetch in wire.rs, as the command *)
(* loop of server.rs uses them.                                            *)
(*                                                                         *)
(* A request is a payload: two bytes of data flags, the message type 3, a  *)
(* function, a sequence byte and the function's own fields.  SQL text is a *)
(* sequence of bytes that stand for its tokens: a keyword that begins a    *)
(* statement or a PL/SQL one, a quoted text, a comment, the words of a     *)
(* RETURNING clause, and one byte for each placeholder, a digit, a letter  *)
(* or the same letter in the other case.                                   *)
(***************************************************************************)
EXTENDS OracleValues, FiniteSets

CONSTANT None           \* no statement, nothing found

\* TTC message types and functions.
Function  == 3
Piggyback == 17
RowData   == 7
Reexec    == 4
FetchRows == 5
Fetching  == 78         \* REEXECUTE_AND_FETCH
Execute   == 94
Commit    == 14
KnownFunctions == {3, 4, 5, 9, 14, 15, 47, 59, 71, 78, 94, 103, 105}

\* Tokens.
Word == 83  PlSql == 84  Returning == 87  Into == 88
Quoted == 39  Comment == 45  Open == 40  Comma == 44  Space == 32
Keywords == {Word, PlSql}
Lower == 97..114
Upper == 65..82
Digits == 49..57
Placeholders == Lower \cup Upper \cup Digits

Least(found) == IF found = {} THEN 0 ELSE CHOOSE p \in found : \A q \in found : p <= q

First(d, i, n, Test(_)) == Least({p \in i..n : p \in DOMAIN d /\ Test(p)})

Latest(d, Test(_)) ==
  LET found == {p \in DOMAIN d : Test(p)}
  IN  IF found = {} THEN 0 ELSE CHOOSE p \in found : \A q \in found : q <= p

Request(sql, rows, types, prefetch, iters) ==
  Got([sql |-> sql, binds |-> IF rows = <<>> THEN <<>> ELSE rows[1], types |-> types,
       prefetch |-> prefetch, iters |-> iters,
       rows |-> IF iters > 1 THEN rows ELSE <<>>], 0)

NoText == Request(<<>>, <<>>, <<>>, 0, 0)

----------------------------------------------------------------------------
(* Deferred operations travel ahead of a request in the same payload.      *)

MessageAt(d) ==
  LET from[i \in 3..(Len(d) + 3)] ==
        IF i >= Len(d) THEN 0
        ELSE IF d[i] = Piggyback THEN from[i + 3]
        ELSE IF d[i] = Function /\ d[i + 1] \in KnownFunctions THEN i
        ELSE from[i + 1]
  IN  from[3]

Message(d) ==
  IF Len(d) < 3 \/ d[3] # Piggyback \/ MessageAt(d) = 0 THEN d
  ELSE <<0, 0>> \o SubSeq(d, MessageAt(d), Len(d))

----------------------------------------------------------------------------
(* An Execute of the thin drivers: the fields that lead it, those up to    *)
(* the SQL text, and those behind it.                                      *)

Header   == <<"u16", "u8", "u8", "u8", "ub4", "ub4", "u8", "ub4">>
Preamble == <<"u8", "ub4", "u8", "u8", "ub4", "ub4">>
Options  == <<"ub4", "u8", "ub4", "u8", "u8", "u8", "u8", "u8", "u8", "ub4", "ub4",
              "u8", "u8", "u8", "ub4", "u8", "ub4", "ub4", "u8", "ub4", "u8",
              "ub4", "u8", "ub4", "u8", "ub4", "u8", "ub4">>
Iterations == [i \in 1..13 |-> "ub4"]

OmitsSql(header) == header.v[7] = 0 \/ header.v[8] = 0

MaxDescriptors == 1024

DescriptorHead == <<"u8", "u8", "u8", "u8", "ub4", "ub4", "ub8", "ub4">>
DescriptorTail(oid) == IF oid > 0 THEN <<"bytes", "ub4", "ub2", "u8", "ub4", "ub4">>
                       ELSE <<"ub2", "ub2", "u8", "ub4", "ub4">>

Known(types, marker, ended) == [types |-> types, marker |-> marker, ended |-> ended]

NoDescriptors(at) == Got(Known(<<>>, FALSE, FALSE), at)

(* One descriptor per bind: its type, seven fields, an object id or a      *)
(* version, four more.  They end at the row marker, at the payload's end,  *)
(* and in the tolerant reading also at a zero.                             *)
OneDescriptor(got, d, tolerant) ==
  IF got.r # "ok" \/ got.v.ended \/ got.at > Len(d) THEN got
  ELSE IF d[got.at] = RowData \/ (tolerant /\ d[got.at] = 0)
  THEN Got(Known(got.v.types, d[got.at] = RowData, TRUE), got.at + 1)
  ELSE IF Len(got.v.types) >= MaxDescriptors THEN Fail("bad")
  ELSE Then(Fields(d, got.at, DescriptorHead), LAMBDA head :
       Then(Fields(d, head.at, DescriptorTail(head.v[8])), LAMBDA tail :
         Got(Known(Append(got.v.types, head.v[1]), FALSE, FALSE), tail.at)))

Descriptors(d, at, tolerant) ==
  LET read[n \in 0..Len(d)] == IF n = 0 THEN NoDescriptors(at) ELSE OneDescriptor(read[n - 1], d, tolerant)
  IN  read[Len(d)]

Accepted(value, at) == IF value.v = Refused THEN Fail("bad") ELSE Got(value, at)

ReadBind(d, at, type) == Then(ReadValue(d, at, TRUE), LAMBDA raw : Accepted(DecodeBind(type, raw.v), raw.at))

(* The values of one row, as many as there are before the payload ends.    *)
OneValue(got, d, type) ==
  LET value == ReadBind(d, got.at, type)
  IN  IF got.r # "ok" \/ got.at > Len(d) THEN got
      ELSE IF value.r = "short" THEN [got EXCEPT !.at = Len(d) + 1]
      ELSE Then(value, LAMBDA v : Got(Append(got.v, v.v), v.at))

Values(d, at, types) ==
  LET read[n \in 0..Len(types)] == IF n = 0 THEN Got(<<>>, at) ELSE OneValue(read[n - 1], d, types[n])
  IN  read[Len(types)]

(* The rows of an array bind, each behind its marker.  A strict reader     *)
(* refuses anything else there.                                            *)
FirstRow(d, at, types) == Then(Values(d, at, types), LAMBDA row : Got(<<row.v>>, row.at))

OneRow(got, d, types, tolerant) ==
  IF got.r # "ok" \/ got.at > Len(d) THEN got
  ELSE IF d[got.at] = RowData
  THEN Then(Values(d, got.at + 1, types), LAMBDA row : Got(Append(got.v, row.v), row.at))
  ELSE IF tolerant THEN [got EXCEPT !.at = Len(d) + 1] ELSE Fail("bad")

Rows(d, at, types, iters, tolerant) ==
  LET more == IF iters > 1 THEN iters - 1 ELSE 0
      read[n \in 0..more] == IF n = 0 THEN FirstRow(d, at, types) ELSE OneRow(read[n - 1], d, types, tolerant)
  IN  read[more]

(* A statement whose every bind is an output has descriptors and no row.   *)
ParseStrict(d) ==
  Then(Fields(d, 1, Header), LAMBDA h :
    IF OmitsSql(h) THEN NoText
    ELSE Then(Fields(d, h.at, Preamble \o Options), LAMBDA o :
         Then(ReadValue(d, o.at, TRUE), LAMBDA sql :
           IF sql.v = Null \/ Len(sql.v) # h.v[8] THEN Fail("bad")
           ELSE Then(Fields(d, sql.at, Iterations), LAMBDA n :
                Then(IF o.v[8] # 0 THEN Descriptors(d, n.at, FALSE) ELSE NoDescriptors(n.at), LAMBDA ds :
                Then(IF o.v[9] = 0 \/ (~ds.v.marker /\ ds.at > Len(d)) THEN Got(<<>>, ds.at)
                     ELSE IF ds.v.marker THEN Rows(d, ds.at, ds.v.types, n.v[2], FALSE)
                     ELSE IF d[ds.at] # RowData THEN Fail("bad")
                     ELSE Rows(d, ds.at + 1, ds.v.types, n.v[2], FALSE), LAMBDA rows :
                  Request(sql.v, rows.v, ds.v.types, o.v[6], n.v[2])))))))

(* Where a text of n bytes begins: after a length or a pointer, with a     *)
(* letter or a parenthesis, and with nothing unprintable in it.            *)
Printable(b) == b \in {9, 10, 13} \/ b \in 32..126 \/ b >= 128

IsSql(text) ==
  LET begins == First(text, 1, Len(text), LAMBDA p : text[p] \notin {9, 10, 13, Space})
  IN  /\ begins # 0
      /\ text[begins] \in 65..90 \cup 97..122 \cup {Open}
      /\ \A p \in begins..Len(text) : Printable(text[p])

LocateSql(d, at, n) ==
  First(d, at, Len(d) - n + 1,
        LAMBDA i : /\ i = at \/ d[i - 1] \in {0, 1, 254, n % 256}
                   /\ IsSql(SubSeq(d, i, i + n - 1)))

Found(at) == IF at = 0 THEN Fail("bad") ELSE Got(<<>>, at)

(* ojdbc's options differ in number, so its text is found by its length.   *)
ParseScan(d) ==
  Then(Fields(d, 1, Header), LAMBDA h :
    IF OmitsSql(h) THEN NoText
    ELSE Then(Fields(d, h.at, Preamble), LAMBDA o :
         Then(Found(LocateSql(d, o.at, h.v[8])), LAMBDA text :
         Then(Fields(d, text.at + h.v[8], Iterations), LAMBDA n :
         Then(Descriptors(d, n.at, TRUE), LAMBDA ds :
         Then(IF ds.v.types = <<>> THEN Got(<<>>, ds.at)
              ELSE Rows(d, IF ds.v.marker THEN ds.at ELSE ds.at + 1, ds.v.types, n.v[2], TRUE),
              LAMBDA rows :
           Request(SubSeq(d, text.at, text.at + h.v[8] - 1), rows.v, ds.v.types, o.v[6], n.v[2])))))))

ParseExecute(d) == OrElse(ParseStrict(d), ParseScan(d))

HasNoSql(d) ==
  LET tells(h) == h.r # "ok" \/ OmitsSql(h) \/ h.v[8] > Len(d) IN tells(Fields(d, 1, Header))

(* A re-execute has a few fields of the driver's own before its row.       *)
ParseReexecute(d, cached) ==
  Then(Fields(d, 1, <<"u16", "u8", "u8", "u8", "ub4", "ub4">>), LAMBDA h :
    IF cached.types = <<>> THEN Request(cached.sql, <<>>, <<>>, h.v[6], 1)
    ELSE Then(Found(First(d, h.at, h.at + 23, LAMBDA p : d[p] = RowData)), LAMBDA row :
         Then(Values(d, row.at + 1, cached.types), LAMBDA values :
           Request(cached.sql, <<values.v>>, cached.types, h.v[6], 1))))

(* What cannot be read is a Fetch of 100 rows of the open cursor.          *)
ParseFetch(d, cursor) ==
  LET request(h) == IF h.r = "ok" THEN [cursor |-> h.v[5] % 65536, rows |-> h.v[6]]
                    ELSE [cursor |-> cursor, rows |-> 100]
  IN  request(Fields(d, 1, <<"u16", "u8", "u8", "u8", "ub4", "ub4">>))

----------------------------------------------------------------------------
(* The thick client's requests have no fixed layout.  Its text is found by *)
(* a keyword, or the parenthesis before one, behind a length that fits the *)
(* printable run it begins.                                                *)

RunAt(d, i) ==
  LET stop == First(d, i, Len(d), LAMBDA p : ~Printable(d[p]))
  IN  SubSeq(d, i, (IF stop = 0 THEN Len(d) + 1 ELSE stop) - 1)

TrimEnd(text) ==
  LET last == Latest(text, LAMBDA p : text[p] \notin {Space, 10})
  IN  SubSeq(text, 1, last)

Prefixed(d, i) ==
  LET run == RunAt(d, i)
      sizes == {Len(run), Len(TrimEnd(run))}
  IN  /\ TrimEnd(run) # <<>>
      /\ \E n \in sizes : d[i - 1] = n \/ SubSeq(d, i - 4, i - 1) = Be(n, 4)

Reopened(d, i) ==
  LET before == {p \in 5..i : \A q \in p..(i - 1) : d[q] \in {Open, Space}}
  IN  CHOOSE p \in before : \A q \in before : p <= q

(* Failing that, the first keyword, with the length before it if it is one. *)
Guess(d, i) ==
  LET left == Len(d) - i + 1
      run == Len(TrimEnd(RunAt(d, i)))
  IN  IF d[i - 1] \in 1..left THEN d[i - 1]
      ELSE IF \E n \in 1..left : SubSeq(d, i - 4, i - 1) = Be(n, 4)
      THEN LittleEndian(Reverse(SubSeq(d, i - 4, i - 1)))
      ELSE IF run > 1 THEN run ELSE 1

OciText(text, at) == Got(text, at + Len(text))

SureAt(d, i) ==
  IF Prefixed(d, i) THEN i
  ELSE IF Reopened(d, i) < i /\ d[Reopened(d, i)] = Open /\ Prefixed(d, Reopened(d, i))
  THEN Reopened(d, i) ELSE 0

SureText(d, at) == OciText(TrimEnd(RunAt(d, at)), at)

GuessedText(d, at, n) == Got(TrimEnd(SubSeq(d, at, at + n - 1)), at + n)

OciSql(d) ==
  OrElse(Then(Found(First(d, 5, Len(d), LAMBDA i : d[i] \in Keywords /\ SureAt(d, i) # 0)),
              LAMBDA i : SureText(d, SureAt(d, i.at))),
         Then(Found(First(d, 5, Len(d), LAMBDA i : d[i] \in Keywords)),
              LAMBDA i : GuessedText(d, i.at, Guess(d, i.at))))

(* One value per distinct name; names that differ in case are distinct.    *)
CountNames(sql) == Cardinality({sql[i] : i \in DOMAIN sql} \cap Placeholders)

(* The descriptors: a known type, known flags and two zeros.  Types that   *)
(* are not found are VARCHAR.                                              *)
OciTypes == {1, 2, 8, 9, 11, 12, 23, 96, 100, 101, 180, 181, 182, 183, 231}
OciFlags == {1, 3, 7, 33, 35}

ScanTypes(region, want) ==
  LET hits[i \in 1..(Len(region) + 1)] ==
        IF i + 3 > Len(region) THEN <<>>
        ELSE IF /\ region[i] \in OciTypes /\ region[i + 1] \in OciFlags
                /\ region[i + 2] = 0 /\ region[i + 3] = 0
        THEN <<i>> \o hits[i + 4] ELSE hits[i + 1]
      typesOf(found) == Got([i \in 1..want |-> IF i \in DOMAIN found THEN region[found[i]] ELSE 1],
                            IF found = <<>> THEN 1 ELSE Last(found) + 4)
      firstOf(found) == SubSeq(found, 1, IF Len(found) < want THEN Len(found) ELSE want)
  IN  typesOf(firstOf(hits[1]))

(* A value: no value is a 0, a 255, or a 253 and an indicator.             *)
OciValue(d, p) ==
  IF d[p] \in {0, 255} THEN Got(Null, p + 1)
  ELSE IF d[p] = 253 THEN Got(Null, p + 2)
  ELSE IF p + d[p] <= Len(d) THEN Got(SubSeq(d, p + 1, p + d[p]), p + d[p] + 1)
  ELSE [Got(Null, p + 1) EXCEPT !.r = "cut"]

OciDecoded(type, raw) == Accepted(DecodeBind(type, raw.v), raw.at)

OciValues(d, at, types) ==
  FoldLeft(LAMBDA got, type :
             IF got.r # "ok" \/ got.at > Len(d) THEN got
             ELSE Then(OciDecoded(type, OciValue(d, got.at)), LAMBDA value :
                       Got(Append(got.v, value.v), value.at)),
           Got(<<>>, at), types)

(* The row is behind the first marker after the descriptors.               *)
RequestOci(sql, region) ==
  IF CountNames(sql) = 0 THEN Request(sql, <<>>, <<>>, 0, 1)
  ELSE Then(ScanTypes(region, CountNames(sql)), LAMBDA types :
         IF \A p \in types.at..Len(region) : region[p] # RowData THEN Request(sql, <<>>, types.v, 0, 1)
         ELSE Then(OciValues(region, First(region, types.at, Len(region), LAMBDA p : region[p] = RowData) + 1,
                             types.v), LAMBDA values :
              Request(sql, <<values.v>>, types.v, 0, 1)))

ParseOci(d) == Then(OciSql(d), LAMBDA text : RequestOci(text.v, SubSeq(d, text.at, Len(d))))

(* The row of a re-execute is behind the last byte that could be a marker: *)
(* as many values as there are binds, and at most three bytes after them.  *)
OciRowFits(d, at, n) ==
  LET end[k \in 0..n] ==
        LET before == end[k - 1]
            value == OciValue(d, before.at)
        IN  IF k = 0 THEN Got(<<>>, at + 1)
            ELSE IF before.r # "ok" THEN before
            ELSE IF before.at > Len(d) THEN Fail("short")
            ELSE IF value.r # "ok" THEN Fail("short") ELSE Got(<<>>, value.at)
  IN  end[n].r = "ok" /\ Len(d) - (end[n].at - 1) <= 3

ReexecuteOci(d, cached, rescan) ==
  LET count == CountNames(cached.sql)
      want == IF count > Len(cached.types) THEN count ELSE Len(cached.types)
      row == Latest(d, LAMBDA p : d[p] = RowData /\ OciRowFits(d, p, want))
      window == IF row > 64 + 8 * want + 1 THEN row - (64 + 8 * want) ELSE 1
      types == IF (rescan \/ Len(cached.types) # want) /\ row # 0
               THEN ScanTypes(SubSeq(d, window, row - 1), want).v ELSE cached.types
      values == IF row = 0 THEN Got(<<>>, 0) ELSE OciValues(d, row + 1, types)
  IN  IF want = 0 THEN Request(cached.sql, <<>>, <<>>, 0, 1)
      ELSE IF values.r # "ok" THEN values
      ELSE Request(cached.sql, <<values.v>>, types, 0, 1)

(* An id of the thick client, four bytes, none if it is 0 or too large.    *)
OciId(d, at) ==
  LET bytes == SubSeq(d, at, at + 3)
  IN  IF Len(d) < at + 3 \/ SubSeq(bytes, 3, 4) # <<0, 0>> \/ bytes = <<0, 0, 0, 0>>
      THEN None ELSE LittleEndian(SubSeq(bytes, 1, 2))

ParseFetchOci(d, cursor) ==
  IF Len(d) < 13 THEN [cursor |-> cursor, rows |-> 100]
  ELSE [cursor |-> LittleEndian(SubSeq(d, 6, 7)), rows |-> LittleEndian(SubSeq(d, 10, 12))]

----------------------------------------------------------------------------
(* What the command loop makes of a payload that runs a statement; cached  *)
(* is the statement it would take for one that has no text of its own.     *)

ParseCall(d, oci, cached) ==
  LET reread == IF oci THEN ReexecuteOci(d, cached, d[4] = Execute) ELSE ParseReexecute(d, cached)
      orReread(parsed) ==
        IF \/ parsed.r = "ok" /\ (oci \/ parsed.v.sql # <<>>)
           \/ cached = None \/ ~(oci \/ HasNoSql(d))
        THEN parsed ELSE reread
  IN  IF d[4] = Execute THEN orReread(IF oci THEN ParseOci(d) ELSE ParseExecute(d))
      ELSE IF cached = None THEN Fail("bad") ELSE reread
=============================================================================
