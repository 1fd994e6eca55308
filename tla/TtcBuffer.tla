----------------------------- MODULE TtcBuffer -----------------------------
(***************************************************************************)
(* The read and write primitives of a TTC message (buffer.rs).  A payload  *)
(* is a sequence of bytes.  A reader takes a payload and a position and    *)
(* returns what it read and the position after it; the result is "short"   *)
(* when the payload ends inside the field (BufferUnderflow) and "bad" when *)
(* a length is not one the field may have.                                 *)
(***************************************************************************)
EXTENDS Integers, Sequences, SequencesExt

CONSTANTS
  ShortMax,             \* MAX_SHORT_LENGTH, 252: the longest value with a length byte
  ChunkSize             \* CHUNK_SIZE, 32767: the bytes of one chunk of a longer one

ASSUME ChunkAssumption == /\ ShortMax \in Nat \ {0} /\ ShortMax <= 252
                          /\ ChunkSize \in Nat \ {0} /\ ChunkSize <= 32767

Escape    == 253        \* ESCAPE_CHAR
LongForm  == 254        \* LONG_INDICATOR
NullForm  == 255        \* NULL_INDICATOR

Null == <<-1>>          \* no value, as distinct from the empty one

Got(v, at) == [r |-> "ok", v |-> v, at |-> at]
Fail(r)    == [r |-> r, v |-> 0, at |-> 0]

(* What is read after something else was; the first failure is the result. *)
Then(got, Next(_)) == IF got.r = "ok" THEN Next(got) ELSE got

(* What is tried when something else fails; when it fails too, the first   *)
(* failure is the result.                                                  *)
OrElse(got, other) == IF got.r # "ok" /\ other.r = "ok" THEN other ELSE got

Take(d, at, n) == IF at + n - 1 <= Len(d) THEN Got(SubSeq(d, at, at + n - 1), at + n)
                                          ELSE Fail("short")

U8(d, at) == IF at <= Len(d) THEN Got(d[at], at + 1) ELSE Fail("short")

BigEndian(bytes) ==
  LET number[n \in 0..Len(bytes)] == IF n = 0 THEN 0 ELSE 256 * number[n - 1] + bytes[n]
  IN  number[Len(bytes)]

LittleEndian(bytes) == BigEndian(Reverse(bytes))

Number(d, at, n) == Then(Take(d, at, n), LAMBDA t : Got(BigEndian(t.v), t.at))

(* A compact integer: a length, whose high bit is a sign that is dropped,  *)
(* and that many bytes.  read_ub8 takes a second length after a 5, 6 or 7. *)
Ub(d, at, width) ==
  Then(U8(d, at), LAMBDA l :
    IF l.v % 128 > width THEN Fail("bad")
    ELSE IF width = 8 /\ l.v % 128 \in 5..7
         THEN Then(U8(d, l.at), LAMBDA m : Number(d, m.at, m.v % 128))
    ELSE Number(d, l.at, l.v % 128))

(* The chunks of a long value, each behind its length, up to a zero one.   *)
(* Lengths are ub4, or single bytes where big chunks are not negotiated.   *)
Chunks(d, at, bigChunks) ==
  LET from[p \in 1..(Len(d) + 1)] ==
        Then(IF bigChunks THEN Ub(d, p, 4) ELSE U8(d, p), LAMBDA l :
          IF l.v = 0 THEN Got(<<>>, l.at)
          ELSE Then(Take(d, l.at, l.v), LAMBDA t :
               Then(from[t.at], LAMBDA rest : Got(t.v \o rest.v, rest.at))))
  IN  from[at]

ReadValue(d, at, bigChunks) ==
  Then(U8(d, at), LAMBDA l :
    CASE l.v = NullForm -> Got(Null, l.at)
      [] l.v = LongForm -> Chunks(d, l.at, bigChunks)
      [] l.v = Escape   -> Then(U8(d, l.at), LAMBDA m : Take(d, m.at, m.v))
      [] OTHER          -> Take(d, l.at, l.v))

(***************************************************************************)
(* A run of fields, each named for its reader: what they read, in order.   *)
(***************************************************************************)
Width == [ub2 |-> 2, ub4 |-> 4, ub8 |-> 8]

Field(d, at, kind) == CASE kind = "u8"    -> U8(d, at)
                        [] kind = "u16"   -> Number(d, at, 2)
                        [] kind = "bytes" -> ReadValue(d, at, TRUE)
                        [] OTHER          -> Ub(d, at, Width[kind])

OneMore(got, d, kind) ==
  Then(got, LAMBDA g : Then(Field(d, g.at, kind), LAMBDA f : Got(Append(g.v, f.v), f.at)))

Fields(d, at, kinds) ==
  LET read[n \in 0..Len(kinds)] == IF n = 0 THEN Got(<<>>, at) ELSE OneMore(read[n - 1], d, kinds[n])
  IN  read[Len(kinds)]

(***************************************************************************)
(* The writers.                                                            *)
(***************************************************************************)
\* What a byte counts for at each place from the right.
PlaceValue == <<1, 256, 65536, 16777216>>

Be(n, width) == [i \in 1..width |-> (n \div PlaceValue[width - i + 1]) % 256]

Le(n, width) == Reverse(Be(n, width))

Zeros(n) == [i \in 1..n |-> 0]

WriteUb(n) == IF n = 0 THEN <<0>>
              ELSE IF n < 256 THEN <<1, n>>
              ELSE IF n < 65536 THEN <<2>> \o Be(n, 2)
              ELSE <<4>> \o Be(n, 4)

(* A signed one: every number past 127 carries the sign flag (write_sb2).  *)
WriteSb2(n) == IF n = 0 THEN <<0>>
               ELSE IF n \in 1..127 THEN <<1, n>>
               ELSE IF n \in -127..-1 THEN <<129, -n>>
               ELSE <<130>> \o Be(n, 2)

(* What of a sequence begins at p, at most n of it; the sequence in pieces *)
(* of that length.                                                         *)
Piece(s, p, n) == SubSeq(s, p, IF p + n - 1 > Len(s) THEN Len(s) ELSE p + n - 1)

Pieces(s, n) == [i \in 1..((Len(s) + n - 1) \div n) |-> Piece(s, (i - 1) * n + 1, n)]

WriteChunks(v) ==
  LET from[p \in 1..(Len(v) + 1)] ==
        IF p > Len(v) THEN WriteUb(0)
        ELSE WriteUb(Len(Piece(v, p, ChunkSize))) \o Piece(v, p, ChunkSize)
             \o from[p + Len(Piece(v, p, ChunkSize))]
  IN  from[1]

WriteValue(v) == IF v = Null THEN <<NullForm>>
                 ELSE IF Len(v) <= ShortMax THEN <<Len(v)>> \o v
                 ELSE <<LongForm>> \o WriteChunks(v)
=============================================================================
