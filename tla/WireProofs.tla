----------------------------- MODULE WireProofs -----------------------------
(***************************************************************************)
(* What holds of the wire codecs for every value, every length and every   *)
(* place in a message, proved with TLAPS: what is written is read back,    *)
(* and the reading ends where the writing did.                             *)
(***************************************************************************)
EXTENDS WireExchange, SequenceTheorems, FiniteSetTheorems, WellFoundedInduction, TLAPS

Byte == 0..255

-----------------------------------------------------------------------------
(* Natural numbers.  Induction is by the least number something would not  *)
(* hold for.                                                               *)

\* A set of natural numbers that is not empty has a least element.
LEMMA LeastNat ==
  ASSUME NEW T \in SUBSET Nat, T # {}
  PROVE  \E m \in T : \A k \in T : m <= k
<1>1. IsWellFoundedOn({ss \in Nat \X Nat : ss[1] < ss[2]}, Nat)
  BY NatLessThanWellFounded DEF OpToRel
<1>2. PICK x \in T : \A y \in T : ~ (<<y, x>> \in {ss \in Nat \X Nat : ss[1] < ss[2]})
  BY <1>1, WFMin
<1>3. \A y \in T : ~ (y < x)
  BY <1>2
<1> QED BY <1>3

\* A number and its quotient and remainder.
LEMMA DivideBy256 ==
  ASSUME NEW n \in Nat
  PROVE  /\ n \div 256 \in Nat /\ n % 256 \in Byte
         /\ n = 256 * (n \div 256) + (n % 256)
BY SMT DEF Byte

\* Division by the places of a number is division by 256, again and again.
LEMMA DivideAgain ==
  ASSUME NEW n \in Nat
  PROVE  /\ n \div 65536 = (n \div 256) \div 256
         /\ n \div 16777216 = ((n \div 256) \div 256) \div 256
         /\ n \div 1 = n
BY SMT

-----------------------------------------------------------------------------
(* A sequence of bytes that stands in a message at a place.                *)

StandsAt(w, d, at) ==
  /\ at + Len(w) - 1 <= Len(d)
  /\ \A i \in 1..Len(w) : d[at + i - 1] = w[i]

\* Its parts stand there one behind the other.
LEMMA StandsInParts ==
  ASSUME NEW S, NEW a \in Seq(S), NEW b \in Seq(S), NEW d \in Seq(S), NEW at \in Nat \ {0},
         StandsAt(a \o b, d, at)
  PROVE  StandsAt(a, d, at) /\ StandsAt(b, d, at + Len(a))
<1>1. /\ Len(a) \in Nat /\ Len(b) \in Nat /\ Len(d) \in Nat
      /\ Len(a \o b) = Len(a) + Len(b)
      /\ \A i \in 1..(Len(a) + Len(b)) :
           (a \o b)[i] = IF i <= Len(a) THEN a[i] ELSE b[i - Len(a)]
  BY ConcatProperties
<1>2. \A i \in 1..(Len(a) + Len(b)) : d[at + i - 1] = (a \o b)[i]
  BY <1>1 DEF StandsAt
<1>3. at + Len(a) + Len(b) - 1 <= Len(d)
  BY <1>1 DEF StandsAt
<1>4. StandsAt(a, d, at)
  <2>1. ASSUME NEW i \in 1..Len(a)
        PROVE  d[at + i - 1] = a[i]
    <3>1. i \in 1..(Len(a) + Len(b)) /\ i <= Len(a)
      BY <1>1
    <3> QED BY <1>1, <1>2, <3>1
  <2> QED BY <1>1, <1>3, <2>1 DEF StandsAt
<1>5. StandsAt(b, d, at + Len(a))
  <2>1. ASSUME NEW i \in 1..Len(b)
        PROVE  d[at + Len(a) + i - 1] = b[i]
    <3>1. i + Len(a) \in 1..(Len(a) + Len(b)) /\ ~(i + Len(a) <= Len(a)) /\ i + Len(a) - Len(a) = i
      BY <1>1
    <3>2. d[at + (i + Len(a)) - 1] = b[i]
      BY <1>1, <1>2, <3>1, SMTT(60)
    <3>3. at + (i + Len(a)) - 1 = at + Len(a) + i - 1
      BY <1>1
    <3> QED BY <3>2, <3>3
  <2> QED BY <1>1, <1>3, <2>1 DEF StandsAt
<1> QED BY <1>4, <1>5

\* One byte that stands there is the one that is read there.
LEMMA OneByteStands ==
  ASSUME NEW S, NEW b \in S, NEW d \in Seq(S), NEW at \in Nat \ {0}, StandsAt(<<b>>, d, at)
  PROVE  U8(d, at) = Got(b, at + 1) /\ at \in 1..Len(d) /\ d[at] = b
<1>1. Len(<<b>>) = 1 /\ <<b>>[1] = b /\ Len(d) \in Nat
  OBVIOUS
<1>2. at <= Len(d) /\ d[at] = b
  BY <1>1 DEF StandsAt
<1> QED BY <1>1, <1>2 DEF U8

\* The bytes that stand there are those that are taken there.
LEMMA BytesAreTaken ==
  ASSUME NEW S, NEW w \in Seq(S), NEW d \in Seq(S), NEW at \in Nat \ {0}, StandsAt(w, d, at)
  PROVE  Take(d, at, Len(w)) = Got(w, at + Len(w))
<1>1. Len(w) \in Nat /\ Len(d) \in Nat /\ at + Len(w) - 1 <= Len(d)
      /\ \A i \in 1..Len(w) : d[at + i - 1] = w[i]
  BY DEF StandsAt
<1>2. \A i \in at..(at + Len(w) - 1) : d[i] \in S
  BY <1>1
<1>3. PICK t : t = SubSeq(d, at, at + Len(w) - 1)
  OBVIOUS
<1>4. /\ t \in Seq(S) /\ Len(t) = Len(w)
      /\ \A i \in 1..Len(w) : t[i] = d[at + i - 1]
  <2>1. at \in Int /\ at + Len(w) - 1 \in Int
    BY <1>1
  <2>2. /\ t \in Seq(S)
        /\ Len(t) = IF at <= at + Len(w) - 1 THEN (at + Len(w) - 1) - at + 1 ELSE 0
        /\ \A i \in 1..((at + Len(w) - 1) - at + 1) : t[i] = d[at + i - 1]
    BY <1>2, <1>3, <2>1, SubSeqProperties
  <2> QED BY <1>1, <2>2
<1>5. t = w
  BY <1>1, <1>4, SeqEqual
<1> QED BY <1>1, <1>3, <1>5 DEF Take

-----------------------------------------------------------------------------
(* Numbers. *)

\* What the first n bytes amount to.
Amounts(bytes, f, m) ==
  f = [n \in 0..m |-> IF n = 0 THEN 0 ELSE 256 * f[n - 1] + bytes[n]]

\* The amounts of the first bytes exist, for any number of bytes.
LEMMA AmountsExist ==
  ASSUME NEW bytes, NEW m \in Nat
  PROVE  \E f : Amounts(bytes, f, m)
<1> DEFINE Bad == {k \in Nat : ~\E f : Amounts(bytes, f, k)}
<1>1. SUFFICES ASSUME Bad # {} PROVE FALSE
  OBVIOUS
<1>2. PICK x \in Bad : \A y \in Bad : x <= y
  <2>1. Bad \in SUBSET Nat
    OBVIOUS
  <2> HIDE DEF Bad
  <2> QED BY <1>1, <2>1, LeastNat
<1>3. CASE x = 0
  <2>1. Amounts(bytes, [k \in 0..0 |-> 0], 0)
    BY DEF Amounts
  <2> QED BY <1>2, <1>3, <2>1
<1>4. CASE x # 0
  <2>1. x - 1 \in Nat /\ x - 1 \notin Bad
    BY <1>2, <1>4
  <2>2. PICK f : Amounts(bytes, f, x - 1)
    BY <2>1
  <2>3. PICK g : g = [k \in 0..x |-> IF k # x THEN f[k] ELSE 256 * f[x - 1] + bytes[x]]
    OBVIOUS
  <2>4. ASSUME NEW k \in 0..x
        PROVE  g[k] = IF k = 0 THEN 0 ELSE 256 * g[k - 1] + bytes[k]
    <3>1. CASE k = x
      BY <1>4, <2>1, <2>3, <3>1
    <3>2. CASE k # x
      <4>1. k \in 0..(x - 1) /\ (k # 0 => k - 1 \in 0..x /\ k - 1 # x)
        BY <1>2, <3>2
      <4>2. f[k] = IF k = 0 THEN 0 ELSE 256 * f[k - 1] + bytes[k]
        BY <2>2, <4>1 DEF Amounts
      <4> QED BY <2>3, <3>2, <4>1, <4>2
    <3> QED BY <3>1, <3>2
  <2>5. Amounts(bytes, g, x)
    BY <2>3, <2>4 DEF Amounts
  <2> QED BY <1>2, <2>5
<1> QED BY <1>3, <1>4

\* A big-endian number is what all its bytes amount to.
LEMMA BigEndianIs ==
  ASSUME NEW bytes, Len(bytes) \in Nat
  PROVE  \E f : /\ BigEndian(bytes) = f[Len(bytes)]
                /\ f[0] = 0
                /\ \A n \in 1..Len(bytes) : f[n] = 256 * f[n - 1] + bytes[n]
<1> DEFINE m == Len(bytes)
           f == CHOOSE g : g = [n \in 0..m |-> IF n = 0 THEN 0 ELSE 256 * g[n - 1] + bytes[n]]
<1>1. BigEndian(bytes) = f[m]
  BY DEF BigEndian
<1>2. \E g : g = [n \in 0..m |-> IF n = 0 THEN 0 ELSE 256 * g[n - 1] + bytes[n]]
  BY AmountsExist DEF Amounts
<1>3. f = [n \in 0..m |-> IF n = 0 THEN 0 ELSE 256 * f[n - 1] + bytes[n]]
  BY <1>2
<1>4. m \in Nat
  OBVIOUS
<1> HIDE DEF f, m
<1>5. f[0] = 0
  <2>1. 0 \in 0..m
    BY <1>4
  <2> QED BY <1>3, <2>1
<1>6. ASSUME NEW n \in 1..m
      PROVE  f[n] = 256 * f[n - 1] + bytes[n]
  <2>1. n \in 0..m /\ n # 0
    BY <1>4
  <2> QED BY <1>3, <2>1
<1> QED BY <1>1, <1>5, <1>6 DEF m

\* Of one byte, of two, of three and of four.
LEMMA BigEndianOf ==
  /\ BigEndian(<<>>) = 0
  /\ \A a \in Nat : BigEndian(<<a>>) = a
  /\ \A a, b \in Nat : BigEndian(<<a, b>>) = 256 * a + b
  /\ \A a, b, c, e \in Nat : BigEndian(<<a, b, c, e>>) = 256 * (256 * (256 * a + b) + c) + e
<1>0. BigEndian(<<>>) = 0
  <2>1. Len(<<>>) = 0
    OBVIOUS
  <2> QED BY <2>1, BigEndianIs
<1>1. ASSUME NEW a \in Nat
      PROVE  BigEndian(<<a>>) = a
  <2>1. Len(<<a>>) = 1 /\ <<a>>[1] = a
    OBVIOUS
  <2>2. PICK f : /\ BigEndian(<<a>>) = f[1]
                 /\ f[0] = 0
                 /\ \A n \in 1..1 : f[n] = 256 * f[n - 1] + <<a>>[n]
    BY <2>1, BigEndianIs
  <2>3. f[1] = 256 * f[1 - 1] + <<a>>[1]
    BY <2>2
  <2> QED BY <2>1, <2>2, <2>3
<1>2. ASSUME NEW a \in Nat, NEW b \in Nat
      PROVE  BigEndian(<<a, b>>) = 256 * a + b
  <2>1. PICK s : s = <<a, b>>
    OBVIOUS
  <2>2. Len(s) = 2 /\ Len(s) \in Nat /\ s[1] = a /\ s[2] = b
    BY <2>1
  <2>3. PICK f : /\ BigEndian(s) = f[Len(s)]
                 /\ f[0] = 0
                 /\ \A n \in 1..Len(s) : f[n] = 256 * f[n - 1] + s[n]
    BY <2>2, BigEndianIs, ZenonT(60)
  <2>4. f[1] = 256 * f[1 - 1] + s[1] /\ f[2] = 256 * f[2 - 1] + s[2]
    BY <2>2, <2>3
  <2> QED BY <2>1, <2>2, <2>3, <2>4
<1>3. ASSUME NEW a \in Nat, NEW b \in Nat, NEW c \in Nat, NEW e \in Nat
      PROVE  BigEndian(<<a, b, c, e>>) = 256 * (256 * (256 * a + b) + c) + e
  <2>1. PICK s : s = <<a, b, c, e>>
    OBVIOUS
  <2>2. Len(s) = 4 /\ Len(s) \in Nat /\ s[1] = a /\ s[2] = b /\ s[3] = c /\ s[4] = e
    BY <2>1
  <2>3. PICK f : /\ BigEndian(s) = f[Len(s)]
                 /\ f[0] = 0
                 /\ \A n \in 1..Len(s) : f[n] = 256 * f[n - 1] + s[n]
    BY <2>2, BigEndianIs, ZenonT(60)
  <2>4. /\ f[1] = 256 * f[1 - 1] + s[1] /\ f[2] = 256 * f[2 - 1] + s[2]
        /\ f[3] = 256 * f[3 - 1] + s[3] /\ f[4] = 256 * f[4 - 1] + s[4]
    BY <2>2, <2>3
  <2>5. f[1] = a /\ f[2] = 256 * a + b
    BY <2>2, <2>3, <2>4
  <2> QED BY <2>1, <2>2, <2>3, <2>4, <2>5
<1> QED BY <1>0, <1>1, <1>2, <1>3

\* The bytes of a number.
LEMMA BeOf ==
  ASSUME NEW n \in Nat
  PROVE  /\ Be(n, 2) = <<(n \div 256) % 256, n % 256>>
         /\ Be(n, 4) = <<(((n \div 256) \div 256) \div 256) % 256, ((n \div 256) \div 256) % 256,
                         (n \div 256) % 256, n % 256>>
<1>1. /\ PlaceValue[1] = 1 /\ PlaceValue[2] = 256
      /\ PlaceValue[3] = 65536 /\ PlaceValue[4] = 16777216
  BY SMT DEF PlaceValue
<1>2. /\ n \div PlaceValue[1] = n
      /\ n \div PlaceValue[2] = n \div 256
      /\ n \div PlaceValue[3] = (n \div 256) \div 256
      /\ n \div PlaceValue[4] = ((n \div 256) \div 256) \div 256
  BY <1>1, DivideAgain, SMT
<1>3. Be(n, 2) = <<(n \div 256) % 256, n % 256>>
  <2>1. Be(n, 2) = [i \in 1..2 |-> (n \div PlaceValue[2 - i + 1]) % 256]
    BY DEF Be
  <2>2. 2 - 1 + 1 = 2 /\ 2 - 2 + 1 = 1
    OBVIOUS
  <2>3. PICK s : s = [i \in 1..2 |-> (n \div PlaceValue[2 - i + 1]) % 256]
    OBVIOUS
  <2>4. s[1] = (n \div 256) % 256 /\ s[2] = n % 256
    BY <1>2, <2>2, <2>3
  <2> QED BY <2>1, <2>3, <2>4
<1>4. Be(n, 4) = <<(((n \div 256) \div 256) \div 256) % 256, ((n \div 256) \div 256) % 256,
                   (n \div 256) % 256, n % 256>>
  <2>1. Be(n, 4) = [i \in 1..4 |-> (n \div PlaceValue[4 - i + 1]) % 256]
    BY DEF Be
  <2>2. 4 - 1 + 1 = 4 /\ 4 - 2 + 1 = 3 /\ 4 - 3 + 1 = 2 /\ 4 - 4 + 1 = 1
    OBVIOUS
  <2>3. PICK s : s = [i \in 1..4 |-> (n \div PlaceValue[4 - i + 1]) % 256]
    OBVIOUS
  <2>4. /\ s[1] = (((n \div 256) \div 256) \div 256) % 256 /\ s[2] = ((n \div 256) \div 256) % 256
        /\ s[3] = (n \div 256) % 256 /\ s[4] = n % 256
    BY <1>2, <2>2, <2>3
  <2> QED BY <2>1, <2>3, <2>4
<1> QED BY <1>3, <1>4

\* A number that fits in two bytes, and one that fits in four.
TwoBytes  == {n \in Nat : n < 65536}
FourBytes == {n \in Nat : n < 4294967296}

\* What two bytes of a number hold of it, and what four hold.
LEMMA BytesHoldNumbers ==
  /\ \A n \in TwoBytes : n = 256 * ((n \div 256) % 256) + (n % 256)
  /\ \A n \in FourBytes :
       n = 256 * (256 * (256 * ((((n \div 256) \div 256) \div 256) % 256)
                         + (((n \div 256) \div 256) % 256)) + ((n \div 256) % 256)) + (n % 256)
<1>0. \A q \in Nat : q < 256 => q % 256 = q
  OBVIOUS
<1>1. ASSUME NEW n \in TwoBytes
      PROVE  n = 256 * ((n \div 256) % 256) + (n % 256)
  <2>1. n \in Nat /\ n < 65536
    BY SMT DEF TwoBytes
  <2>2. PICK q, r : q = n \div 256 /\ r = n % 256
    OBVIOUS
  <2>3. q \in Nat /\ r \in Nat /\ n = 256 * q + r
    BY <2>1, <2>2, DivideBy256 DEF Byte
  <2>4. q < 256
    BY <2>1, <2>3, SMT
  <2>5. q % 256 = q
    BY <1>0, <2>3, <2>4
  <2> QED BY <2>2, <2>3, <2>5
<1>2. ASSUME NEW n \in FourBytes
      PROVE  n = 256 * (256 * (256 * ((((n \div 256) \div 256) \div 256) % 256)
                               + (((n \div 256) \div 256) % 256)) + ((n \div 256) % 256)) + (n % 256)
  <2>1. n \in Nat /\ n < 4294967296
    BY SMT DEF FourBytes
  <2>2. PICK q, r : q = n \div 256 /\ r = n % 256
    OBVIOUS
  <2>3. q \in Nat /\ r \in Nat /\ n = 256 * q + r
    BY <2>1, <2>2, DivideBy256 DEF Byte
  <2>4. PICK qq, rr : qq = q \div 256 /\ rr = q % 256
    OBVIOUS
  <2>5. qq \in Nat /\ rr \in Nat /\ q = 256 * qq + rr
    BY <2>3, <2>4, DivideBy256 DEF Byte
  <2>6. PICK qqq, rrr : qqq = qq \div 256 /\ rrr = qq % 256
    OBVIOUS
  <2>7. qqq \in Nat /\ rrr \in Nat /\ qq = 256 * qqq + rrr
    BY <2>5, <2>6, DivideBy256 DEF Byte
  <2>8. qqq < 256
    BY <2>1, <2>3, <2>5, <2>7, SMT
  <2>9. qqq % 256 = qqq
    BY <1>0, <2>7, <2>8
  <2>10. n = 256 * (256 * (256 * (qqq % 256) + rrr) + rr) + r
    BY <2>3, <2>5, <2>7, <2>9
  <2> QED BY <2>2, <2>4, <2>6, <2>10
<1> QED BY <1>1, <1>2

\* Two bytes and four of a number amount to it.
LEMMA BeAmountsToIt ==
  /\ \A n \in TwoBytes : /\ Be(n, 2) \in Seq(Byte) /\ Len(Be(n, 2)) = 2
                         /\ BigEndian(Be(n, 2)) = n
  /\ \A n \in FourBytes : /\ Be(n, 4) \in Seq(Byte) /\ Len(Be(n, 4)) = 4
                          /\ BigEndian(Be(n, 4)) = n
<1>0. \A q \in Nat : q % 256 \in Nat /\ q % 256 \in Byte /\ q \div 256 \in Nat
  BY DivideBy256 DEF Byte
<1>1. ASSUME NEW n \in TwoBytes
      PROVE  /\ Be(n, 2) \in Seq(Byte) /\ Len(Be(n, 2)) = 2
             /\ BigEndian(Be(n, 2)) = n
  <2>1. n \in Nat
    BY SMT DEF TwoBytes
  <2>2. PICK a, b : a = (n \div 256) % 256 /\ b = n % 256
    OBVIOUS
  <2>3. a \in Nat /\ b \in Nat /\ a \in Byte /\ b \in Byte
    BY <1>0, <2>1, <2>2
  <2>4. Be(n, 2) = <<a, b>>
    BY <2>1, <2>2, BeOf
  <2>5. BigEndian(<<a, b>>) = 256 * a + b
    BY <2>3, BigEndianOf
  <2>6. n = 256 * a + b
    BY <2>2, BytesHoldNumbers
  <2>7. <<a, b>> \in Seq(Byte) /\ Len(<<a, b>>) = 2
    BY <2>3
  <2> QED BY <2>4, <2>5, <2>6, <2>7
<1>2. ASSUME NEW n \in FourBytes
      PROVE  /\ Be(n, 4) \in Seq(Byte) /\ Len(Be(n, 4)) = 4
             /\ BigEndian(Be(n, 4)) = n
  <2>1. n \in Nat
    BY SMT DEF FourBytes
  <2>2. PICK a, b, c, e : /\ a = (((n \div 256) \div 256) \div 256) % 256
                          /\ b = ((n \div 256) \div 256) % 256
                          /\ c = (n \div 256) % 256 /\ e = n % 256
    OBVIOUS
  <2>3. /\ a \in Nat /\ b \in Nat /\ a \in Byte /\ b \in Byte
        /\ c \in Nat /\ e \in Nat /\ c \in Byte /\ e \in Byte
    BY <1>0, <2>1, <2>2
  <2>4. Be(n, 4) = <<a, b, c, e>>
    BY <2>1, <2>2, BeOf
  <2>5. BigEndian(<<a, b, c, e>>) = 256 * (256 * (256 * a + b) + c) + e
    BY <2>3, BigEndianOf
  <2>6. n = 256 * (256 * (256 * a + b) + c) + e
    BY <2>2, BytesHoldNumbers
  <2>7. <<a, b, c, e>> \in Seq(Byte) /\ Len(<<a, b, c, e>>) = 4
    BY <2>3
  <2> QED BY <2>4, <2>5, <2>6, <2>7, ZenonT(60)
<1> QED BY <1>1, <1>2

-----------------------------------------------------------------------------
(* Compact integers. *)

\* The bytes of a number behind their length.
UbOf(w, n) == /\ WriteUb(n) = <<Len(w)>> \o w
              /\ Len(w) \in {0, 1, 2, 4}
              /\ BigEndian(w) = n
              /\ n \in TwoBytes => Len(w) # 4

\* A number is written as its length and that many bytes, which amount to it.
LEMMA WriteUbForm ==
  ASSUME NEW n \in FourBytes
  PROVE  \E w \in Seq(Byte) : UbOf(w, n)
<1>0. n \in Nat
  BY SMT DEF FourBytes
<1>1. CASE n = 0
  <2>1. <<>> \in Seq(Byte) /\ Len(<<>>) = 0 /\ <<0>> \o <<>> = <<0>>
    OBVIOUS
  <2>2. WriteUb(n) = <<0>>
    BY <1>1, SMT DEF WriteUb
  <2>3. WriteUb(n) = <<Len(<<>>)>> \o <<>>
    BY <2>1, <2>2
  <2>4. UbOf(<<>>, n)
    BY <1>1, <2>1, <2>3, BigEndianOf DEF UbOf
  <2> QED BY <2>1, <2>4
<1>2. CASE n # 0 /\ n < 256
  <2>0. n \in Byte
    BY <1>0, <1>2 DEF Byte
  <2>1. <<n>> \in Seq(Byte) /\ Len(<<n>>) = 1 /\ <<1>> \o <<n>> = <<1, n>>
    <3>1. \A b \in Byte : <<b>> \in Seq(Byte) /\ Len(<<b>>) = 1
      OBVIOUS
    <3>2. ASSUME NEW a \in Byte, NEW b \in Byte
          PROVE  <<a>> \o <<b>> = <<a, b>>
      <4>1. PICK s, t, v, w : s = <<a>> /\ t = <<b>> /\ v = <<a>> \o <<b>> /\ w = <<a, b>>
        OBVIOUS
      <4>2. /\ s \in Seq(Byte) /\ Len(s) = 1 /\ s[1] = a
            /\ t \in Seq(Byte) /\ Len(t) = 1 /\ t[1] = b
            /\ w \in Seq(Byte) /\ Len(w) = 2 /\ w[1] = a /\ w[2] = b
        BY <4>1
      <4>3. /\ v \in Seq(Byte) /\ Len(v) = 2
            /\ \A i \in 1..2 : v[i] = IF i <= 1 THEN s[i] ELSE t[i - 1]
        BY <4>1, <4>2, ConcatProperties
      <4>4. v[1] = a /\ v[2] = b
        BY <4>2, <4>3
      <4>5. \A i \in 1..2 : v[i] = w[i]
        BY <4>2, <4>4
      <4>6. v = w
        BY <4>2, <4>3, <4>5, SeqEqual
      <4> QED BY <4>1, <4>6
    <3>3. 1 \in Byte
      BY DEF Byte
    <3> QED BY <2>0, <3>1, <3>2, <3>3
  <2>2. WriteUb(n) = <<1, n>>
    BY <1>2, SMT DEF WriteUb
  <2>3. BigEndian(<<n>>) = n
    BY <1>0, BigEndianOf
  <2>4. WriteUb(n) = <<Len(<<n>>)>> \o <<n>>
    BY <2>1, <2>2
  <2>5. UbOf(<<n>>, n)
    BY <2>1, <2>3, <2>4 DEF UbOf
  <2> QED BY <2>1, <2>5
<1>3. CASE ~(n < 256) /\ n \in TwoBytes
  <2>1. WriteUb(n) = <<2>> \o Be(n, 2)
    BY <1>0, <1>3, SMT DEF WriteUb, TwoBytes
  <2>2. PICK w \in Seq(Byte) : w = Be(n, 2) /\ Len(w) = 2 /\ BigEndian(w) = n
    BY <1>3, BeAmountsToIt
  <2>3. UbOf(w, n)
    BY <2>1, <2>2 DEF UbOf
  <2> QED BY <2>3
<1>4. CASE n \notin TwoBytes
  <2>1. WriteUb(n) = <<4>> \o Be(n, 4)
    BY <1>0, <1>4, SMT DEF WriteUb, TwoBytes
  <2>2. PICK w \in Seq(Byte) : w = Be(n, 4) /\ Len(w) = 4 /\ BigEndian(w) = n
    BY BeAmountsToIt
  <2>3. UbOf(w, n)
    BY <1>4, <2>1, <2>2 DEF UbOf
  <2> QED BY <2>3
<1> QED BY <1>1, <1>2, <1>3, <1>4

\* The bytes of a number are bytes, and there is at least one.
LEMMA WriteUbBytes ==
  ASSUME NEW n \in FourBytes
  PROVE  WriteUb(n) \in Seq(Byte) /\ Len(WriteUb(n)) \in 1..5
<1>1. PICK w \in Seq(Byte) : WriteUb(n) = <<Len(w)>> \o w /\ Len(w) \in {0, 1, 2, 4}
  BY WriteUbForm DEF UbOf
<1>2. <<Len(w)>> \in Seq(Byte) /\ Len(<<Len(w)>>) = 1
  BY <1>1 DEF Byte
<1>3. WriteUb(n) \in Seq(Byte) /\ Len(WriteUb(n)) = 1 + Len(w)
  BY <1>1, <1>2
<1>4. \A k \in {0, 1, 2, 4} : 1 + k \in 1..5
  OBVIOUS
<1> QED BY <1>1, <1>3, <1>4

\* A number that write_ub2, write_ub4 or write_ub8 wrote is what read_ub2,
\* read_ub4 and read_ub8 read, wherever it stands in a message, and they end
\* where it does: the fields of a message that follow are read from their place.
THEOREM IntegersReadBack ==
  ASSUME NEW n \in FourBytes, NEW width \in {2, 4, 8}, width = 2 => n \in TwoBytes,
         NEW d \in Seq(Byte), NEW at \in Nat \ {0}, StandsAt(WriteUb(n), d, at)
  PROVE  Ub(d, at, width) = Got(n, at + Len(WriteUb(n)))
<1>1. PICK w \in Seq(Byte) : /\ WriteUb(n) = <<Len(w)>> \o w
                             /\ Len(w) \in {0, 1, 2, 4}
                             /\ BigEndian(w) = n
                             /\ n \in TwoBytes => Len(w) # 4
  BY WriteUbForm DEF UbOf
<1>2. Len(w) \in Byte /\ <<Len(w)>> \in Seq(Byte) /\ Len(<<Len(w)>>) = 1
  BY <1>1 DEF Byte
<1>3. Len(WriteUb(n)) = 1 + Len(w)
  BY <1>1, <1>2
<1>4. StandsAt(<<Len(w)>>, d, at) /\ StandsAt(w, d, at + 1)
  BY <1>1, <1>2, StandsInParts
<1>5. U8(d, at) = Got(Len(w), at + 1)
  BY <1>2, <1>4, OneByteStands
<1>6. Take(d, at + 1, Len(w)) = Got(w, at + 1 + Len(w))
  BY <1>4, BytesAreTaken
<1>7. Number(d, at + 1, Len(w)) = Got(n, at + 1 + Len(w))
  BY <1>1, <1>6 DEF Number, Then, Got
<1>8. PICK l : l = Got(Len(w), at + 1)
  OBVIOUS
<1>9. l.r = "ok" /\ l.v = Len(w) /\ l.at = at + 1
  BY <1>8 DEF Got
<1>10. l.v % 128 = Len(w) /\ ~(l.v % 128 > width) /\ ~(l.v % 128 \in 5..7)
  <2>1. \A k \in {0, 1, 2, 4} : k % 128 = k /\ ~(k \in 5..7)
    OBVIOUS
  <2>2. PICK k : k = Len(w)
    OBVIOUS
  <2>3. k \in {0, 1, 2, 4} /\ (width = 2 => k # 4)
    BY <1>1, <2>2
  <2>4. ~(k > width)
    BY <2>3
  <2>5. l.v = k /\ k % 128 = k /\ ~(k \in 5..7)
    BY <1>9, <2>1, <2>2, <2>3, ZenonT(60)
  <2> QED BY <2>2, <2>4, <2>5
<1>11. Ub(d, at, width) = Number(d, l.at, l.v % 128)
  BY <1>5, <1>8, <1>9, <1>10 DEF Ub, Then
<1>12. at + Len(WriteUb(n)) = at + 1 + Len(w)
  BY <1>1, <1>3
<1> QED BY <1>7, <1>9, <1>10, <1>11, <1>12

-----------------------------------------------------------------------------
(* Values: reading them. *)

\* What bytes amount to is a natural number.
LEMMA BigEndianIsNat ==
  ASSUME NEW bytes \in Seq(Byte)
  PROVE  BigEndian(bytes) \in Nat
<1>1. PICK m : m = Len(bytes) /\ m \in Nat
  OBVIOUS
<1>2. PICK f : /\ BigEndian(bytes) = f[m]
               /\ f[0] = 0
               /\ \A n \in 1..m : f[n] = 256 * f[n - 1] + bytes[n]
  BY <1>1, BigEndianIs
<1> DEFINE Bad == {k \in Nat : k <= m /\ f[k] \notin Nat}
<1>3. Bad = {}
  <2>1. SUFFICES ASSUME Bad # {} PROVE FALSE
    OBVIOUS
  <2>2. PICK x \in Bad : \A y \in Bad : x <= y
    <3>1. Bad \in SUBSET Nat
      OBVIOUS
    <3> HIDE DEF Bad
    <3> QED BY <2>1, <3>1, LeastNat
  <2>3. x \in Nat /\ x <= m /\ x # 0
    BY <1>2
  <2>4. x - 1 \in Nat /\ x - 1 <= m /\ ~(x <= x - 1)
    BY <1>1, <2>3
  <2>5. x - 1 \notin Bad
    BY <2>2, <2>4
  <2>6. f[x - 1] \in Nat
    BY <2>4, <2>5
  <2>7. x \in 1..m /\ bytes[x] \in Nat
    <3>1. x \in 1..m /\ x \in 1..Len(bytes)
      BY <1>1, <2>3
    <3>2. bytes[x] \in Byte
      BY <3>1
    <3>3. \A b \in Byte : b \in Nat
      BY DEF Byte
    <3>4. bytes[x] \in Nat
      BY <3>2, <3>3
    <3> QED BY <3>1, <3>4
  <2>8. f[x] = 256 * f[x - 1] + bytes[x]
    BY <1>2, <2>7
  <2>9. f[x] \in Nat
    BY <2>6, <2>7, <2>8
  <2> QED BY <2>2, <2>9
<1>4. m \notin Bad
  BY <1>3
<1> QED BY <1>1, <1>2, <1>4

\* What was taken lies in the message.
LEMMA TakenLies ==
  ASSUME NEW S, NEW d \in Seq(S), NEW at \in Nat \ {0}, NEW n \in Nat,
         Take(d, at, n).r = "ok"
  PROVE  /\ Take(d, at, n).v \in Seq(S)
         /\ Len(Take(d, at, n).v) = n
         /\ Take(d, at, n).at = at + n
         /\ at + n \in 1..(Len(d) + 1)
<1>1. Len(d) \in Nat
  OBVIOUS
<1>2. at + n - 1 <= Len(d)
  BY DEF Take, Fail
<1>3. PICK t : t = SubSeq(d, at, at + n - 1)
  OBVIOUS
<1>4. Take(d, at, n) = Got(t, at + n)
  BY <1>2, <1>3 DEF Take
<1>5. t \in Seq(S) /\ Len(t) = n
  <2>1. at \in Int /\ at + n - 1 \in Int
    OBVIOUS
  <2>2. \A i \in at..(at + n - 1) : d[i] \in S
    BY <1>1, <1>2
  <2>3. t \in Seq(S) /\ Len(t) = IF at <= at + n - 1 THEN (at + n - 1) - at + 1 ELSE 0
    BY <1>3, <2>1, <2>2, SubSeqProperties
  <2> QED BY <2>3
<1>6. PICK got : got = Got(t, at + n)
  OBVIOUS
<1>7. got.v = t /\ got.at = at + n
  BY <1>6 DEF Got
<1> QED BY <1>1, <1>2, <1>4, <1>5, <1>6, <1>7

\* A length that was read is a number, and what it is the length of is ahead.
Length(d, p, big) == IF big THEN Ub(d, p, 4) ELSE U8(d, p)

\* A length that could be read is a number, and the bytes behind it come later.
LEMMA LengthIsAhead ==
  ASSUME NEW d \in Seq(Byte), NEW p \in Nat \ {0}, NEW big \in BOOLEAN,
         Length(d, p, big).r = "ok"
  PROVE  Length(d, p, big).v \in Nat /\ Length(d, p, big).at \in (p + 1)..(Len(d) + 1)
<1>0. Len(d) \in Nat
  OBVIOUS
<1>1. PICK l : l = U8(d, p)
  OBVIOUS
<1>2. CASE l.r # "ok"
  <2>1. Length(d, p, big) = l
    BY <1>1, <1>2 DEF Length, Ub, Then
  <2> QED BY <1>2, <2>1
<1>3. CASE l.r = "ok"
  <2>1. p <= Len(d) /\ l = Got(d[p], p + 1)
    BY <1>1, <1>3 DEF U8, Fail
  <2>2. PICK b : b = d[p]
    OBVIOUS
  <2>3. l.v = b /\ l.at = p + 1 /\ b \in Byte /\ b \in Nat /\ b % 128 \in Nat
    <3>1. p \in 1..Len(d)
      BY <1>0, <2>1
    <3>2. b \in Byte
      BY <2>2, <3>1
    <3>3. b \in Nat
      BY <3>2 DEF Byte
    <3>4. b % 128 \in Nat
      BY <3>3
    <3> QED BY <2>1, <2>2, <3>2, <3>3, <3>4 DEF Got
  <2>4. CASE big
    <3>1. PICK t : t = Take(d, p + 1, b % 128)
      OBVIOUS
    <3>2. Ub(d, p, 4) = IF l.v % 128 > 4 THEN Fail("bad") ELSE Number(d, l.at, l.v % 128)
      BY <1>1, <1>3 DEF Ub, Then
    <3>3. Ub(d, p, 4) = Number(d, p + 1, b % 128)
      BY <2>3, <2>4, <3>2 DEF Length, Fail
    <3>4. t.r = "ok" /\ Ub(d, p, 4) = Got(BigEndian(t.v), t.at)
      BY <2>4, <3>1, <3>3 DEF Length, Number, Then
    <3>5. p + 1 \in Nat \ {0}
      OBVIOUS
    <3>6. t.v \in Seq(Byte) /\ t.at = p + 1 + (b % 128) /\ p + 1 + (b % 128) \in 1..(Len(d) + 1)
      BY <2>3, <3>1, <3>4, <3>5, TakenLies
    <3>7. BigEndian(t.v) \in Nat
      BY <3>6, BigEndianIsNat
    <3>8. t.at \in (p + 1)..(Len(d) + 1)
      BY <1>0, <2>3, <3>6
    <3> QED BY <2>4, <3>4, <3>7, <3>8 DEF Length, Got
  <2>5. CASE ~big
    <3>1. Length(d, p, big) = l
      BY <1>1, <2>5 DEF Length
    <3>2. p + 1 \in (p + 1)..(Len(d) + 1)
      BY <1>0, <2>1
    <3> QED BY <2>3, <3>1, <3>2
  <2> QED BY <2>4, <2>5
<1> QED BY <1>2, <1>3

\* A chunk and those behind it.
Behind(t, got) == Then(got, LAMBDA rest : Got(t.v \o rest.v, rest.at))

\* The chunks from p on, when f has those from any later place on.
Onward(f, d, p, big) ==
  Then(Length(d, p, big), LAMBDA l :
    IF l.v = 0 THEN Got(<<>>, l.at)
    ELSE Then(Take(d, l.at, l.v), LAMBDA t : Behind(t, f[t.at])))

\* From a place on f has what g has.
Agree(f, g, d, p) == \A q \in (p + 1)..(Len(d) + 1) : f[q] = g[q]

\* Only what f has of later places counts.
LEMMA OnwardLooksAhead ==
  ASSUME NEW d \in Seq(Byte), NEW p \in Nat \ {0}, NEW big \in BOOLEAN, NEW f, NEW g,
         Agree(f, g, d, p)
  PROVE  Onward(f, d, p, big) = Onward(g, d, p, big)
<1>1. PICK l : l = Length(d, p, big)
  OBVIOUS
<1>2. CASE l.r # "ok" \/ l.v = 0
  BY <1>1, <1>2 DEF Onward, Then
<1>3. CASE l.r = "ok" /\ l.v # 0
  <2>0. Len(d) \in Nat
    OBVIOUS
  <2>1. l.v \in Nat /\ l.at \in (p + 1)..(Len(d) + 1)
    BY <1>1, <1>3, LengthIsAhead
  <2>2. l.at \in Nat \ {0}
    BY <2>1
  <2>3. PICK t : t = Take(d, l.at, l.v)
    OBVIOUS
  <2>4. CASE t.r # "ok"
    BY <1>1, <1>3, <2>3, <2>4 DEF Onward, Then
  <2>5. CASE t.r = "ok"
    <3>1. t.at = l.at + l.v /\ l.at + l.v \in 1..(Len(d) + 1)
      BY <2>1, <2>2, <2>3, <2>5, TakenLies
    <3>2. t.at \in (p + 1)..(Len(d) + 1)
      BY <2>0, <2>1, <2>2, <3>1
    <3>3. f[t.at] = g[t.at]
      BY <3>2 DEF Agree
    <3> QED BY <1>1, <1>3, <2>3, <2>5, <3>3 DEF Onward, Then
  <2> QED BY <2>4, <2>5
<1> QED BY <1>2, <1>3

\* All chunks of a message, from every place.
IsOnward(f, d, big, m) == \A p \in 1..(Len(d) + 1) : p > m => f[p] = Onward(f, d, p, big)

\* The function by which a reader follows chunks to their end exists.
LEMMA OnwardExists ==
  ASSUME NEW d \in Seq(Byte), NEW big \in BOOLEAN
  PROVE  \E f : f = [p \in 1..(Len(d) + 1) |-> Onward(f, d, p, big)]
<1>0. PICK n : n = Len(d) + 1 /\ n \in Nat
  OBVIOUS
<1> DEFINE Has(m) == \E f : f = [p \in 1..n |-> f[p]] /\ IsOnward(f, d, big, m)
           Bad == {k \in Nat : k <= n /\ ~Has(n - k)}
<1>1. Bad = {}
  <2>1. SUFFICES ASSUME Bad # {} PROVE FALSE
    OBVIOUS
  <2>2. PICK x \in Bad : \A y \in Bad : x <= y
    <3>1. Bad \in SUBSET Nat
      OBVIOUS
    <3> HIDE DEF Bad
    <3> QED BY <2>1, <3>1, LeastNat
  <2>3. x \in Nat /\ x <= n /\ ~Has(n - x)
    BY <2>2
  <2>4. CASE x = 0
    <3>1. PICK f : f = [p \in 1..n |-> 0]
      OBVIOUS
    <3>2. f = [p \in 1..n |-> f[p]]
      BY <3>1
    <3>3. IsOnward(f, d, big, n - x)
      BY <1>0, <2>4 DEF IsOnward
    <3> QED BY <2>3, <3>2, <3>3
  <2>5. CASE x # 0
    <3>1. x - 1 \in Nat /\ x - 1 <= n /\ ~(x <= x - 1)
      BY <1>0, <2>3, <2>5
    <3>2. Has(n - (x - 1))
      BY <2>2, <3>1
    <3>3. PICK f : f = [p \in 1..n |-> f[p]] /\ IsOnward(f, d, big, n - (x - 1))
      BY <3>2
    <3>4. PICK q : q = n - x + 1 /\ q \in 1..n /\ n - (x - 1) = q /\ n - x = q - 1
      BY <1>0, <2>3, <2>5
    <3>5. PICK g : g = [p \in 1..n |-> IF p = q THEN Onward(f, d, q, big) ELSE f[p]]
      OBVIOUS
    <3>6. g = [p \in 1..n |-> g[p]]
      BY <3>5
    <3>7. ASSUME NEW p \in 1..n, p > q - 1
          PROVE  g[p] = Onward(g, d, p, big)
      <4>1. Agree(f, g, d, p)
        <5>1. ASSUME NEW r \in (p + 1)..n
              PROVE  f[r] = g[r]
          <6>1. r \in 1..n /\ r # q
            BY <1>0, <3>4, <3>7
          <6> QED BY <3>5, <6>1
        <5> QED BY <1>0, <5>1 DEF Agree
      <4>2. p \in Nat \ {0}
        BY <1>0
      <4>3. Onward(f, d, p, big) = Onward(g, d, p, big)
        BY <4>1, <4>2, OnwardLooksAhead
      <4>4. CASE p = q
        <5>1. g[q] = Onward(f, d, q, big)
          BY <3>4, <3>5
        <5> QED BY <4>3, <4>4, <5>1
      <4>5. CASE p # q
        <5>1. p > n - (x - 1) /\ p \in 1..(Len(d) + 1)
          BY <1>0, <3>4, <3>7, <4>5
        <5>2. f[p] = Onward(f, d, p, big)
          BY <3>3, <5>1 DEF IsOnward
        <5> QED BY <3>5, <4>3, <4>5, <5>2
      <4> QED BY <4>4, <4>5
    <3>8. IsOnward(g, d, big, n - x)
      BY <1>0, <3>4, <3>7 DEF IsOnward
    <3> QED BY <2>3, <3>6, <3>8
  <2> QED BY <2>4, <2>5
<1>2. Has(0)
  <2>1. n \in Nat /\ n <= n /\ n - n = 0
    BY <1>0
  <2>2. n \notin Bad
    BY <1>1
  <2> HIDE DEF Has
  <2> QED BY <2>1, <2>2
<1>3. PICK f : f = [p \in 1..n |-> f[p]] /\ IsOnward(f, d, big, 0)
  BY <1>2
<1>4. ASSUME NEW p \in 1..n
      PROVE  f[p] = Onward(f, d, p, big)
  BY <1>0, <1>3 DEF IsOnward
<1>5. f = [p \in 1..n |-> Onward(f, d, p, big)]
  BY <1>3, <1>4
<1> QED BY <1>0, <1>5

\* The chunks from a place on: none behind a zero length, and otherwise one
\* and those behind it.
LEMMA ChunksAre ==
  ASSUME NEW d \in Seq(Byte), NEW big \in BOOLEAN, NEW at \in 1..(Len(d) + 1),
         Length(d, at, big).r = "ok"
  PROVE  /\ Length(d, at, big).v = 0 => Chunks(d, at, big) = Got(<<>>, Length(d, at, big).at)
         /\ \A t : /\ Length(d, at, big).v # 0
                   /\ t = Take(d, Length(d, at, big).at, Length(d, at, big).v) /\ t.r = "ok"
                   => Chunks(d, at, big) = Behind(t, Chunks(d, t.at, big))
<1> DEFINE f == CHOOSE g : g = [p \in 1..(Len(d) + 1) |-> Onward(g, d, p, big)]
<1>1. \A q : Chunks(d, q, big) = f[q]
  BY DEF Chunks, Onward, Behind, Length, Then
<1>2. f = [p \in 1..(Len(d) + 1) |-> Onward(f, d, p, big)]
  BY OnwardExists
<1> HIDE DEF f
<1>3. Chunks(d, at, big) = Onward(f, d, at, big)
  BY <1>1, <1>2
<1>4. PICK l : l = Length(d, at, big)
  OBVIOUS
<1>5. l.v = 0 => Chunks(d, at, big) = Got(<<>>, l.at)
  BY <1>3, <1>4 DEF Onward, Then
<1>6. ASSUME NEW t, l.v # 0, t = Take(d, l.at, l.v), t.r = "ok"
      PROVE  Chunks(d, at, big) = Behind(t, Chunks(d, t.at, big))
  BY <1>1, <1>3, <1>4, <1>6 DEF Onward, Then
<1> QED BY <1>4, <1>5, <1>6

-----------------------------------------------------------------------------
(* Values: writing them. *)

\* What is written from p on, when f has what is written from any later place.
WrittenFrom(f, v, p) ==
  IF p > Len(v) THEN WriteUb(0)
  ELSE WriteUb(Len(Piece(v, p, ChunkSize))) \o Piece(v, p, ChunkSize)
       \o f[p + Len(Piece(v, p, ChunkSize))]

\* A piece is not empty, not longer than a chunk, and in its place.
LEMMA PieceIs ==
  ASSUME NEW v \in Seq(Byte), NEW p \in 1..Len(v)
  PROVE  /\ Piece(v, p, ChunkSize) \in Seq(Byte)
         /\ Len(Piece(v, p, ChunkSize)) \in TwoBytes \ {0}
         /\ p + Len(Piece(v, p, ChunkSize)) \in (p + 1)..(Len(v) + 1)
         /\ Piece(v, p, ChunkSize) = SubSeq(v, p, p + Len(Piece(v, p, ChunkSize)) - 1)
<1>0. PICK n, k : n = Len(v) /\ n \in Nat /\ k = ChunkSize /\ k \in Nat \ {0}
  BY ChunkAssumption
<1>1. PICK e : e = IF p + k - 1 > n THEN n ELSE p + k - 1
  OBVIOUS
<1>2. p \in 1..n /\ e \in p..n
  BY <1>0, <1>1
<1>3. PICK s : s = SubSeq(v, p, e)
  OBVIOUS
<1>4. Piece(v, p, ChunkSize) = s
  BY <1>0, <1>1, <1>3 DEF Piece
<1>5. PICK m : m = e - p + 1
  OBVIOUS
<1>6. s \in Seq(Byte) /\ Len(s) = m
  <2>1. p \in Int /\ e \in Int /\ \A i \in p..e : v[i] \in Byte
    BY <1>0, <1>2
  <2>2. s \in Seq(Byte) /\ Len(s) = IF p <= e THEN m ELSE 0
    BY <1>3, <1>5, <2>1, SubSeqProperties
  <2> QED BY <1>2, <2>2
<1>7. m \in Nat \ {0} /\ p + m \in (p + 1)..(n + 1) /\ p + m - 1 = e /\ m <= k
  BY <1>0, <1>1, <1>2, <1>5
<1>8. m \in TwoBytes
  BY <1>0, <1>7, ChunkAssumption, SMT DEF TwoBytes
<1> QED BY <1>0, <1>3, <1>4, <1>6, <1>7, <1>8

WritesAll(f, v, m) == \A p \in 1..(Len(v) + 1) : p > m => f[p] = WrittenFrom(f, v, p)

\* The function by which a writer cuts a value into chunks exists.
LEMMA WrittenExists ==
  ASSUME NEW v \in Seq(Byte)
  PROVE  \E f : f = [p \in 1..(Len(v) + 1) |-> WrittenFrom(f, v, p)]
<1>0. PICK n : n = Len(v) + 1 /\ n \in Nat
  OBVIOUS
<1> DEFINE Has(m) == \E f : f = [p \in 1..n |-> f[p]] /\ WritesAll(f, v, m)
           Bad == {k \in Nat : k <= n /\ ~Has(n - k)}
<1>1. Bad = {}
  <2>1. SUFFICES ASSUME Bad # {} PROVE FALSE
    OBVIOUS
  <2>2. PICK x \in Bad : \A y \in Bad : x <= y
    <3>1. Bad \in SUBSET Nat
      OBVIOUS
    <3> HIDE DEF Bad
    <3> QED BY <2>1, <3>1, LeastNat
  <2>3. x \in Nat /\ x <= n /\ ~Has(n - x)
    BY <2>2
  <2>4. CASE x = 0
    <3>1. PICK f : f = [p \in 1..n |-> 0]
      OBVIOUS
    <3>2. f = [p \in 1..n |-> f[p]]
      BY <3>1
    <3>3. WritesAll(f, v, n - x)
      BY <1>0, <2>4 DEF WritesAll
    <3> QED BY <2>3, <3>2, <3>3
  <2>5. CASE x # 0
    <3>1. x - 1 \in Nat /\ x - 1 <= n /\ ~(x <= x - 1)
      BY <1>0, <2>3, <2>5
    <3>2. Has(n - (x - 1))
      BY <2>2, <3>1
    <3>3. PICK f : f = [p \in 1..n |-> f[p]] /\ WritesAll(f, v, n - (x - 1))
      BY <3>2
    <3>4. PICK q : q = n - x + 1 /\ q \in 1..n /\ n - (x - 1) = q /\ n - x = q - 1
      BY <1>0, <2>3, <2>5
    <3>5. PICK g : g = [p \in 1..n |-> IF p = q THEN WrittenFrom(f, v, q) ELSE f[p]]
      OBVIOUS
    <3>6. g = [p \in 1..n |-> g[p]]
      BY <3>5
    <3>7. ASSUME NEW p \in 1..n, p > q - 1
          PROVE  g[p] = WrittenFrom(g, v, p)
      <4>1. WrittenFrom(f, v, p) = WrittenFrom(g, v, p)
        <5>1. CASE p > Len(v)
          BY <5>1 DEF WrittenFrom
        <5>2. CASE ~(p > Len(v))
          <6>1. PICK w : w = Piece(v, p, ChunkSize)
            OBVIOUS
          <6>2. p \in 1..Len(v)
            BY <1>0, <5>2
          <6>3. p + Len(w) \in (p + 1)..n
            BY <1>0, <6>1, <6>2, PieceIs
          <6>4. p + Len(w) \in 1..n /\ p + Len(w) # q
            BY <1>0, <3>4, <3>7, <6>3
          <6>5. f[p + Len(w)] = g[p + Len(w)]
            BY <3>5, <6>4
          <6> QED BY <5>2, <6>1, <6>5 DEF WrittenFrom
        <5> QED BY <5>1, <5>2
      <4>2. CASE p = q
        <5>1. g[q] = WrittenFrom(f, v, q)
          BY <3>4, <3>5
        <5> QED BY <4>1, <4>2, <5>1
      <4>3. CASE p # q
        <5>1. p > n - (x - 1) /\ p \in 1..(Len(v) + 1)
          BY <1>0, <3>4, <3>7, <4>3
        <5>2. f[p] = WrittenFrom(f, v, p)
          BY <3>3, <5>1 DEF WritesAll
        <5> QED BY <3>5, <4>1, <4>3, <5>2
      <4> QED BY <4>2, <4>3
    <3>8. WritesAll(g, v, n - x)
      BY <1>0, <3>4, <3>7 DEF WritesAll
    <3> QED BY <2>3, <3>6, <3>8
  <2> QED BY <2>4, <2>5
<1>2. Has(0)
  <2>1. n \in Nat /\ n <= n /\ n - n = 0
    BY <1>0
  <2>2. n \notin Bad
    BY <1>1
  <2> HIDE DEF Has
  <2> QED BY <2>1, <2>2
<1>3. PICK f : f = [p \in 1..n |-> f[p]] /\ WritesAll(f, v, 0)
  BY <1>2
<1>4. ASSUME NEW p \in 1..n
      PROVE  f[p] = WrittenFrom(f, v, p)
  BY <1>0, <1>3 DEF WritesAll
<1>5. f = [p \in 1..n |-> WrittenFrom(f, v, p)]
  BY <1>3, <1>4
<1> QED BY <1>0, <1>5

\* What write_bytes_with_length has written of a long value from each place on.
LEMMA WriteChunksAre ==
  ASSUME NEW v \in Seq(Byte)
  PROVE  \E f : WriteChunks(v) = f[1] /\ WritesAll(f, v, 0)
<1> DEFINE f == CHOOSE g : g = [p \in 1..(Len(v) + 1) |-> WrittenFrom(g, v, p)]
<1>1. WriteChunks(v) = f[1]
  BY DEF WriteChunks, WrittenFrom
<1>2. f = [p \in 1..(Len(v) + 1) |-> WrittenFrom(f, v, p)]
  BY WrittenExists
<1> HIDE DEF f
<1>3. WritesAll(f, v, 0)
  BY <1>2 DEF WritesAll
<1> QED BY <1>1, <1>3

-----------------------------------------------------------------------------
(* Values: what was written is read back. *)

\* Where something stands, the message has not ended.
LEMMA StandsInside ==
  ASSUME NEW S, NEW w \in Seq(S), Len(w) # 0, NEW d \in Seq(S), NEW at \in Nat \ {0}, StandsAt(w, d, at)
  PROVE  at \in 1..(Len(d) + 1)
<1>1. Len(w) \in Nat /\ Len(d) \in Nat /\ at + Len(w) - 1 <= Len(d)
  BY DEF StandsAt
<1> QED BY <1>1

\* What is written of v from p on is read as that.
ReadsFrom(f, v, d, p) ==
  /\ f[p] \in Seq(Byte)
  /\ \A at \in Nat \ {0} : StandsAt(f[p], d, at) =>
       Chunks(d, at, TRUE) = Got(SubSeq(v, p, Len(v)), at + Len(f[p]))

\* Behind the last chunk stands the zero that ends them, and nothing is read.
LEMMA NoneAreReadBack ==
  ASSUME NEW v \in Seq(Byte), NEW d \in Seq(Byte), NEW f, f[Len(v) + 1] = WrittenFrom(f, v, Len(v) + 1)
  PROVE  ReadsFrom(f, v, d, Len(v) + 1)
<1>0. PICK p : p = Len(v) + 1 /\ p \in Nat /\ p > Len(v) /\ Len(v) \in Nat
  OBVIOUS
<1>1. 0 \in FourBytes
  BY SMT DEF FourBytes
<1>2. f[p] = WriteUb(0) /\ f[p] \in Seq(Byte) /\ Len(f[p]) # 0
  <2>1. f[p] = WriteUb(0)
    BY <1>0 DEF WrittenFrom
  <2>2. PICK w : w = WriteUb(0)
    OBVIOUS
  <2>3. w \in Seq(Byte) /\ Len(w) \in 1..5
    BY <1>1, <2>2, WriteUbBytes
  <2>4. \A i \in 1..5 : i # 0
    OBVIOUS
  <2> QED BY <2>1, <2>2, <2>3, <2>4
<1>3. ASSUME NEW at \in Nat \ {0}, StandsAt(f[p], d, at)
      PROVE  Chunks(d, at, TRUE) = Got(SubSeq(v, p, Len(v)), at + Len(f[p]))
  <2>1. Ub(d, at, 4) = Got(0, at + Len(f[p]))
    BY <1>1, <1>2, <1>3, IntegersReadBack
  <2>2. PICK l : l = Length(d, at, TRUE)
    OBVIOUS
  <2>3. l.r = "ok" /\ l.v = 0 /\ l.at = at + Len(f[p])
    BY <2>1, <2>2 DEF Length, Got
  <2>4. at \in 1..(Len(d) + 1)
    BY <1>2, <1>3, StandsInside
  <2>5. Chunks(d, at, TRUE) = Got(<<>>, l.at)
    BY <2>2, <2>3, <2>4, ChunksAre
  <2>6. SubSeq(v, p, Len(v)) = <<>>
    BY <1>0, SubSeqEmpty
  <2> QED BY <2>3, <2>5, <2>6
<1> QED BY <1>0, <1>2, <1>3 DEF ReadsFrom

\* If the chunks behind one are read back, so are they with that one.
LEMMA OneMoreIsReadBack ==
  ASSUME NEW v \in Seq(Byte), NEW d \in Seq(Byte), NEW f, NEW p \in 1..Len(v),
         f[p] = WrittenFrom(f, v, p),
         ReadsFrom(f, v, d, p + Len(Piece(v, p, ChunkSize)))
  PROVE  ReadsFrom(f, v, d, p)
<1>0. Len(v) \in Nat /\ ~(p > Len(v)) /\ Len(d) \in Nat
  OBVIOUS
<1>1. PICK w : w = Piece(v, p, ChunkSize)
  OBVIOUS
<1>2. PICK m : m = Len(w)
  OBVIOUS
<1>3. /\ w \in Seq(Byte) /\ m \in TwoBytes \ {0} /\ m # 0
      /\ p + m \in (p + 1)..(Len(v) + 1) /\ w = SubSeq(v, p, p + m - 1)
  BY <1>1, <1>2, PieceIs
<1>4. m \in FourBytes /\ m \in Nat
  BY <1>3, SMT DEF TwoBytes, FourBytes
<1>5. PICK u : u = WriteUb(m)
  OBVIOUS
<1>6. u \in Seq(Byte) /\ Len(u) \in 1..5
  BY <1>4, <1>5, WriteUbBytes
<1>7. PICK r : r = f[p + m]
  OBVIOUS
<1>8. r \in Seq(Byte)
  BY <1>1, <1>2, <1>7 DEF ReadsFrom
<1>9. f[p] = u \o w \o r
  BY <1>0, <1>1, <1>2, <1>5, <1>7 DEF WrittenFrom
<1>10. u \o w \in Seq(Byte) /\ Len(u \o w) = Len(u) + m
  BY <1>2, <1>3, <1>6, ConcatProperties
<1>11. f[p] \in Seq(Byte) /\ Len(f[p]) = Len(u) + m + Len(r) /\ Len(f[p]) # 0
  <2>1. (u \o w) \o r \in Seq(Byte) /\ Len((u \o w) \o r) = Len(u \o w) + Len(r)
    BY <1>8, <1>10, ConcatProperties
  <2>2. Len(r) \in Nat
    BY <1>8
  <2>3. \A i \in 1..5, j \in Nat, k \in Nat : i + j + k # 0
    OBVIOUS
  <2>4. Len(u) + m + Len(r) # 0
    BY <1>4, <1>6, <2>2, <2>3
  <2> QED BY <1>9, <1>10, <2>1, <2>4
<1>12. ASSUME NEW at \in Nat \ {0}, StandsAt(f[p], d, at)
       PROVE  Chunks(d, at, TRUE) = Got(SubSeq(v, p, Len(v)), at + Len(f[p]))
  <2>1. StandsAt(u \o w, d, at) /\ StandsAt(r, d, at + Len(u \o w))
    BY <1>8, <1>9, <1>10, <1>12, StandsInParts
  <2>2. StandsAt(u, d, at) /\ StandsAt(w, d, at + Len(u))
    BY <1>3, <1>6, <2>1, StandsInParts
  <2>3. at \in 1..(Len(d) + 1)
    BY <1>11, <1>12, StandsInside
  <2>4. PICK b : b = at + Len(u) /\ b \in Nat \ {0}
    BY <1>6
  <2>5. PICK c : c = b + m /\ c \in Nat \ {0} /\ c = at + Len(u \o w)
    BY <1>4, <1>6, <1>10, <2>4
  <2>6. Ub(d, at, 4) = Got(m, b)
    BY <1>4, <1>5, <2>2, <2>4, IntegersReadBack
  <2>7. PICK l : l = Length(d, at, TRUE)
    OBVIOUS
  <2>8. l.r = "ok" /\ l.v = m /\ l.at = b
    BY <2>6, <2>7 DEF Length, Got
  <2>9. PICK t : t = Take(d, b, m)
    OBVIOUS
  <2>10. t = Got(w, c)
    BY <1>2, <1>3, <2>2, <2>4, <2>5, <2>9, BytesAreTaken, ZenonT(60)
  <2>11. t.r = "ok" /\ t.v = w /\ t.at = c
    BY <2>10 DEF Got
  <2>12. Chunks(d, at, TRUE) = Behind(t, Chunks(d, c, TRUE))
    BY <1>3, <2>3, <2>7, <2>8, <2>9, <2>11, ChunksAre
  <2>13. PICK s : s = SubSeq(v, p + m, Len(v))
    OBVIOUS
  <2>14. Chunks(d, c, TRUE) = Got(s, c + Len(r))
    BY <1>1, <1>2, <1>7, <2>1, <2>5, <2>13 DEF ReadsFrom
  <2>15. Chunks(d, at, TRUE) = Got(w \o s, c + Len(r))
    <3>0. PICK e : e = c + Len(r)
      OBVIOUS
    <3>1. PICK got : got = Got(s, e)
      OBVIOUS
    <3>2. got.r = "ok" /\ got.v = s /\ got.at = e
      BY <3>1 DEF Got
    <3> QED BY <2>11, <2>12, <2>14, <3>0, <3>1, <3>2 DEF Behind, Then
  <2>16. w \o s = SubSeq(v, p, Len(v))
    <3>1. PICK k : k = p + m - 1 /\ k \in (p - 1)..Len(v) /\ k + 1 = p + m /\ Len(v) \in k..Len(v)
      BY <1>0, <1>3, <1>4
    <3>2. p \in 1..(Len(v) + 1)
      BY <1>0
    <3>3. SubSeq(v, p, k) \o SubSeq(v, k + 1, Len(v)) = SubSeq(v, p, Len(v))
      BY <3>1, <3>2, ConcatAdjacentSubSeq
    <3> QED BY <1>3, <2>13, <3>1, <3>3
  <2>17. c + Len(r) = at + Len(f[p])
    <3>1. Len(r) \in Nat
      BY <1>8
    <3> QED BY <1>4, <1>6, <1>11, <2>4, <2>5, <3>1
  <2> QED BY <2>15, <2>16, <2>17
<1> QED BY <1>11, <1>12 DEF ReadsFrom

\* All the chunks of a value, written one behind the other, are read back as
\* the value: by induction from the last one.
LEMMA ChunksReadBack ==
  ASSUME NEW v \in Seq(Byte), NEW d \in Seq(Byte), NEW f, WritesAll(f, v, 0)
  PROVE  ReadsFrom(f, v, d, 1)
<1>0. PICK n : n = Len(v) /\ n \in Nat
  OBVIOUS
<1>1. \A p \in 1..(n + 1) : f[p] = WrittenFrom(f, v, p)
  BY <1>0 DEF WritesAll
<1> DEFINE Bad == {k \in Nat : k <= n /\ ~ReadsFrom(f, v, d, n + 1 - k)}
<1>2. Bad = {}
  <2>1. SUFFICES ASSUME Bad # {} PROVE FALSE
    OBVIOUS
  <2>2. PICK x \in Bad : \A y \in Bad : x <= y
    <3>1. Bad \in SUBSET Nat
      OBVIOUS
    <3> HIDE DEF Bad
    <3> QED BY <2>1, <3>1, LeastNat
  <2>3. PICK p : p = n + 1 - x
    OBVIOUS
  <2>4. x \in Nat /\ x <= n /\ ~ReadsFrom(f, v, d, p) /\ p \in 1..(n + 1)
    BY <1>0, <2>2, <2>3
  <2>5. CASE x = 0
    <3>1. p = Len(v) + 1
      BY <1>0, <2>3, <2>5
    <3> QED BY <1>1, <2>4, <3>1, NoneAreReadBack
  <2>6. CASE x # 0
    <3>1. p \in 1..Len(v)
      BY <1>0, <2>3, <2>4, <2>6
    <3>2. PICK q : q = p + Len(Piece(v, p, ChunkSize))
      OBVIOUS
    <3>3. q \in (p + 1)..(n + 1)
      BY <1>0, <3>1, <3>2, PieceIs
    <3>4. PICK y : y = n + 1 - q /\ y \in Nat /\ y <= n /\ ~(x <= y) /\ n + 1 - y = q
      BY <1>0, <2>3, <2>4, <3>3
    <3>5. ReadsFrom(f, v, d, q)
      BY <2>2, <3>4
    <3>6. f[p] = WrittenFrom(f, v, p)
      BY <1>1, <2>4
    <3>7. ReadsFrom(f, v, d, p)
      BY <3>1, <3>2, <3>5, <3>6, OneMoreIsReadBack
    <3> QED BY <2>4, <3>7
  <2> QED BY <2>5, <2>6
<1>3. n \in Nat /\ n <= n /\ n + 1 - n = 1
  BY <1>0
<1>4. n \notin Bad
  BY <1>2
<1> QED BY <1>3, <1>4

\* A value that write_bytes_with_length wrote, of whatever length, is what
\* read_bytes_with_length reads, wherever it stands in a message, and the
\* reading ends where the writing did: a short one behind its length, no value
\* at all, and one in as many chunks as it takes.
THEOREM ValuesReadBack ==
  ASSUME NEW v \in Seq(Byte) \cup {Null}, NEW d \in Seq(Byte), NEW at \in Nat \ {0},
         StandsAt(WriteValue(v), d, at)
  PROVE  /\ WriteValue(v) \in Seq(Byte)
         /\ ReadValue(d, at, TRUE) = Got(v, at + Len(WriteValue(v)))
<1>1. CASE v = Null
  <2>1. WriteValue(v) = <<NullForm>>
    BY <1>1 DEF WriteValue
  <2>2. NullForm \in Byte
    BY DEF Byte, NullForm
  <2>3. <<NullForm>> \in Seq(Byte) /\ Len(<<NullForm>>) = 1
    BY <2>2
  <2>4. U8(d, at) = Got(NullForm, at + 1)
    BY <2>1, <2>2, OneByteStands
  <2>5. ReadValue(d, at, TRUE) = Got(Null, at + 1)
    <3>1. PICK l : l = Got(NullForm, at + 1)
      OBVIOUS
    <3>2. l.r = "ok" /\ l.v = NullForm /\ l.at = at + 1
      BY <3>1 DEF Got
    <3>3. NullForm # LongForm /\ NullForm # Escape
      BY SMT DEF NullForm, LongForm, Escape
    <3> QED BY <2>4, <3>1, <3>2, <3>3 DEF ReadValue, Then
  <2> QED BY <1>1, <2>1, <2>3, <2>5
<1>2. CASE v # Null /\ Len(v) <= ShortMax
  <2>1. v \in Seq(Byte) /\ Len(v) \in Nat
    BY <1>2
  <2>2. PICK n : n = Len(v) /\ n \in Nat
    BY <2>1
  <2>3. n \in Byte /\ n # NullForm /\ n # LongForm /\ n # Escape
    <3>1. n <= 252
      BY <1>2, <2>2, ChunkAssumption, SMT
    <3>2. \A k \in Nat : k <= 252 => /\ k # NullForm /\ k # LongForm /\ k # Escape
                                     /\ k \in Byte
      BY SMT DEF NullForm, LongForm, Escape, Byte
    <3> QED BY <2>2, <3>1, <3>2, SMT
  <2>4. WriteValue(v) = <<n>> \o v
    BY <1>2, <2>2 DEF WriteValue
  <2>5. <<n>> \in Seq(Byte) /\ Len(<<n>>) = 1
    BY <2>3
  <2>6. WriteValue(v) \in Seq(Byte) /\ Len(WriteValue(v)) = 1 + n
    BY <2>1, <2>2, <2>4, <2>5, ConcatProperties
  <2>7. StandsAt(<<n>>, d, at) /\ StandsAt(v, d, at + 1)
    BY <2>1, <2>4, <2>5, StandsInParts
  <2>8. U8(d, at) = Got(n, at + 1)
    BY <2>3, <2>7, OneByteStands
  <2>9. Take(d, at + 1, n) = Got(v, at + 1 + n)
    BY <2>1, <2>2, <2>7, BytesAreTaken
  <2>10. PICK l : l = Got(n, at + 1)
    OBVIOUS
  <2>11. l.r = "ok" /\ l.v = n /\ l.at = at + 1
    BY <2>10 DEF Got
  <2>12. ReadValue(d, at, TRUE) = Take(d, l.at, l.v)
    BY <2>3, <2>8, <2>10, <2>11 DEF ReadValue, Then
  <2>13. at + 1 + n = at + (1 + n)
    BY <2>2
  <2> QED BY <2>6, <2>9, <2>11, <2>12, <2>13
<1>3. CASE v # Null /\ ~(Len(v) <= ShortMax)
  <2>1. v \in Seq(Byte)
    BY <1>3
  <2>2. PICK f : WriteChunks(v) = f[1] /\ WritesAll(f, v, 0)
    BY <2>1, WriteChunksAre
  <2>3. ReadsFrom(f, v, d, 1)
    BY <2>1, <2>2, ChunksReadBack
  <2>4. PICK w : w = WriteChunks(v) /\ w \in Seq(Byte)
    BY <2>2, <2>3 DEF ReadsFrom
  <2>5. WriteValue(v) = <<LongForm>> \o w
    BY <1>3, <2>4 DEF WriteValue
  <2>6. LongForm \in Byte /\ LongForm # NullForm
    BY DEF Byte, LongForm, NullForm
  <2>7. <<LongForm>> \in Seq(Byte) /\ Len(<<LongForm>>) = 1
    BY <2>6
  <2>8. WriteValue(v) \in Seq(Byte) /\ Len(WriteValue(v)) = 1 + Len(w)
    BY <2>4, <2>5, <2>7, ConcatProperties
  <2>9. StandsAt(<<LongForm>>, d, at) /\ StandsAt(w, d, at + 1)
    BY <2>4, <2>5, <2>7, StandsInParts
  <2>10. U8(d, at) = Got(LongForm, at + 1)
    BY <2>6, <2>9, OneByteStands
  <2>11. ReadValue(d, at, TRUE) = Chunks(d, at + 1, TRUE)
    <3>1. PICK l : l = Got(LongForm, at + 1)
      OBVIOUS
    <3>2. l.r = "ok" /\ l.v = LongForm /\ l.at = at + 1
      BY <3>1 DEF Got
    <3>3. LongForm # NullForm /\ LongForm # Escape
      BY SMT DEF NullForm, LongForm, Escape
    <3> QED BY <2>10, <3>1, <3>2, <3>3 DEF ReadValue, Then
  <2>12. Chunks(d, at + 1, TRUE) = Got(SubSeq(v, 1, Len(v)), at + 1 + Len(w))
    <3>1. at + 1 \in Nat \ {0}
      OBVIOUS
    <3> QED BY <2>2, <2>3, <2>4, <2>9, <3>1 DEF ReadsFrom
  <2>13. SubSeq(v, 1, Len(v)) = v
    BY <2>1, SubSeqFull
  <2>14. at + 1 + Len(w) = at + (1 + Len(w))
    BY <2>4
  <2> QED BY <2>8, <2>11, <2>12, <2>13, <2>14
<1> QED BY <1>1, <1>2, <1>3

-----------------------------------------------------------------------------
(* What a sequence has, each once. *)

Adds(f, s, m) == f = [n \in 0..m |-> IF n = 0 THEN <<>> ELSE Added(f[n - 1], s[n])]

\* The sequences of distinct members found on the way exist.
LEMMA AddsExist ==
  ASSUME NEW s, NEW m \in Nat
  PROVE  \E f : Adds(f, s, m)
<1> DEFINE Bad == {k \in Nat : ~\E f : Adds(f, s, k)}
<1>1. SUFFICES ASSUME Bad # {} PROVE FALSE
  OBVIOUS
<1>2. PICK x \in Bad : \A y \in Bad : x <= y
  <2>1. Bad \in SUBSET Nat
    OBVIOUS
  <2> HIDE DEF Bad
  <2> QED BY <1>1, <2>1, LeastNat
<1>3. CASE x = 0
  <2>1. Adds([k \in 0..0 |-> <<>>], s, 0)
    BY DEF Adds
  <2> QED BY <1>2, <1>3, <2>1
<1>4. CASE x # 0
  <2>1. x - 1 \in Nat /\ x - 1 \notin Bad
    BY <1>2, <1>4
  <2>2. PICK f : Adds(f, s, x - 1)
    BY <2>1
  <2>3. PICK g : g = [k \in 0..x |-> IF k # x THEN f[k] ELSE Added(f[x - 1], s[x])]
    OBVIOUS
  <2>4. ASSUME NEW k \in 0..x
        PROVE  g[k] = IF k = 0 THEN <<>> ELSE Added(g[k - 1], s[k])
    <3>1. CASE k = x
      <4>1. x - 1 \in 0..x /\ x - 1 # x
        BY <2>1
      <4>2. g[x - 1] = f[x - 1] /\ g[x] = Added(f[x - 1], s[x])
        BY <2>3, <4>1
      <4> QED BY <1>4, <3>1, <4>2
    <3>2. CASE k # x
      <4>1. k \in 0..(x - 1) /\ (k # 0 => k - 1 \in 0..x /\ k - 1 # x)
        BY <1>2, <3>2
      <4>2. f[k] = IF k = 0 THEN <<>> ELSE Added(f[k - 1], s[k])
        BY <2>2, <4>1 DEF Adds
      <4>3. g[k] = f[k] /\ (k # 0 => g[k - 1] = f[k - 1])
        BY <2>3, <3>2, <4>1
      <4> QED BY <4>2, <4>3
    <3> QED BY <3>1, <3>2
  <2>5. Adds(g, s, x)
    BY <2>3, <2>4 DEF Adds
  <2> QED BY <1>2, <2>5
<1> QED BY <1>3, <1>4

\* What there is once is what there is once so far.
LEMMA AddsIs ==
  ASSUME NEW s, Len(s) \in Nat
  PROVE  \E f : /\ Distinct(s) = f[Len(s)]
                /\ f[0] = <<>>
                /\ \A n \in 1..Len(s) : f[n] = Added(f[n - 1], s[n])
<1> DEFINE m == Len(s)
           f == CHOOSE g : g = [n \in 0..m |-> IF n = 0 THEN <<>> ELSE Added(g[n - 1], s[n])]
<1>1. Distinct(s) = f[m]
  BY DEF Distinct
<1>2. \E g : g = [n \in 0..m |-> IF n = 0 THEN <<>> ELSE Added(g[n - 1], s[n])]
  <2>1. \E g : Adds(g, s, m)
    BY AddsExist
  <2> QED BY <2>1 DEF Adds
<1>3. f = [n \in 0..m |-> IF n = 0 THEN <<>> ELSE Added(f[n - 1], s[n])]
  BY <1>2
<1>4. m \in Nat
  OBVIOUS
<1> HIDE DEF f, m
<1>5. f[0] = <<>>
  <2>1. 0 \in 0..m
    BY <1>4
  <2> QED BY <1>3, <2>1
<1>6. ASSUME NEW n \in 1..m
      PROVE  f[n] = Added(f[n - 1], s[n])
  <2>1. n \in 0..m /\ n # 0
    BY <1>4
  <2> QED BY <1>3, <2>1
<1> QED BY <1>1, <1>5, <1>6 DEF m

\* A sequence without repetition that has what another has.
EachOnce(o, s, n) ==
  /\ \A i, j \in 1..Len(o) : o[i] = o[j] => i = j
  /\ \A i \in 1..Len(o) : \E k \in 1..n : o[i] = s[k]
  /\ \A k \in 1..n : \E i \in 1..Len(o) : o[i] = s[k]

\* One more is added only when it is new.
LEMMA AddedNew ==
  ASSUME NEW S, NEW o \in Seq(S), NEW x \in S, \A i \in 1..Len(o) : o[i] # x
  PROVE  /\ Added(o, x) \in Seq(S)
         /\ Len(Added(o, x)) = Len(o) + 1
         /\ Added(o, x)[Len(o) + 1] = x
         /\ \A i \in 1..Len(o) : Added(o, x)[i] = o[i]
<1>1. DOMAIN o = 1..Len(o) /\ Len(o) \in Nat
  BY SMTT(60)
<1>2. Added(o, x) = Append(o, x)
  BY <1>1 DEF Added
<1>3. PICK q : q = Append(o, x)
  OBVIOUS
<1>4. /\ q \in Seq(S) /\ Len(q) = Len(o) + 1
      /\ \A i \in 1..Len(o) : q[i] = o[i]
      /\ q[Len(o) + 1] = x
  BY <1>3, AppendProperties
<1> QED BY <1>2, <1>3, <1>4

\* What is in a sequence is not added again.
LEMMA AddedOld ==
  ASSUME NEW S, NEW o \in Seq(S), NEW x, NEW i \in 1..Len(o), o[i] = x
  PROVE  Added(o, x) = o
<1>1. DOMAIN o = 1..Len(o)
  OBVIOUS
<1> QED BY <1>1 DEF Added

\* A sequence with a member added is one of the same members.
LEMMA AddedIs ==
  ASSUME NEW S, NEW o \in Seq(S), NEW x \in S
  PROVE  Added(o, x) \in Seq(S)
BY AddedNew, AddedOld

\* One more item keeps every item there once, in the order of first meeting.
LEMMA EachOnceMore ==
  ASSUME NEW S, NEW o \in Seq(S), NEW s \in Seq(S), NEW n \in 1..Len(s), EachOnce(o, s, n - 1)
  PROVE  EachOnce(Added(o, s[n]), s, n)
<1>0. PICK x, p : x = s[n] /\ x \in S /\ p = Added(o, x) /\ n \in Nat /\ Len(o) \in Nat
  OBVIOUS
<1>1. n \in 1..n /\ \A k \in 1..n : k # n => k \in 1..(n - 1)
  BY <1>0
<1>2. CASE \E i \in 1..Len(o) : o[i] = x
  <2>1. p = o
    BY <1>0, <1>2, AddedOld
  <2>2. ASSUME NEW k \in 1..n
        PROVE  \E i \in 1..Len(o) : o[i] = s[k]
    BY <1>0, <1>1, <1>2 DEF EachOnce
  <2>3. ASSUME NEW i \in 1..Len(o)
        PROVE  \E k \in 1..n : o[i] = s[k]
    <3>1. PICK k \in 1..(n - 1) : o[i] = s[k]
      BY DEF EachOnce
    <3>2. k \in 1..n
      BY <1>0
    <3> QED BY <3>1, <3>2
  <2>4. \A i, j \in 1..Len(o) : o[i] = o[j] => i = j
    BY DEF EachOnce
  <2> QED BY <1>0, <2>1, <2>2, <2>3, <2>4 DEF EachOnce
<1>3. CASE ~(\E i \in 1..Len(o) : o[i] = x)
  <2>1. PICK m : m = Len(o) + 1 /\ m \in Nat /\ m \in 1..m /\ m \notin 1..Len(o)
    BY <1>0
  <2>2. Len(p) = m /\ p[m] = x /\ \A i \in 1..Len(o) : p[i] = o[i]
    <3>1. x \in S
      BY <1>0
    <3>2. /\ Len(Added(o, x)) = Len(o) + 1
          /\ Added(o, x)[Len(o) + 1] = x
          /\ \A i \in 1..Len(o) : Added(o, x)[i] = o[i]
      <4>1. \A i \in 1..Len(o) : o[i] # x
        BY <1>3
      <4> QED BY <3>1, <4>1, AddedNew
    <3> QED BY <1>0, <2>1, <3>2
  <2>3. \A i \in 1..m : i # m => i \in 1..Len(o)
    BY <1>0, <2>1
  <2>4. ASSUME NEW i \in 1..m, NEW j \in 1..m, p[i] = p[j]
        PROVE  i = j
    <3>1. CASE i = m
      BY <1>3, <2>2, <2>3, <2>4, <3>1
    <3>2. CASE i # m
      <4>1. j # m
        BY <1>3, <2>2, <2>3, <2>4, <3>2
      <4>2. i \in 1..Len(o) /\ j \in 1..Len(o)
        BY <2>3, <3>2, <4>1
      <4>3. o[i] = o[j]
        BY <2>2, <2>4, <4>2
      <4> QED BY <4>2, <4>3 DEF EachOnce
    <3> QED BY <3>1, <3>2
  <2>5. ASSUME NEW i \in 1..m
        PROVE  \E k \in 1..n : p[i] = s[k]
    <3>1. CASE i = m
      BY <1>0, <1>1, <2>2, <3>1
    <3>2. CASE i # m
      <4>1. i \in 1..Len(o) /\ p[i] = o[i]
        BY <2>2, <2>3, <3>2
      <4>2. PICK k \in 1..(n - 1) : o[i] = s[k]
        BY <4>1 DEF EachOnce
      <4>3. k \in 1..n
        BY <1>0
      <4> QED BY <4>1, <4>2, <4>3
    <3> QED BY <3>1, <3>2
  <2>6. ASSUME NEW k \in 1..n
        PROVE  \E i \in 1..m : p[i] = s[k]
    <3>1. CASE k = n
      BY <1>0, <2>1, <2>2, <3>1
    <3>2. CASE k # n
      <4>1. PICK i \in 1..Len(o) : o[i] = s[k]
        BY <1>1, <3>2 DEF EachOnce
      <4>2. i \in 1..m /\ p[i] = o[i]
        BY <1>0, <2>1, <2>2
      <4> QED BY <4>1, <4>2
    <3> QED BY <3>1, <3>2
  <2> QED BY <1>0, <2>2, <2>4, <2>5, <2>6, SMTT(60) DEF EachOnce
<1> QED BY <1>2, <1>3

\* Distinct has each once and nothing else.
LEMMA DistinctHasEachOnce ==
  ASSUME NEW S, NEW s \in Seq(S)
  PROVE  Distinct(s) \in Seq(S) /\ EachOnce(Distinct(s), s, Len(s))
<1>0. PICK m : m = Len(s) /\ m \in Nat /\ Len(s) \in Nat
  OBVIOUS
<1>1. PICK f : /\ Distinct(s) = f[Len(s)]
               /\ f[0] = <<>>
               /\ \A n \in 1..Len(s) : f[n] = Added(f[n - 1], s[n])
  BY <1>0, AddsIs
<1> DEFINE Good(n) == f[n] \in Seq(S) /\ EachOnce(f[n], s, n)
           Bad == {k \in Nat : k <= m /\ ~Good(k)}
<1>2. Good(0)
  <2>1. <<>> \in Seq(S) /\ Len(<<>>) = 0
    OBVIOUS
  <2>2. EachOnce(<<>>, s, 0)
    BY <2>1 DEF EachOnce
  <2> QED BY <1>1, <2>1, <2>2
<1>3. ASSUME NEW n \in 1..m, Good(n - 1)
      PROVE  Good(n)
  <2>1. n \in 1..Len(s) /\ s[n] \in S
    BY <1>0
  <2>2. f[n] = Added(f[n - 1], s[n])
    BY <1>1, <2>1
  <2>3. f[n] \in Seq(S)
    <3>1. PICK o, x : o = f[n - 1] /\ x = s[n]
      OBVIOUS
    <3>2. o \in Seq(S) /\ x \in S
      BY <1>3, <2>1, <3>1
    <3>3. Added(o, x) \in Seq(S)
      BY <3>2, AddedIs
    <3> QED BY <2>2, <3>1, <3>3
  <2>4. EachOnce(f[n], s, n)
    BY <1>3, <2>1, <2>2, EachOnceMore
  <2> QED BY <2>3, <2>4
<1> HIDE DEF Good
<1>4. Bad = {}
  <2>1. SUFFICES ASSUME Bad # {} PROVE FALSE
    OBVIOUS
  <2>2. PICK x \in Bad : \A y \in Bad : x <= y
    <3>1. Bad \in SUBSET Nat
      OBVIOUS
    <3> HIDE DEF Bad
    <3> QED BY <2>1, <3>1, LeastNat
  <2>3. x \in Nat /\ x <= m /\ ~Good(x) /\ x # 0
    BY <1>2, <2>2
  <2>4. x - 1 \in Nat /\ x - 1 <= m /\ ~(x <= x - 1) /\ x \in 1..m
    BY <1>0, <2>3
  <2>5. Good(x - 1)
    BY <2>2, <2>4
  <2> QED BY <1>3, <2>3, <2>4, <2>5
<1>5. Good(m)
  BY <1>0, <1>4
<1> QED BY <1>0, <1>1, <1>5 DEF Good

-----------------------------------------------------------------------------
(* The placeholders of a statement and the values they take. *)

Occurs(f, sql, m) ==
  f = [n \in 0..m |-> IF n = 0 THEN <<>> ELSE IF sql[n] \in Placeholders THEN Append(f[n - 1], sql[n]) ELSE f[n - 1]]

\* The sequences of placeholders found on the way through a statement exist.
LEMMA OccursExist ==
  ASSUME NEW sql, NEW m \in Nat
  PROVE  \E f : Occurs(f, sql, m)
<1> DEFINE Bad == {k \in Nat : ~\E f : Occurs(f, sql, k)}
<1>1. SUFFICES ASSUME Bad # {} PROVE FALSE
  OBVIOUS
<1>2. PICK x \in Bad : \A y \in Bad : x <= y
  <2>1. Bad \in SUBSET Nat
    OBVIOUS
  <2> HIDE DEF Bad
  <2> QED BY <1>1, <2>1, LeastNat
<1>3. CASE x = 0
  <2>1. Occurs([k \in 0..0 |-> <<>>], sql, 0)
    BY DEF Occurs
  <2> QED BY <1>2, <1>3, <2>1
<1>4. CASE x # 0
  <2>1. x - 1 \in Nat /\ x - 1 \notin Bad
    BY <1>2, <1>4
  <2>2. PICK f : Occurs(f, sql, x - 1)
    BY <2>1
  <2>3. PICK g : g = [k \in 0..x |-> IF k # x THEN f[k] ELSE (IF sql[x] \in Placeholders THEN Append(f[x - 1], sql[x]) ELSE f[x - 1])]
    OBVIOUS
  <2>4. ASSUME NEW k \in 0..x
        PROVE  g[k] = IF k = 0 THEN <<>> ELSE (IF sql[k] \in Placeholders THEN Append(g[k - 1], sql[k]) ELSE g[k - 1])
    <3>1. CASE k = x
      <4>1. x - 1 \in 0..x /\ x - 1 # x
        BY <2>1
      <4>2. g[x - 1] = f[x - 1] /\ g[x] = (IF sql[x] \in Placeholders THEN Append(f[x - 1], sql[x]) ELSE f[x - 1])
        BY <2>3, <4>1
      <4> QED BY <1>4, <3>1, <4>2
    <3>2. CASE k # x
      <4>1. k \in 0..(x - 1) /\ (k # 0 => k - 1 \in 0..x /\ k - 1 # x)
        BY <1>2, <3>2
      <4>2. f[k] = IF k = 0 THEN <<>> ELSE (IF sql[k] \in Placeholders THEN Append(f[k - 1], sql[k]) ELSE f[k - 1])
        BY <2>2, <4>1 DEF Occurs
      <4>3. g[k] = f[k] /\ (k # 0 => g[k - 1] = f[k - 1])
        BY <2>3, <3>2, <4>1
      <4> QED BY <4>2, <4>3
    <3> QED BY <3>1, <3>2
  <2>5. Occurs(g, sql, x)
    BY <2>3, <2>4 DEF Occurs
  <2> QED BY <1>2, <2>5
<1> QED BY <1>3, <1>4

\* Those of a text are those of what there is so far.
LEMMA OccursIs ==
  ASSUME NEW sql, Len(sql) \in Nat
  PROVE  \E f : /\ Occurrences(sql) = f[Len(sql)]
                /\ f[0] = <<>>
                /\ \A n \in 1..Len(sql) : f[n] = (IF sql[n] \in Placeholders THEN Append(f[n - 1], sql[n]) ELSE f[n - 1])
<1> DEFINE m == Len(sql)
           f == CHOOSE g : g = [n \in 0..m |-> IF n = 0 THEN <<>> ELSE (IF sql[n] \in Placeholders THEN Append(g[n - 1], sql[n]) ELSE g[n - 1])]
<1>1. Occurrences(sql) = f[m]
  BY DEF Occurrences
<1>2. \E g : g = [n \in 0..m |-> IF n = 0 THEN <<>> ELSE (IF sql[n] \in Placeholders THEN Append(g[n - 1], sql[n]) ELSE g[n - 1])]
  <2>1. \E g : Occurs(g, sql, m)
    BY OccursExist
  <2> QED BY <2>1, SMTT(60) DEF Occurs
<1>3. f = [n \in 0..m |-> IF n = 0 THEN <<>> ELSE (IF sql[n] \in Placeholders THEN Append(f[n - 1], sql[n]) ELSE f[n - 1])]
  BY <1>2, ZenonT(60)
<1>4. m \in Nat
  OBVIOUS
<1> HIDE DEF f, m
<1>5. f[0] = <<>>
  <2>1. 0 \in 0..m
    BY <1>4
  <2> QED BY <1>3, <2>1
<1>6. ASSUME NEW n \in 1..m
      PROVE  f[n] = (IF sql[n] \in Placeholders THEN Append(f[n - 1], sql[n]) ELSE f[n - 1])
  <2>1. n \in 0..m /\ n # 0
    BY <1>4
  <2> QED BY <1>3, <2>1
<1> QED BY <1>1, <1>5, <1>6 DEF m

\* They are placeholders, whatever the text.
LEMMA OccurrencesArePlaceholders ==
  ASSUME NEW sql, Len(sql) \in Nat
  PROVE  Occurrences(sql) \in Seq(Placeholders)
<1>0. PICK m : m = Len(sql) /\ m \in Nat
  OBVIOUS
<1>1. PICK f : /\ Occurrences(sql) = f[Len(sql)]
               /\ f[0] = <<>>
               /\ \A n \in 1..Len(sql) :
                    f[n] = (IF sql[n] \in Placeholders THEN Append(f[n - 1], sql[n]) ELSE f[n - 1])
  BY OccursIs
<1> DEFINE Bad == {k \in Nat : k <= m /\ f[k] \notin Seq(Placeholders)}
<1>2. Bad = {}
  <2>1. SUFFICES ASSUME Bad # {} PROVE FALSE
    OBVIOUS
  <2>2. PICK x \in Bad : \A y \in Bad : x <= y
    <3>1. Bad \in SUBSET Nat
      OBVIOUS
    <3> HIDE DEF Bad
    <3> QED BY <2>1, <3>1, LeastNat
  <2>3. x \in Nat /\ x <= m /\ f[x] \notin Seq(Placeholders) /\ x # 0
    <3>1. <<>> \in Seq(Placeholders)
      OBVIOUS
    <3> QED BY <1>1, <2>2, <3>1
  <2>4. x - 1 \in Nat /\ x - 1 <= m /\ ~(x <= x - 1) /\ x \in 1..m
    BY <1>0, <2>3
  <2>5. PICK s : s = f[x - 1] /\ s \in Seq(Placeholders)
    BY <2>2, <2>4
  <2>6. f[x] = s \/ (sql[x] \in Placeholders /\ f[x] = Append(s, sql[x]))
    BY <1>0, <1>1, <2>4, <2>5
  <2>7. f[x] \in Seq(Placeholders)
    <3>1. \A y \in Placeholders : Append(s, y) \in Seq(Placeholders)
      BY <2>5
    <3> QED BY <2>5, <2>6, <3>1
  <2> QED BY <2>3, <2>7
<1> QED BY <1>0, <1>1, <1>2

Numbers(f, tokens, m) ==
  f = [n \in 0..m |-> IF n = 0 THEN Unnumbered ELSE Numbered(f[n - 1], tokens[n], Upcase(tokens[n]))]

\* The states of the numbering of placeholders exist.
LEMMA NumbersExist ==
  ASSUME NEW tokens, NEW m \in Nat
  PROVE  \E f : Numbers(f, tokens, m)
<1> DEFINE Bad == {k \in Nat : ~\E f : Numbers(f, tokens, k)}
<1>1. SUFFICES ASSUME Bad # {} PROVE FALSE
  OBVIOUS
<1>2. PICK x \in Bad : \A y \in Bad : x <= y
  <2>1. Bad \in SUBSET Nat
    OBVIOUS
  <2> HIDE DEF Bad
  <2> QED BY <1>1, <2>1, LeastNat
<1>3. CASE x = 0
  <2>1. Numbers([k \in 0..0 |-> Unnumbered], tokens, 0)
    BY DEF Numbers
  <2> QED BY <1>2, <1>3, <2>1
<1>4. CASE x # 0
  <2>1. x - 1 \in Nat /\ x - 1 \notin Bad
    BY <1>2, <1>4
  <2>2. PICK f : Numbers(f, tokens, x - 1)
    BY <2>1
  <2>3. PICK g : g = [k \in 0..x |-> IF k # x THEN f[k] ELSE Numbered(f[x - 1], tokens[x], Upcase(tokens[x]))]
    OBVIOUS
  <2>4. ASSUME NEW k \in 0..x
        PROVE  g[k] = IF k = 0 THEN Unnumbered ELSE Numbered(g[k - 1], tokens[k], Upcase(tokens[k]))
    <3>1. CASE k = x
      <4>1. x - 1 \in 0..x /\ x - 1 # x
        BY <2>1
      <4>2. g[x - 1] = f[x - 1] /\ g[x] = Numbered(f[x - 1], tokens[x], Upcase(tokens[x]))
        BY <2>3, <4>1
      <4> QED BY <1>4, <3>1, <4>2
    <3>2. CASE k # x
      <4>1. k \in 0..(x - 1) /\ (k # 0 => k - 1 \in 0..x /\ k - 1 # x)
        BY <1>2, <3>2
      <4>2. f[k] = IF k = 0 THEN Unnumbered ELSE Numbered(f[k - 1], tokens[k], Upcase(tokens[k]))
        BY <2>2, <4>1 DEF Numbers
      <4>3. g[k] = f[k] /\ (k # 0 => g[k - 1] = f[k - 1])
        BY <2>3, <3>2, <4>1
      <4> QED BY <4>2, <4>3
    <3> QED BY <3>1, <3>2
  <2>5. Numbers(g, tokens, x)
    BY <2>3, <2>4 DEF Numbers
  <2> QED BY <1>2, <2>5
<1> QED BY <1>3, <1>4

\* The indexes of a statement's placeholders are those of what there is so far.
LEMMA BindIndexesAre ==
  ASSUME NEW sql, NEW tokens, tokens = Occurrences(sql), Len(tokens) \in Nat
  PROVE  \E f : /\ BindIndexes(sql) = f[Len(tokens)].out
                /\ f[0] = Unnumbered
                /\ \A n \in 1..Len(tokens) : f[n] = Numbered(f[n - 1], tokens[n], Upcase(tokens[n]))
<1> DEFINE m == Len(tokens)
           f == CHOOSE g : g = [n \in 0..m |-> IF n = 0 THEN Unnumbered
                                               ELSE Numbered(g[n - 1], tokens[n], Upcase(tokens[n]))]
<1>1. BindIndexes(sql) = f[m].out
  BY DEF BindIndexes, IndexesBy
<1>2. \E g : g = [n \in 0..m |-> IF n = 0 THEN Unnumbered
                                 ELSE Numbered(g[n - 1], tokens[n], Upcase(tokens[n]))]
  <2>1. \E g : Numbers(g, tokens, m)
    BY NumbersExist
  <2> QED BY <2>1 DEF Numbers
<1>3. f = [n \in 0..m |-> IF n = 0 THEN Unnumbered
                          ELSE Numbered(f[n - 1], tokens[n], Upcase(tokens[n]))]
  BY <1>2
<1>4. m \in Nat
  OBVIOUS
<1> HIDE DEF f, m
<1>5. f[0] = Unnumbered
  <2>1. 0 \in 0..m
    BY <1>4
  <2> QED BY <1>3, <2>1
<1>6. ASSUME NEW n \in 1..m
      PROVE  f[n] = Numbered(f[n - 1], tokens[n], Upcase(tokens[n]))
  <2>1. n \in 0..m /\ n # 0
    BY <1>4
  <2> QED BY <1>3, <2>1
<1> QED BY <1>1, <1>5, <1>6 DEF m

\* What bind_parameters knows after k placeholders, o the names it has met.
Knows(st, o, tokens, k) ==
  /\ st = [names |-> st.names, next |-> st.next, out |-> st.out]
  /\ st.next = Len(o)
  /\ \A e \in st.names : e.index \in 1..Len(o) /\ o[e.index] = e.name
  /\ \A i \in 1..Len(o) : \E e \in st.names : e.name = o[i]
  /\ st.out \in Seq(Nat) /\ Len(st.out) = k
  /\ \A j \in 1..k : st.out[j] \in 1..Len(o) /\ o[st.out[j]] = Upcase(tokens[j])

\* One more name is numbered by its place among the distinct names so far.
LEMMA OneMoreIsNumbered ==
  ASSUME NEW S, NEW o \in Seq(S), NEW tokens, NEW k \in Nat, NEW st, Knows(st, o, tokens, k),
         tokens[k + 1] \notin Digits, Upcase(tokens[k + 1]) \in S
  PROVE  Knows(Numbered(st, tokens[k + 1], Upcase(tokens[k + 1])),
               Added(o, Upcase(tokens[k + 1])), tokens, k + 1)
<1>0. PICK name, p : name = Upcase(tokens[k + 1]) /\ name \in S /\ p = Added(o, name)
  OBVIOUS
<1>1. PICK new : new = Numbered(st, tokens[k + 1], name)
  OBVIOUS
<1>2. PICK known : known = {e \in st.names : e.name = name}
  OBVIOUS
<1>3. Len(o) \in Nat /\ st.out \in Seq(Nat) /\ Len(st.out) = k
  BY DEF Knows
<1>4. \A x \in Nat : LET q == Append(st.out, x)
                     IN  /\ q \in Seq(Nat) /\ Len(q) = k + 1 /\ q[k + 1] = x
                         /\ \A j \in 1..k : q[j] = st.out[j]
  <2>1. ASSUME NEW x \in Nat
        PROVE  LET q == Append(st.out, x)
               IN  /\ q \in Seq(Nat) /\ Len(q) = k + 1 /\ q[k + 1] = x
                   /\ \A j \in 1..k : q[j] = st.out[j]
    BY <1>3, AppendProperties
  <2> QED BY <2>1
<1>5. CASE known # {}
  <2>1. PICK c : c = CHOOSE e \in known : TRUE
    OBVIOUS
  <2>2. c \in st.names /\ c.name = name /\ c.index \in 1..Len(o) /\ o[c.index] = name
    BY <1>2, <1>5, <2>1 DEF Knows
  <2>3. p = o
    BY <1>0, <2>2, AddedOld
  <2>4. PICK q : q = Append(st.out, c.index)
    OBVIOUS
  <2>5. c.index \in Nat
    BY <1>3, <2>2
  <2>6. q \in Seq(Nat) /\ Len(q) = k + 1 /\ q[k + 1] = c.index /\ \A j \in 1..k : q[j] = st.out[j]
    BY <1>4, <2>4, <2>5
  <2>7. PICK s : s = [names |-> st.names, next |-> st.next, out |-> q]
    OBVIOUS
  <2>8. new = s
    <3>1. new = [st EXCEPT !.out = q]
      BY <1>1, <1>2, <1>5, <2>1, <2>4 DEF Numbered
    <3>2. st = [names |-> st.names, next |-> st.next, out |-> st.out]
      BY DEF Knows
    <3> QED BY <2>7, <3>1, <3>2
  <2>9. s.names = st.names /\ s.next = st.next /\ s.out = q
    BY <2>7
  <2>10. \A j \in 1..(k + 1) : s.out[j] \in 1..Len(o) /\ o[s.out[j]] = Upcase(tokens[j])
    <3>1. ASSUME NEW j \in 1..(k + 1)
          PROVE  q[j] \in 1..Len(o) /\ o[q[j]] = Upcase(tokens[j])
      <4>1. CASE j = k + 1
        BY <1>0, <2>2, <2>6, <4>1
      <4>2. CASE j # k + 1
        <5>1. j \in 1..k
          BY <4>2
        <5> QED BY <2>6, <5>1 DEF Knows
      <4> QED BY <4>1, <4>2
    <3> QED BY <2>9, <3>1
  <2>11. Knows(s, o, tokens, k + 1)
    BY <2>6, <2>7, <2>9, <2>10 DEF Knows
  <2> QED BY <1>0, <1>1, <2>3, <2>8, <2>11
<1>6. CASE known = {}
  <2>1. \A i \in 1..Len(o) : o[i] # name
    BY <1>2, <1>6 DEF Knows
  <2>2. PICK m : m = Len(o) + 1 /\ m \in Nat /\ m \in 1..m /\ \A i \in 1..Len(o) : i \in 1..m
    BY <1>3
  <2>3. Len(p) = m /\ p[m] = name /\ \A i \in 1..Len(o) : p[i] = o[i]
    <3>1. name \in S
      BY <1>0
    <3>2. /\ Len(Added(o, name)) = Len(o) + 1
          /\ Added(o, name)[Len(o) + 1] = name
          /\ \A i \in 1..Len(o) : Added(o, name)[i] = o[i]
      BY <2>1, <3>1, AddedNew
    <3> QED BY <1>0, <2>2, <3>2
  <2>4. PICK q : q = Append(st.out, m)
    OBVIOUS
  <2>5. q \in Seq(Nat) /\ Len(q) = k + 1 /\ q[k + 1] = m /\ \A j \in 1..k : q[j] = st.out[j]
    BY <1>4, <2>2, <2>4
  <2>6. PICK e : e = [name |-> name, index |-> m]
    OBVIOUS
  <2>7. PICK s : s = [names |-> st.names \cup {e}, next |-> m, out |-> q]
    OBVIOUS
  <2>8. new = s
    <3>1. st.next + 1 = m
      BY <2>2 DEF Knows
    <3>2. new = [names |-> st.names \cup {[name |-> name, index |-> st.next + 1]}, next |-> st.next + 1,
                 out |-> Append(st.out, st.next + 1)]
      BY <1>1, <1>2, <1>6 DEF Numbered
    <3> QED BY <2>4, <2>6, <2>7, <3>1, <3>2
  <2>9. s.names = st.names \cup {e} /\ s.next = m /\ s.out = q /\ e.name = name /\ e.index = m
    BY <2>6, <2>7
  <2>10. ASSUME NEW x \in s.names
         PROVE  x.index \in 1..m /\ p[x.index] = x.name
    <3>1. CASE x = e
      BY <2>2, <2>3, <2>9, <3>1
    <3>2. CASE x # e
      <4>1. x \in st.names
        BY <2>9, <3>2
      <4>2. x.index \in 1..Len(o) /\ o[x.index] = x.name
        BY <4>1 DEF Knows
      <4> QED BY <2>2, <2>3, <4>2
    <3> QED BY <3>1, <3>2
  <2>11. ASSUME NEW i \in 1..m
         PROVE  \E x \in s.names : x.name = p[i]
    <3>1. CASE i = m
      BY <2>3, <2>9, <3>1
    <3>2. CASE i # m
      <4>1. i \in 1..Len(o)
        BY <1>3, <2>2, <3>2
      <4>2. PICK x \in st.names : x.name = o[i]
        BY <4>1 DEF Knows
      <4> QED BY <2>3, <2>9, <4>1, <4>2
    <3> QED BY <3>1, <3>2
  <2>12. ASSUME NEW j \in 1..(k + 1)
         PROVE  q[j] \in 1..m /\ p[q[j]] = Upcase(tokens[j])
    <3>1. CASE j = k + 1
      BY <1>0, <2>2, <2>3, <2>5, <3>1
    <3>2. CASE j # k + 1
      <4>1. j \in 1..k
        BY <3>2
      <4>2. st.out[j] \in 1..Len(o) /\ o[st.out[j]] = Upcase(tokens[j])
        BY <4>1 DEF Knows
      <4> QED BY <2>2, <2>3, <2>5, <4>1, <4>2
    <3> QED BY <3>1, <3>2
  <2>13. Knows(s, p, tokens, k + 1)
    BY <2>3, <2>5, <2>7, <2>9, <2>10, <2>11, <2>12 DEF Knows
  <2> QED BY <1>0, <1>1, <2>8, <2>13
<1> QED BY <1>5, <1>6

\* The names a statement's values have are its placeholders', each once, and
\* the number of a placeholder is that of its name.
LEMMA IndexesFollowNames ==
  ASSUME NEW sql, Len(sql) \in Nat, NEW tokens, tokens = Occurrences(sql),
         \A k \in 1..Len(tokens) : tokens[k] \notin Digits
  PROVE  /\ \A i, j \in 1..Len(Names(sql)) : Names(sql)[i] = Names(sql)[j] => i = j
         /\ BindIndexes(sql) \in Seq(Nat) /\ Len(BindIndexes(sql)) = Len(tokens)
         /\ Names(sql) \in Seq(Int)
         /\ \A k \in 1..Len(tokens) :
              /\ BindIndexes(sql)[k] \in 1..Len(Names(sql))
              /\ Names(sql)[BindIndexes(sql)[k]] = Upcase(tokens[k])
<1>0. PICK m : m = Len(tokens) /\ m \in Nat /\ tokens \in Seq(Placeholders) /\ DOMAIN tokens = 1..m
  <2>1. tokens \in Seq(Placeholders)
    BY OccurrencesArePlaceholders
  <2> QED BY <2>1
<1>1. PICK up : up = [k \in 1..m |-> Upcase(tokens[k])]
  OBVIOUS
<1>2. up \in Seq(Int) /\ Len(up) = m /\ \A k \in 1..m : up[k] = Upcase(tokens[k]) /\ up[k] \in Int
  <2>1. \A x \in Placeholders : Upcase(x) \in Int
    BY DEF Placeholders, Lower, Upper, Digits, Upcase
  <2>2. \A k \in 1..m : Upcase(tokens[k]) \in Int
    BY <1>0, <2>1
  <2> QED BY <1>0, <1>1, <2>2
<1>3. Names(sql) = Distinct(up)
  BY <1>0, <1>1 DEF Names
<1>4. PICK o : /\ Distinct(up) = o[Len(up)]
               /\ o[0] = <<>>
               /\ \A n \in 1..Len(up) : o[n] = Added(o[n - 1], up[n])
  BY <1>0, <1>2, AddsIs
<1>5. PICK f : /\ BindIndexes(sql) = f[Len(tokens)].out
               /\ f[0] = Unnumbered
               /\ \A n \in 1..Len(tokens) : f[n] = Numbered(f[n - 1], tokens[n], Upcase(tokens[n]))
  BY <1>0, BindIndexesAre
<1> DEFINE Good(n) == o[n] \in Seq(Int) /\ Knows(f[n], o[n], tokens, n)
           Bad == {k \in Nat : k <= m /\ ~Good(k)}
<1>6. Good(0)
  <2>1. /\ o[0] = <<>> /\ o[0] \in Seq(Int) /\ Len(o[0]) = 0
        /\ <<>> \in Seq(Nat) /\ Len(<<>>) = 0
    BY <1>4
  <2>2. PICK s : s = [names |-> {}, next |-> 0, out |-> <<>>]
    OBVIOUS
  <2>3. f[0] = s /\ s.names = {} /\ s.next = 0 /\ s.out = <<>>
    BY <1>5, <2>2 DEF Unnumbered
  <2>4. Knows(s, o[0], tokens, 0)
    BY <2>1, <2>2, <2>3 DEF Knows
  <2> QED BY <2>1, <2>3, <2>4
<1>7. ASSUME NEW n \in 1..m, Good(n - 1)
      PROVE  Good(n)
  <2>1. PICK k, p : k = n - 1 /\ k \in Nat /\ k + 1 = n /\ p = o[n - 1]
    BY <1>0
  <2>2. p \in Seq(Int) /\ Knows(f[k], p, tokens, k)
    BY <1>7, <2>1
  <2>3. tokens[k + 1] \notin Digits /\ Upcase(tokens[k + 1]) \in Int /\ up[k + 1] = Upcase(tokens[k + 1])
    BY <1>0, <1>2, <2>1
  <2>4. Knows(Numbered(f[k], tokens[k + 1], Upcase(tokens[k + 1])),
              Added(p, Upcase(tokens[k + 1])), tokens, k + 1)
    BY <2>1, <2>2, <2>3, OneMoreIsNumbered
  <2>5. f[n] = Numbered(f[k], tokens[k + 1], Upcase(tokens[k + 1]))
    BY <1>0, <1>5, <2>1
  <2>6. o[n] = Added(p, Upcase(tokens[k + 1]))
    BY <1>2, <1>4, <2>1, <2>3
  <2>7. o[n] \in Seq(Int)
    BY <2>2, <2>3, <2>6, AddedIs
  <2> QED BY <2>1, <2>4, <2>5, <2>6, <2>7
<1> HIDE DEF Good
<1>8. Bad = {}
  <2>1. SUFFICES ASSUME Bad # {} PROVE FALSE
    OBVIOUS
  <2>2. PICK x \in Bad : \A y \in Bad : x <= y
    <3>1. Bad \in SUBSET Nat
      OBVIOUS
    <3> HIDE DEF Bad
    <3> QED BY <2>1, <3>1, LeastNat
  <2>3. x \in Nat /\ x <= m /\ ~Good(x) /\ x # 0
    BY <1>6, <2>2
  <2>4. x - 1 \in Nat /\ x - 1 <= m /\ ~(x <= x - 1) /\ x \in 1..m
    BY <1>0, <2>3
  <2>5. Good(x - 1)
    BY <2>2, <2>4
  <2> QED BY <1>7, <2>3, <2>4, <2>5
<1>9. Good(m)
  BY <1>0, <1>8
<1>10. \A i, j \in 1..Len(Names(sql)) : Names(sql)[i] = Names(sql)[j] => i = j
  BY <1>2, <1>3, DistinctHasEachOnce DEF EachOnce
<1>11. BindIndexes(sql) = f[m].out /\ Names(sql) = o[m]
  BY <1>0, <1>2, <1>3, <1>4, <1>5
<1>12. Names(sql) \in Seq(Int) /\ Knows(f[m], Names(sql), tokens, m)
  BY <1>9, <1>11 DEF Good
<1> QED BY <1>0, <1>10, <1>11, <1>12 DEF Knows

\* What a database gets for a value of the client's.
Parameter(style, value) == IF style = "postgres" THEN PgParameter(value) ELSE MyParameter(value)

\* At each placeholder stands the value of its number, be each value sent once
\* or once for each place.
LEMMA PlacesHoldTheirValues ==
  ASSUME NEW sql, NEW binds, NEW style \in {"postgres", "mariadb"}, sql[1] # PlSql,
         BindIndexes(sql) \in Seq(Nat),
         NEW bound, bound = BindParameters(sql, binds, style), bound.r = "ok",
         NEW k \in 1..Len(BindIndexes(sql))
  PROVE  bound.v.values[bound.v.places[k]] = Parameter(style, binds[BindIndexes(sql)[k]])
<1>0. PICK ix : ix = BindIndexes(sql) /\ ix \in Seq(Nat) /\ DOMAIN ix = 1..Len(ix) /\ k \in DOMAIN ix
  OBVIOUS
<1>1. CASE style = "mariadb"
  <2>1. PICK values, places : /\ values = [i \in DOMAIN ix |-> MyParameter(binds[ix[i]])]
                              /\ places = [i \in DOMAIN ix |-> i]
    OBVIOUS
  <2>2. PICK v : v = [values |-> values, places |-> places]
    OBVIOUS
  <2>3. bound = Got(v, 0)
    BY <1>0, <1>1, <2>1, <2>2 DEF BindParameters, Fail
  <2>4. bound.v = v
    BY <2>3 DEF Got
  <2>5. places[k] = k /\ values[k] = MyParameter(binds[ix[k]])
    BY <1>0, <2>1
  <2> QED BY <1>0, <1>1, <2>2, <2>4, <2>5 DEF Parameter
<1>2. CASE style = "postgres"
  <2>0. PICK once : once = Distinct(ix)
    OBVIOUS
  <2>1. PICK values, places :
          /\ values = [i \in DOMAIN once |-> PgParameter(binds[once[i]])]
          /\ places = [i \in DOMAIN ix |-> CHOOSE j \in DOMAIN once : once[j] = ix[i]]
    OBVIOUS
  <2>2. PICK v : v = [values |-> values, places |-> places]
    OBVIOUS
  <2>3. bound = Got(v, 0)
    BY <1>0, <1>2, <2>0, <2>1, <2>2 DEF BindParameters, Fail
  <2>4. bound.v = v
    BY <2>3 DEF Got
  <2>5. once \in Seq(Nat) /\ EachOnce(once, ix, Len(ix))
    BY <1>0, <2>0, DistinctHasEachOnce
  <2>6. \E j \in DOMAIN once : once[j] = ix[k]
    BY <1>0, <2>5, SMTT(60) DEF EachOnce
  <2>7. PICK j : j = CHOOSE i \in DOMAIN once : once[i] = ix[k]
    OBVIOUS
  <2>8. j \in DOMAIN once /\ once[j] = ix[k]
    BY <2>6, <2>7
  <2>9. places[k] = j /\ values[j] = PgParameter(binds[ix[k]])
    BY <1>0, <2>1, <2>7, <2>8
  <2> QED BY <1>0, <1>2, <2>2, <2>4, <2>9 DEF Parameter
<1> QED BY <1>1, <1>2

\* Every placeholder of a statement takes the value the client gave its name,
\* in whatever case it is written and however often, from either database's
\* parameters: bind_parameters counts names as the clients do.
THEOREM EveryPlaceholderItsName ==
  ASSUME NEW sql, Len(sql) \in Nat, sql[1] # PlSql,
         NEW tokens, tokens = Occurrences(sql), \A i \in 1..Len(tokens) : tokens[i] \notin Digits,
         NEW binds, NEW style \in {"postgres", "mariadb"},
         NEW bound, bound = BindParameters(sql, binds, style), bound.r = "ok",
         NEW k \in 1..Len(tokens)
  PROVE  bound.v.values[bound.v.places[k]]
           = Parameter(style, binds[CHOOSE i \in DOMAIN Names(sql) : Names(sql)[i] = Upcase(tokens[k])])
<1>0. PICK names, ix, x : names = Names(sql) /\ ix = BindIndexes(sql) /\ x = ix[k]
  OBVIOUS
<1>1. /\ \A i, j \in 1..Len(names) : names[i] = names[j] => i = j
      /\ ix \in Seq(Nat) /\ Len(ix) = Len(tokens)
      /\ names \in Seq(Int)
      /\ x \in 1..Len(names) /\ names[x] = Upcase(tokens[k])
  BY <1>0, IndexesFollowNames, SMTT(60)
<1>2. DOMAIN names = 1..Len(names)
  BY <1>1
<1>3. (CHOOSE i \in DOMAIN names : names[i] = Upcase(tokens[k])) = x
  <2>1. PICK c : c = CHOOSE i \in DOMAIN names : names[i] = Upcase(tokens[k])
    OBVIOUS
  <2>2. c \in DOMAIN names /\ names[c] = Upcase(tokens[k])
    BY <1>1, <1>2, <2>1
  <2>3. c = x
    BY <1>1, <1>2, <2>2
  <2> QED BY <2>1, <2>3
<1>4. k \in 1..Len(BindIndexes(sql)) /\ BindIndexes(sql) \in Seq(Nat)
  BY <1>0, <1>1
<1>5. bound.v.values[bound.v.places[k]] = Parameter(style, binds[BindIndexes(sql)[k]])
  BY <1>4, PlacesHoldTheirValues
<1> QED BY <1>0, <1>3, <1>5

\* What bind_parameters has numbered after k placeholders, numbers or names.
Counted(st, tokens, k) ==
  /\ st = [names |-> st.names, next |-> st.next, out |-> st.out]
  /\ st.next \in Nat
  /\ \A e \in st.names : e.index \in Nat
  /\ st.out \in Seq(Nat) /\ Len(st.out) = k
  /\ \A j \in 1..k : tokens[j] \in Digits => st.out[j] = tokens[j] - 48

\* One more placeholder has one more number, a digit its own.
LEMMA OneMoreIsCounted ==
  ASSUME NEW tokens, NEW k \in Nat, NEW st, Counted(st, tokens, k), NEW name
  PROVE  Counted(Numbered(st, tokens[k + 1], name), tokens, k + 1)
<1>0. PICK token, new, known : /\ token = tokens[k + 1] /\ new = Numbered(st, token, name)
                               /\ known = {e \in st.names : e.name = name}
  OBVIOUS
<1>1. /\ st.out \in Seq(Nat) /\ Len(st.out) = k /\ st.next \in Nat
      /\ st = [names |-> st.names, next |-> st.next, out |-> st.out]
      /\ \A e \in st.names : e.index \in Nat
  BY DEF Counted
<1>2. ASSUME NEW x \in Nat, token \in Digits => x = token - 48,
             NEW names, \A e \in names : e.index \in Nat, NEW next \in Nat,
             new = [names |-> names, next |-> next, out |-> Append(st.out, x)]
      PROVE  Counted(new, tokens, k + 1)
  <2>1. PICK q : q = Append(st.out, x)
    OBVIOUS
  <2>2. q \in Seq(Nat) /\ Len(q) = k + 1 /\ q[k + 1] = x /\ \A j \in 1..k : q[j] = st.out[j]
    BY <1>1, <2>1, AppendProperties
  <2>3. PICK s : s = [names |-> names, next |-> next, out |-> q]
    OBVIOUS
  <2>4. new = s /\ s.names = names /\ s.next = next /\ s.out = q
    BY <1>2, <2>1, <2>3
  <2>5. ASSUME NEW j \in 1..(k + 1), tokens[j] \in Digits
        PROVE  q[j] = tokens[j] - 48
    <3>1. CASE j = k + 1
      BY <1>0, <1>2, <2>2, <2>5, <3>1
    <3>2. CASE j # k + 1
      <4>1. j \in 1..k
        BY <3>2
      <4>2. st.out[j] = tokens[j] - 48
        BY <2>5, <4>1 DEF Counted
      <4> QED BY <2>2, <4>1, <4>2
    <3> QED BY <3>1, <3>2
  <2>6. Counted(s, tokens, k + 1)
    BY <1>2, <2>2, <2>3, <2>4, <2>5 DEF Counted
  <2> QED BY <2>4, <2>6
<1>3. CASE token \in Digits
  <2>1. PICK n, next : n = token - 48 /\ next = IF n > st.next THEN n ELSE st.next
    OBVIOUS
  <2>2. n \in Nat /\ next \in Nat
    BY <1>1, <1>3, <2>1 DEF Digits
  <2>3. new = [st EXCEPT !.out = Append(@, n), !.next = IF n > @ THEN n ELSE @]
    BY <1>0, <1>3, <2>1 DEF Numbered
  <2>4. new = [names |-> st.names, next |-> next, out |-> Append(st.out, n)]
    BY <1>1, <2>1, <2>3
  <2>5. Counted(new, tokens, k + 1)
    BY <1>1, <1>2, <2>1, <2>2, <2>4
  <2> QED BY <1>0, <2>5
<1>4. CASE token \notin Digits /\ known # {}
  <2>1. PICK c : c = CHOOSE e \in known : TRUE
    OBVIOUS
  <2>2. c \in st.names
    BY <1>0, <1>4, <2>1
  <2>3. c.index \in Nat
    BY <1>1, <2>2
  <2>4. new = [st EXCEPT !.out = Append(@, c.index)]
    BY <1>0, <1>4, <2>1 DEF Numbered
  <2>5. new = [names |-> st.names, next |-> st.next, out |-> Append(st.out, c.index)]
    BY <1>1, <2>4
  <2>6. Counted(new, tokens, k + 1)
    BY <1>1, <1>2, <1>4, <2>3, <2>5
  <2> QED BY <1>0, <2>6
<1>5. CASE token \notin Digits /\ known = {}
  <2>1. PICK e, n : e = [name |-> name, index |-> n] /\ n = st.next + 1
    OBVIOUS
  <2>2. n \in Nat /\ \A x \in st.names \cup {e} : x.index \in Nat
    BY <1>1, <2>1
  <2>3. new = [names |-> st.names \cup {e}, next |-> n, out |-> Append(st.out, n)]
    BY <1>0, <1>5, <2>1 DEF Numbered
  <2>4. Counted(new, tokens, k + 1)
    BY <1>2, <1>5, <2>2, <2>3
  <2> QED BY <1>0, <2>4
<1> QED BY <1>3, <1>4, <1>5

\* Every placeholder has one number, and one that is a number has itself.
LEMMA NumbersFollowThemselves ==
  ASSUME NEW sql, Len(sql) \in Nat, NEW tokens, tokens = Occurrences(sql)
  PROVE  /\ BindIndexes(sql) \in Seq(Nat) /\ Len(BindIndexes(sql)) = Len(tokens)
         /\ \A k \in 1..Len(tokens) : tokens[k] \in Digits => BindIndexes(sql)[k] = tokens[k] - 48
<1>0. PICK m : m = Len(tokens) /\ m \in Nat
  <2>1. tokens \in Seq(Placeholders)
    BY OccurrencesArePlaceholders
  <2> QED BY <2>1
<1>1. PICK f : /\ BindIndexes(sql) = f[Len(tokens)].out
               /\ f[0] = Unnumbered
               /\ \A n \in 1..Len(tokens) : f[n] = Numbered(f[n - 1], tokens[n], Upcase(tokens[n]))
  BY <1>0, BindIndexesAre
<1> DEFINE Good(n) == Counted(f[n], tokens, n)
           Bad == {k \in Nat : k <= m /\ ~Good(k)}
<1>2. Good(0)
  <2>1. <<>> \in Seq(Nat) /\ Len(<<>>) = 0
    OBVIOUS
  <2>2. PICK s : s = [names |-> {}, next |-> 0, out |-> <<>>]
    OBVIOUS
  <2>3. f[0] = s /\ s.names = {} /\ s.next = 0 /\ s.out = <<>>
    BY <1>1, <2>2 DEF Unnumbered
  <2>4. Counted(s, tokens, 0)
    BY <2>1, <2>2, <2>3 DEF Counted
  <2> QED BY <2>3, <2>4
<1>3. ASSUME NEW n \in 1..m, Good(n - 1)
      PROVE  Good(n)
  <2>1. PICK k : k = n - 1 /\ k \in Nat /\ k + 1 = n
    BY <1>0
  <2>2. Counted(f[k], tokens, k)
    BY <1>3, <2>1
  <2>3. Counted(Numbered(f[k], tokens[k + 1], Upcase(tokens[k + 1])), tokens, k + 1)
    BY <2>1, <2>2, OneMoreIsCounted
  <2>4. f[n] = Numbered(f[k], tokens[k + 1], Upcase(tokens[k + 1]))
    BY <1>0, <1>1, <2>1
  <2> QED BY <2>1, <2>3, <2>4
<1> HIDE DEF Good
<1>4. Bad = {}
  <2>1. SUFFICES ASSUME Bad # {} PROVE FALSE
    OBVIOUS
  <2>2. PICK x \in Bad : \A y \in Bad : x <= y
    <3>1. Bad \in SUBSET Nat
      OBVIOUS
    <3> HIDE DEF Bad
    <3> QED BY <2>1, <3>1, LeastNat
  <2>3. x \in Nat /\ x <= m /\ ~Good(x) /\ x # 0
    BY <1>2, <2>2
  <2>4. x - 1 \in Nat /\ x - 1 <= m /\ ~(x <= x - 1) /\ x \in 1..m
    BY <1>0, <2>3
  <2>5. Good(x - 1)
    BY <2>2, <2>4
  <2> QED BY <1>3, <2>3, <2>4, <2>5
<1>5. Good(m)
  BY <1>0, <1>4
<1>6. Counted(f[m], tokens, m) /\ BindIndexes(sql) = f[m].out
  BY <1>0, <1>1, <1>5 DEF Good
<1> QED BY <1>0, <1>6 DEF Counted

\* A placeholder that is a number takes the value of that number, whatever
\* names stand beside it.
THEOREM EveryNumberItsValue ==
  ASSUME NEW sql, Len(sql) \in Nat, sql[1] # PlSql, NEW tokens, tokens = Occurrences(sql),
         NEW binds, NEW style \in {"postgres", "mariadb"},
         NEW bound, bound = BindParameters(sql, binds, style), bound.r = "ok",
         NEW k \in 1..Len(tokens), tokens[k] \in Digits
  PROVE  bound.v.values[bound.v.places[k]] = Parameter(style, binds[tokens[k] - 48])
<1>1. /\ BindIndexes(sql) \in Seq(Nat) /\ k \in 1..Len(BindIndexes(sql))
      /\ BindIndexes(sql)[k] = tokens[k] - 48
  BY NumbersFollowThemselves
<1>2. bound.v.values[bound.v.places[k]] = Parameter(style, binds[BindIndexes(sql)[k]])
  BY <1>1, PlacesHoldTheirValues
<1> QED BY <1>1, <1>2

-----------------------------------------------------------------------------
(* Runs of fields. *)

\* What a writer writes for a field, and the values a field can have.
WriteField(kind, v) == CASE kind = "u8"    -> <<v>>
                         [] kind = "u16"   -> Be(v, 2)
                         [] kind = "bytes" -> WriteValue(v)
                         [] OTHER          -> WriteUb(v)

FieldValues(kind) == CASE kind = "u8"            -> Byte
                       [] kind \in {"u16", "ub2"} -> TwoBytes
                       [] kind = "bytes"         -> Seq(Byte) \cup {Null}
                       [] OTHER                  -> FourBytes

FieldKinds == {"u8", "u16", "ub2", "ub4", "ub8", "bytes"}

\* A field that was written is read back.
LEMMA FieldsOfEachKind ==
  ASSUME NEW kind \in FieldKinds, NEW v \in FieldValues(kind), NEW d \in Seq(Byte), NEW at \in Nat \ {0},
         StandsAt(WriteField(kind, v), d, at)
  PROVE  /\ WriteField(kind, v) \in Seq(Byte)
         /\ Field(d, at, kind) = Got(v, at + Len(WriteField(kind, v)))
<1>1. CASE kind = "u8"
  <2>1. v \in Byte /\ WriteField(kind, v) = <<v>>
    BY <1>1 DEF FieldValues, WriteField
  <2>2. <<v>> \in Seq(Byte) /\ Len(<<v>>) = 1
    BY <2>1
  <2>3. U8(d, at) = Got(v, at + 1)
    BY <2>1, OneByteStands
  <2>4. Field(d, at, kind) = U8(d, at)
    BY <1>1 DEF Field
  <2> QED BY <2>1, <2>2, <2>3, <2>4
<1>2. CASE kind = "u16"
  <2>1. v \in TwoBytes /\ WriteField(kind, v) = Be(v, 2)
    BY <1>2 DEF FieldValues, WriteField
  <2>2. PICK w : w = Be(v, 2) /\ w \in Seq(Byte) /\ Len(w) = 2 /\ BigEndian(w) = v
    BY <2>1, BeAmountsToIt
  <2>3. Take(d, at, 2) = Got(w, at + 2)
    BY <2>1, <2>2, BytesAreTaken
  <2>4. PICK g : g = Got(w, at + 2)
    OBVIOUS
  <2>5. g.r = "ok" /\ g.v = w /\ g.at = at + 2
    BY <2>4 DEF Got
  <2>6. Field(d, at, kind) = Got(BigEndian(w), at + 2)
    BY <1>2, <2>3, <2>4, <2>5 DEF Field, Number, Then
  <2> QED BY <2>1, <2>2, <2>6
<1>3. CASE kind = "bytes"
  <2>1. v \in Seq(Byte) \cup {Null} /\ WriteField(kind, v) = WriteValue(v)
    BY <1>3 DEF FieldValues, WriteField
  <2>2. Field(d, at, kind) = ReadValue(d, at, TRUE)
    BY <1>3 DEF Field
  <2> QED BY <2>1, <2>2, ValuesReadBack, ZenonT(60)
<1>4. CASE kind \in {"ub2", "ub4", "ub8"}
  <2>1. WriteField(kind, v) = WriteUb(v) /\ Field(d, at, kind) = Ub(d, at, Width[kind])
    BY <1>4 DEF WriteField, Field
  <2>2. Width["ub2"] = 2 /\ Width["ub4"] = 4 /\ Width["ub8"] = 8
    BY DEF Width
  <2>3. v \in FourBytes /\ (kind = "ub2" => v \in TwoBytes)
    <3>1. TwoBytes \subseteq FourBytes
      BY SMT DEF TwoBytes, FourBytes
    <3> QED BY <1>4, <3>1 DEF FieldValues
  <2>4. PICK width : width = Width[kind]
    OBVIOUS
  <2>5. width \in {2, 4, 8} /\ (width = 2 => v \in TwoBytes)
    BY <1>4, <2>2, <2>3, <2>4
  <2>6. Ub(d, at, width) = Got(v, at + Len(WriteUb(v)))
    BY <2>1, <2>3, <2>5, IntegersReadBack
  <2>7. WriteUb(v) \in Seq(Byte)
    BY <2>3, WriteUbBytes
  <2> QED BY <2>1, <2>4, <2>6, <2>7
<1> QED BY <1>1, <1>2, <1>3, <1>4 DEF FieldKinds

Reads(f, d, at, kinds, m) == f = [n \in 0..m |-> IF n = 0 THEN Got(<<>>, at) ELSE OneMore(f[n - 1], d, kinds[n])]

\* The states of reading field by field exist.
LEMMA ReadsExist ==
  ASSUME NEW d, NEW at, NEW kinds, NEW m \in Nat
  PROVE  \E f : Reads(f, d, at, kinds, m)
<1> DEFINE Bad == {k \in Nat : ~\E f : Reads(f, d, at, kinds, k)}
<1>1. SUFFICES ASSUME Bad # {} PROVE FALSE
  OBVIOUS
<1>2. PICK x \in Bad : \A y \in Bad : x <= y
  <2>1. Bad \in SUBSET Nat
    OBVIOUS
  <2> HIDE DEF Bad
  <2> QED BY <1>1, <2>1, LeastNat
<1>3. CASE x = 0
  <2>1. Reads([k \in 0..0 |-> Got(<<>>, at)], d, at, kinds, 0)
    BY DEF Reads
  <2> QED BY <1>2, <1>3, <2>1
<1>4. CASE x # 0
  <2>1. x - 1 \in Nat /\ x - 1 \notin Bad
    BY <1>2, <1>4
  <2>2. PICK f : Reads(f, d, at, kinds, x - 1)
    BY <2>1
  <2>3. PICK g : g = [k \in 0..x |-> IF k # x THEN f[k] ELSE OneMore(f[x - 1], d, kinds[x])]
    OBVIOUS
  <2>4. ASSUME NEW k \in 0..x
        PROVE  g[k] = IF k = 0 THEN Got(<<>>, at) ELSE OneMore(g[k - 1], d, kinds[k])
    <3>1. CASE k = x
      <4>1. x - 1 \in 0..x /\ x - 1 # x
        BY <2>1
      <4>2. g[x - 1] = f[x - 1] /\ g[x] = OneMore(f[x - 1], d, kinds[x])
        BY <2>3, <4>1
      <4> QED BY <1>4, <3>1, <4>2
    <3>2. CASE k # x
      <4>1. k \in 0..(x - 1) /\ (k # 0 => k - 1 \in 0..x /\ k - 1 # x)
        BY <1>2, <3>2
      <4>2. f[k] = IF k = 0 THEN Got(<<>>, at) ELSE OneMore(f[k - 1], d, kinds[k])
        BY <2>2, <4>1 DEF Reads
      <4>3. g[k] = f[k] /\ (k # 0 => g[k - 1] = f[k - 1])
        BY <2>3, <3>2, <4>1
      <4> QED BY <4>2, <4>3
    <3> QED BY <3>1, <3>2
  <2>5. Reads(g, d, at, kinds, x)
    BY <2>3, <2>4 DEF Reads
  <2> QED BY <1>2, <2>5
<1> QED BY <1>3, <1>4

\* A run of fields is read one after the other.
LEMMA ReadsIs ==
  ASSUME NEW d, NEW at, NEW kinds, Len(kinds) \in Nat
  PROVE  \E f : /\ Fields(d, at, kinds) = f[Len(kinds)]
                /\ f[0] = Got(<<>>, at)
                /\ \A n \in 1..Len(kinds) : f[n] = OneMore(f[n - 1], d, kinds[n])
<1> DEFINE m == Len(kinds)
           f == CHOOSE g : g = [n \in 0..m |-> IF n = 0 THEN Got(<<>>, at) ELSE OneMore(g[n - 1], d, kinds[n])]
<1>1. Fields(d, at, kinds) = f[m]
  BY DEF Fields
<1>2. \E g : g = [n \in 0..m |-> IF n = 0 THEN Got(<<>>, at) ELSE OneMore(g[n - 1], d, kinds[n])]
  <2>1. \E g : Reads(g, d, at, kinds, m)
    BY ReadsExist
  <2> QED BY <2>1 DEF Reads
<1>3. f = [n \in 0..m |-> IF n = 0 THEN Got(<<>>, at) ELSE OneMore(f[n - 1], d, kinds[n])]
  BY <1>2
<1>4. m \in Nat
  OBVIOUS
<1> HIDE DEF f, m
<1>5. f[0] = Got(<<>>, at)
  <2>1. 0 \in 0..m
    BY <1>4
  <2> QED BY <1>3, <2>1
<1>6. ASSUME NEW n \in 1..m
      PROVE  f[n] = OneMore(f[n - 1], d, kinds[n])
  <2>1. n \in 0..m /\ n # 0
    BY <1>4
  <2> QED BY <1>3, <2>1
<1> QED BY <1>1, <1>5, <1>6 DEF m

\* Fields that stand in a message, each where the one before it ends.
FieldsStandAt(kinds, values, ats, d) ==
  /\ kinds \in Seq(FieldKinds)
  /\ Len(values) = Len(kinds)
  /\ \A i \in 1..(Len(kinds) + 1) : ats[i] \in Nat \ {0}
  /\ \A i \in 1..Len(kinds) : /\ values[i] \in FieldValues(kinds[i])
                              /\ StandsAt(WriteField(kinds[i], values[i]), d, ats[i])
                              /\ ats[i + 1] = ats[i] + Len(WriteField(kinds[i], values[i]))

\* A run of fields that was written is read back, field by field and as long
\* as it is: none is taken for part of another.
THEOREM FieldsReadBack ==
  ASSUME NEW S, NEW values \in Seq(S), NEW kinds, NEW ats, NEW d \in Seq(Byte),
         FieldsStandAt(kinds, values, ats, d)
  PROVE  Fields(d, ats[1], kinds) = Got(values, ats[Len(kinds) + 1])
<1>0. PICK m : m = Len(kinds) /\ m \in Nat /\ Len(values) = m /\ Len(kinds) \in Nat
  BY DEF FieldsStandAt
<1>1. PICK f : /\ Fields(d, ats[1], kinds) = f[Len(kinds)]
               /\ f[0] = Got(<<>>, ats[1])
               /\ \A n \in 1..Len(kinds) : f[n] = OneMore(f[n - 1], d, kinds[n])
  BY <1>0, ReadsIs
<1> DEFINE Good(n) == f[n] = Got(SubSeq(values, 1, n), ats[n + 1])
           Bad == {k \in Nat : k <= m /\ ~Good(k)}
<1>2. Good(0)
  <2>1. SubSeq(values, 1, 0) = <<>>
    BY SubSeqEmpty
  <2>2. 0 + 1 = 1
    OBVIOUS
  <2> QED BY <1>1, <2>1, <2>2
<1>3. ASSUME NEW n \in 1..m, Good(n - 1)
      PROVE  Good(n)
  <2>1. PICK k, v, kind, p : /\ k = n - 1 /\ k + 1 = n /\ v = values[n] /\ kind = kinds[n] /\ p = ats[n]
    BY <1>0
  <2>2. /\ kind \in FieldKinds /\ v \in FieldValues(kind) /\ p \in Nat \ {0}
        /\ StandsAt(WriteField(kind, v), d, p)
        /\ ats[n + 1] = p + Len(WriteField(kind, v))
    <3>1. n \in 1..Len(kinds) /\ n \in 1..(Len(kinds) + 1)
      BY <1>0
    <3> QED BY <2>1, <3>1 DEF FieldsStandAt
  <2>3. Field(d, p, kind) = Got(v, ats[n + 1])
    BY <2>2, FieldsOfEachKind
  <2>4. PICK s, g : s = SubSeq(values, 1, k) /\ g = Got(s, p)
    OBVIOUS
  <2>5. g.r = "ok" /\ g.v = s /\ g.at = p
    BY <2>4 DEF Got
  <2>6. f[n] = OneMore(g, d, kind)
    BY <1>0, <1>1, <1>3, <2>1, <2>4
  <2>7. PICK e : e = Got(v, ats[n + 1])
    OBVIOUS
  <2>8. e.r = "ok" /\ e.v = v /\ e.at = ats[n + 1]
    BY <2>7 DEF Got
  <2>9. f[n] = Got(Append(s, v), ats[n + 1])
    BY <2>3, <2>5, <2>6, <2>7, <2>8 DEF OneMore, Then
  <2>10. SubSeq(values, 1, n) = Append(s, v)
    <3>1. 1 \in 1..Len(values) /\ n \in 1..Len(values) /\ n - 1 = k
      BY <1>0, <2>1
    <3>2. SubSeq(values, 1, n) = SubSeq(values, 1, k) \o <<values[n]>>
      BY <3>1, SubSeqRecursiveSecond
    <3>3. s \in Seq(S) /\ values[n] \in S
      <4>1. \A i \in 1..k : values[i] \in S
        BY <1>0, <2>1
      <4>2. k \in Int
        BY <1>0, <2>1
      <4>3. s \in Seq(S)
        BY <2>4, <4>1, <4>2, SubSeqProperties
      <4> QED BY <3>1, <4>3
    <3>4. Append(s, values[n]) = s \o <<values[n]>>
      BY <3>3, AppendIsConcat
    <3> QED BY <2>1, <2>4, <3>2, <3>4
  <2> QED BY <2>9, <2>10
<1> HIDE DEF Good
<1>4. Bad = {}
  <2>1. SUFFICES ASSUME Bad # {} PROVE FALSE
    OBVIOUS
  <2>2. PICK x \in Bad : \A y \in Bad : x <= y
    <3>1. Bad \in SUBSET Nat
      OBVIOUS
    <3> HIDE DEF Bad
    <3> QED BY <2>1, <3>1, LeastNat
  <2>3. x \in Nat /\ x <= m /\ ~Good(x) /\ x # 0
    BY <1>2, <2>2
  <2>4. x - 1 \in Nat /\ x - 1 <= m /\ ~(x <= x - 1) /\ x \in 1..m
    BY <1>0, <2>3
  <2>5. Good(x - 1)
    BY <2>2, <2>4
  <2> QED BY <1>3, <2>3, <2>4, <2>5
<1>5. Good(m)
  BY <1>0, <1>4
<1>6. SubSeq(values, 1, m) = values
  BY <1>0, SubSeqFull
<1> QED BY <1>0, <1>1, <1>5, <1>6 DEF Good

-----------------------------------------------------------------------------
(* Things written one behind the other. *)

Joined(a, b) == a \o b

\* Two sequences of bytes, joined, are one as long as both.
LEMMA JoinedBytes ==
  ASSUME NEW a \in Seq(Byte), NEW b \in Seq(Byte)
  PROVE  /\ Joined(a, b) \in Seq(Byte)
         /\ Len(a) \in Nat /\ Len(b) \in Nat /\ Len(Joined(a, b)) = Len(a) + Len(b)
BY ConcatProperties DEF Joined

Flattens(f, seqs, m) == f = [i \in 1..m |-> IF i = 1 THEN seqs[i] ELSE Joined(f[i - 1], seqs[i])]

\* The function that joins the sequences up to each place exists.
LEMMA FlattensExist ==
  ASSUME NEW seqs, NEW m \in Nat \ {0}
  PROVE  \E f : Flattens(f, seqs, m)
<1> DEFINE Bad == {k \in Nat : k # 0 /\ ~\E f : Flattens(f, seqs, k)}
<1>1. SUFFICES ASSUME Bad # {} PROVE FALSE
  OBVIOUS
<1>2. PICK x \in Bad : \A y \in Bad : x <= y
  <2>1. Bad \in SUBSET Nat
    OBVIOUS
  <2> HIDE DEF Bad
  <2> QED BY <1>1, <2>1, LeastNat
<1>3. CASE x = 1
  <2>1. PICK f : f = [k \in 1..1 |-> seqs[k]]
    OBVIOUS
  <2>2. f = [i \in 1..1 |-> IF i = 1 THEN seqs[i] ELSE Joined(f[i - 1], seqs[i])]
    BY <2>1
  <2>3. Flattens(f, seqs, 1)
    BY <2>2 DEF Flattens
  <2> QED BY <1>2, <1>3, <2>3
<1>4. CASE x # 1
  <2>1. x - 1 \in Nat /\ x - 1 \notin Bad /\ x - 1 # 0 /\ x \in Nat
    BY <1>2, <1>4
  <2>2. PICK f : Flattens(f, seqs, x - 1)
    BY <2>1
  <2>3. PICK g : g = [k \in 1..x |-> IF k # x THEN f[k] ELSE Joined(f[x - 1], seqs[x])]
    OBVIOUS
  <2>4. ASSUME NEW k \in 1..x
        PROVE  g[k] = IF k = 1 THEN seqs[k] ELSE Joined(g[k - 1], seqs[k])
    <3>1. CASE k = x
      <4>1. x - 1 \in 1..x /\ x - 1 # x
        BY <2>1
      <4>2. g[x - 1] = f[x - 1] /\ g[x] = Joined(f[x - 1], seqs[x])
        BY <2>1, <2>3, <4>1
      <4> QED BY <1>4, <3>1, <4>2
    <3>2. CASE k # x
      <4>1. k \in 1..(x - 1) /\ (k # 1 => k - 1 \in 1..x /\ k - 1 # x)
        BY <2>1, <3>2
      <4>2. f[k] = IF k = 1 THEN seqs[k] ELSE Joined(f[k - 1], seqs[k])
        BY <2>2, <4>1 DEF Flattens
      <4>3. g[k] = f[k] /\ (k # 1 => g[k - 1] = f[k - 1])
        BY <2>3, <3>2, <4>1
      <4> QED BY <4>2, <4>3
    <3> QED BY <3>1, <3>2
  <2>5. Flattens(g, seqs, x)
    BY <2>3, <2>4 DEF Flattens
  <2> QED BY <1>2, <2>5
<1> QED BY <1>3, <1>4

\* Sequences are joined one after the other.
LEMMA FlattenIs ==
  ASSUME NEW seqs, Len(seqs) \in Nat \ {0}
  PROVE  \E f : /\ FlattenSeq(seqs) = f[Len(seqs)]
                /\ f[1] = seqs[1]
                /\ \A i \in 2..Len(seqs) : f[i] = Joined(f[i - 1], seqs[i])
<1> DEFINE m == Len(seqs)
           f == CHOOSE g : g = [i \in 1..m |-> IF i = 1 THEN seqs[i] ELSE Joined(g[i - 1], seqs[i])]
<1>1. FlattenSeq(seqs) = f[m]
  BY DEF FlattenSeq, Joined
<1>2. \E g : g = [i \in 1..m |-> IF i = 1 THEN seqs[i] ELSE Joined(g[i - 1], seqs[i])]
  <2>1. \E g : Flattens(g, seqs, m)
    BY FlattensExist
  <2> QED BY <2>1 DEF Flattens
<1>3. f = [i \in 1..m |-> IF i = 1 THEN seqs[i] ELSE Joined(f[i - 1], seqs[i])]
  BY <1>2
<1>4. m \in Nat \ {0}
  OBVIOUS
<1> HIDE DEF f, m
<1>5. f[1] = seqs[1]
  <2>1. 1 \in 1..m
    BY <1>4
  <2> QED BY <1>3, <2>1
<1>6. ASSUME NEW i \in 2..m
      PROVE  f[i] = Joined(f[i - 1], seqs[i])
  <2>1. i \in 1..m /\ i # 1
    BY <1>4
  <2> QED BY <1>3, <2>1
<1> QED BY <1>1, <1>5, <1>6 DEF m

\* Where the sequence of some bytes after others begins.
BehindEach(ats, seqs, at) ==
  /\ ats[1] = at
  /\ \A i \in 1..Len(seqs) : ats[i + 1] = ats[i] + Len(seqs[i])
  /\ \A i \in 1..(Len(seqs) + 1) : ats[i] \in Nat \ {0}

\* Each of some sequences stands in a message, behind the one before.
EachStands(seqs, d, at, end) ==
  \E ats : /\ BehindEach(ats, seqs, at)
           /\ \A i \in 1..Len(seqs) : StandsAt(seqs[i], d, ats[i])
           /\ ats[Len(seqs) + 1] = end

\* The sequences of bytes up to each place put together.
Chained(f, seqs, m) ==
  /\ m = Len(seqs) /\ m \in Nat \ {0} /\ \A i \in 1..m : seqs[i] \in Seq(Byte)
  /\ f[1] = seqs[1] /\ \A i \in 2..m : f[i] = Joined(f[i - 1], seqs[i])

\* Sequences of bytes put one behind the other are one, and where it stands
\* each of them stands behind the one before.
LEMMA ChainStands ==
  ASSUME NEW f, NEW seqs, NEW m, Chained(f, seqs, m)
  PROVE  /\ f[m] \in Seq(Byte)
         /\ \A d \in Seq(Byte) : \A at \in Nat \ {0} : StandsAt(f[m], d, at) =>
              EachStands(seqs, d, at, at + Len(f[m]))
<1>a. /\ m = Len(seqs) /\ m \in Nat /\ m # 0 /\ Len(seqs) \in Nat
      /\ \A i \in 1..m : seqs[i] \in Seq(Byte)
  BY DEF Chained
<1>b. f[1] = seqs[1] /\ \A i \in 2..m : f[i] = Joined(f[i - 1], seqs[i])
  BY DEF Chained
<1> DEFINE Good(n) ==
             /\ f[n] \in Seq(Byte)
             /\ \A d \in Seq(Byte) : \A at \in Nat \ {0} : StandsAt(f[n], d, at) =>
                  \A i \in 1..n : /\ at + Len(f[i]) - Len(seqs[i]) \in Nat \ {0}
                                  /\ StandsAt(seqs[i], d, at + Len(f[i]) - Len(seqs[i]))
           Bad == {k \in Nat : k # 0 /\ k <= m /\ ~Good(k)}
<1>2. Good(1)
  <2>1. 1 \in 1..Len(seqs) /\ f[1] \in Seq(Byte) /\ Len(f[1]) \in Nat /\ Len(f[1]) - Len(seqs[1]) = 0
    BY <1>a, <1>b
  <2>2. 1..1 = {1}
    OBVIOUS
  <2>3. \A at \in Nat \ {0} : at + Len(f[1]) - Len(seqs[1]) = at
    BY <1>b, <2>1
  <2> QED BY <1>b, <2>1, <2>2, <2>3
<1>3. ASSUME NEW n \in 2..m, Good(n - 1)
      PROVE  Good(n)
  <2>0. n \in 1..m
    BY <1>a
  <2>1. f[n - 1] \in Seq(Byte) /\ seqs[n] \in Seq(Byte) /\ f[n] = Joined(f[n - 1], seqs[n])
    BY <1>a, <1>b, <1>3, <2>0
  <2>2. f[n] \in Seq(Byte) /\ Len(f[n]) = Len(f[n - 1]) + Len(seqs[n])
        /\ Len(f[n - 1]) \in Nat /\ Len(seqs[n]) \in Nat
    BY <2>1, JoinedBytes
  <2>3. ASSUME NEW d \in Seq(Byte), NEW at \in Nat \ {0}, StandsAt(f[n], d, at), NEW i \in 1..n
        PROVE  /\ at + Len(f[i]) - Len(seqs[i]) \in Nat \ {0}
               /\ StandsAt(seqs[i], d, at + Len(f[i]) - Len(seqs[i]))
    <3>1. StandsAt(f[n - 1], d, at) /\ StandsAt(seqs[n], d, at + Len(f[n - 1]))
      BY <2>1, <2>3, StandsInParts, ZenonT(60) DEF Joined
    <3>2. CASE i = n
      <4>1. at + Len(f[n]) - Len(seqs[n]) = at + Len(f[n - 1])
        BY <2>2
      <4>2. at + Len(f[n - 1]) \in Nat \ {0}
        BY <2>2
      <4> QED BY <3>1, <3>2, <4>1, <4>2
    <3>3. CASE i # n
      <4>1. i \in 1..(n - 1)
        BY <1>a, <3>3
      <4> QED BY <1>3, <3>1, <4>1
    <3> QED BY <3>2, <3>3
  <2> QED BY <2>2, <2>3
<1> HIDE DEF Good
<1>4. Bad = {}
  <2>1. SUFFICES ASSUME Bad # {} PROVE FALSE
    OBVIOUS
  <2>2. PICK x \in Bad : \A y \in Bad : x <= y
    <3>1. Bad \in SUBSET Nat
      OBVIOUS
    <3> HIDE DEF Bad
    <3> QED BY <2>1, <3>1, LeastNat
  <2>3. x \in Nat /\ x <= m /\ ~Good(x) /\ x # 0 /\ x # 1
    BY <1>2, <2>2
  <2>4. x - 1 \in Nat /\ x - 1 # 0 /\ x - 1 <= m /\ ~(x <= x - 1) /\ x \in 2..m
    BY <1>a, <2>3
  <2>5. Good(x - 1)
    BY <2>2, <2>4
  <2> QED BY <1>3, <2>3, <2>4, <2>5
<1>5. \A k \in 1..m : Good(k)
  BY <1>a, <1>4
<1>6. \A k \in 1..m : f[k] \in Seq(Byte) /\ Len(f[k]) \in Nat /\ Len(seqs[k]) \in Nat
  <2>1. \A k \in 1..m : f[k] \in Seq(Byte)
    BY <1>5 DEF Good
  <2> QED BY <1>a, <2>1
<1>7. \A k \in 2..m : Len(f[k]) = Len(f[k - 1]) + Len(seqs[k])
  <2> TAKE k \in 2..m
  <2>1. k \in 1..m /\ k - 1 \in 1..m
    BY <1>a
  <2>2. f[k - 1] \in Seq(Byte) /\ seqs[k] \in Seq(Byte)
    BY <1>a, <1>6, <2>1
  <2>3. f[k] = Joined(f[k - 1], seqs[k])
    BY <1>b
  <2> QED BY <2>2, <2>3, JoinedBytes
<1>8. ASSUME NEW d \in Seq(Byte), NEW at \in Nat \ {0}, StandsAt(f[m], d, at)
      PROVE  \E ats : /\ BehindEach(ats, seqs, at)
                      /\ \A i \in 1..Len(seqs) : StandsAt(seqs[i], d, ats[i])
                      /\ ats[Len(seqs) + 1] = at + Len(f[m])
  <2>1. PICK ats : ats = [i \in 1..(m + 1) |-> IF i = 1 THEN at ELSE at + Len(f[i - 1])]
    OBVIOUS
  <2>2. \A i \in 1..m : ats[i + 1] = at + Len(f[i])
    <3>1. \A i \in 1..m : i + 1 \in 1..(m + 1) /\ i + 1 # 1 /\ i + 1 - 1 = i
      BY <1>a
    <3> QED BY <2>1, <3>1
  <2>3. ats[1] = at
    <3>1. 1 \in 1..(m + 1)
      BY <1>a
    <3> QED BY <2>1, <3>1
  <2>4. \A i \in 1..m : ats[i] = at + Len(f[i]) - Len(seqs[i])
    <3>1. Len(f[1]) = Len(seqs[1]) /\ Len(f[1]) \in Nat
      BY <1>a, <1>b, <1>6
    <3>2. at = at + Len(f[1]) - Len(seqs[1])
      BY <3>1
    <3>3. ASSUME NEW i \in 1..m, i # 1
          PROVE  ats[i] = at + Len(f[i]) - Len(seqs[i])
      <4>1. i - 1 \in 1..m /\ i \in 2..m /\ i - 1 + 1 = i
        BY <1>a, <3>3
      <4>2. ats[i] = at + Len(f[i - 1])
        BY <2>2, <4>1
      <4>3. Len(f[i]) = Len(f[i - 1]) + Len(seqs[i]) /\ Len(f[i - 1]) \in Nat /\ Len(seqs[i]) \in Nat
        BY <1>6, <1>7, <4>1
      <4> QED BY <4>2, <4>3
    <3> QED BY <2>3, <3>2, <3>3
  <2>5. \A i \in 1..m : ats[i + 1] = ats[i] + Len(seqs[i])
    <3> TAKE i \in 1..m
    <3>1. PICK a, b : a = Len(f[i]) /\ b = Len(seqs[i]) /\ a \in Nat /\ b \in Nat
      BY <1>6
    <3>2. ats[i + 1] = at + a /\ ats[i] = at + a - b
      BY <2>2, <2>4, <3>1
    <3> QED BY <3>1, <3>2
  <2>6. Good(m) /\ m \in 1..m
    BY <1>a, <1>5
  <2>7. \A i \in 1..m : ats[i] \in Nat \ {0} /\ StandsAt(seqs[i], d, ats[i])
    <3>1. StandsAt(f[m], d, at)
      BY <1>b, <1>8
    <3>2. \A i \in 1..m : /\ at + Len(f[i]) - Len(seqs[i]) \in Nat \ {0}
                         /\ StandsAt(seqs[i], d, at + Len(f[i]) - Len(seqs[i]))
      BY <2>6, <3>1 DEF Good
    <3> QED BY <2>4, <3>2
  <2>8. ats[m + 1] = at + Len(f[m]) /\ ats[m + 1] \in Nat \ {0}
    <3>1. PICK a : a = Len(f[m]) /\ a \in Nat
      BY <1>6, <2>6
    <3>2. ats[m + 1] = at + a
      BY <2>2, <2>6, <3>1
    <3>3. at + a \in Nat \ {0}
      BY <3>1
    <3> QED BY <1>b, <3>1, <3>2, <3>3
  <2>9. \A i \in 1..(m + 1) : ats[i] \in Nat \ {0}
    <3>1. \A i \in 1..(m + 1) : i = m + 1 \/ i \in 1..m
      BY <1>a
    <3> QED BY <2>7, <2>8, <3>1
  <2> QED BY <1>a, <2>3, <2>5, <2>7, <2>8, <2>9 DEF BehindEach
<1>9. f[m] \in Seq(Byte)
  <2>1. m \in 1..m
    BY <1>a
  <2> QED BY <1>b, <1>6, <2>1
<1> QED BY <1>8, <1>9 DEF EachStands

\* What joins sequences of bytes is one, and where it stands each of them
\* stands behind the one before.
LEMMA JoinedStands ==
  ASSUME NEW seqs, Len(seqs) \in Nat, Len(seqs) = 0 => seqs = <<>>,
         \A i \in 1..Len(seqs) : seqs[i] \in Seq(Byte)
  PROVE  /\ FlattenSeq(seqs) \in Seq(Byte)
         /\ \A d \in Seq(Byte) : \A at \in Nat \ {0} : StandsAt(FlattenSeq(seqs), d, at) =>
              EachStands(seqs, d, at, at + Len(FlattenSeq(seqs)))
<1>0. PICK m : m = Len(seqs) /\ m \in Nat
  OBVIOUS
<1>1. CASE m = 0
  <2>1. FlattenSeq(seqs) = <<>> /\ Len(<<>>) = 0
    BY <1>0, <1>1 DEF FlattenSeq
  <2>2. ASSUME NEW d \in Seq(Byte), NEW at \in Nat \ {0}
        PROVE  EachStands(seqs, d, at, at + Len(FlattenSeq(seqs)))
    <3>1. PICK ats : ats = [i \in 1..1 |-> at]
      OBVIOUS
    <3>2. ats[1] = at /\ at + 0 = at /\ 1..m = {} /\ m + 1 = 1 /\ 1..(m + 1) = {1}
      BY <1>1, <3>1
    <3> QED BY <1>0, <1>1, <2>1, <3>2 DEF BehindEach, EachStands
  <2> QED BY <2>1, <2>2
<1>2. CASE m # 0
  <2>1. PICK f : /\ FlattenSeq(seqs) = f[m]
                 /\ f[1] = seqs[1]
                 /\ \A i \in 2..m : f[i] = Joined(f[i - 1], seqs[i])
    BY <1>0, <1>2, FlattenIs
  <2>2. Chained(f, seqs, m)
    BY <1>0, <1>2, <2>1 DEF Chained
  <2> QED BY <2>1, <2>2, ChainStands
<1> QED BY <1>1, <1>2

-----------------------------------------------------------------------------
(* The values of a row, each decoded with the type of its bind. *)

\* What is written of a value has a first byte.
LEMMA WrittenIsSomething ==
  ASSUME NEW v \in Seq(Byte) \cup {Null}, WriteValue(v) \in Seq(Byte)
  PROVE  Len(WriteValue(v)) \in Nat \ {0}
<1>1. PICK w : w = WriteValue(v) /\ w \in Seq(Byte)
  OBVIOUS
<1>2. w # <<>>
  <2>1. CASE v = Null
    <3>1. w = <<NullForm>>
      BY <1>1, <2>1 DEF WriteValue
    <3> QED BY <3>1
  <2>2. CASE v # Null /\ Len(v) <= ShortMax
    <3>1. w = <<Len(v)>> \o v /\ v \in Seq(Byte)
      BY <1>1, <2>2 DEF WriteValue
    <3>2. Len(<<Len(v)>> \o v) = 1 + Len(v) /\ Len(v) \in Nat
      <4>0. Len(v) \in Nat /\ Len(v) <= 252
        BY <2>2, <3>1, ChunkAssumption
      <4>1. \A k \in Nat : k <= 252 => k \in Byte
        BY SMT DEF Byte
      <4>3. Len(v) \in Byte
        BY <4>0, <4>1
      <4>2. <<Len(v)>> \in Seq(Byte) /\ Len(<<Len(v)>>) = 1
        BY <4>3
      <4> QED BY <3>1, <4>0, <4>2, ConcatProperties
    <3>3. Len(w) # 0
      BY <3>1, <3>2
    <3> QED BY <3>3
  <2>3. CASE v # Null /\ ~(Len(v) <= ShortMax)
    <3>1. v \in Seq(Byte)
      BY <2>3
    <3>2. PICK f : WriteChunks(v) = f[1] /\ WritesAll(f, v, 0)
      BY <3>1, WriteChunksAre
    <3>3. PICK d \in Seq(Byte) : d = <<>>
      <4>1. <<>> \in Seq(Byte)
        OBVIOUS
      <4> QED BY <4>1
    <3>4. ReadsFrom(f, v, d, 1)
      BY <3>1, <3>2, <3>3, ChunksReadBack
    <3>5. PICK c : c = WriteChunks(v) /\ c \in Seq(Byte)
      BY <3>2, <3>4 DEF ReadsFrom
    <3>6. w = <<LongForm>> \o c
      BY <1>1, <2>3, <3>5 DEF WriteValue
    <3>7. Len(<<LongForm>> \o c) = 1 + Len(c) /\ Len(c) \in Nat
      <4>1. LongForm \in Byte
        BY DEF Byte, LongForm
      <4>2. <<LongForm>> \in Seq(Byte) /\ Len(<<LongForm>>) = 1 /\ Len(c) \in Nat
        BY <3>5, <4>1
      <4> QED BY <3>5, <4>2, ConcatProperties
    <3>8. Len(w) # 0
      BY <3>6, <3>7
    <3> QED BY <3>8
  <2> QED BY <2>1, <2>2, <2>3
<1> QED BY <1>1, <1>2, EmptySeq

Rowed(f, d, at, types, m) == f = [n \in 0..m |-> IF n = 0 THEN Got(<<>>, at) ELSE OneValue(f[n - 1], d, types[n])]

\* The function that reads the values up to each exists.
LEMMA RowedExist ==
  ASSUME NEW d, NEW at, NEW types, NEW m \in Nat
  PROVE  \E f : Rowed(f, d, at, types, m)
<1> DEFINE Bad == {k \in Nat : ~\E f : Rowed(f, d, at, types, k)}
<1>1. SUFFICES ASSUME Bad # {} PROVE FALSE
  OBVIOUS
<1>2. PICK x \in Bad : \A y \in Bad : x <= y
  <2>1. Bad \in SUBSET Nat
    OBVIOUS
  <2> HIDE DEF Bad
  <2> QED BY <1>1, <2>1, LeastNat
<1>3. CASE x = 0
  <2>1. Rowed([k \in 0..0 |-> Got(<<>>, at)], d, at, types, 0)
    BY DEF Rowed
  <2> QED BY <1>2, <1>3, <2>1
<1>4. CASE x # 0
  <2>1. x - 1 \in Nat /\ x - 1 \notin Bad
    BY <1>2, <1>4
  <2>2. PICK f : Rowed(f, d, at, types, x - 1)
    BY <2>1
  <2>3. PICK g : g = [k \in 0..x |-> IF k # x THEN f[k] ELSE OneValue(f[x - 1], d, types[x])]
    OBVIOUS
  <2>4. ASSUME NEW k \in 0..x
        PROVE  g[k] = IF k = 0 THEN Got(<<>>, at) ELSE OneValue(g[k - 1], d, types[k])
    <3>1. CASE k = x
      <4>1. x - 1 \in 0..x /\ x - 1 # x
        BY <2>1
      <4>2. g[x - 1] = f[x - 1] /\ g[x] = OneValue(f[x - 1], d, types[x])
        BY <2>3, <4>1
      <4> QED BY <1>4, <3>1, <4>2
    <3>2. CASE k # x
      <4>1. k \in 0..(x - 1) /\ (k # 0 => k - 1 \in 0..x /\ k - 1 # x)
        BY <1>2, <3>2
      <4>2. f[k] = IF k = 0 THEN Got(<<>>, at) ELSE OneValue(f[k - 1], d, types[k])
        BY <2>2, <4>1 DEF Rowed
      <4>3. g[k] = f[k] /\ (k # 0 => g[k - 1] = f[k - 1])
        BY <2>3, <3>2, <4>1
      <4> QED BY <4>2, <4>3
    <3> QED BY <3>1, <3>2
  <2>5. Rowed(g, d, at, types, x)
    BY <2>3, <2>4 DEF Rowed
  <2> QED BY <1>2, <2>5
<1> QED BY <1>3, <1>4

\* A row is read value after value.
LEMMA ValuesIs ==
  ASSUME NEW d, NEW at, NEW types, Len(types) \in Nat
  PROVE  \E f : /\ Values(d, at, types) = f[Len(types)]
                /\ f[0] = Got(<<>>, at)
                /\ \A n \in 1..Len(types) : f[n] = OneValue(f[n - 1], d, types[n])
<1> DEFINE m == Len(types)
           f == CHOOSE g : g = [n \in 0..m |-> IF n = 0 THEN Got(<<>>, at) ELSE OneValue(g[n - 1], d, types[n])]
<1>1. Values(d, at, types) = f[m]
  BY DEF Values
<1>2. \E g : g = [n \in 0..m |-> IF n = 0 THEN Got(<<>>, at) ELSE OneValue(g[n - 1], d, types[n])]
  <2>1. \E g : Rowed(g, d, at, types, m)
    BY RowedExist
  <2> QED BY <2>1 DEF Rowed
<1>3. f = [n \in 0..m |-> IF n = 0 THEN Got(<<>>, at) ELSE OneValue(f[n - 1], d, types[n])]
  BY <1>2
<1>4. m \in Nat
  OBVIOUS
<1> HIDE DEF f, m
<1>5. f[0] = Got(<<>>, at)
  <2>1. 0 \in 0..m
    BY <1>4
  <2> QED BY <1>3, <2>1
<1>6. ASSUME NEW n \in 1..m
      PROVE  f[n] = OneValue(f[n - 1], d, types[n])
  <2>1. n \in 0..m /\ n # 0
    BY <1>4
  <2> QED BY <1>3, <2>1
<1> QED BY <1>1, <1>5, <1>6 DEF m

\* Values that stand in a message, each where the one before it ends, and
\* none that its type refuses.
RowStandsAt(types, wires, ats, d) ==
  /\ Len(types) \in Nat
  /\ \A i \in 1..(Len(types) + 1) : ats[i] \in Nat \ {0}
  /\ \A i \in 1..Len(types) : /\ wires[i] \in Seq(Byte) \cup {Null}
                              /\ StandsAt(WriteValue(wires[i]), d, ats[i])
                              /\ ats[i + 1] = ats[i] + Len(WriteValue(wires[i]))
                              /\ DecodeBind(types[i], wires[i]).v # Refused

\* One value more of a row that has been read so far.
LEMMA OneValueMore ==
  ASSUME NEW d \in Seq(Byte), NEW at \in Nat \ {0}, NEW type, NEW wire \in Seq(Byte) \cup {Null}, NEW had,
         StandsAt(WriteValue(wire), d, at), DecodeBind(type, wire).v # Refused
  PROVE  OneValue(Got(had, at), d, type)
           = Got(Append(had, DecodeBind(type, wire)), at + Len(WriteValue(wire)))
<1>1. PICK w, p : w = WriteValue(wire) /\ p = at + Len(w)
  OBVIOUS
<1>2. w \in Seq(Byte) /\ ReadValue(d, at, TRUE) = Got(wire, p) /\ Len(w) \in Nat \ {0}
  BY <1>1, ValuesReadBack, WrittenIsSomething
<1>3. at <= Len(d)
  <2>1. Len(d) \in Nat /\ at + Len(w) - 1 <= Len(d)
    BY <1>1 DEF StandsAt
  <2> QED BY <1>2, <2>1
<1>4. PICK raw, b : raw = Got(wire, p) /\ b = DecodeBind(type, wire)
  OBVIOUS
<1>5. raw.r = "ok" /\ raw.v = wire /\ raw.at = p
  BY <1>4 DEF Got
<1>6. ReadBind(d, at, type) = Got(b, p)
  <2>1. ReadBind(d, at, type) = Accepted(DecodeBind(type, raw.v), raw.at)
    BY <1>2, <1>4, <1>5 DEF ReadBind, Then
  <2> QED BY <1>4, <1>5, <2>1 DEF Accepted
<1>7. PICK g, e : g = Got(had, at) /\ e = Got(b, p)
  OBVIOUS
<1>8. g.r = "ok" /\ g.v = had /\ g.at = at /\ e.r = "ok" /\ e.v = b /\ e.at = p
  BY <1>7 DEF Got
<1>9. ~(at > Len(d))
  BY <1>3
<1>10. OneValue(g, d, type) = Got(Append(had, b), p)
  BY <1>6, <1>7, <1>8, <1>9 DEF OneValue, Then
<1> QED BY <1>1, <1>4, <1>7, <1>10

\* The values a client bound are those the server reads, as many, in their
\* order, each decoded as what it was bound as: none takes a byte of the next.
THEOREM RowsReadBack ==
  ASSUME NEW types, NEW wires, NEW ats, NEW d \in Seq(Byte), RowStandsAt(types, wires, ats, d)
  PROVE  Values(d, ats[1], types)
           = Got([i \in 1..Len(types) |-> DecodeBind(types[i], wires[i])], ats[Len(types) + 1])
<1>0. PICK m : m = Len(types) /\ m \in Nat
  BY DEF RowStandsAt
<1>1. PICK f : /\ Values(d, ats[1], types) = f[Len(types)]
               /\ f[0] = Got(<<>>, ats[1])
               /\ \A n \in 1..Len(types) : f[n] = OneValue(f[n - 1], d, types[n])
  BY <1>0, ValuesIs
<1> DEFINE Meaning(n) == [i \in 1..n |-> DecodeBind(types[i], wires[i])]
           Good(n) == f[n] = Got(Meaning(n), ats[n + 1])
           Bad == {k \in Nat : k <= m /\ ~Good(k)}
<1>2. Good(0)
  <2>1. 0 + 1 = 1 /\ 1..0 = {}
    OBVIOUS
  <2>2. Meaning(0) = <<>>
    BY <2>1
  <2> QED BY <1>1, <2>1, <2>2
<1>3. ASSUME NEW n \in 1..m, Good(n - 1)
      PROVE  Good(n)
  <2>1. PICK k, wire, type, p : k = n - 1 /\ k + 1 = n /\ wire = wires[n] /\ type = types[n] /\ p = ats[n] /\ k \in Nat
    BY <1>0
  <2>2. /\ p \in Nat \ {0} /\ wire \in Seq(Byte) \cup {Null} /\ StandsAt(WriteValue(wire), d, p)
        /\ ats[n + 1] = p + Len(WriteValue(wire)) /\ DecodeBind(type, wire).v # Refused
    <3>1. n \in 1..Len(types) /\ n \in 1..(Len(types) + 1)
      BY <1>0
    <3> QED BY <2>1, <3>1 DEF RowStandsAt
  <2>3. PICK had : had = Meaning(k)
    OBVIOUS
  <2>4. f[n] = OneValue(Got(had, p), d, type)
    BY <1>0, <1>1, <1>3, <2>1, <2>3
  <2>5. f[n] = Got(Append(had, DecodeBind(type, wire)), ats[n + 1])
    BY <2>2, <2>4, OneValueMore
  <2>6. Append(had, DecodeBind(type, wire)) = Meaning(n)
    <3>1. had = [i \in 1..k |-> DecodeBind(types[i], wires[i])] /\ n = k + 1 /\ n \in Nat
      BY <2>1, <2>3
    <3>2. PICK S : S = {DecodeBind(types[i], wires[i]) : i \in 1..n}
      OBVIOUS
    <3>3. \A i \in 1..n : DecodeBind(types[i], wires[i]) \in S
      BY <3>2
    <3>4. Meaning(n) \in Seq(S) /\ Len(Meaning(n)) = n /\ \A i \in 1..n : Meaning(n)[i] = DecodeBind(types[i], wires[i])
      BY <3>1, <3>3
    <3>5. 1..k \subseteq 1..n
      BY <2>1
    <3>6. had \in Seq(S) /\ Len(had) = k /\ \A i \in 1..k : had[i] = DecodeBind(types[i], wires[i])
      BY <2>1, <3>1, <3>3, <3>5
    <3>7. DecodeBind(type, wire) \in S /\ n \in 1..n
      BY <2>1, <3>1, <3>3
    <3>8. PICK a : a = Append(had, DecodeBind(type, wire))
      OBVIOUS
    <3>9. a \in Seq(S) /\ Len(a) = k + 1 /\ (\A i \in 1..k : a[i] = had[i]) /\ a[k + 1] = DecodeBind(type, wire)
      BY <3>6, <3>7, <3>8, AppendProperties
    <3>10. \A i \in 1..n : a[i] = Meaning(n)[i]
      <4> TAKE i \in 1..n
      <4>1. i \in 1..k \/ i = k + 1
        BY <2>1
      <4> QED BY <2>1, <3>4, <3>6, <3>9, <4>1
    <3> HIDE DEF Meaning
    <3> QED BY <3>1, <3>4, <3>8, <3>9, <3>10, SeqEqual
  <2> QED BY <2>5, <2>6
<1> HIDE DEF Good
<1>4. Bad = {}
  <2>1. SUFFICES ASSUME Bad # {} PROVE FALSE
    OBVIOUS
  <2>2. PICK x \in Bad : \A y \in Bad : x <= y
    <3>1. Bad \in SUBSET Nat
      OBVIOUS
    <3> HIDE DEF Bad
    <3> QED BY <2>1, <3>1, LeastNat
  <2>3. x \in Nat /\ x <= m /\ ~Good(x) /\ x # 0
    BY <1>2, <2>2
  <2>4. x - 1 \in Nat /\ x - 1 <= m /\ ~(x <= x - 1) /\ x \in 1..m
    BY <1>0, <2>3
  <2>5. Good(x - 1)
    BY <2>2, <2>4
  <2> QED BY <1>3, <2>3, <2>4, <2>5
<1>5. Good(m)
  BY <1>0, <1>4
<1> QED BY <1>0, <1>1, <1>5 DEF Good

-----------------------------------------------------------------------------
(* Requests: the fields a thin client writes are those the server reads. *)

AnyValue == FourBytes \cup Seq(Byte) \cup {Null}

\* Every value of a field is one of some field.
LEMMA ValuesOfKinds ==
  ASSUME NEW kind \in FieldKinds
  PROVE  FieldValues(kind) \subseteq AnyValue
<1>1. TwoBytes \subseteq FourBytes /\ Byte \subseteq FourBytes
  BY SMT DEF TwoBytes, FourBytes, Byte
<1> QED BY <1>1 DEF FieldKinds, FieldValues, AnyValue

\* A field of some kind and value that stands from p up to q.
FieldAt(kind, v, d, p, q) ==
  v \in FieldValues(kind) /\ StandsAt(WriteField(kind, v), d, p) /\ q = p + Len(WriteField(kind, v))

\* A field that is zero is one byte.
LEMMA ZeroField ==
  ASSUME NEW kind \in {"u8", "ub2", "ub4", "ub8"}
  PROVE  WriteField(kind, 0) = <<0>> /\ 0 \in FieldValues(kind) /\ kind \in FieldKinds
<1>1. 0 \in Byte /\ 0 \in TwoBytes /\ 0 \in FourBytes
  BY SMT DEF Byte, TwoBytes, FourBytes
<1> QED BY <1>1 DEF WriteField, WriteUb, FieldValues, FieldKinds

\* A run of m fields that stands in a message: the first k of them are what
\* they are, each where the one before it ends, and zeros follow.
RunStands(kinds, m, k, vs, ats, d) ==
  /\ kinds \in Seq(FieldKinds) /\ m = Len(kinds) /\ k \in 0..m
  /\ \A i \in 1..(k + 1) : ats[i] \in Nat \ {0}
  /\ \A i \in 1..k : FieldAt(kinds[i], vs[i], d, ats[i], ats[i + 1])
  /\ \A i \in (k + 1)..m : kinds[i] \in {"u8", "ub2", "ub4", "ub8"}
  /\ StandsAt(Zeros(m - k), d, ats[k + 1])

RunValues(vs, k, m) == [i \in 1..m |-> IF i <= k THEN vs[i] ELSE 0]

\* It is read back, each of the first fields for what it is and each of the
\* others for a zero.
LEMMA RunIsRead ==
  ASSUME NEW d \in Seq(Byte), NEW kinds, NEW m, NEW k, NEW vs, NEW ats, RunStands(kinds, m, k, vs, ats, d)
  PROVE  Fields(d, ats[1], kinds) = Got(RunValues(vs, k, m), ats[k + 1] + m - k)
<1>a. /\ kinds \in Seq(FieldKinds) /\ m = Len(kinds) /\ k \in 0..m
      /\ \A i \in 1..(k + 1) : ats[i] \in Nat \ {0}
      /\ \A i \in 1..k : FieldAt(kinds[i], vs[i], d, ats[i], ats[i + 1])
      /\ \A i \in (k + 1)..m : kinds[i] \in {"u8", "ub2", "ub4", "ub8"}
      /\ StandsAt(Zeros(m - k), d, ats[k + 1])
  BY DEF RunStands
<1>0. m \in Nat /\ k \in Nat /\ k <= m /\ k + 1 \in 1..(k + 1) /\ Len(d) \in Nat
  BY <1>a
<1>1. PICK p : p = ats[k + 1] /\ p \in Nat \ {0}
  BY <1>0, <1>a
<1>2. PICK v : v = [i \in 1..m |-> IF i <= k THEN vs[i] ELSE 0]
  OBVIOUS
<1>3. PICK f : f = [i \in 1..(m + 1) |-> IF i <= k THEN ats[i] ELSE p + i - k - 1]
  OBVIOUS
<1>4. \A i \in 1..(k + 1) : f[i] = ats[i]
  <2> TAKE i \in 1..(k + 1)
  <2>1. i \in 1..(m + 1)
    BY <1>0
  <2>2. CASE i <= k
    BY <1>3, <2>1, <2>2
  <2>3. CASE ~(i <= k)
    <3>1. i = k + 1 /\ p + i - k - 1 = p
      BY <1>0, <1>1, <2>3
    <3> QED BY <1>1, <1>3, <2>1, <2>3, <3>1
  <2> QED BY <2>2, <2>3
<1>5. \A i \in (k + 1)..(m + 1) : f[i] = p + i - k - 1 /\ i \in 1..(m + 1)
  <2>1. \A i \in (k + 1)..(m + 1) : i \in 1..(m + 1) /\ ~(i <= k)
    BY <1>0
  <2> QED BY <1>3, <2>1
<1>6. \A i \in 1..(m + 1) : f[i] \in Nat \ {0}
  <2> TAKE i \in 1..(m + 1)
  <2>1. CASE i <= k
    <3>1. i \in 1..(k + 1)
      BY <1>0, <2>1
    <3> QED BY <1>4, <1>a, <3>1
  <2>2. CASE ~(i <= k)
    <3>1. i \in (k + 1)..(m + 1)
      BY <1>0, <2>2
    <3>2. p + i - k - 1 \in Nat \ {0}
      BY <1>0, <1>1, <2>2
    <3> QED BY <1>5, <3>1, <3>2
  <2> QED BY <2>1, <2>2
<1>7. p + (m - k) - 1 <= Len(d) /\ \A i \in 1..(m - k) : d[p + i - 1] = 0
  <2>1. PICK z, n : z = Zeros(n) /\ n = m - k /\ n \in Nat
    BY <1>0
  <2>2. Len(z) = n /\ \A i \in 1..n : z[i] = 0
    BY <2>1 DEF Zeros
  <2>3. StandsAt(z, d, p)
    BY <1>1, <1>a, <2>1
  <2>4. p + n - 1 <= Len(d) /\ \A i \in 1..n : d[p + i - 1] = z[i]
    BY <2>2, <2>3 DEF StandsAt
  <2> QED BY <2>1, <2>2, <2>4
<1>8. Len(<<0>>) = 1 /\ <<0>>[1] = 0
  OBVIOUS
<1>9. ASSUME NEW i \in 1..m
      PROVE  FieldAt(kinds[i], v[i], d, f[i], f[i + 1])
  <2>1. CASE i <= k
    <3>1. i \in 1..k /\ i \in 1..(k + 1) /\ i + 1 \in 1..(k + 1)
      BY <1>0, <2>1
    <3>2. v[i] = vs[i] /\ f[i] = ats[i] /\ f[i + 1] = ats[i + 1]
      BY <1>2, <1>4, <2>1, <3>1
    <3> QED BY <1>a, <3>1, <3>2
  <2>2. CASE ~(i <= k)
    <3>1. PICK j : j = i - k /\ j \in 1..(m - k) /\ j \in Nat
      BY <1>0, <2>2
    <3>2. i \in (k + 1)..m /\ i \in (k + 1)..(m + 1) /\ i + 1 \in (k + 1)..(m + 1)
      BY <1>0, <2>2
    <3>3. PICK a, kind : a = p + j - 1 /\ kind = kinds[i] /\ a \in Nat
      BY <1>1, <3>1
    <3>4. v[i] = 0 /\ f[i] = a /\ f[i + 1] = a + 1
      <4>1. p + i - k - 1 = a /\ p + (i + 1) - k - 1 = a + 1
        BY <1>0, <1>1, <3>1, <3>3
      <4> QED BY <1>2, <1>5, <2>2, <3>2, <4>1
    <3>5. WriteField(kind, 0) = <<0>> /\ 0 \in FieldValues(kind)
      BY <1>a, <3>2, <3>3, ZeroField
    <3>6. StandsAt(<<0>>, d, a)
      <4>0. d[p + j - 1] = 0
        BY <1>7, <3>1
      <4>2. a <= Len(d)
        BY <1>0, <1>1, <1>7, <3>1, <3>3
      <4>1. a + 1 - 1 = a /\ a <= Len(d) /\ 1..1 = {1} /\ d[a] = 0
        BY <3>3, <4>0, <4>2
      <4> QED BY <1>8, <4>1 DEF StandsAt
    <3> QED BY <1>8, <3>3, <3>4, <3>5, <3>6 DEF FieldAt
  <2> QED BY <2>1, <2>2
<1>10. v \in Seq(AnyValue) /\ Len(v) = m
  <2>1. ASSUME NEW i \in 1..m PROVE v[i] \in AnyValue
    <3>1. v[i] \in FieldValues(kinds[i]) /\ kinds[i] \in FieldKinds
      BY <1>9, <1>a DEF FieldAt
    <3> QED BY <3>1, ValuesOfKinds
  <2>2. DOMAIN v = 1..m /\ v = [i \in 1..m |-> v[i]]
    BY <1>2
  <2> QED BY <1>0, <2>1, <2>2
<1>11. FieldsStandAt(kinds, v, f, d)
  BY <1>6, <1>9, <1>10, <1>a DEF FieldsStandAt, FieldAt
<1>12. Fields(d, f[1], kinds) = Got(v, f[m + 1])
  BY <1>10, <1>11, <1>a, FieldsReadBack
<1>13. f[1] = ats[1] /\ f[m + 1] = p + m - k
  <2>1. 1 \in 1..(k + 1) /\ m + 1 \in (k + 1)..(m + 1) /\ p + (m + 1) - k - 1 = p + m - k
    BY <1>0, <1>1
  <2> QED BY <1>4, <1>5, <2>1
<1> QED BY <1>1, <1>2, <1>12, <1>13 DEF RunValues

\* The kinds and the values of the fields that lead a Fetch and a re-execute.
HeadKinds == <<"u16", "u8", "u8", "u8", "ub4", "ub4">>

\* One byte of a message stands at its place.
LEMMA ByteStands ==
  ASSUME NEW d \in Seq(Byte), NEW p \in 1..Len(d), NEW x, d[p] = x
  PROVE  StandsAt(<<x>>, d, p)
<1>1. Len(<<x>>) = 1 /\ <<x>>[1] = x /\ 1..1 = {1}
  OBVIOUS
<1>2. Len(d) \in Nat /\ p + 1 - 1 = p
  OBVIOUS
<1> QED BY <1>1, <1>2 DEF StandsAt

\* What is put together of two parts stands where they do.
LEMMA PartsOfJoined ==
  ASSUME NEW a \in Seq(Byte), NEW b \in Seq(Byte), NEW d \in Seq(Byte), NEW at \in Nat \ {0},
         NEW p, p = at + Len(a), StandsAt(Joined(a, b), d, at)
  PROVE  StandsAt(a, d, at) /\ StandsAt(b, d, p) /\ p \in Nat \ {0}
<1>1. Len(a) \in Nat
  OBVIOUS
<1> QED BY <1>1, StandsInParts DEF Joined

\* The two bytes, the message type, the function, the sequence number, the
\* cursor and the rows asked for are read as they were written.
LEMMA HeadIsRead ==
  ASSUME NEW d \in Seq(Byte), NEW func \in Byte, NEW seq \in Byte, NEW id \in FourBytes, NEW size \in FourBytes,
         StandsAt(<<0, 0>>, d, 1), StandsAt(<<3, func, seq>>, d, 3),
         StandsAt(WriteUb(id), d, 6), StandsAt(WriteUb(size), d, 6 + Len(WriteUb(id)))
  PROVE  Fields(d, 1, HeadKinds)
           = Got(<<0, 3, func, seq, id, size>>, 6 + Len(WriteUb(id)) + Len(WriteUb(size)))
<1>1. PICK a, b : a = Len(WriteUb(id)) /\ b = Len(WriteUb(size)) /\ a \in Nat /\ b \in Nat
  <2>1. Len(WriteUb(id)) \in Nat /\ Len(WriteUb(size)) \in Nat
    BY WriteUbBytes
  <2> QED BY <2>1
<1>2. PICK ats, vs : ats = <<1, 3, 4, 5, 6, 6 + a, 6 + a + b>> /\ vs = <<0, 3, func, seq, id, size>>
  OBVIOUS
<1>4. 0 \in Byte /\ 3 \in Byte /\ 0 \in TwoBytes /\ 0 \in FourBytes /\ Byte \subseteq FourBytes
  BY SMT DEF Byte, TwoBytes, FourBytes
<1>5. vs \in Seq(FourBytes) /\ Len(vs) = 6
  <2>1. 0 \in FourBytes /\ 3 \in FourBytes /\ func \in FourBytes /\ seq \in FourBytes
    BY <1>4
  <2> QED BY <1>2, <2>1
<1>6. HeadKinds \in Seq(FieldKinds) /\ Len(HeadKinds) = 6
  BY DEF HeadKinds, FieldKinds
<1>7. /\ StandsAt(WriteField("u16", 0), d, 1) /\ Len(WriteField("u16", 0)) = 2
  <2>1. 0 \div 256 = 0 /\ 0 % 256 = 0
    OBVIOUS
  <2>2. Be(0, 2) = <<(0 \div 256) % 256, 0 % 256>>
    BY BeOf
  <2>3. WriteField("u16", 0) = <<0, 0>>
    BY <2>1, <2>2 DEF WriteField
  <2> QED BY <2>3
<1>8. StandsAt(<<3>>, d, 3) /\ StandsAt(<<func>>, d, 4) /\ StandsAt(<<seq>>, d, 5)
  <2>1. PICK t : t = <<3, func, seq>>
    OBVIOUS
  <2>2. Len(t) = 3 /\ t[1] = 3 /\ t[2] = func /\ t[3] = seq
    BY <2>1
  <2>3. 3 + 3 - 1 <= Len(d) /\ d[3 + 1 - 1] = 3 /\ d[3 + 2 - 1] = func /\ d[3 + 3 - 1] = seq
    BY <2>1, <2>2 DEF StandsAt
  <2>4. d[3] = 3 /\ d[4] = func /\ d[5] = seq /\ 5 <= Len(d) /\ Len(d) \in Nat
    BY <2>3
  <2>5. 3 \in 1..Len(d) /\ 4 \in 1..Len(d) /\ 5 \in 1..Len(d)
    BY <2>4
  <2> QED BY <2>4, <2>5, ByteStands
<1>9. \A x : /\ WriteField("u8", x) = <<x>> /\ Len(WriteField("u8", x)) = 1
             /\ WriteField("ub4", x) = WriteUb(x)
  BY DEF WriteField
<1>10. FieldsStandAt(HeadKinds, vs, ats, d)
  <2>1. /\ HeadKinds[1] = "u16" /\ HeadKinds[2] = "u8" /\ HeadKinds[3] = "u8" /\ HeadKinds[4] = "u8"
        /\ HeadKinds[5] = "ub4" /\ HeadKinds[6] = "ub4"
    BY DEF HeadKinds
  <2>2. /\ vs[1] = 0 /\ vs[2] = 3 /\ vs[3] = func /\ vs[4] = seq /\ vs[5] = id /\ vs[6] = size
    BY <1>2
  <2>3. /\ ats[1] = 1 /\ ats[2] = 3 /\ ats[3] = 4 /\ ats[4] = 5 /\ ats[5] = 6 /\ ats[6] = 6 + a
        /\ ats[7] = 6 + a + b
    BY <1>2
  <2>4. \A i \in 1..(6 + 1) : ats[i] \in Nat \ {0}
    <3>1. \A i \in 1..(6 + 1) : i \in {1, 2, 3, 4, 5, 6, 7}
      OBVIOUS
    <3>2. 6 + a \in Nat \ {0} /\ 6 + a + b \in Nat \ {0}
      BY <1>1
    <3> QED BY <2>3, <3>1, <3>2, SMTT(60)
  <2>5. /\ FieldValues("u16") = TwoBytes /\ FieldValues("u8") = Byte /\ FieldValues("ub4") = FourBytes
    BY DEF FieldValues
  <2>6. FieldAt("u16", 0, d, 1, 3)
    <3>0. PICK n : n = Len(WriteField("u16", 0)) /\ n = 2
      BY <1>7
    <3>2. 1 + 2 = 3
      OBVIOUS
    <3>1. 3 = 1 + n
      BY <3>0, <3>2
    <3> QED BY <1>4, <1>7, <2>5, <3>0, <3>1 DEF FieldAt
  <2>7. FieldAt("u8", 3, d, 3, 4) /\ FieldAt("u8", func, d, 4, 5) /\ FieldAt("u8", seq, d, 5, 6)
    <3>1. 4 = 3 + 1 /\ 5 = 4 + 1 /\ 6 = 5 + 1
      OBVIOUS
    <3> QED BY <1>4, <1>8, <1>9, <2>5, <3>1 DEF FieldAt
  <2>8. FieldAt("ub4", id, d, 6, 6 + a) /\ FieldAt("ub4", size, d, 6 + a, 6 + a + b)
    BY <1>1, <1>9, <2>5 DEF FieldAt
  <2>9. ASSUME NEW i \in 1..6
        PROVE  FieldAt(HeadKinds[i], vs[i], d, ats[i], ats[i + 1])
    <3>1. i \in {1, 2, 3, 4, 5, 6}
      OBVIOUS
    <3> QED BY <2>1, <2>2, <2>3, <2>6, <2>7, <2>8, <3>1
  <2>10. \A i \in 1..6 : /\ vs[i] \in FieldValues(HeadKinds[i])
                        /\ StandsAt(WriteField(HeadKinds[i], vs[i]), d, ats[i])
                        /\ ats[i + 1] = ats[i] + Len(WriteField(HeadKinds[i], vs[i]))
    BY <2>9 DEF FieldAt
  <2> QED BY <1>5, <1>6, <2>4, <2>10 DEF FieldsStandAt
<1>11. Fields(d, ats[1], HeadKinds) = Got(vs, ats[Len(HeadKinds) + 1])
  BY <1>5, <1>10, FieldsReadBack
<1>12. ats[1] = 1 /\ ats[6 + 1] = 6 + a + b
  BY <1>2
<1> QED BY <1>1, <1>2, <1>6, <1>11, <1>12

\* What is written stands at the beginning of itself.
LEMMA StandsInItself ==
  ASSUME NEW d \in Seq(Byte)
  PROVE  StandsAt(d, d, 1)
<1>1. Len(d) \in Nat /\ 1 + Len(d) - 1 = Len(d) /\ \A i \in 1..Len(d) : 1 + i - 1 = i
  OBVIOUS
<1> QED BY <1>1 DEF StandsAt

\* What stands where in a Fetch.
FetchStandsIn(d, request, id) ==
  /\ d \in Seq(Byte) /\ Len(d) = 5 + Len(WriteUb(id)) + Len(WriteUb(request.size))
  /\ StandsAt(<<0, 0>>, d, 1) /\ StandsAt(<<3, FetchRows, request.seq>>, d, 3)
  /\ StandsAt(WriteUb(id), d, 6) /\ StandsAt(WriteUb(request.size), d, 6 + Len(WriteUb(id)))

\* The id of a Fetch stands behind its function, and the number of rows behind it.
LEMMA FetchStands ==
  ASSUME NEW request, request.seq \in Byte, request.size \in FourBytes, NEW id \in TwoBytes,
         NEW d, d = <<0, 0>> \o ThinFetch(request, id)
  PROVE  FetchStandsIn(d, request, id)
<1>0. id \in FourBytes /\ id % 65536 = id
  BY SMTT(60) DEF TwoBytes, FourBytes
<1>1. PICK a, b, c, e : /\ a = <<0, 0>> /\ b = <<3, FetchRows, request.seq>>
                        /\ c = WriteUb(id) /\ e = WriteUb(request.size)
  OBVIOUS
<1>2. /\ a \in Seq(Byte) /\ b \in Seq(Byte) /\ c \in Seq(Byte) /\ e \in Seq(Byte)
      /\ Len(a) = 2 /\ Len(b) = 3 /\ FetchRows \in Byte
  <2>1. 0 \in Byte /\ 3 \in Byte /\ FetchRows \in Byte
    BY DEF Byte, FetchRows
  <2> QED BY <1>0, <1>1, <2>1, WriteUbBytes
<1>3. d = <<0, 0>> \o ThinFetch(request, id)
  OBVIOUS
<1>4. d = a \o (b \o c \o e)
  BY <1>1, <1>3 DEF ThinFetch
<1>5. PICK bc, bce : bc = Joined(b, c) /\ bce = Joined(bc, e)
  OBVIOUS
<1>6. bc \in Seq(Byte) /\ bce \in Seq(Byte) /\ Len(bc) = 3 + Len(c) /\ Len(c) \in Nat
  BY <1>2, <1>5, JoinedBytes
<1>7. d = Joined(a, bce)
  BY <1>4, <1>5 DEF Joined
<1>8. d \in Seq(Byte)
  BY <1>2, <1>6, <1>7, JoinedBytes
<1>9. StandsAt(d, d, 1)
  BY <1>8, StandsInItself
<1>10. StandsAt(a, d, 1) /\ StandsAt(bce, d, 3)
  <2>1. PICK at : at = 1
    OBVIOUS
  <2>2. PICK q : q = at + Len(a)
    OBVIOUS
  <2>3. at \in Nat \ {0}
    BY <2>1
  <2>4. q = 3
    BY <1>2, <2>1, <2>2
  <2>5. StandsAt(Joined(a, bce), d, at)
    BY <1>7, <1>9, <2>1
  <2>6. a \in Seq(Byte) /\ bce \in Seq(Byte) /\ d \in Seq(Byte)
    BY <1>2, <1>6, <1>8
  <2>7. StandsAt(a, d, at) /\ StandsAt(bce, d, q)
    BY ONLY <2>2, <2>3, <2>5, <2>6, PartsOfJoined
  <2> QED BY <2>1, <2>4, <2>7
<1>11. PICK p : p = 6 + Len(c) /\ p \in Nat \ {0}
  BY <1>6
<1>12. StandsAt(bc, d, 3) /\ StandsAt(e, d, p)
  <2>1. PICK at : at = 3
    OBVIOUS
  <2>2. at \in Nat \ {0}
    BY ONLY <2>1
  <2>3. p = at + Len(bc)
    BY ONLY <1>6, <1>11, <2>1
  <2>4. StandsAt(Joined(bc, e), d, at)
    BY ONLY <1>5, <1>10, <2>1
  <2>5. bc \in Seq(Byte) /\ e \in Seq(Byte) /\ d \in Seq(Byte)
    BY ONLY <1>2, <1>6, <1>8
  <2>6. StandsAt(bc, d, at) /\ StandsAt(e, d, p)
    BY ONLY <2>2, <2>3, <2>4, <2>5, PartsOfJoined
  <2> QED BY ONLY <2>1, <2>6
<1>16. StandsAt(b, d, 3) /\ StandsAt(c, d, 6)
  <2>1. PICK at : at = 3
    OBVIOUS
  <2>2. PICK q : q = at + Len(b)
    OBVIOUS
  <2>3. at \in Nat \ {0}
    BY <2>1
  <2>4. q = 6
    BY <1>2, <2>1, <2>2
  <2>5. StandsAt(Joined(b, c), d, at)
    BY <1>5, <1>12, <2>1
  <2>6. b \in Seq(Byte) /\ c \in Seq(Byte) /\ d \in Seq(Byte)
    BY <1>2, <1>8
  <2>7. StandsAt(b, d, at) /\ StandsAt(c, d, q)
    BY ONLY <2>2, <2>3, <2>5, <2>6, PartsOfJoined
  <2> QED BY <2>1, <2>4, <2>7
<1>13. Len(d) = 5 + Len(c) + Len(e)
  <2>1. Len(d) = Len(a) + Len(bce) /\ Len(bce) = Len(bc) + Len(e) /\ Len(e) \in Nat
    BY ONLY <1>2, <1>5, <1>6, <1>7, JoinedBytes
  <2> QED BY ONLY <1>2, <1>6, <2>1
<1>14. p = 6 + Len(WriteUb(id)) /\ StandsAt(WriteUb(request.size), d, p)
  BY ONLY <1>1, <1>11, <1>12
<1>15. StandsAt(<<0, 0>>, d, 1) /\ StandsAt(<<3, FetchRows, request.seq>>, d, 3) /\ StandsAt(WriteUb(id), d, 6)
  BY ONLY <1>1, <1>10, <1>16
<1>17. Len(d) = 5 + Len(WriteUb(id)) + Len(WriteUb(request.size))
  BY ONLY <1>1, <1>13
<1> QED BY ONLY <1>8, <1>14, <1>15, <1>17 DEF FetchStandsIn

\* A Fetch asks the server for the rows the client asked for, of the id it
\* meant: what the server would assume of one it cannot read is not used.
THEOREM FetchesReadBack ==
  ASSUME NEW request, request.seq \in Byte, request.size \in FourBytes, NEW id \in TwoBytes, NEW other
  PROVE  ParseFetch(<<0, 0>> \o ThinFetch(request, id), other) = [cursor |-> id, rows |-> request.size]
<1>0. id \in FourBytes /\ id % 65536 = id /\ FetchRows \in Byte
  <2>1. id \in FourBytes /\ id % 65536 = id
    BY SMT DEF TwoBytes, FourBytes
  <2>2. FetchRows \in Byte
    BY DEF Byte, FetchRows
  <2> QED BY ONLY <2>1, <2>2
<1>1. PICK d : d = <<0, 0>> \o ThinFetch(request, id)
  OBVIOUS
<1>2. FetchStandsIn(d, request, id)
  BY <1>1, FetchStands
<1>3. PICK p : p = 6 + Len(WriteUb(id)) + Len(WriteUb(request.size))
  OBVIOUS
<1>4. Fields(d, 1, HeadKinds) = Got(<<0, 3, FetchRows, request.seq, id, request.size>>, p)
  <2>0. PICK func, seq, size : func = FetchRows /\ seq = request.seq /\ size = request.size
    OBVIOUS
  <2>1. func \in Byte /\ seq \in Byte /\ size \in FourBytes /\ id \in FourBytes
    BY <1>0, <2>0
  <2>2. d \in Seq(Byte) /\ StandsAt(<<0, 0>>, d, 1) /\ StandsAt(<<3, func, seq>>, d, 3)
    BY ONLY <1>2, <2>0 DEF FetchStandsIn
  <2>3. StandsAt(WriteUb(id), d, 6) /\ StandsAt(WriteUb(size), d, 6 + Len(WriteUb(id)))
    BY ONLY <1>2, <2>0 DEF FetchStandsIn
  <2>4. Fields(d, 1, HeadKinds)
          = Got(<<0, 3, func, seq, id, size>>, 6 + Len(WriteUb(id)) + Len(WriteUb(size)))
    BY ONLY <2>1, <2>2, <2>3, HeadIsRead
  <2> QED BY ONLY <1>3, <2>0, <2>4
<1>5. PICK h : h = Got(<<0, 3, FetchRows, request.seq, id, request.size>>, p)
  OBVIOUS
<1>6. h.r = "ok" /\ h.v[5] = id /\ h.v[6] = request.size
  BY <1>5 DEF Got
<1> QED BY <1>0, <1>1, <1>4, <1>5, <1>6 DEF ParseFetch, HeadKinds

\* Values a client can send that none of their types refuses, and what each
\* means to the server.
Carried(values) ==
  /\ Len(values) \in Nat /\ DOMAIN values = 1..Len(values)
  /\ \A i \in 1..Len(values) : /\ values[i].wire \in Seq(Byte) \cup {Null}
                               /\ DecodeBind(values[i].type, values[i].wire).v # Refused

Decoded(values) == [i \in 1..Len(values) |-> DecodeBind(values[i].type, values[i].wire)]

\* What is written of values, one behind the other.
Written(values) == [i \in DOMAIN values |-> WriteValue(values[i].wire)]

\* A row is its marker and what is written of its values.
LEMMA RowOfIs ==
  ASSUME NEW values
  PROVE  RowOf(values) = Joined(<<7>>, FlattenSeq(Written(values)))
BY DEF RowOf, EachOf, Written, Joined

\* What is written of a value is bytes.
LEMMA WrittenIsBytes ==
  ASSUME NEW v \in Seq(Byte) \cup {Null}
  PROVE  WriteValue(v) \in Seq(Byte)
<1>1. CASE v = Null
  <2>1. NullForm \in Byte
    BY DEF NullForm, Byte
  <2> QED BY <1>1, <2>1 DEF WriteValue
<1>2. CASE v # Null /\ Len(v) <= ShortMax
  <2>1. v \in Seq(Byte) /\ Len(v) \in Nat
    BY <1>2
  <2>2. Len(v) <= 252
    BY <1>2, <2>1, ChunkAssumption
  <2>3. \A k \in Nat : k <= 252 => k \in Byte
    BY SMT DEF Byte
  <2>4. Len(v) \in Byte
    BY <2>1, <2>2, <2>3
  <2>5. <<Len(v)>> \in Seq(Byte)
    BY <2>4
  <2>6. Joined(<<Len(v)>>, v) \in Seq(Byte)
    BY <2>1, <2>5, JoinedBytes
  <2> QED BY <1>2, <2>6 DEF WriteValue, Joined
<1>3. CASE v # Null /\ ~(Len(v) <= ShortMax)
  <2>1. v \in Seq(Byte)
    BY <1>3
  <2>2. PICK f : WriteChunks(v) = f[1] /\ WritesAll(f, v, 0)
    BY <2>1, WriteChunksAre
  <2>3. PICK d \in Seq(Byte) : d = <<>>
    <3>1. <<>> \in Seq(Byte)
      OBVIOUS
    <3> QED BY <3>1
  <2>4. WriteChunks(v) \in Seq(Byte)
    BY <2>1, <2>2, <2>3, ChunksReadBack DEF ReadsFrom
  <2>5. LongForm \in Byte
    BY DEF LongForm, Byte
  <2>6. <<LongForm>> \in Seq(Byte)
    BY <2>5
  <2>7. Joined(<<LongForm>>, WriteChunks(v)) \in Seq(Byte)
    BY <2>4, <2>6, JoinedBytes
  <2> QED BY <1>3, <2>7 DEF WriteValue, Joined
<1> QED BY <1>1, <1>2, <1>3

\* A row that a thin driver wrote begins with its marker, and its values are
\* read to the last byte of it.
LEMMA RowOfIsRead ==
  ASSUME NEW values, Carried(values)
  PROVE  /\ RowOf(values) \in Seq(Byte)
         /\ \A d \in Seq(Byte) : \A at \in Nat \ {0} : StandsAt(RowOf(values), d, at) =>
              /\ at \in 1..Len(d) /\ d[at] = RowData
              /\ Values(d, at + 1, Types(values)) = Got(Decoded(values), at + Len(RowOf(values)))
<1>0. PICK n : n = Len(values) /\ n \in Nat /\ DOMAIN values = 1..n
  BY DEF Carried
<1>1. PICK ws : ws = Written(values)
  OBVIOUS
<1>2. /\ Len(ws) = n
      /\ \A i \in 1..n : ws[i] = WriteValue(values[i].wire) /\ ws[i] \in Seq(Byte)
  <2>1. ws = [i \in 1..n |-> WriteValue(values[i].wire)]
    BY <1>0, <1>1 DEF Written
  <2>2. Len(ws) = n /\ \A i \in 1..n : ws[i] = WriteValue(values[i].wire)
    BY <1>0, <2>1
  <2>3. \A i \in 1..n : values[i].wire \in Seq(Byte) \cup {Null}
    BY <1>0 DEF Carried
  <2> QED BY <2>2, <2>3, WrittenIsBytes
<1>3. Len(ws) = 0 => ws = <<>>
  <2>1. ws = [i \in 1..n |-> WriteValue(values[i].wire)]
    BY <1>0, <1>1 DEF Written
  <2>2. SUFFICES ASSUME n = 0 PROVE ws = <<>>
    BY <1>2
  <2>3. ws = [i \in 1..0 |-> WriteValue(values[i].wire)] /\ 1..0 = {}
    BY <2>1, <2>2
  <2> QED BY <2>3
<1>4. PICK w : w = FlattenSeq(ws)
  OBVIOUS
<1>5. /\ w \in Seq(Byte)
      /\ \A d \in Seq(Byte) : \A at \in Nat \ {0} : StandsAt(w, d, at) => EachStands(ws, d, at, at + Len(w))
  <2>1. Len(ws) \in Nat /\ \A i \in 1..Len(ws) : ws[i] \in Seq(Byte)
    BY <1>0, <1>2
  <2>2. /\ FlattenSeq(ws) \in Seq(Byte)
        /\ \A d \in Seq(Byte) : \A at \in Nat \ {0} : StandsAt(FlattenSeq(ws), d, at) => EachStands(ws, d, at, at + Len(FlattenSeq(ws)))
    BY <1>3, <2>1, JoinedStands
  <2> QED BY <1>4, <2>2
<1>6. 7 \in Byte /\ RowData = 7
  BY DEF Byte, RowData
<1>7. <<7>> \in Seq(Byte) /\ Len(<<7>>) = 1
  BY <1>6
<1>8. PICK row : row = RowOf(values) /\ row = Joined(<<7>>, w)
  BY <1>1, <1>4, RowOfIs
<1>9. row \in Seq(Byte) /\ Len(row) = 1 + Len(w) /\ Len(w) \in Nat
  BY <1>5, <1>7, <1>8, JoinedBytes
<1>10. PICK types, wires : /\ types = Types(values) /\ wires = [i \in 1..n |-> values[i].wire]
  OBVIOUS
<1>11. /\ Len(types) = n
       /\ \A i \in 1..n : types[i] = values[i].type /\ wires[i] = values[i].wire
  <2>1. types = [i \in 1..n |-> values[i].type]
    BY <1>0, <1>10 DEF Types
  <2> QED BY <1>0, <1>10, <2>1
<1>12. ASSUME NEW d \in Seq(Byte), NEW at \in Nat \ {0}, StandsAt(row, d, at)
       PROVE  /\ at \in 1..Len(d) /\ d[at] = RowData
              /\ Values(d, at + 1, types) = Got(Decoded(values), at + Len(row))
  <2>0. PICK m : m = <<7>> /\ m \in Seq(Byte) /\ Len(m) = 1
    BY <1>7
  <2>1. PICK p : p = at + Len(m)
    OBVIOUS
  <2>a. StandsAt(Joined(m, w), d, at) /\ w \in Seq(Byte) /\ m \in Seq(Byte)
    BY <1>5, <1>8, <1>12, <2>0
  <2>b. StandsAt(m, d, at) /\ StandsAt(w, d, p) /\ p \in Nat \ {0}
    BY <2>1, <2>a, PartsOfJoined
  <2>2. StandsAt(<<7>>, d, at) /\ StandsAt(w, d, p) /\ p \in Nat \ {0}
    BY <2>0, <2>b
  <2>3. p = at + 1
    BY <2>0, <2>1
  <2>4. at \in 1..Len(d) /\ d[at] = RowData
    BY <1>6, <2>2, OneByteStands
  <2>5. PICK ats : /\ BehindEach(ats, ws, p)
                   /\ \A i \in 1..Len(ws) : StandsAt(ws[i], d, ats[i])
                   /\ ats[Len(ws) + 1] = p + Len(w)
    BY <1>5, <2>2 DEF EachStands
  <2>6. /\ ats[1] = p /\ ats[n + 1] = p + Len(w)
        /\ \A i \in 1..(n + 1) : ats[i] \in Nat \ {0}
        /\ \A i \in 1..n : ats[i + 1] = ats[i] + Len(ws[i]) /\ StandsAt(ws[i], d, ats[i])
    BY <1>2, <2>5 DEF BehindEach
  <2>7. ASSUME NEW i \in 1..n
        PROVE  /\ wires[i] \in Seq(Byte) \cup {Null}
               /\ StandsAt(WriteValue(wires[i]), d, ats[i])
               /\ ats[i + 1] = ats[i] + Len(WriteValue(wires[i]))
               /\ DecodeBind(types[i], wires[i]).v # Refused
    <3>1. wires[i] = values[i].wire /\ types[i] = values[i].type /\ ws[i] = WriteValue(values[i].wire)
      BY <1>2, <1>11
    <3>2. values[i].wire \in Seq(Byte) \cup {Null} /\ DecodeBind(values[i].type, values[i].wire).v # Refused
      BY <1>0 DEF Carried
    <3> QED BY <2>6, <3>1, <3>2
  <2>8. RowStandsAt(types, wires, ats, d)
    BY <1>0, <1>11, <2>6, <2>7 DEF RowStandsAt
  <2>9. Values(d, p, types) = Got([i \in 1..n |-> DecodeBind(types[i], wires[i])], p + Len(w))
    BY <1>11, <2>6, <2>8, RowsReadBack
  <2>10. [i \in 1..n |-> DecodeBind(types[i], wires[i])] = Decoded(values)
    BY <1>0, <1>11 DEF Decoded
  <2>11. p + Len(w) = at + Len(row)
    BY <1>9, <2>3
  <2> QED BY <2>3, <2>4, <2>9, <2>10, <2>11
<1> QED BY <1>8, <1>9, <1>10, <1>12

\* The marker of a row three bytes behind the fields of a re-execute is the
\* first there is.
LEMMA MarkerIsFound ==
  ASSUME NEW d \in Seq(Byte), NEW p \in Nat \ {0}, StandsAt(<<0, 0, 0>>, d, p),
         p + 3 \in 1..Len(d), d[p + 3] = RowData
  PROVE  First(d, p, p + 23, LAMBDA i : d[i] = RowData) = p + 3
<1>1. d[p] = 0 /\ d[p + 1] = 0 /\ d[p + 2] = 0
  <2>1. PICK z : z = <<0, 0, 0>>
    OBVIOUS
  <2>2. Len(z) = 3 /\ z[1] = 0 /\ z[2] = 0 /\ z[3] = 0
    BY <2>1
  <2>3. d[p + 1 - 1] = z[1] /\ d[p + 2 - 1] = z[2] /\ d[p + 3 - 1] = z[3]
    BY <2>1, <2>2 DEF StandsAt
  <2>4. p + 1 - 1 = p /\ p + 2 - 1 = p + 1 /\ p + 3 - 1 = p + 2
    OBVIOUS
  <2> QED BY <2>2, <2>3, <2>4
<1>2. PICK found : found = {i \in p..(p + 23) : i \in DOMAIN d /\ d[i] = RowData}
  OBVIOUS
<1>3. PICK m : m = p + 3 /\ m \in Nat
  OBVIOUS
<1>4. m \in found
  <2>1. m \in p..(p + 23) /\ DOMAIN d = 1..Len(d)
    BY <1>3
  <2> QED BY <1>2, <1>3, <2>1
<1>5. \A q \in found : m <= q
  <2> TAKE q \in found
  <2>1. q \in p..(p + 23) /\ d[q] = RowData /\ RowData # 0
    BY <1>2 DEF RowData
  <2>2. q # p /\ q # p + 1 /\ q # p + 2
    BY <1>1, <2>1
  <2> QED BY <1>3, <2>1, <2>2
<1>6. \A q \in found : q \in Nat
  BY <1>2
<1>7. Least(found) = m
  <2>1. found # {}
    BY <1>4
  <2>2. PICK l : l = CHOOSE x \in found : \A q \in found : x <= q
    OBVIOUS
  <2>3. l \in found /\ \A q \in found : l <= q
    BY <1>4, <1>5, <2>2
  <2>4. l = m
    BY <1>3, <1>4, <1>5, <1>6, <2>3
  <2> QED BY <2>1, <2>2, <2>4 DEF Least
<1> QED BY <1>2, <1>3, <1>7 DEF First

\* A re-execute binds the values the client sent, decoded as the types of the
\* Execute it repeats, and asks for as many rows: the fields that lead it are
\* never taken for its row, nor its row for more or fewer values than it has.
THEOREM ReexecutesReadBack ==
  ASSUME NEW request, request.seq \in Byte, request.size \in FourBytes, NEW id \in FourBytes,
         NEW values, values = request.rows[1], Carried(values),
         NEW cached, cached.types = Types(values)
  PROVE  ParseReexecute(<<0, 0>> \o ThinReexecute(request, id), cached)
           = Request(cached.sql, <<Decoded(values)>>, cached.types, request.size, 1)
<1>1. PICK a, b, c, e, z : /\ a = <<0, 0>> /\ b = <<3, Reexec, request.seq>> /\ z = <<0, 0, 0>>
                           /\ c = WriteUb(id) /\ e = WriteUb(request.size)
  OBVIOUS
<1>2. PICK row : row = IF values = <<>> THEN <<>> ELSE RowOf(values)
  OBVIOUS
<1>3. /\ a \in Seq(Byte) /\ b \in Seq(Byte) /\ c \in Seq(Byte) /\ e \in Seq(Byte) /\ z \in Seq(Byte)
      /\ Len(a) = 2 /\ Len(b) = 3 /\ Len(z) = 3 /\ Reexec \in Byte
  <2>1. 0 \in Byte /\ 3 \in Byte /\ Reexec \in Byte
    BY DEF Byte, Reexec
  <2> QED BY <1>1, <2>1, WriteUbBytes
<1>4. row \in Seq(Byte)
  <2>1. <<>> \in Seq(Byte)
    OBVIOUS
  <2> QED BY <1>2, <2>1, RowOfIsRead
<1>5. PICK d, w1, w2, w3, w4 : /\ w1 = Joined(b, c) /\ w2 = Joined(w1, e) /\ w3 = Joined(w2, z)
                               /\ w4 = Joined(w3, row) /\ d = Joined(a, w4)
  OBVIOUS
<1>6. d = <<0, 0>> \o ThinReexecute(request, id)
  BY <1>1, <1>2, <1>5 DEF Joined, ThinReexecute
<1>7. /\ w1 \in Seq(Byte) /\ Len(w1) = 3 + Len(c) /\ Len(c) \in Nat
  <2>1. w1 \in Seq(Byte) /\ Len(w1) = Len(b) + Len(c) /\ Len(c) \in Nat
    BY <1>3, <1>5, JoinedBytes
  <2> QED BY <1>3, <2>1
<1>8. /\ w2 \in Seq(Byte) /\ Len(w2) = 3 + Len(c) + Len(e) /\ Len(e) \in Nat
  <2>1. w2 \in Seq(Byte) /\ Len(w2) = Len(w1) + Len(e) /\ Len(e) \in Nat
    BY <1>3, <1>5, <1>7, JoinedBytes
  <2> QED BY <1>7, <2>1
<1>9. /\ w3 \in Seq(Byte) /\ Len(w3) = 6 + Len(c) + Len(e)
  <2>1. w3 \in Seq(Byte) /\ Len(w3) = Len(w2) + Len(z)
    BY <1>3, <1>5, <1>8, JoinedBytes
  <2> QED BY <1>3, <1>7, <1>8, <2>1
<1>10. w4 \in Seq(Byte) /\ Len(w4) = Len(w3) + Len(row) /\ Len(row) \in Nat
  BY <1>4, <1>5, <1>9, JoinedBytes
<1>11. d \in Seq(Byte) /\ Len(d) = 2 + Len(w4)
  <2>1. d \in Seq(Byte) /\ Len(d) = Len(a) + Len(w4)
    BY <1>3, <1>5, <1>10, JoinedBytes
  <2> QED BY <1>3, <2>1
<1>12. PICK i1, i3, i6, p5, p6, p7 :
          /\ i1 = 1 /\ i3 = i1 + Len(a) /\ i6 = i3 + Len(b) /\ p5 = i6 + Len(c)
          /\ p6 = i3 + Len(w2) /\ p7 = i3 + Len(w3)
  OBVIOUS
<1>13. i3 = 3 /\ i6 = 6 /\ p5 = 6 + Len(c) /\ p6 = p5 + Len(e) /\ p7 = p6 + 3
       /\ p5 = i3 + Len(w1) /\ i1 \in Nat \ {0} /\ i3 \in Nat \ {0} /\ p6 \in Nat \ {0}
  BY <1>3, <1>7, <1>8, <1>9, <1>12
<1>14. StandsAt(a, d, i1) /\ StandsAt(w4, d, i3)
  <2>1. StandsAt(Joined(a, w4), d, i1)
    BY <1>5, <1>11, <1>12, StandsInItself
  <2>2. a \in Seq(Byte) /\ w4 \in Seq(Byte) /\ d \in Seq(Byte)
    BY <1>3, <1>10, <1>11
  <2> QED BY <1>12, <1>13, <2>1, <2>2, PartsOfJoined, SMTT(60)
<1>15. StandsAt(w3, d, i3) /\ StandsAt(row, d, p7) /\ p7 \in Nat \ {0}
  <2>1. StandsAt(Joined(w3, row), d, i3)
    BY <1>5, <1>14
  <2>2. w3 \in Seq(Byte) /\ row \in Seq(Byte) /\ d \in Seq(Byte)
    BY <1>4, <1>9, <1>11
  <2> QED BY <1>12, <1>13, <2>1, <2>2, PartsOfJoined
<1>16. StandsAt(w2, d, i3) /\ StandsAt(z, d, p6)
  <2>1. StandsAt(Joined(w2, z), d, i3)
    BY <1>5, <1>15
  <2>2. w2 \in Seq(Byte) /\ z \in Seq(Byte) /\ d \in Seq(Byte)
    BY <1>3, <1>8, <1>11
  <2> QED BY <1>12, <1>13, <2>1, <2>2, PartsOfJoined
<1>17. StandsAt(w1, d, i3) /\ StandsAt(e, d, p5)
  <2>1. StandsAt(Joined(w1, e), d, i3)
    BY <1>5, <1>16
  <2>2. w1 \in Seq(Byte) /\ e \in Seq(Byte) /\ d \in Seq(Byte)
    BY <1>3, <1>7, <1>11
  <2> QED BY <1>12, <1>13, <2>1, <2>2, PartsOfJoined
<1>18. StandsAt(b, d, i3) /\ StandsAt(c, d, i6)
  <2>1. StandsAt(Joined(b, c), d, i3)
    BY <1>5, <1>17
  <2>2. b \in Seq(Byte) /\ c \in Seq(Byte) /\ d \in Seq(Byte)
    BY <1>3, <1>11
  <2> QED BY <1>12, <1>13, <2>1, <2>2, PartsOfJoined
<1>19. Fields(d, 1, HeadKinds) = Got(<<0, 3, Reexec, request.seq, id, request.size>>, p6)
  <2>1. StandsAt(<<0, 0>>, d, 1) /\ StandsAt(<<3, Reexec, request.seq>>, d, 3)
    BY <1>1, <1>12, <1>13, <1>14, <1>18
  <2>2. StandsAt(WriteUb(id), d, 6) /\ StandsAt(WriteUb(request.size), d, 6 + Len(WriteUb(id)))
    BY <1>1, <1>13, <1>17, <1>18
  <2>3. Reexec \in Byte /\ d \in Seq(Byte)
    BY <1>3, <1>11
  <2>4. 6 + Len(WriteUb(id)) + Len(WriteUb(request.size)) = p6
    BY <1>1, <1>13
  <2> QED BY <2>1, <2>2, <2>3, <2>4, HeadIsRead
<1>20. PICK h : h = Got(<<0, 3, Reexec, request.seq, id, request.size>>, p6)
  OBVIOUS
<1>21. h.r = "ok" /\ h.v[6] = request.size /\ h.at = p6
  BY <1>20 DEF Got
<1>22. Len(Types(values)) = Len(values) /\ Len(values) \in Nat /\ DOMAIN values = 1..Len(values)
       /\ (Len(values) = 0 => Types(values) = <<>> /\ Decoded(values) = <<>>)
       /\ (Types(values) = <<>> => Len(values) = 0)
  <2>1. Len(values) \in Nat /\ DOMAIN values = 1..Len(values)
    BY DEF Carried
  <2>2. PICK n : n = Len(values) /\ n \in Nat
    BY <2>1
  <2>3. Types(values) = [i \in 1..n |-> values[i].type] /\ Decoded(values) = [i \in 1..n |-> DecodeBind(values[i].type, values[i].wire)]
    BY <2>1, <2>2 DEF Types, Decoded
  <2>4. Len(Types(values)) = n
    BY <2>2, <2>3
  <2>5. n = 0 => Types(values) = <<>> /\ Decoded(values) = <<>>
    <3>1. SUFFICES ASSUME n = 0 PROVE Types(values) = <<>> /\ Decoded(values) = <<>>
      OBVIOUS
    <3>2. /\ Types(values) = [i \in 1..0 |-> values[i].type]
          /\ Decoded(values) = [i \in 1..0 |-> DecodeBind(values[i].type, values[i].wire)]
          /\ 1..0 = {}
      BY <2>3, <3>1
    <3> QED BY <3>2
  <2>6. Types(values) = <<>> => n = 0
    BY <2>4
  <2> QED BY <2>1, <2>2, <2>4, <2>5, <2>6
<1>23. CASE cached.types = <<>>
  <2>1. Decoded(values) = <<>>
    BY <1>22, <1>23
  <2>2. ParseReexecute(d, cached) = Request(cached.sql, <<>>, <<>>, h.v[6], 1)
    BY <1>19, <1>20, <1>21, <1>23 DEF ParseReexecute, HeadKinds, Then
  <2>3. \A sql, n : Request(sql, <<>>, <<>>, n, 1) = Request(sql, <<<<>>>>, <<>>, n, 1)
    <3>1. <<<<>>>> # <<>> /\ <<<<>>>>[1] = <<>> /\ ~(1 > 1)
      OBVIOUS
    <3> QED BY <3>1 DEF Request
  <2> QED BY <1>6, <1>21, <1>23, <2>1, <2>2, <2>3
<1>24. CASE cached.types # <<>>
  <2>1. values # <<>>
    <3>1. Len(values) # 0
      BY <1>22, <1>24
    <3> QED BY <3>1
  <2>2. row = RowOf(values)
    BY <1>2, <2>1
  <2>3. /\ p7 \in 1..Len(d) /\ d[p7] = RowData
        /\ Values(d, p7 + 1, Types(values)) = Got(Decoded(values), p7 + Len(row))
    BY <1>11, <1>15, <2>2, RowOfIsRead
  <2>4. First(d, p6, p6 + 23, LAMBDA i : d[i] = RowData) = p7
    BY <1>1, <1>11, <1>13, <1>16, <2>3, MarkerIsFound
  <2>5. PICK f, g : f = Got(<<>>, p7) /\ g = Got(Decoded(values), p7 + Len(row))
    OBVIOUS
  <2>6. f.r = "ok" /\ f.at = p7 /\ g.r = "ok" /\ g.v = Decoded(values)
    BY <2>5 DEF Got
  <2>7. Found(p7) = f
    <3>1. p7 # 0
      BY <1>15
    <3> QED BY <2>5, <3>1 DEF Found
  <2>8. ParseReexecute(d, cached) = Request(cached.sql, <<g.v>>, cached.types, h.v[6], 1)
    BY <1>19, <1>20, <1>21, <1>24, <2>3, <2>4, <2>5, <2>6, <2>7 DEF ParseReexecute, HeadKinds, Then
  <2> QED BY <1>6, <1>21, <2>6, <2>8
<1> QED BY <1>23, <1>24

-----------------------------------------------------------------------------
(* Single fields where their bytes are. *)

\* Four bytes that stand in a message are those of the four places.
LEMMA FourStand ==
  ASSUME NEW w, NEW x, NEW y, NEW z, NEW d \in Seq(Byte), NEW p \in Nat \ {0}, StandsAt(<<w, x, y, z>>, d, p)
  PROVE  /\ p + 3 <= Len(d) /\ Len(d) \in Nat
         /\ d[p] = w /\ d[p + 1] = x /\ d[p + 2] = y /\ d[p + 3] = z
<1>1. PICK t : t = <<w, x, y, z>>
  OBVIOUS
<1>2. Len(t) = 4 /\ t[1] = w /\ t[2] = x /\ t[3] = y /\ t[4] = z
  BY <1>1
<1>3. p + 4 - 1 <= Len(d) /\ \A i \in 1..4 : d[p + i - 1] = t[i]
  BY <1>1, <1>2 DEF StandsAt
<1>4. d[p + 1 - 1] = t[1] /\ d[p + 2 - 1] = t[2] /\ d[p + 3 - 1] = t[3] /\ d[p + 4 - 1] = t[4]
  BY <1>3
<1>5. p + 1 - 1 = p /\ p + 2 - 1 = p + 1 /\ p + 3 - 1 = p + 2 /\ p + 4 - 1 = p + 3 /\ Len(d) \in Nat
  OBVIOUS
<1> QED BY <1>2, <1>3, <1>4, <1>5

\* Three are those of the three places.
LEMMA ThreeStand ==
  ASSUME NEW x, NEW y, NEW z, NEW d \in Seq(Byte), NEW p \in Nat \ {0}, StandsAt(<<x, y, z>>, d, p)
  PROVE  /\ p + 2 <= Len(d) /\ Len(d) \in Nat
         /\ d[p] = x /\ d[p + 1] = y /\ d[p + 2] = z
<1>1. PICK t : t = <<x, y, z>>
  OBVIOUS
<1>2. Len(t) = 3 /\ t[1] = x /\ t[2] = y /\ t[3] = z
  BY <1>1
<1>3. p + 3 - 1 <= Len(d) /\ \A i \in 1..3 : d[p + i - 1] = t[i]
  BY <1>1, <1>2 DEF StandsAt
<1>4. d[p + 1 - 1] = t[1] /\ d[p + 2 - 1] = t[2] /\ d[p + 3 - 1] = t[3]
  BY <1>3
<1>5. p + 1 - 1 = p /\ p + 2 - 1 = p + 1 /\ p + 3 - 1 = p + 2 /\ Len(d) \in Nat
  OBVIOUS
<1> QED BY <1>2, <1>3, <1>4, <1>5

\* Two are those of the two places.
LEMMA TwoStand ==
  ASSUME NEW x, NEW y, NEW d \in Seq(Byte), NEW p \in Nat \ {0}, StandsAt(<<x, y>>, d, p)
  PROVE  p + 1 <= Len(d) /\ Len(d) \in Nat /\ d[p] = x /\ d[p + 1] = y
<1>1. PICK t : t = <<x, y>>
  OBVIOUS
<1>2. Len(t) = 2 /\ t[1] = x /\ t[2] = y
  BY <1>1
<1>3. p + 2 - 1 <= Len(d) /\ \A i \in 1..2 : d[p + i - 1] = t[i]
  BY <1>1, <1>2 DEF StandsAt
<1>4. d[p + 1 - 1] = t[1] /\ d[p + 2 - 1] = t[2]
  BY <1>3
<1>5. p + 1 - 1 = p /\ p + 2 - 1 = p + 1 /\ Len(d) \in Nat
  OBVIOUS
<1> QED BY <1>2, <1>3, <1>4, <1>5

\* A byte is a field of one byte.
LEMMA ByteField ==
  ASSUME NEW d \in Seq(Byte), NEW p \in 1..Len(d), NEW x, d[p] = x
  PROVE  FieldAt("u8", x, d, p, p + 1)
<1>1. StandsAt(<<x>>, d, p)
  BY ByteStands
<1>2. WriteField("u8", x) = <<x>> /\ Len(<<x>>) = 1 /\ x \in FieldValues("u8")
  BY DEF WriteField, FieldValues
<1> QED BY <1>1, <1>2 DEF FieldAt

\* A zero is a field of one byte, of most kinds.
LEMMA ZeroFieldAt ==
  ASSUME NEW kind \in {"u8", "ub2", "ub4", "ub8"}, NEW d \in Seq(Byte), NEW p \in 1..Len(d), d[p] = 0
  PROVE  FieldAt(kind, 0, d, p, p + 1)
<1>1. StandsAt(<<0>>, d, p)
  BY ByteStands
<1>2. WriteField(kind, 0) = <<0>> /\ Len(<<0>>) = 1 /\ 0 \in FieldValues(kind)
  BY ZeroField
<1> QED BY <1>1, <1>2 DEF FieldAt

\* A compact integer is a field of as many bytes as are written of it.
LEMMA UbField ==
  ASSUME NEW n \in FourBytes, NEW d \in Seq(Byte), NEW p \in Nat \ {0}, StandsAt(WriteUb(n), d, p)
  PROVE  FieldAt("ub4", n, d, p, p + Len(WriteUb(n)))
BY DEF FieldAt, WriteField, FieldValues

\* Places that hold zeros hold that many.
LEMMA ZerosThere ==
  ASSUME NEW n \in Nat, NEW d \in Seq(Byte), NEW p \in Nat \ {0}, p + n - 1 <= Len(d),
         \A i \in 1..n : d[p + i - 1] = 0
  PROVE  StandsAt(Zeros(n), d, p)
<1>1. PICK z : z = Zeros(n)
  OBVIOUS
<1>2. Len(z) = n /\ \A i \in 1..n : z[i] = 0
  BY <1>1 DEF Zeros
<1> QED BY <1>1, <1>2 DEF StandsAt

-----------------------------------------------------------------------------
(* The descriptors of the binds. *)

\* A descriptor that a thin driver wrote is read field by field, up to its
\* end, and its type is the first of them.
LEMMA DescriptorIsRead ==
  ASSUME NEW type \in Byte, NEW d \in Seq(Byte), NEW p \in Nat \ {0}, StandsAt(ThinDescriptor(type), d, p)
  PROVE  /\ ThinDescriptor(type) \in Seq(Byte) /\ Len(ThinDescriptor(type)) \in Nat \ {0}
         /\ p \in 1..Len(d) /\ d[p] = type
         /\ \E v, q : /\ Fields(d, p, DescriptorHead) = Got(v, q) /\ v[1] = type /\ v[8] = 0
                      /\ \E u : Fields(d, q, DescriptorTail(0)) = Got(u, p + Len(ThinDescriptor(type)))
<1>1a. PICK a : a = <<type, 1, 0, 0>>
  OBVIOUS
<1>2. PICK n : n = 4000 /\ n \in FourBytes
  <2>1. 4000 \in FourBytes
    BY SMT DEF FourBytes
  <2> QED BY <2>1
<1>1b. PICK b, c, e : b = WriteUb(n) /\ c = <<0, 0, 0, 0>> /\ e = <<0, 1, 0, 0>>
  OBVIOUS
<1>1. a = <<type, 1, 0, 0>> /\ b = WriteUb(n) /\ c = <<0, 0, 0, 0>> /\ e = <<0, 1, 0, 0>>
  BY <1>1a, <1>1b
<1>3. a \in Seq(Byte) /\ b \in Seq(Byte) /\ c \in Seq(Byte) /\ e \in Seq(Byte) /\ Len(a) = 4 /\ Len(c) = 4 /\ Len(e) = 4
  <2>1. 0 \in Byte /\ 1 \in Byte
    BY DEF Byte
  <2> QED BY <1>1, <1>2, <2>1, WriteUbBytes
<1>4. PICK ab, abc, w : ab = Joined(a, b) /\ abc = Joined(ab, c) /\ w = Joined(abc, e)
  OBVIOUS
<1>5. w = ThinDescriptor(type)
  BY <1>1, <1>2, <1>4, SMTT(60) DEF ThinDescriptor, Joined
<1>6. ab \in Seq(Byte) /\ Len(ab) = 4 + Len(b) /\ Len(b) \in Nat
  <2>1. ab \in Seq(Byte) /\ Len(ab) = Len(a) + Len(b) /\ Len(b) \in Nat
    BY <1>3, <1>4, JoinedBytes
  <2> QED BY <1>3, <2>1
<1>7. abc \in Seq(Byte) /\ Len(abc) = 8 + Len(b)
  <2>1. abc \in Seq(Byte) /\ Len(abc) = Len(ab) + Len(c)
    BY <1>3, <1>4, <1>6, JoinedBytes
  <2> QED BY <1>3, <1>6, <2>1
<1>8. w \in Seq(Byte) /\ Len(w) = 12 + Len(b)
  <2>1. w \in Seq(Byte) /\ Len(w) = Len(abc) + Len(e)
    BY <1>3, <1>4, <1>7, JoinedBytes
  <2> QED BY <1>3, <1>6, <1>7, <2>1
<1>9. PICK p4, r, s : p4 = p + Len(a) /\ r = p + Len(ab) /\ s = p + Len(abc)
  OBVIOUS
<1>10. p4 = p + 4 /\ r = p4 + Len(b) /\ s = r + 4 /\ p4 \in Nat \ {0} /\ r \in Nat \ {0} /\ s \in Nat \ {0}
  BY <1>3, <1>6, <1>7, <1>9
<1>11. StandsAt(abc, d, p) /\ StandsAt(e, d, s)
  <2>1. StandsAt(Joined(abc, e), d, p)
    BY <1>4, <1>5
  <2>2. abc \in Seq(Byte) /\ e \in Seq(Byte)
    BY <1>3, <1>7
  <2> QED BY <1>9, <2>1, <2>2, PartsOfJoined
<1>12. StandsAt(ab, d, p) /\ StandsAt(c, d, r)
  <2>1. StandsAt(Joined(ab, c), d, p)
    BY <1>4, <1>11
  <2>2. ab \in Seq(Byte) /\ c \in Seq(Byte)
    BY <1>3, <1>6
  <2> QED BY <1>9, <2>1, <2>2, PartsOfJoined
<1>13. StandsAt(a, d, p) /\ StandsAt(b, d, p4)
  <2>1. StandsAt(Joined(a, b), d, p)
    BY <1>4, <1>12
  <2>2. a \in Seq(Byte) /\ b \in Seq(Byte)
    BY <1>3
  <2> QED BY <1>9, <2>1, <2>2, PartsOfJoined
<1>14. d[p] = type /\ d[p + 1] = 1 /\ d[p + 2] = 0 /\ d[p + 3] = 0
  BY <1>1, <1>13, FourStand
<1>15. d[r] = 0 /\ d[r + 1] = 0 /\ d[r + 2] = 0 /\ d[r + 3] = 0
  BY <1>1, <1>10, <1>12, FourStand
<1>16. d[s] = 0 /\ d[s + 1] = 1 /\ d[s + 2] = 0 /\ d[s + 3] = 0 /\ s + 3 <= Len(d) /\ Len(d) \in Nat
  BY <1>1, <1>10, <1>11, FourStand
<1>17. PICK p1, p2, p3 : p1 = p + 1 /\ p2 = p + 2 /\ p3 = p + 3
  OBVIOUS
<1>18. /\ p1 = p + 1 /\ p2 = p1 + 1 /\ p3 = p2 + 1 /\ p4 = p3 + 1
       /\ p \in 1..Len(d) /\ p1 \in 1..Len(d) /\ p2 \in 1..Len(d) /\ p3 \in 1..Len(d)
       /\ p1 \in Nat \ {0} /\ p2 \in Nat \ {0} /\ p3 \in Nat \ {0}
  BY <1>6, <1>10, <1>16, <1>17, SMTT(60)
<1>19. d[p1] = 1 /\ d[p2] = 0 /\ d[p3] = 0
  BY <1>14, <1>17
<1>20. PICK v, q : /\ Fields(d, p, DescriptorHead) = Got(v, q) /\ v[1] = type /\ v[8] = 0 /\ q = r + 3
  <2>1a. PICK vs, ats : vs = <<type, 1, 0, 0, n>> /\ ats = <<p, p1, p2, p3, p4, r>>
    OBVIOUS
  <2>1. vs = <<type, 1, 0, 0, n>> /\ ats = <<p, p1, p2, p3, p4, r>>
    BY <2>1a
  <2>2. /\ ats[1] = p /\ ats[2] = p1 /\ ats[3] = p2 /\ ats[4] = p3 /\ ats[5] = p4 /\ ats[6] = r
        /\ vs[1] = type /\ vs[2] = 1 /\ vs[3] = 0 /\ vs[4] = 0 /\ vs[5] = n
    BY <2>1
  <2>3. PICK kinds : kinds = DescriptorHead
    OBVIOUS
  <2>4. /\ kinds \in Seq(FieldKinds) /\ Len(kinds) = 8
        /\ kinds[1] = "u8" /\ kinds[2] = "u8" /\ kinds[3] = "u8" /\ kinds[4] = "u8" /\ kinds[5] = "ub4"
        /\ kinds[6] = "ub4" /\ kinds[7] = "ub8" /\ kinds[8] = "ub4"
    BY <2>3 DEF DescriptorHead, FieldKinds
  <2>5. /\ FieldAt("u8", type, d, p, p1) /\ FieldAt("u8", 1, d, p1, p2) /\ FieldAt("u8", 0, d, p2, p3)
        /\ FieldAt("u8", 0, d, p3, p4)
    BY <1>14, <1>18, <1>19, ByteField
  <2>6. FieldAt("ub4", n, d, p4, r)
    BY <1>1, <1>2, <1>10, <1>13, UbField
  <2>7. \A i \in 1..(5 + 1) : ats[i] \in Nat \ {0}
    <3>1. \A i \in 1..(5 + 1) : i \in {1, 2, 3, 4, 5, 6}
      OBVIOUS
    <3> QED BY <1>10, <1>18, <2>2, <3>1
  <2>8. \A i \in 1..5 : FieldAt(kinds[i], vs[i], d, ats[i], ats[i + 1])
    <3> TAKE i \in 1..5
    <3>1. i \in {1, 2, 3, 4, 5}
      OBVIOUS
    <3> QED BY <2>2, <2>4, <2>5, <2>6, <3>1
  <2>9. \A i \in (5 + 1)..8 : kinds[i] \in {"u8", "ub2", "ub4", "ub8"}
    <3>1. \A i \in (5 + 1)..8 : i \in {6, 7, 8}
      OBVIOUS
    <3> QED BY <2>4, <3>1
  <2>10. StandsAt(Zeros(8 - 5), d, ats[5 + 1])
    <3>1. 8 - 5 = 3 /\ 5 + 1 = 6 /\ r + 3 - 1 <= Len(d)
      BY <1>10, <1>16
    <3>2. \A i \in 1..3 : d[r + i - 1] = 0
      <4> TAKE i \in 1..3
      <4>1. i \in {1, 2, 3} /\ r + 1 - 1 = r /\ r + 2 - 1 = r + 1 /\ r + 3 - 1 = r + 2
        BY <1>10
      <4> QED BY <1>15, <4>1
    <3>3. StandsAt(Zeros(3), d, r)
      BY <1>10, <3>1, <3>2, ZerosThere
    <3> QED BY <2>2, <3>1, <3>3
  <2>11. RunStands(kinds, 8, 5, vs, ats, d)
    BY <2>4, <2>7, <2>8, <2>9, <2>10 DEF RunStands
  <2>12. Fields(d, ats[1], kinds) = Got(RunValues(vs, 5, 8), ats[5 + 1] + 8 - 5)
    BY <2>11, RunIsRead
  <2>13. PICK v : v = RunValues(vs, 5, 8)
    OBVIOUS
  <2>14. v[1] = type /\ v[8] = 0
    <3>1. 1 \in 1..8 /\ 8 \in 1..8 /\ 1 <= 5 /\ ~(8 <= 5)
      OBVIOUS
    <3> QED BY <2>2, <2>13, <3>1 DEF RunValues
  <2>15. ats[5 + 1] + 8 - 5 = r + 3
    <3>1. 5 + 1 = 6
      OBVIOUS
    <3> QED BY <1>10, <2>2, <3>1
  <2>16. PICK q : q = r + 3
    OBVIOUS
  <2>17. Fields(d, p, DescriptorHead) = Got(v, q)
    BY <2>2, <2>3, <2>12, <2>13, <2>15, <2>16
  <2> QED BY <2>14, <2>16, <2>17
<1>21. PICK u : Fields(d, q, DescriptorTail(0)) = Got(u, p + Len(w))
  <2>1. PICK s1, s2 : s1 = s + 1 /\ s2 = s + 2
    OBVIOUS
  <2>2. /\ s = q + 1 /\ s1 = s + 1 /\ s2 = s1 + 1 /\ q \in Nat \ {0} /\ s1 \in Nat \ {0} /\ s2 \in Nat \ {0}
        /\ q \in 1..Len(d) /\ s \in 1..Len(d) /\ s1 \in 1..Len(d)
    BY <1>10, <1>16, <1>20, <2>1, SMTT(60)
  <2>3. d[q] = 0 /\ d[s] = 0 /\ d[s1] = 1 /\ d[s2] = 0 /\ d[s2 + 1] = 0
    <3>1. s + 3 = s2 + 1
      BY <1>10, <2>1
    <3> QED BY <1>15, <1>16, <1>20, <2>1, <3>1
  <2>4. PICK kinds : kinds = DescriptorTail(0)
    OBVIOUS
  <2>5. /\ kinds \in Seq(FieldKinds) /\ Len(kinds) = 5
        /\ kinds[1] = "ub2" /\ kinds[2] = "ub2" /\ kinds[3] = "u8" /\ kinds[4] = "ub4" /\ kinds[5] = "ub4"
    <3>1. kinds = <<"ub2", "ub2", "u8", "ub4", "ub4">>
      BY <2>4 DEF DescriptorTail
    <3> QED BY <3>1 DEF FieldKinds
  <2>6. PICK vs, ats : vs = <<0, 0, 1>> /\ ats = <<q, s, s1, s2>>
    OBVIOUS
  <2>7. /\ ats[1] = q /\ ats[2] = s /\ ats[3] = s1 /\ ats[4] = s2 /\ vs[1] = 0 /\ vs[2] = 0 /\ vs[3] = 1
    BY <2>6
  <2>8. FieldAt("ub2", 0, d, q, s) /\ FieldAt("ub2", 0, d, s, s1) /\ FieldAt("u8", 1, d, s1, s2)
    BY <2>2, <2>3, ByteField, ZeroFieldAt
  <2>9. \A i \in 1..(3 + 1) : ats[i] \in Nat \ {0}
    <3>1. \A i \in 1..(3 + 1) : i \in {1, 2, 3, 4}
      OBVIOUS
    <3> QED BY <1>10, <2>2, <2>7, <3>1
  <2>10. \A i \in 1..3 : FieldAt(kinds[i], vs[i], d, ats[i], ats[i + 1])
    <3> TAKE i \in 1..3
    <3>1. i \in {1, 2, 3}
      OBVIOUS
    <3> QED BY <2>5, <2>7, <2>8, <3>1
  <2>11. \A i \in (3 + 1)..5 : kinds[i] \in {"u8", "ub2", "ub4", "ub8"}
    <3>1. \A i \in (3 + 1)..5 : i \in {4, 5}
      OBVIOUS
    <3> QED BY <2>5, <3>1
  <2>12. StandsAt(Zeros(5 - 3), d, ats[3 + 1])
    <3>1. 5 - 3 = 2 /\ 3 + 1 = 4 /\ s2 + 2 - 1 <= Len(d)
      BY <1>16, <2>1, <1>10
    <3>2. \A i \in 1..2 : d[s2 + i - 1] = 0
      <4> TAKE i \in 1..2
      <4>1. i \in {1, 2} /\ s2 + 1 - 1 = s2 /\ s2 + 2 - 1 = s2 + 1
        BY <2>2
      <4> QED BY <2>3, <4>1
    <3>3. StandsAt(Zeros(2), d, s2)
      BY <2>2, <3>1, <3>2, ZerosThere
    <3> QED BY <2>7, <3>1, <3>3
  <2>13. RunStands(kinds, 5, 3, vs, ats, d)
    BY <2>5, <2>9, <2>10, <2>11, <2>12 DEF RunStands
  <2>14. Fields(d, ats[1], kinds) = Got(RunValues(vs, 3, 5), ats[3 + 1] + 5 - 3)
    BY <2>13, RunIsRead
  <2>15. ats[3 + 1] + 5 - 3 = p + Len(w)
    <3>1. 3 + 1 = 4
      OBVIOUS
    <3> QED BY <1>6, <1>8, <1>10, <2>1, <2>7, <3>1, SMTT(60)
  <2>16. PICK u : u = RunValues(vs, 3, 5)
    OBVIOUS
  <2> QED BY <2>4, <2>7, <2>14, <2>15, <2>16
<1> QED BY <1>5, <1>6, <1>8, <1>14, <1>18, <1>20, <1>21, SMTT(60)

\* What holds at the beginning, and behind everything it holds at, holds up to
\* the end.
LEMMA UpToTheEnd ==
  ASSUME NEW m \in Nat, NEW T, 0 \in T, \A k \in 1..m : k - 1 \in T => k \in T
  PROVE  \A k \in 0..m : k \in T
<1> DEFINE Bad == {k \in Nat : k <= m /\ k \notin T}
<1>1. Bad = {}
  <2>1. SUFFICES ASSUME Bad # {} PROVE FALSE
    OBVIOUS
  <2>2. PICK x \in Bad : \A y \in Bad : x <= y
    <3>1. Bad \in SUBSET Nat
      OBVIOUS
    <3> HIDE DEF Bad
    <3> QED BY <2>1, <3>1, LeastNat
  <2>3. x \in 1..m /\ x \notin T
    <3>1. x \in Nat /\ x <= m /\ x \notin T
      BY <2>2
    <3>2. x # 0
      BY <3>1
    <3> QED BY <3>1, <3>2
  <2>4. x - 1 \in Nat /\ x - 1 <= m /\ ~(x <= x - 1)
    BY <2>3
  <2>5. x - 1 \in T
    BY <2>2, <2>4
  <2> QED BY <2>3, <2>5
<1>2. \A k \in 0..m : k \in Nat /\ k <= m
  OBVIOUS
<1> QED BY <1>1, <1>2

Settled(f, k, m, x) == f[k] = x /\ \A n \in (k + 1)..m : f[n - 1] = x => f[n] = x

\* What is reached at some step and never left is there in the end.
LEMMA StaysSo ==
  ASSUME NEW f, NEW m \in Nat, NEW k \in 0..m, NEW x, Settled(f, k, m, x)
  PROVE  f[m] = x
<1>0. f[k] = x /\ \A n \in (k + 1)..m : f[n - 1] = x => f[n] = x
  BY DEF Settled
<1> DEFINE T == {n \in Nat : n >= k => f[n] = x}
<1>1. 0 \in T
  <2>1. 0 >= k => k = 0
    OBVIOUS
  <2> QED BY <1>0, <2>1
<1>2. ASSUME NEW n \in 1..m, n - 1 \in T PROVE n \in T
  <2>1. SUFFICES ASSUME n >= k PROVE f[n] = x
    OBVIOUS
  <2>2. CASE n = k
    BY <1>0, <2>2
  <2>3. CASE n # k
    <3>1. n \in (k + 1)..m /\ n - 1 >= k
      BY <2>1, <2>3
    <3>2. f[n - 1] = x
      BY <1>2, <3>1
    <3> QED BY <1>0, <3>1, <3>2
  <2> QED BY <2>2, <2>3
<1> HIDE DEF T
<1>3. \A n \in 0..m : n \in T
  BY <1>1, <1>2, UpToTheEnd
<1>4. m \in 0..m /\ m >= k
  OBVIOUS
<1> QED BY <1>3, <1>4 DEF T

\* The beginning of a sequence, one item longer.
LEMMA OneLonger ==
  ASSUME NEW S, NEW values \in Seq(S), NEW k \in Nat, k + 1 <= Len(values)
  PROVE  /\ SubSeq(values, 1, k) \in Seq(S) /\ Len(SubSeq(values, 1, k)) = k
         /\ Append(SubSeq(values, 1, k), values[k + 1]) = SubSeq(values, 1, k + 1)
<1>1. PICK n : n = k + 1 /\ n - 1 = k /\ n \in 1..Len(values) /\ 1 \in 1..Len(values)
  OBVIOUS
<1>2. SubSeq(values, 1, n) = SubSeq(values, 1, n - 1) \o <<values[n]>>
  BY <1>1, SubSeqRecursiveSecond
<1>3. PICK s : s = SubSeq(values, 1, k)
  OBVIOUS
<1>4. s \in Seq(S) /\ Len(s) = k
  <2>1. \A i \in 1..k : values[i] \in S
    OBVIOUS
  <2> QED BY <1>3, <2>1, SubSeqProperties
<1>5. values[n] \in S
  BY <1>1
<1>6. Append(s, values[n]) = s \o <<values[n]>>
  BY <1>4, <1>5, AppendIsConcat
<1> QED BY <1>1, <1>2, <1>3, <1>4, <1>6

Descr(f, d, at, m) == f = [n \in 0..m |-> IF n = 0 THEN NoDescriptors(at) ELSE OneDescriptor(f[n - 1], d, FALSE)]

\* The states of reading descriptor by descriptor exist.
LEMMA DescrExist ==
  ASSUME NEW d, NEW at, NEW m \in Nat
  PROVE  \E f : Descr(f, d, at, m)
<1> DEFINE Bad == {k \in Nat : ~\E f : Descr(f, d, at, k)}
<1>1. SUFFICES ASSUME Bad # {} PROVE FALSE
  OBVIOUS
<1>2. PICK x \in Bad : \A y \in Bad : x <= y
  <2>1. Bad \in SUBSET Nat
    OBVIOUS
  <2> HIDE DEF Bad
  <2> QED BY <1>1, <2>1, LeastNat
<1>3. CASE x = 0
  <2>1. Descr([k \in 0..0 |-> NoDescriptors(at)], d, at, 0)
    BY DEF Descr
  <2> QED BY <1>2, <1>3, <2>1
<1>4. CASE x # 0
  <2>1. x - 1 \in Nat /\ x - 1 \notin Bad
    BY <1>2, <1>4
  <2>2. PICK f : Descr(f, d, at, x - 1)
    BY <2>1
  <2>3. PICK g : g = [k \in 0..x |-> IF k # x THEN f[k] ELSE OneDescriptor(f[x - 1], d, FALSE)]
    OBVIOUS
  <2>4. ASSUME NEW k \in 0..x
        PROVE  g[k] = IF k = 0 THEN NoDescriptors(at) ELSE OneDescriptor(g[k - 1], d, FALSE)
    <3>1. CASE k = x
      <4>1. x - 1 \in 0..x /\ x - 1 # x
        BY <2>1
      <4>2. g[x - 1] = f[x - 1] /\ g[x] = OneDescriptor(f[x - 1], d, FALSE)
        BY <2>3, <4>1
      <4> QED BY <1>4, <3>1, <4>2
    <3>2. CASE k # x
      <4>1. k \in 0..(x - 1) /\ (k # 0 => k - 1 \in 0..x /\ k - 1 # x)
        BY <1>2, <3>2
      <4>2. f[k] = IF k = 0 THEN NoDescriptors(at) ELSE OneDescriptor(f[k - 1], d, FALSE)
        BY <2>2, <4>1 DEF Descr
      <4>3. g[k] = f[k] /\ (k # 0 => g[k - 1] = f[k - 1])
        BY <2>3, <3>2, <4>1
      <4> QED BY <4>2, <4>3
    <3> QED BY <3>1, <3>2
  <2>5. Descr(g, d, at, x)
    BY <2>3, <2>4 DEF Descr
  <2> QED BY <1>2, <2>5
<1> QED BY <1>3, <1>4

\* Descriptors are read one behind the other.
LEMMA DescrIs ==
  ASSUME NEW d, NEW at, Len(d) \in Nat
  PROVE  \E f : /\ Descriptors(d, at, FALSE) = f[Len(d)]
                /\ f[0] = NoDescriptors(at)
                /\ \A n \in 1..Len(d) : f[n] = OneDescriptor(f[n - 1], d, FALSE)
<1> DEFINE m == Len(d)
           f == CHOOSE g : g = [n \in 0..m |-> IF n = 0 THEN NoDescriptors(at) ELSE OneDescriptor(g[n - 1], d, FALSE)]
<1>1. Descriptors(d, at, FALSE) = f[m]
  BY DEF Descriptors
<1>2. \E g : g = [n \in 0..m |-> IF n = 0 THEN NoDescriptors(at) ELSE OneDescriptor(g[n - 1], d, FALSE)]
  <2>1. \E g : Descr(g, d, at, m)
    BY DescrExist
  <2> QED BY <2>1 DEF Descr
<1>3. f = [n \in 0..m |-> IF n = 0 THEN NoDescriptors(at) ELSE OneDescriptor(f[n - 1], d, FALSE)]
  BY <1>2
<1>4. m \in Nat
  OBVIOUS
<1> HIDE DEF f, m
<1>5. f[0] = NoDescriptors(at)
  <2>1. 0 \in 0..m
    BY <1>4
  <2> QED BY <1>3, <2>1
<1>6. ASSUME NEW n \in 1..m
      PROVE  f[n] = OneDescriptor(f[n - 1], d, FALSE)
  <2>1. n \in 0..m /\ n # 0
    BY <1>4
  <2> QED BY <1>3, <2>1
<1> QED BY <1>1, <1>5, <1>6 DEF m

\* One descriptor more, of a type that is not taken for the marker of a row.
LEMMA OneDescriptorMore ==
  ASSUME NEW d \in Seq(Byte), NEW p \in Nat \ {0}, NEW type \in Byte, type # RowData, NEW had,
         ~(Len(had) >= MaxDescriptors), StandsAt(ThinDescriptor(type), d, p)
  PROVE  OneDescriptor(Got(Known(had, FALSE, FALSE), p), d, FALSE)
           = Got(Known(Append(had, type), FALSE, FALSE), p + Len(ThinDescriptor(type)))
<1>1. p \in 1..Len(d) /\ d[p] = type
  BY DescriptorIsRead
<1>2. PICK v, q : /\ Fields(d, p, DescriptorHead) = Got(v, q) /\ v[1] = type /\ v[8] = 0
                  /\ \E u : Fields(d, q, DescriptorTail(0)) = Got(u, p + Len(ThinDescriptor(type)))
  BY DescriptorIsRead
<1>3. PICK u : Fields(d, q, DescriptorTail(0)) = Got(u, p + Len(ThinDescriptor(type)))
  BY <1>2
<1>4. PICK end, s : end = p + Len(ThinDescriptor(type)) /\ s = Known(had, FALSE, FALSE)
  OBVIOUS
<1>6. s.types = had /\ ~s.ended
  BY <1>4 DEF Known
<1>7. PICK g : g = Got(s, p)
  OBVIOUS
<1>8. g.r = "ok" /\ g.v = s /\ g.at = p
  BY <1>7 DEF Got
<1>9. PICK h : h = Got(v, q)
  OBVIOUS
<1>10. h.r = "ok" /\ h.v = v /\ h.at = q
  BY <1>9 DEF Got
<1>11. PICK e : e = Got(u, end)
  OBVIOUS
<1>12. e.r = "ok" /\ e.v = u /\ e.at = end
  BY <1>11 DEF Got
<1>13. ~(g.at > Len(d)) /\ d[g.at] # RowData /\ ~(Len(g.v.types) >= MaxDescriptors)
  BY <1>1, <1>6, <1>8
<1>14. PICK z : z = Got(Known(Append(had, type), FALSE, FALSE), end)
  OBVIOUS
<1>15. OneDescriptor(g, d, FALSE)
         = Then(Fields(d, g.at, DescriptorHead), LAMBDA head :
           Then(Fields(d, head.at, DescriptorTail(head.v[8])), LAMBDA tail :
             Got(Known(Append(g.v.types, head.v[1]), FALSE, FALSE), tail.at)))
  BY <1>6, <1>8, <1>13 DEF OneDescriptor
<1>16. Fields(d, g.at, DescriptorHead) = h
  BY <1>2, <1>8, <1>9
<1>17. Fields(d, h.at, DescriptorTail(h.v[8])) = e
  BY <1>2, <1>3, <1>4, <1>10, <1>11
<1>18. OneDescriptor(g, d, FALSE) = Got(Known(Append(g.v.types, h.v[1]), FALSE, FALSE), e.at)
  BY <1>10, <1>12, <1>15, <1>16, <1>17 DEF Then
<1>19. OneDescriptor(g, d, FALSE) = z
  BY <1>2, <1>6, <1>8, <1>10, <1>12, <1>14, <1>18
<1> QED BY <1>4, <1>6, <1>7, <1>14, <1>19

\* The descriptors of some binds, as a thin driver writes them.
DescribedAs(types) == [i \in 1..Len(types) |-> ThinDescriptor(types[i])]

\* What the strict reader makes of descriptors: they end at the marker of a
\* row, or with the message.
StrictTypes(d, at) == Descriptors(d, at, FALSE)

AtRow(types, at) == Got(Known(types, TRUE, TRUE), at)

Bare(types, at) == Got(Known(types, FALSE, FALSE), at)

\* The descriptors of all binds are read, each for its type, as far as the
\* marker of the first row, or the end of a request that has none.
LEMMA DescriptorsAreRead ==
  ASSUME NEW d \in Seq(Byte), NEW p \in Nat \ {0}, NEW q, NEW types \in Seq(Byte),
         ~(Len(types) > MaxDescriptors), \A i \in 1..Len(types) : types[i] # RowData,
         EachStands(DescribedAs(types), d, p, q)
  PROVE  /\ q \in 1..Len(d) /\ d[q] = RowData =>
              StrictTypes(d, p) = AtRow(types, q + 1)
         /\ q = Len(d) + 1 => StrictTypes(d, p) = Bare(types, q)
<1>a. PICK n : n = Len(types) /\ n \in Nat
  OBVIOUS
<1>b. PICK m : m = Len(d) /\ m \in Nat
  OBVIOUS
<1>0. n = Len(types) /\ m = Len(d) /\ n \in Nat /\ m \in Nat
  BY <1>a, <1>b
<1>1. PICK ws : ws = DescribedAs(types)
  OBVIOUS
<1>2. Len(ws) = n /\ \A i \in 1..n : ws[i] = ThinDescriptor(types[i]) /\ types[i] \in Byte
  BY <1>0, <1>1 DEF DescribedAs
<1>3. PICK ats : /\ BehindEach(ats, ws, p)
                 /\ \A i \in 1..Len(ws) : StandsAt(ws[i], d, ats[i])
                 /\ ats[Len(ws) + 1] = q
  BY <1>1 DEF EachStands
<1>4. /\ ats[1] = p /\ ats[n + 1] = q /\ \A i \in 1..(n + 1) : ats[i] \in Nat \ {0}
      /\ \A i \in 1..n : ats[i + 1] = ats[i] + Len(ws[i]) /\ StandsAt(ws[i], d, ats[i])
  BY <1>2, <1>3 DEF BehindEach
<1>5. PICK f : /\ Descriptors(d, p, FALSE) = f[Len(d)]
               /\ f[0] = NoDescriptors(p)
               /\ \A k \in 1..Len(d) : f[k] = OneDescriptor(f[k - 1], d, FALSE)
  <2>1. Len(d) \in Nat
    OBVIOUS
  <2> QED BY <2>1, DescrIs, ZenonT(60)
<1>6. MaxDescriptors \in Nat
  BY DEF MaxDescriptors
<1> DEFINE T == {k \in Nat : /\ k <= m /\ p + k <= ats[k + 1]
                             /\ f[k] = Got(Known(SubSeq(types, 1, k), FALSE, FALSE), ats[k + 1])}
<1>7. 0 \in T
  <2>1. SubSeq(types, 1, 0) = <<>>
    BY SubSeqEmpty
  <2>2. 0 + 1 = 1 /\ p + 0 = p /\ 0 <= m /\ p <= p
    BY <1>0
  <2>3. f[0] = Got(Known(<<>>, FALSE, FALSE), p)
    BY <1>5 DEF NoDescriptors, Known
  <2> QED BY <1>4, <2>1, <2>2, <2>3
<1>8. ASSUME NEW k \in 1..n, k - 1 \in T
      PROVE  k \in T
  <2>1. PICK j, at, type, had : /\ j = k - 1 /\ at = ats[k] /\ type = types[k] /\ had = SubSeq(types, 1, j)
    OBVIOUS
  <2>2. j \in Nat /\ j + 1 = k /\ k <= Len(types) /\ k \in 1..(n + 1) /\ k \in Nat /\ j + 1 <= Len(types)
    BY <1>0, <2>1
  <2>3. at \in Nat \ {0} /\ StandsAt(ThinDescriptor(type), d, at) /\ ats[k + 1] = at + Len(ThinDescriptor(type))
        /\ type \in Byte /\ type # RowData
    BY <1>0, <1>2, <1>4, <2>1, <2>2
  <2>4. p + j <= at /\ f[j] = Got(Known(had, FALSE, FALSE), at)
    BY <1>8, <2>1, <2>2
  <2>5. Len(had) = j /\ Append(had, type) = SubSeq(types, 1, k)
    BY <2>1, <2>2, OneLonger
  <2>6. ~(Len(had) >= MaxDescriptors)
    BY <1>0, <1>6, <2>2, <2>5
  <2>7. PICK x : x = Len(ThinDescriptor(type)) /\ x \in Nat \ {0} /\ at \in 1..Len(d)
    BY <2>3, DescriptorIsRead
  <2>8. k <= m /\ p + k <= ats[k + 1] /\ k \in 1..Len(d)
    BY <1>0, <2>2, <2>3, <2>4, <2>7
  <2>9. f[k] = OneDescriptor(Got(Known(had, FALSE, FALSE), at), d, FALSE)
    BY <1>5, <2>1, <2>4, <2>8
  <2>10. f[k] = Got(Known(Append(had, type), FALSE, FALSE), at + Len(ThinDescriptor(type)))
    BY <2>3, <2>6, <2>9, OneDescriptorMore, ZenonT(60)
  <2> QED BY <2>2, <2>3, <2>5, <2>8, <2>10
<1> HIDE DEF T
<1>9. n \in T
  <2>1. \A k \in 0..n : k \in T
    BY <1>0, <1>7, <1>8, UpToTheEnd
  <2>2. n \in 0..n
    BY <1>0
  <2> QED BY <2>1, <2>2
<1>10. n <= m /\ p + n <= q /\ f[n] = Got(Known(types, FALSE, FALSE), q) /\ q \in Nat
  <2>1. SubSeq(types, 1, n) = types
    BY <1>0, SubSeqFull
  <2>2. n + 1 \in 1..(n + 1)
    BY <1>0
  <2> QED BY <1>4, <1>9, <2>1, <2>2 DEF T
<1>11. ASSUME q \in 1..Len(d), d[q] = RowData
       PROVE  Descriptors(d, p, FALSE) = Got(Known(types, TRUE, TRUE), q + 1)
  <2>1. PICK k : k = n + 1 /\ k \in 1..Len(d) /\ k - 1 = n
    BY <1>0, <1>10, <1>11
  <2>2. PICK s : s = Known(types, FALSE, FALSE)
    OBVIOUS
  <2>3. ~s.ended /\ s.types = types
    BY <2>2 DEF Known
  <2>4. PICK g : g = Got(s, q)
    OBVIOUS
  <2>5. g.r = "ok" /\ g.v = s /\ g.at = q
    BY <2>4 DEF Got
  <2>6. PICK z : z = Got(Known(types, TRUE, TRUE), q + 1)
    OBVIOUS
  <2>7. ~(g.at > Len(d)) /\ d[g.at] = RowData
    BY <1>0, <1>11, <2>5
  <2>8. OneDescriptor(g, d, FALSE) = Got(Known(types, TRUE, TRUE), q + 1)
    <3>1. d[q] = RowData <=> TRUE
      BY <1>11
    <3>2. OneDescriptor(g, d, FALSE) = Got(Known(types, d[q] = RowData, TRUE), q + 1)
      BY <2>3, <2>5, <2>7 DEF OneDescriptor
    <3> QED BY <3>1, <3>2
  <2>9. f[k] = z
    BY <1>5, <1>10, <2>1, <2>2, <2>3, <2>4, <2>6, <2>8
  <2>10. z.r = "ok" /\ z.v.ended
    BY <2>6 DEF Got, Known
  <2>11. OneDescriptor(z, d, FALSE) = z
    BY <2>10 DEF OneDescriptor
  <2>12. \A i \in (k + 1)..m : f[i - 1] = z => f[i] = z
    <3>1. \A i \in (k + 1)..m : i \in 1..Len(d)
      BY <1>0, <2>1
    <3> QED BY <1>5, <2>11, <3>1
  <2>13. f[m] = z
    <3>1. k \in 0..m
      BY <1>0, <2>1
    <3>2. Settled(f, k, m, z)
      BY <2>9, <2>12 DEF Settled
    <3> QED BY <1>0, <3>1, <3>2, StaysSo
  <2> QED BY <1>0, <1>5, <2>6, <2>13
<1>12. ASSUME q = Len(d) + 1
       PROVE  Descriptors(d, p, FALSE) = Got(Known(types, FALSE, FALSE), q)
  <2>1. PICK z : z = Got(Known(types, FALSE, FALSE), q)
    OBVIOUS
  <2>2. z.at > Len(d)
    BY <1>0, <1>12, <2>1 DEF Got
  <2>3. OneDescriptor(z, d, FALSE) = z
    BY <2>2 DEF OneDescriptor
  <2>4. \A i \in (n + 1)..m : f[i - 1] = z => f[i] = z
    <3>1. \A i \in (n + 1)..m : i \in 1..Len(d)
      BY <1>0
    <3> QED BY <1>5, <2>3, <3>1
  <2>5. f[m] = z
    <3>1. n \in 0..m /\ f[n] = z
      BY <1>0, <1>10, <2>1
    <3>2. Settled(f, n, m, z)
      BY <2>4, <3>1 DEF Settled
    <3> QED BY <1>0, <3>1, <3>2, StaysSo
  <2> QED BY <1>0, <1>5, <2>1, <2>5
<1> QED BY <1>11, <1>12 DEF StrictTypes, AtRow, Bare

\* The rows there are after the first.
More(iters) == IF iters > 1 THEN iters - 1 ELSE 0

\* What the strict reader makes of the rows and of each row.
StrictRows(d, at, types, iters) == Rows(d, at, types, iters, FALSE)

NextRow(got, d, types) == OneRow(got, d, types, FALSE)

RowByRow(f, d, at, types, m) == f = [n \in 0..m |-> IF n = 0 THEN FirstRow(d, at, types) ELSE NextRow(f[n - 1], d, types)]

\* The states of reading row by row exist.
LEMMA RowByRowExist ==
  ASSUME NEW d, NEW at, NEW types, NEW m \in Nat
  PROVE  \E f : RowByRow(f, d, at, types, m)
<1> DEFINE Bad == {k \in Nat : ~\E f : RowByRow(f, d, at, types, k)}
<1>1. SUFFICES ASSUME Bad # {} PROVE FALSE
  OBVIOUS
<1>2. PICK x \in Bad : \A y \in Bad : x <= y
  <2>1. Bad \in SUBSET Nat
    OBVIOUS
  <2> HIDE DEF Bad
  <2> QED BY <1>1, <2>1, LeastNat
<1>3. CASE x = 0
  <2>1. RowByRow([k \in 0..0 |-> FirstRow(d, at, types)], d, at, types, 0)
    BY DEF RowByRow
  <2> QED BY <1>2, <1>3, <2>1
<1>4. CASE x # 0
  <2>1. x - 1 \in Nat /\ x - 1 \notin Bad
    BY <1>2, <1>4
  <2>2. PICK f : RowByRow(f, d, at, types, x - 1)
    BY <2>1
  <2>3. PICK g : g = [k \in 0..x |-> IF k # x THEN f[k] ELSE NextRow(f[x - 1], d, types)]
    OBVIOUS
  <2>4. ASSUME NEW k \in 0..x
        PROVE  g[k] = IF k = 0 THEN FirstRow(d, at, types) ELSE NextRow(g[k - 1], d, types)
    <3>1. CASE k = x
      <4>1. x - 1 \in 0..x /\ x - 1 # x
        BY <2>1
      <4>2. g[x - 1] = f[x - 1] /\ g[x] = NextRow(f[x - 1], d, types)
        BY <2>3, <4>1
      <4> QED BY <1>4, <3>1, <4>2
    <3>2. CASE k # x
      <4>1. k \in 0..(x - 1) /\ (k # 0 => k - 1 \in 0..x /\ k - 1 # x)
        BY <1>2, <3>2
      <4>2. f[k] = IF k = 0 THEN FirstRow(d, at, types) ELSE NextRow(f[k - 1], d, types)
        BY <2>2, <4>1 DEF RowByRow
      <4>3. g[k] = f[k] /\ (k # 0 => g[k - 1] = f[k - 1])
        BY <2>3, <3>2, <4>1
      <4> QED BY <4>2, <4>3
    <3> QED BY <3>1, <3>2
  <2>5. RowByRow(g, d, at, types, x)
    BY <2>3, <2>4 DEF RowByRow
  <2> QED BY <1>2, <2>5
<1> QED BY <1>3, <1>4

\* Rows are read one behind the other.
LEMMA RowByRowIs ==
  ASSUME NEW d, NEW at, NEW types, NEW iters, More(iters) \in Nat
  PROVE  \E f : /\ StrictRows(d, at, types, iters) = f[More(iters)]
                /\ f[0] = FirstRow(d, at, types)
                /\ \A n \in 1..More(iters) : f[n] = NextRow(f[n - 1], d, types)
<1> DEFINE m == More(iters)
           f == CHOOSE g : g = [n \in 0..m |-> IF n = 0 THEN FirstRow(d, at, types) ELSE NextRow(g[n - 1], d, types)]
<1>1. StrictRows(d, at, types, iters) = f[m]
  BY DEF StrictRows, Rows, NextRow, More
<1>2. \E g : g = [n \in 0..m |-> IF n = 0 THEN FirstRow(d, at, types) ELSE NextRow(g[n - 1], d, types)]
  <2>1. \E g : RowByRow(g, d, at, types, m)
    BY RowByRowExist
  <2> QED BY <2>1 DEF RowByRow
<1>3. f = [n \in 0..m |-> IF n = 0 THEN FirstRow(d, at, types) ELSE NextRow(f[n - 1], d, types)]
  BY <1>2
<1>4. m \in Nat
  OBVIOUS
<1> HIDE DEF f, m
<1>5. f[0] = FirstRow(d, at, types)
  <2>1. 0 \in 0..m
    BY <1>4
  <2> QED BY <1>3, <2>1
<1>6. ASSUME NEW n \in 1..m
      PROVE  f[n] = NextRow(f[n - 1], d, types)
  <2>1. n \in 0..m /\ n # 0
    BY <1>4
  <2> QED BY <1>3, <2>1
<1> QED BY <1>1, <1>5, <1>6 DEF m

\* Rows that a client can send, all of the same types.
AlikeRows(rows, types, n) ==
  /\ n \in Nat \ {0}
  /\ \A i \in 1..n : Carried(rows[i]) /\ Types(rows[i]) = types

DecodedRows(rows, n) == [i \in 1..n |-> Decoded(rows[i])]

WrittenRows(rows, n) == [i \in 1..n |-> RowOf(rows[i])]

\* The values of a row that stands in a message are read behind its marker.
LEMMA RowIsThere ==
  ASSUME NEW d \in Seq(Byte), NEW p \in Nat \ {0}, NEW q, NEW values, NEW types, Carried(values),
         types = Types(values), StandsAt(RowOf(values), d, p), q = p + Len(RowOf(values))
  PROVE  /\ p \in 1..Len(d) /\ d[p] = RowData
         /\ Values(d, p + 1, types) = Got(Decoded(values), q)
BY RowOfIsRead

\* One row more.
LEMMA OneRowMore ==
  ASSUME NEW d \in Seq(Byte), NEW p \in Nat \ {0}, NEW q, NEW values, NEW types, Carried(values),
         types = Types(values), StandsAt(RowOf(values), d, p), q = p + Len(RowOf(values)), NEW had
  PROVE  NextRow(Got(had, p), d, types) = Got(Append(had, Decoded(values)), q)
<1>1. /\ p \in 1..Len(d) /\ d[p] = RowData
      /\ Values(d, p + 1, types) = Got(Decoded(values), q)
  BY RowIsThere
<1>2. PICK g : g = Got(had, p)
  OBVIOUS
<1>3. g.r = "ok" /\ g.v = had /\ g.at = p
  BY <1>2 DEF Got
<1>4. PICK r : r = Got(Decoded(values), q)
  OBVIOUS
<1>5. r.r = "ok" /\ r.v = Decoded(values) /\ r.at = q
  BY <1>4 DEF Got
<1>6. ~(g.at > Len(d)) /\ d[g.at] = RowData
  BY <1>1, <1>3
<1>7. NextRow(g, d, types) = Then(Values(d, g.at + 1, types), LAMBDA row : Got(Append(g.v, row.v), row.at))
  BY <1>3, <1>6 DEF NextRow, OneRow
<1>8. Values(d, g.at + 1, types) = r
  BY <1>1, <1>3, <1>4
<1>9. NextRow(g, d, types) = Got(Append(g.v, r.v), r.at)
  BY <1>5, <1>7, <1>8 DEF Then
<1> QED BY <1>2, <1>3, <1>5, <1>9

\* The rows of an array bind are read, each for the values it has, and no more
\* of them than there are.
LEMMA RowsAreRead ==
  ASSUME NEW d \in Seq(Byte), NEW p \in Nat \ {0}, NEW q, NEW rows, NEW types, NEW n,
         AlikeRows(rows, types, n), EachStands(WrittenRows(rows, n), d, p, q)
  PROVE  /\ p \in 1..Len(d) /\ d[p] = RowData
         /\ StrictRows(d, p + 1, types, n) = Got(DecodedRows(rows, n), q)
<1>0. n \in Nat /\ n # 0 /\ \A i \in 1..n : Carried(rows[i]) /\ Types(rows[i]) = types
  BY DEF AlikeRows
<1>1. PICK ws : ws = WrittenRows(rows, n)
  OBVIOUS
<1>2. Len(ws) = n /\ \A i \in 1..n : ws[i] = RowOf(rows[i])
  BY <1>0, <1>1 DEF WrittenRows
<1>3. PICK ats : /\ BehindEach(ats, ws, p)
                 /\ \A i \in 1..Len(ws) : StandsAt(ws[i], d, ats[i])
                 /\ ats[Len(ws) + 1] = q
  BY <1>1 DEF EachStands
<1>4. /\ ats[1] = p /\ ats[n + 1] = q /\ \A i \in 1..(n + 1) : ats[i] \in Nat \ {0}
      /\ \A i \in 1..n : ats[i + 1] = ats[i] + Len(RowOf(rows[i])) /\ StandsAt(RowOf(rows[i]), d, ats[i])
  BY <1>2, <1>3 DEF BehindEach
<1>5. PICK S : S = {Decoded(rows[i]) : i \in 1..n}
  OBVIOUS
<1>6. PICK all : all = DecodedRows(rows, n)
  OBVIOUS
<1>7. all \in Seq(S) /\ Len(all) = n /\ \A i \in 1..n : all[i] = Decoded(rows[i])
  <2>1. all = [i \in 1..n |-> Decoded(rows[i])]
    BY <1>6 DEF DecodedRows
  <2>2. \A i \in 1..n : Decoded(rows[i]) \in S
    BY <1>5
  <2> QED BY <1>0, <2>1, <2>2
<1>8. PICK m : m = More(n) /\ m = n - 1 /\ m \in Nat
  BY <1>0 DEF More
<1>9. PICK f : /\ StrictRows(d, p + 1, types, n) = f[m]
               /\ f[0] = FirstRow(d, p + 1, types)
               /\ \A k \in 1..m : f[k] = NextRow(f[k - 1], d, types)
  <2>1. More(n) \in Nat
    BY <1>8
  <2>2. PICK at : at = p + 1
    OBVIOUS
  <2>3. \E f : /\ StrictRows(d, at, types, n) = f[More(n)]
               /\ f[0] = FirstRow(d, at, types)
               /\ \A k \in 1..More(n) : f[k] = NextRow(f[k - 1], d, types)
    BY <2>1, RowByRowIs
  <2> QED BY <1>8, <2>2, <2>3
<1>10. 1 \in 1..n /\ 1 + 1 = 2
  BY <1>0
<1>11. /\ p \in 1..Len(d) /\ d[p] = RowData
       /\ Values(d, p + 1, types) = Got(Decoded(rows[1]), ats[2])
  <2>1. Carried(rows[1]) /\ types = Types(rows[1]) /\ StandsAt(RowOf(rows[1]), d, p)
    BY <1>0, <1>4, <1>10
  <2>2. ats[2] = p + Len(RowOf(rows[1]))
    BY <1>4, <1>10
  <2> QED BY <2>1, <2>2, RowIsThere
<1>12. f[0] = Got(SubSeq(all, 1, 1), ats[2])
  <2>1. PICK r : r = Got(Decoded(rows[1]), ats[2])
    OBVIOUS
  <2>2. r.r = "ok" /\ r.v = Decoded(rows[1]) /\ r.at = ats[2]
    BY <2>1 DEF Got
  <2>3. FirstRow(d, p + 1, types) = Got(<<r.v>>, r.at)
    BY <1>11, <2>1, <2>2 DEF FirstRow, Then
  <2>4. SubSeq(all, 1, 1) = <<all[1]>>
    <3>1. 0 \in Nat /\ 0 + 1 = 1 /\ 1 <= Len(all)
      BY <1>0, <1>7
    <3>2. Append(SubSeq(all, 1, 0), all[1]) = SubSeq(all, 1, 1)
      BY <1>7, <3>1, OneLonger
    <3>3. SubSeq(all, 1, 0) = <<>>
      BY SubSeqEmpty
    <3>4. Append(<<>>, all[1]) = <<all[1]>>
      OBVIOUS
    <3> QED BY <3>2, <3>3, <3>4
  <2>5. all[1] = Decoded(rows[1])
    BY <1>7, <1>10
  <2> QED BY <1>9, <2>2, <2>3, <2>4, <2>5
<1> DEFINE T == {k \in Nat : f[k] = Got(SubSeq(all, 1, k + 1), ats[k + 2])}
<1>13. 0 \in T
  <2>1. 0 + 1 = 1 /\ 0 + 2 = 2 /\ 0 \in Nat
    OBVIOUS
  <2> QED BY <1>12, <2>1
<1>14. ASSUME NEW k \in 1..m, k - 1 \in T
       PROVE  k \in T
  <2>1. PICK j, i, had : j = k - 1 /\ i = k + 1 /\ had = SubSeq(all, 1, k)
    OBVIOUS
  <2>2. /\ j \in Nat /\ j + 1 = k /\ j + 2 = i /\ k + 2 = i + 1 /\ i \in 1..n /\ k \in Nat /\ k + 1 <= Len(all)
        /\ i \in 1..(n + 1)
    BY <1>0, <1>7, <1>8, <2>1
  <2>3. f[j] = Got(had, ats[i])
    BY <1>14, <2>1, <2>2
  <2>4. PICK at : at = ats[i] /\ at \in Nat \ {0}
    BY <1>4, <2>2
  <2>5. StandsAt(RowOf(rows[i]), d, at) /\ ats[i + 1] = at + Len(RowOf(rows[i]))
    BY <1>4, <2>2, <2>4
  <2>6. Carried(rows[i]) /\ types = Types(rows[i])
    BY <1>0, <2>2
  <2>7. NextRow(Got(had, at), d, types) = Got(Append(had, Decoded(rows[i])), ats[i + 1])
    <3>1. PICK values, end : values = rows[i] /\ end = ats[i + 1]
      OBVIOUS
    <3>2. Carried(values) /\ types = Types(values) /\ StandsAt(RowOf(values), d, at) /\ end = at + Len(RowOf(values))
      BY <2>5, <2>6, <3>1
    <3>4. d \in Seq(Byte) /\ at \in Nat \ {0}
      BY <2>4
    <3>3. NextRow(Got(had, at), d, types) = Got(Append(had, Decoded(values)), end)
      BY ONLY <3>2, <3>4, OneRowMore
    <3> QED BY <3>1, <3>3
  <2>8. Append(had, all[i]) = SubSeq(all, 1, i)
    BY <1>7, <2>1, <2>2, OneLonger
  <2>9. all[i] = Decoded(rows[i])
    BY <1>7, <2>2
  <2>10. f[k] = NextRow(f[j], d, types)
    BY <1>9, <2>1
  <2>11. f[k] = Got(SubSeq(all, 1, i), ats[i + 1])
    BY <2>3, <2>4, <2>7, <2>8, <2>9, <2>10
  <2> QED BY <2>1, <2>2, <2>11
<1> HIDE DEF T
<1>15. m \in T
  <2>1. \A k \in 0..m : k \in T
    BY <1>8, <1>13, <1>14, UpToTheEnd
  <2>2. m \in 0..m
    BY <1>8
  <2> QED BY <2>1, <2>2
<1>16. f[m] = Got(all, q)
  <2>1. m + 1 = n /\ m + 2 = n + 1
    BY <1>0, <1>8
  <2>2. f[m] = Got(SubSeq(all, 1, n), ats[n + 1])
    BY <1>15, <2>1 DEF T
  <2>3. SubSeq(all, 1, n) = all
    BY <1>7, SubSeqFull
  <2> QED BY <1>4, <2>2, <2>3
<1> QED BY <1>6, <1>9, <1>11, <1>16

-----------------------------------------------------------------------------
(* The three runs of fields of an Execute. *)

\* Two zero bytes are a field of two.
LEMMA FlagsField ==
  ASSUME NEW d \in Seq(Byte), StandsAt(<<0, 0>>, d, 1)
  PROVE  FieldAt("u16", 0, d, 1, 3)
<1>1. 0 \div 256 = 0 /\ 0 % 256 = 0
  OBVIOUS
<1>2. Be(0, 2) = <<(0 \div 256) % 256, 0 % 256>>
  BY BeOf
<1>3. WriteField("u16", 0) = <<0, 0>>
  BY <1>1, <1>2 DEF WriteField
<1>4. Len(<<0, 0>>) = 2 /\ 3 = 1 + 2
  OBVIOUS
<1>5. 0 \in FieldValues("u16")
  <2>1. 0 \in TwoBytes
    BY SMT DEF TwoBytes
  <2> QED BY <2>1 DEF FieldValues
<1>6. PICK n : n = Len(WriteField("u16", 0)) /\ n = 2
  BY <1>3, <1>4
<1>7. 3 = 1 + n
  BY <1>4, <1>6
<1> QED BY <1>3, <1>5, <1>6, <1>7 DEF FieldAt

\* The fields that lead an Execute, in a message.
HeaderStands(d, seq, asks, n, p3, p4, p5) ==
  /\ d \in Seq(Byte) /\ seq \in Byte /\ asks \in FourBytes /\ n \in FourBytes
  /\ p3 \in Nat /\ p4 \in Nat /\ p5 \in Nat
  /\ StandsAt(<<0, 0>>, d, 1) /\ StandsAt(<<3, 94, seq>>, d, 3) /\ StandsAt(WriteUb(asks), d, 6)
  /\ p3 = 6 + Len(WriteUb(asks)) /\ StandsAt(<<0, 1>>, d, p3) /\ p4 = p3 + 2
  /\ StandsAt(WriteUb(n), d, p4) /\ p5 = p4 + Len(WriteUb(n))

\* Those between that and the text.
OptionsStand(d, asks, size, b, n, p5, p6, p7, p8, p9, p10, p11) ==
  /\ d \in Seq(Byte) /\ asks \in FourBytes /\ size \in FourBytes /\ b \in Byte /\ n \in FourBytes
  /\ p5 \in Nat \ {0} /\ p6 \in Nat /\ p7 \in Nat /\ p8 \in Nat /\ p9 \in Nat /\ p10 \in Nat /\ p11 \in Nat
  /\ StandsAt(<<1>>, d, p5) /\ p6 = p5 + 1 /\ StandsAt(WriteUb(asks), d, p6) /\ p7 = p6 + Len(WriteUb(asks))
  /\ StandsAt(<<0, 0, 0>>, d, p7) /\ p8 = p7 + 3 /\ StandsAt(WriteUb(size), d, p8)
  /\ p9 = p8 + Len(WriteUb(size)) /\ StandsAt(<<0, b>>, d, p9) /\ p10 = p9 + 2
  /\ StandsAt(WriteUb(n), d, p10) /\ p11 = p10 + Len(WriteUb(n)) /\ StandsAt(Zeros(25), d, p11)

\* Those behind the text.
IterationsStand(d, n, p1, p2, p3) ==
  /\ d \in Seq(Byte) /\ n \in FourBytes /\ p1 \in Nat \ {0} /\ p2 \in Nat /\ p3 \in Nat
  /\ StandsAt(<<1, 1>>, d, p1) /\ p2 = p1 + 2 /\ StandsAt(WriteUb(n), d, p2) /\ p3 = p2 + Len(WriteUb(n))
  /\ StandsAt(Zeros(11), d, p3)

\* A run of fields whose first ones are those, and the rest zeros, is read for
\* them.
LEMMA RunOfFields ==
  ASSUME NEW d \in Seq(Byte), NEW kinds, NEW m, NEW k, NEW vs, NEW ats, RunStands(kinds, m, k, vs, ats, d),
         NEW p, p = ats[1], NEW q, q = ats[k + 1] + m - k
  PROVE  \E v : Fields(d, p, kinds) = Got(v, q) /\ \A i \in 1..k : v[i] = vs[i]
<1>1. PICK v : v = RunValues(vs, k, m)
  OBVIOUS
<1>2. Fields(d, p, kinds) = Got(v, q)
  BY <1>1, RunIsRead
<1>3. \A i \in 1..k : v[i] = vs[i]
  <2>1. k \in Nat /\ m \in Nat /\ k <= m
    <3>1. k \in 0..m /\ m = Len(kinds) /\ kinds \in Seq(FieldKinds)
      BY DEF RunStands
    <3> QED BY <3>1
  <2>2. \A i \in 1..k : i \in 1..m /\ i <= k
    BY <2>1
  <2> QED BY <1>1, <2>2 DEF RunValues
<1> QED BY <1>2, <1>3

\* The fields that lead an Execute are read up to the length of its text.
LEMMA HeaderIsRead ==
  ASSUME NEW d, NEW seq, NEW asks, NEW n, NEW p3, NEW p4, NEW p5,
         HeaderStands(d, seq, asks, n, p3, p4, p5)
  PROVE  \E v : Fields(d, 1, Header) = Got(v, p5) /\ v[7] = 1 /\ v[8] = n
<1> USE DEF HeaderStands
<1>1. WriteUb(asks) \in Seq(Byte) /\ WriteUb(n) \in Seq(Byte) /\ Len(WriteUb(asks)) \in Nat /\ Len(WriteUb(n)) \in Nat
  <2>1. WriteUb(asks) \in Seq(Byte) /\ WriteUb(n) \in Seq(Byte)
    BY WriteUbBytes
  <2> QED BY ONLY <2>1
<1>2. p3 \in Nat \ {0} /\ p4 \in Nat \ {0} /\ p5 \in Nat \ {0}
  BY <1>1
<1>3. d[3] = 3 /\ d[4] = 94 /\ d[5] = seq /\ 5 <= Len(d) /\ Len(d) \in Nat
  <2>1. /\ 3 + 2 <= Len(d) /\ Len(d) \in Nat
        /\ d[3] = 3 /\ d[3 + 1] = 94 /\ d[3 + 2] = seq
    BY ThreeStand
  <2>2. 3 + 1 = 4 /\ 3 + 2 = 5
    OBVIOUS
  <2> QED BY <2>1, <2>2
<1>4. PICK e : e = p3 + 1 /\ e + 1 = p4 /\ e \in Nat \ {0}
  BY <1>2
<1>5. d[p3] = 0 /\ d[e] = 1 /\ e <= Len(d)
  BY <1>2, <1>4, TwoStand
<1>6. 3 \in 1..Len(d) /\ 4 \in 1..Len(d) /\ 5 \in 1..Len(d) /\ p3 \in 1..Len(d) /\ e \in 1..Len(d)
  BY <1>2, <1>3, <1>4, <1>5, SMTT(60)
<1>7. FieldAt("u16", 0, d, 1, 3)
  BY FlagsField
<1>8. FieldAt("u8", 3, d, 3, 4) /\ FieldAt("u8", 94, d, 4, 5) /\ FieldAt("u8", seq, d, 5, 6)
  <2>1. 3 + 1 = 4 /\ 4 + 1 = 5 /\ 5 + 1 = 6
    OBVIOUS
  <2>2. FieldAt("u8", 3, d, 3, 3 + 1) /\ FieldAt("u8", 94, d, 4, 4 + 1) /\ FieldAt("u8", seq, d, 5, 5 + 1)
    BY <1>3, <1>6, ByteField, SMTT(60)
  <2> QED BY <2>1, <2>2
<1>9. FieldAt("ub4", asks, d, 6, p3) /\ FieldAt("ub4", n, d, p4, p5)
  BY <1>2, UbField
<1>10. FieldAt("ub4", 0, d, p3, e)
  BY <1>4, <1>5, <1>6, ZeroFieldAt
<1>11. FieldAt("u8", 1, d, e, p4)
  BY <1>4, <1>5, <1>6, ByteField
<1>29. 1 \in Nat \ {0} /\ 3 \in Nat \ {0} /\ 4 \in Nat \ {0} /\ 5 \in Nat \ {0} /\ 6 \in Nat \ {0}
  OBVIOUS
<1>12. PICK kinds : kinds = Header
  OBVIOUS
<1>30. /\ kinds \in Seq(FieldKinds) /\ Len(kinds) = 8
       /\ kinds[1] = "u16" /\ kinds[2] = "u8" /\ kinds[3] = "u8" /\ kinds[4] = "u8" /\ kinds[5] = "ub4"
       /\ kinds[6] = "ub4" /\ kinds[7] = "u8" /\ kinds[8] = "ub4"
  BY <1>12 DEF Header, FieldKinds
<1>40. PICK vs, ats : vs = <<0, 3, 94, seq, asks, 0, 1, n>> /\ ats = <<1, 3, 4, 5, 6, p3, e, p4, p5>>
  OBVIOUS
<1>42. ats[1] = 1 /\ ats[2] = 3 /\ ats[3] = 4 /\ ats[4] = 5 /\ ats[5] = 6 /\ ats[6] = p3 /\ ats[7] = e /\ ats[8] = p4 /\ ats[9] = p5
  BY <1>40
<1>43. vs[1] = 0 /\ vs[2] = 3 /\ vs[3] = 94 /\ vs[4] = seq /\ vs[5] = asks /\ vs[6] = 0 /\ vs[7] = 1 /\ vs[8] = n
  BY <1>40
<1>44. \A i \in 1..(8 + 1) : ats[i] \in Nat \ {0}
  <2>1. \A i \in 1..(8 + 1) : i \in {1, 2, 3, 4, 5, 6, 7, 8, 9}
    OBVIOUS
  <2> QED BY ONLY <2>1, <1>42, <1>2, <1>4, <1>29
<1>45. \A i \in 1..8 : FieldAt(kinds[i], vs[i], d, ats[i], ats[i + 1])
  <2> TAKE i \in 1..8
  <2>1. i \in {1, 2, 3, 4, 5, 6, 7, 8}
    OBVIOUS
  <2> QED BY ONLY <1>7, <1>8, <1>9, <1>10, <1>11, <1>30, <1>42, <1>43, <2>1, SMTT(60)
<1>46. StandsAt(Zeros(8 - 8), d, ats[8 + 1])
  <2>1. 8 - 8 = 0 /\ 8 + 1 = 9 /\ 1..0 = {}
    OBVIOUS
  <2>2. PICK x : x = Len(WriteUb(n)) /\ x \in Nat
    BY <1>1
  <2>3. p4 + x - 1 <= Len(d)
    BY <2>2 DEF StandsAt
  <2>4. p5 + 0 - 1 <= Len(d)
    BY <1>3, <2>2, <2>3
  <2>5. StandsAt(Zeros(0), d, p5)
    BY <1>2, <2>1, <2>4, ZerosThere
  <2> QED BY <1>42, <2>1, <2>5
<1>47. \A i \in (8 + 1)..8 : kinds[i] \in {"u8", "ub2", "ub4", "ub8"}
  OBVIOUS
<1>48. RunStands(kinds, 8, 8, vs, ats, d)
  <2>1. 8 \in 0..8
    OBVIOUS
  <2> QED BY <1>30, <1>44, <1>45, <1>46, <1>47, <2>1 DEF RunStands
<1>49. PICK m, one : m = 8 /\ one = 1
  OBVIOUS
<1>51. one = ats[1] /\ p5 = ats[m + 1] + m - m /\ RunStands(kinds, m, m, vs, ats, d)
  <2>1. 8 + 1 = 9 /\ p5 + 8 - 8 = p5
    OBVIOUS
  <2> QED BY <1>42, <1>48, <1>49, <2>1
<1>52. \E v : Fields(d, one, kinds) = Got(v, p5) /\ \A i \in 1..m : v[i] = vs[i]
  BY ONLY <1>51, RunOfFields, d \in Seq(Byte)
<1>53. 7 \in 1..8 /\ 8 \in 1..8
  OBVIOUS
<1> QED BY <1>12, <1>43, <1>49, <1>52, <1>53

\* So are those between that and the text: how many rows the client asks for,
\* whether it binds, and how many values.
LEMMA OptionsAreRead ==
  ASSUME NEW d, NEW asks, NEW size, NEW b, NEW n, NEW p5, NEW p6, NEW p7, NEW p8, NEW p9, NEW p10, NEW p11,
         OptionsStand(d, asks, size, b, n, p5, p6, p7, p8, p9, p10, p11)
  PROVE  \E v : /\ Fields(d, p5, Preamble \o Options) = Got(v, p11 + 25)
                /\ v[6] = size /\ v[8] = b /\ v[9] = n
<1> USE DEF OptionsStand
<1>1. /\ Len(WriteUb(asks)) \in Nat /\ Len(WriteUb(n)) \in Nat /\ Len(WriteUb(size)) \in Nat
  <2>1. WriteUb(asks) \in Seq(Byte) /\ WriteUb(n) \in Seq(Byte) /\ WriteUb(size) \in Seq(Byte)
    BY WriteUbBytes
  <2> QED BY ONLY <2>1
<1>2. /\ p6 \in Nat \ {0} /\ p7 \in Nat \ {0} /\ p8 \in Nat \ {0} /\ p9 \in Nat \ {0}
      /\ p10 \in Nat \ {0} /\ p11 \in Nat \ {0}
  <2>1. /\ p5 \in Nat \ {0} /\ p6 = p5 + 1 /\ p7 = p6 + Len(WriteUb(asks)) /\ p8 = p7 + 3
        /\ p9 = p8 + Len(WriteUb(size)) /\ p10 = p9 + 2 /\ p11 = p10 + Len(WriteUb(n))
    OBVIOUS
  <2> QED BY ONLY <1>1, <2>1
<1>3. PICK e1, e2, e3 : e1 = p7 + 1 /\ e2 = p7 + 2 /\ e3 = p9 + 1
  OBVIOUS
<1>4. /\ e1 \in Nat \ {0} /\ e2 \in Nat \ {0} /\ e3 \in Nat \ {0}
      /\ p7 + 1 = e1 /\ e1 + 1 = e2 /\ e2 + 1 = p8 /\ p9 + 1 = e3 /\ e3 + 1 = p10
  <2>1. p8 = p7 + 3 /\ p10 = p9 + 2
    OBVIOUS
  <2> QED BY ONLY <1>2, <1>3, <2>1
<1>5. d[p7] = 0 /\ d[e1] = 0 /\ d[e2] = 0 /\ e2 <= Len(d) /\ Len(d) \in Nat
  <2>1. StandsAt(<<0, 0, 0>>, d, p7) /\ d \in Seq(Byte)
    OBVIOUS
  <2>2. /\ p7 + 2 <= Len(d) /\ Len(d) \in Nat
        /\ d[p7] = 0 /\ d[p7 + 1] = 0 /\ d[p7 + 2] = 0
    BY ONLY <1>2, <2>1, ThreeStand
  <2> QED BY ONLY <1>3, <2>2
<1>6. d[p9] = 0 /\ d[e3] = b /\ e3 <= Len(d)
  <2>1. StandsAt(<<0, b>>, d, p9) /\ d \in Seq(Byte)
    OBVIOUS
  <2>2. p9 + 1 <= Len(d) /\ Len(d) \in Nat /\ d[p9] = 0 /\ d[p9 + 1] = b
    BY ONLY <1>2, <2>1, TwoStand
  <2> QED BY ONLY <1>3, <2>2
<1>7. p5 \in 1..Len(d) /\ d[p5] = 1
  <2>1. 1 \in Byte
    BY DEF Byte
  <2> QED BY <2>1, OneByteStands, SMTT(60)
<1>8. p7 \in 1..Len(d) /\ e1 \in 1..Len(d) /\ e2 \in 1..Len(d) /\ p9 \in 1..Len(d) /\ e3 \in 1..Len(d)
  BY ONLY <1>2, <1>4, <1>5, <1>6
<1>9. FieldAt("u8", 1, d, p5, p6)
  BY <1>7, ByteField
<1>10. FieldAt("ub4", asks, d, p6, p7) /\ FieldAt("ub4", size, d, p8, p9) /\ FieldAt("ub4", n, d, p10, p11)
  BY <1>2, UbField
<1>11. FieldAt("u8", 0, d, p7, e1) /\ FieldAt("u8", 0, d, e1, e2)
  BY <1>4, <1>5, <1>8, ByteField
<1>12. FieldAt("ub4", 0, d, e2, p8) /\ FieldAt("ub4", 0, d, p9, e3)
  <2>1. FieldAt("ub4", 0, d, e2, e2 + 1) /\ FieldAt("ub4", 0, d, p9, p9 + 1)
    <3>1. d \in Seq(Byte)
      OBVIOUS
    <3> QED BY ONLY <1>5, <1>6, <1>8, <3>1, ZeroFieldAt
  <2> QED BY ONLY <1>4, <2>1
<1>13. FieldAt("u8", b, d, e3, p10)
  BY <1>4, <1>6, <1>8, ByteField, ZenonT(60)
<1>29. p5 \in Nat \ {0}
  OBVIOUS
<1>20. PICK before, behind : before = Preamble /\ behind = Options
  OBVIOUS
<1>22. /\ before \in Seq(FieldKinds) /\ Len(before) = 6 /\ \A i \in 1..6 : before[i] \in {"u8", "ub4"}
       /\ before[1] = "u8" /\ before[2] = "ub4" /\ before[3] = "u8" /\ before[4] = "u8"
       /\ before[5] = "ub4" /\ before[6] = "ub4"
  <2>1. before = <<"u8", "ub4", "u8", "u8", "ub4", "ub4">>
    BY <1>20 DEF Preamble
  <2>2. \A i \in 1..6 : i \in {1, 2, 3, 4, 5, 6}
    OBVIOUS
  <2>3. before \in Seq(FieldKinds)
    BY <2>1 DEF FieldKinds
  <2> QED BY <2>1, <2>2, <2>3
<1>23. /\ behind \in Seq({"u8", "ub4"}) /\ Len(behind) = 28
       /\ behind[1] = "ub4" /\ behind[2] = "u8" /\ behind[3] = "ub4"
  BY <1>20 DEF Options
<1>24. behind \in Seq(FieldKinds) /\ \A i \in 1..28 : behind[i] \in {"u8", "ub4"}
  <2>1. {"u8", "ub4"} \subseteq FieldKinds
    BY DEF FieldKinds
  <2>2. behind \in Seq(FieldKinds)
    BY ONLY <1>23, <2>1
  <2>3. \A i \in 1..28 : behind[i] \in {"u8", "ub4"}
    <3>1. PICK S : S = {"u8", "ub4"}
      OBVIOUS
    <3>2. behind \in Seq(S) /\ Len(behind) = 28
      BY ONLY <1>23, <3>1
    <3>3. \A i \in 1..28 : behind[i] \in S
      <4>1. \A i \in 1..Len(behind) : behind[i] \in S
        BY ONLY <3>2, ElementOfSeq
      <4> QED BY ONLY <3>2, <4>1
    <3> QED BY ONLY <3>1, <3>3
  <2> QED BY ONLY <2>2, <2>3
<1>25. PICK kinds : kinds = before \o behind
  OBVIOUS
<1>26. /\ kinds \in Seq(FieldKinds) /\ Len(kinds) = 34
       /\ \A i \in 1..34 : kinds[i] = IF i <= 6 THEN before[i] ELSE behind[i - 6]
  <2>1. /\ before \o behind \in Seq(FieldKinds) /\ Len(before \o behind) = Len(before) + Len(behind)
        /\ \A i \in 1..(Len(before) + Len(behind)) :
             (before \o behind)[i] = IF i <= Len(before) THEN before[i] ELSE behind[i - Len(before)]
    <3>1. before \in Seq(FieldKinds) /\ behind \in Seq(FieldKinds)
      BY ONLY <1>22, <1>24
    <3> QED BY ONLY <3>1, ConcatProperties
  <2>2. 6 + 28 = 34
    OBVIOUS
  <2> QED BY ONLY <1>22, <1>23, <1>25, <2>1, <2>2, ZenonT(60)
<1>30. /\ kinds[1] = "u8" /\ kinds[2] = "ub4" /\ kinds[3] = "u8" /\ kinds[4] = "u8" /\ kinds[5] = "ub4"
       /\ kinds[6] = "ub4" /\ kinds[7] = "ub4" /\ kinds[8] = "u8" /\ kinds[9] = "ub4"
  <2>1. /\ 1 \in 1..34 /\ 2 \in 1..34 /\ 3 \in 1..34 /\ 4 \in 1..34 /\ 5 \in 1..34 /\ 6 \in 1..34 /\ 7 \in 1..34
        /\ 8 \in 1..34 /\ 9 \in 1..34 /\ 7 - 6 = 1 /\ 8 - 6 = 2 /\ 9 - 6 = 3 /\ ~(7 <= 6) /\ ~(8 <= 6) /\ ~(9 <= 6)
        /\ 1 <= 6 /\ 2 <= 6 /\ 3 <= 6 /\ 4 <= 6 /\ 5 <= 6 /\ 6 <= 6
    OBVIOUS
  <2>2. /\ kinds[1] = before[1] /\ kinds[2] = before[2] /\ kinds[3] = before[3] /\ kinds[4] = before[4]
        /\ kinds[5] = before[5] /\ kinds[6] = before[6]
    BY <1>26, <2>1
  <2>3. kinds[7] = behind[1] /\ kinds[8] = behind[2] /\ kinds[9] = behind[3]
    BY <1>26, <2>1
  <2> QED BY <1>22, <1>23, <2>2, <2>3
<1>40. PICK vs, ats : vs = <<1, asks, 0, 0, 0, size, 0, b, n>> /\ ats = <<p5, p6, p7, e1, e2, p8, p9, e3, p10, p11>>
  OBVIOUS
<1>42. ats[1] = p5 /\ ats[2] = p6 /\ ats[3] = p7 /\ ats[4] = e1 /\ ats[5] = e2 /\ ats[6] = p8 /\ ats[7] = p9 /\ ats[8] = e3 /\ ats[9] = p10 /\ ats[10] = p11
  BY <1>40
<1>43. vs[1] = 1 /\ vs[2] = asks /\ vs[3] = 0 /\ vs[4] = 0 /\ vs[5] = 0 /\ vs[6] = size /\ vs[7] = 0 /\ vs[8] = b /\ vs[9] = n
  BY <1>40
<1>44. \A i \in 1..(9 + 1) : ats[i] \in Nat \ {0}
  <2>1. \A i \in 1..(9 + 1) : i \in {1, 2, 3, 4, 5, 6, 7, 8, 9, 10}
    OBVIOUS
  <2> QED BY ONLY <2>1, <1>42, <1>2, <1>4, <1>29
<1>45. \A i \in 1..9 : FieldAt(kinds[i], vs[i], d, ats[i], ats[i + 1])
  <2> TAKE i \in 1..9
  <2>1. i \in {1, 2, 3, 4, 5, 6, 7, 8, 9}
    OBVIOUS
  <2> QED BY ONLY <1>9, <1>10, <1>11, <1>12, <1>13, <1>30, <1>42, <1>43, <2>1, SMTT(60)
<1>46. StandsAt(Zeros(34 - 9), d, ats[9 + 1])
  <2>1. 34 - 9 = 25 /\ 9 + 1 = 10
    OBVIOUS
  <2> QED BY <1>42, <2>1
<1>47. \A i \in (9 + 1)..34 : kinds[i] \in {"u8", "ub2", "ub4", "ub8"}
  <2> TAKE i \in (9 + 1)..34
  <2>1. i \in 1..34 /\ ~(i <= 6) /\ i - 6 \in 1..28
    BY SMTT(60)
  <2>2. kinds[i] = behind[i - 6] /\ behind[i - 6] \in {"u8", "ub4"}
    BY <1>24, <1>26, <2>1
  <2> QED BY <2>2
<1>48. RunStands(kinds, 34, 9, vs, ats, d)
  <2>1. 9 \in 0..34
    OBVIOUS
  <2> QED BY <1>26, <1>44, <1>45, <1>46, <1>47, <2>1 DEF RunStands
<1>49. PICK m, k, q : m = 34 /\ k = 9 /\ q = p11 + 25
  OBVIOUS
<1>52. p5 = ats[1] /\ q = ats[k + 1] + m - k /\ RunStands(kinds, m, k, vs, ats, d)
  <2>1. 9 + 1 = 10 /\ p11 + 34 - 9 = p11 + 25
    OBVIOUS
  <2> QED BY <1>42, <1>48, <1>49, <2>1
<1>53. \E v : Fields(d, p5, kinds) = Got(v, q) /\ \A i \in 1..k : v[i] = vs[i]
  BY ONLY <1>52, RunOfFields, d \in Seq(Byte)
<1>54. 6 \in 1..9 /\ 8 \in 1..9 /\ 9 \in 1..9
  OBVIOUS
<1>55. \E v : Fields(d, p5, kinds) = Got(v, q) /\ v[6] = size /\ v[8] = b /\ v[9] = n
  BY ONLY <1>43, <1>49, <1>53, <1>54
<1>56. kinds = Preamble \o Options
  BY ONLY <1>20, <1>25
<1> QED BY ONLY <1>49, <1>55, <1>56

\* And those behind the text: how many rows of values there are.
LEMMA IterationsAreRead ==
  ASSUME NEW d, NEW n, NEW p1, NEW p2, NEW p3,
         IterationsStand(d, n, p1, p2, p3)
  PROVE  \E v : Fields(d, p1, Iterations) = Got(v, p3 + 11) /\ v[2] = n
<1> USE DEF IterationsStand
<1>1. Len(WriteUb(n)) \in Nat
  <2>1. WriteUb(n) \in Seq(Byte)
    BY WriteUbBytes
  <2> QED BY ONLY <2>1
<1>2. p2 \in Nat \ {0} /\ p3 \in Nat \ {0}
  BY <1>1
<1>3. FieldAt("ub4", 1, d, p1, p2)
  <2>1. PICK x : x = 1
    OBVIOUS
  <2>2. x \in FourBytes
    BY <2>1, SMT DEF FourBytes
  <2>3. WriteUb(x) = <<1, 1>>
    <3>1. x # 0 /\ x < 256
      BY <2>1
    <3> QED BY <2>1, <3>1 DEF WriteUb
  <2>4. Len(<<1, 1>>) = 2
    OBVIOUS
  <2>5. FieldAt("ub4", x, d, p1, p1 + Len(WriteUb(x)))
    BY <2>2, <2>3, UbField
  <2> QED BY <2>1, <2>3, <2>4, <2>5
<1>4. FieldAt("ub4", n, d, p2, p3)
  BY <1>2, UbField
<1>29. p1 \in Nat \ {0}
  OBVIOUS
<1>12. PICK kinds : kinds = Iterations
  OBVIOUS
<1>26. kinds \in Seq(FieldKinds) /\ Len(kinds) = 13 /\ \A i \in 1..13 : kinds[i] = "ub4"
  <2>1. "ub4" \in FieldKinds
    BY DEF FieldKinds
  <2>2. kinds = [i \in 1..13 |-> "ub4"]
    BY <1>12 DEF Iterations
  <2> QED BY <2>1, <2>2
<1>30. kinds[1] = "ub4" /\ kinds[2] = "ub4"
  <2>1. 1 \in 1..13 /\ 2 \in 1..13
    OBVIOUS
  <2> QED BY <1>26, <2>1
<1>40. PICK vs, ats : vs = <<1, n>> /\ ats = <<p1, p2, p3>>
  OBVIOUS
<1>42. ats[1] = p1 /\ ats[2] = p2 /\ ats[3] = p3
  BY <1>40
<1>43. vs[1] = 1 /\ vs[2] = n
  BY <1>40
<1>44. \A i \in 1..(2 + 1) : ats[i] \in Nat \ {0}
  <2>1. \A i \in 1..(2 + 1) : i \in {1, 2, 3}
    OBVIOUS
  <2> QED BY ONLY <2>1, <1>42, <1>2, <1>29
<1>45. \A i \in 1..2 : FieldAt(kinds[i], vs[i], d, ats[i], ats[i + 1])
  <2> TAKE i \in 1..2
  <2>1. CASE i = 1
    <3>1. kinds[i] = "ub4" /\ vs[i] = 1 /\ ats[i] = p1 /\ ats[i + 1] = p2
      BY <1>30, <1>42, <1>43, <2>1
    <3> QED BY <3>1, <1>3
  <2>2. CASE i = 2
    <3>1. kinds[i] = "ub4" /\ vs[i] = n /\ ats[i] = p2 /\ ats[i + 1] = p3
      BY <1>30, <1>42, <1>43, <2>2
    <3> QED BY <3>1, <1>4
  <2>3. i \in {1, 2}
    OBVIOUS
  <2> QED BY <2>1, <2>2, <2>3
<1>46. StandsAt(Zeros(13 - 2), d, ats[2 + 1])
  <2>1. 13 - 2 = 11 /\ 2 + 1 = 3
    OBVIOUS
  <2> QED BY <1>42, <2>1
<1>47. \A i \in (2 + 1)..13 : kinds[i] \in {"u8", "ub2", "ub4", "ub8"}
  <2>1. \A i \in (2 + 1)..13 : i \in 1..13
    OBVIOUS
  <2> QED BY <1>26, <2>1
<1>48. RunStands(kinds, 13, 2, vs, ats, d)
  <2>1. 2 \in 0..13
    OBVIOUS
  <2> QED BY <1>26, <1>44, <1>45, <1>46, <1>47, <2>1 DEF RunStands
<1>49. PICK m, k, q : m = 13 /\ k = 2 /\ q = p3 + 11
  OBVIOUS
<1>52. p1 = ats[1] /\ q = ats[k + 1] + m - k /\ RunStands(kinds, m, k, vs, ats, d)
  <2>1. 2 + 1 = 3 /\ p3 + 13 - 2 = p3 + 11
    OBVIOUS
  <2> QED BY <1>42, <1>48, <1>49, <2>1
<1>53. \E v : Fields(d, p1, kinds) = Got(v, q) /\ \A i \in 1..k : v[i] = vs[i]
  BY ONLY <1>52, RunOfFields, d \in Seq(Byte)
<1>54. 2 \in 1..2
  OBVIOUS
<1> QED BY <1>12, <1>43, <1>49, <1>53, <1>54

-----------------------------------------------------------------------------
(* An Execute of a thin driver as a whole. *)

\* What of an Execute leads its descriptors and its rows: where each run of
\* fields ends, and what was read of them.
Leads(d, request, descriptors, rows, h, o, n, p5, p10, p11, p14, p15) ==
  /\ Fields(d, 1, Header) = Got(h, p5) /\ h[7] = 1 /\ h[8] = Len(request.sql)
  /\ Fields(d, p5, Preamble \o Options) = Got(o, p10)
  /\ o[6] = request.size /\ o[8] = (IF request.rows[1] = <<>> THEN 0 ELSE 1) /\ o[9] = Len(request.rows[1])
  /\ ReadValue(d, p10, TRUE) = Got(request.sql, p11)
  /\ Fields(d, p11, Iterations) = Got(n, p14) /\ n[2] = Len(request.rows)
  /\ p14 \in Nat \ {0} /\ StandsAt(descriptors, d, p14)
  /\ p15 = p14 + Len(descriptors) /\ p15 \in Nat \ {0} /\ StandsAt(rows, d, p15)
  /\ p15 + Len(rows) = Len(d) + 1

\* What a driver sends of a request: any text, of any length and with any
\* number of values and of rows that four bytes can count.
Sent(request) ==
  /\ request.seq \in Byte /\ request.size \in FourBytes
  /\ request.sql \in Seq(Byte) /\ request.sql # <<>> /\ Len(request.sql) \in FourBytes
  /\ Len(request.rows) \in FourBytes /\ Len(request.rows[1]) \in FourBytes

DescriptorsOf(request) == EachOf(Types(request.rows[1]), ThinDescriptor)

RowsOf(request) == IF Len(request.rows[1]) = request.outs THEN <<>>
                   ELSE EachOf(request.rows, LAMBDA row : RowOf(SubSeq(row, 1, Len(row) - request.outs)))

\* Zeros are bytes.
LEMMA ZerosAreBytes ==
  ASSUME NEW n \in Nat
  PROVE  Zeros(n) \in Seq(Byte) /\ Len(Zeros(n)) = n
<1>1. 0 \in Byte
  BY DEF Byte
<1>2. Zeros(n) = [i \in 1..n |-> 0]
  BY DEF Zeros
<1> QED BY <1>1, <1>2

\* The parts of an Execute.
PartsOf(request, asks, than, b) ==
  <<3, 94, request.seq>> \o WriteUb(asks) \o <<0, 1>> \o WriteUb(Len(request.sql)) \o <<1>> \o WriteUb(than)
  \o <<0, 0, 0>> \o WriteUb(request.size)
  \o (<<0, b>> \o WriteUb(Len(request.rows[1])) \o Zeros(25))
  \o WriteValue(request.sql) \o <<1, 1>> \o WriteUb(Len(request.rows)) \o Zeros(11)
  \o DescriptorsOf(request) \o RowsOf(request)

\* They are those of a driver other than the jdbc ones.
LEMMA ThinExecuteIs ==
  ASSUME NEW driver, driver.kind # "jdbc", NEW request, NEW asks, asks = 32801, NEW than, than = 13,
         NEW b, b = (IF request.rows[1] = <<>> THEN 0 ELSE 1)
  PROVE  ThinExecute(driver, request) = PartsOf(request, asks, than, b)
<1> DEFINE options == IF driver.kind = "jdbc" THEN Zeros(21)
                      ELSE <<0, IF request.rows[1] = <<>> THEN 0 ELSE 1>> \o WriteUb(Len(request.rows[1])) \o Zeros(25)
<1>1. driver.kind # "jdbc" /\ b = (IF request.rows[1] = <<>> THEN 0 ELSE 1)
  OBVIOUS
<1>2. options = <<0, b>> \o WriteUb(Len(request.rows[1])) \o Zeros(25)
  BY ONLY <1>1
<1>3. ThinExecute(driver, request)
           = <<3, 94, request.seq>> \o WriteUb(32801) \o <<0, 1>> \o WriteUb(Len(request.sql)) \o <<1>> \o WriteUb(13)
             \o <<0, 0, 0>> \o WriteUb(request.size) \o options
             \o WriteValue(request.sql) \o <<1, 1>> \o WriteUb(Len(request.rows)) \o Zeros(11)
             \o DescriptorsOf(request) \o RowsOf(request)
  BY ONLY DEF ThinExecute, DescriptorsOf, RowsOf
<1> HIDE DEF options
<1>4. asks = 32801 /\ than = 13
  OBVIOUS
<1> QED BY ONLY <1>2, <1>3, <1>4 DEF PartsOf

\* An Execute is read up to its descriptors: the rows asked for, the text, and
\* how many values and rows there are, whatever each of them is.
LEMMA LeadIsRead ==
  ASSUME NEW driver, driver.kind # "jdbc", NEW request, Sent(request),
         DescriptorsOf(request) \in Seq(Byte), RowsOf(request) \in Seq(Byte),
         NEW d, d = <<0, 0>> \o ThinExecute(driver, request)
  PROVE  /\ d \in Seq(Byte) /\ ThinExecute(driver, request) \in Seq(Byte) /\ StandsAt(<<3, 94, request.seq>>, d, 3)
         /\ \E h, o, n, a5, a10, a11, a14, a15 :
              Leads(d, request, DescriptorsOf(request), RowsOf(request), h, o, n, a5, a10, a11, a14, a15)
<1>0. driver.kind # "jdbc" /\ d = <<0, 0>> \o ThinExecute(driver, request)
  OBVIOUS
<1>a. /\ request.seq \in Byte /\ request.size \in FourBytes
      /\ request.sql \in Seq(Byte) /\ Len(request.sql) \in FourBytes
      /\ Len(request.rows) \in FourBytes /\ Len(request.rows[1]) \in FourBytes
  BY DEF Sent
<1>b. PICK asks : asks = 32801 /\ asks \in FourBytes
  <2>1. 32801 \in FourBytes
    BY SMT DEF FourBytes
  <2> QED BY <2>1
<1>c. PICK than : than = 13 /\ than \in FourBytes
  <2>1. 13 \in FourBytes
    BY SMT DEF FourBytes
  <2> QED BY <2>1
<1>d. PICK b : b = (IF request.rows[1] = <<>> THEN 0 ELSE 1)
  OBVIOUS
<1>e. PICK z2, pair, count : z2 = <<0, 0>> /\ pair = <<0, b>> /\ count = WriteUb(Len(request.rows[1]))
  OBVIOUS
<1>h. PICK bits : bits = Joined(pair, count)
  OBVIOUS
<1>p. PICK p1, p2, p3, p4, p5, p6, p7, p8, p10, p11, p12, p13, p14, p15 :
         /\ p1 = <<3, 94, request.seq>> /\ p2 = WriteUb(asks) /\ p3 = <<0, 1>> /\ p4 = WriteUb(Len(request.sql))
         /\ p5 = <<1>> /\ p6 = WriteUb(than) /\ p7 = <<0, 0, 0>> /\ p8 = WriteUb(request.size)
         /\ p10 = WriteValue(request.sql) /\ p11 = <<1, 1>> /\ p12 = WriteUb(Len(request.rows))
         /\ p13 = Zeros(11) /\ p14 = DescriptorsOf(request) /\ p15 = RowsOf(request)
  OBVIOUS
<1>p9. PICK p9 : p9 = Joined(bits, Zeros(25))
  OBVIOUS
<1>w. PICK w2, w3, w4, w5, w6, w7, w8, w9, w10, w11, w12, w13, w14, w15 :
         /\ w2 = Joined(p1, p2) /\ w3 = Joined(w2, p3) /\ w4 = Joined(w3, p4) /\ w5 = Joined(w4, p5)
         /\ w6 = Joined(w5, p6) /\ w7 = Joined(w6, p7) /\ w8 = Joined(w7, p8) /\ w9 = Joined(w8, p9)
         /\ w10 = Joined(w9, p10) /\ w11 = Joined(w10, p11) /\ w12 = Joined(w11, p12) /\ w13 = Joined(w12, p13)
         /\ w14 = Joined(w13, p14) /\ w15 = Joined(w14, p15)
  OBVIOUS
<1>1. ThinExecute(driver, request) = w15
  <2>3. ThinExecute(driver, request) = p1 \o p2 \o p3 \o p4 \o p5 \o p6 \o p7 \o p8 \o p9 \o p10 \o p11 \o p12 \o p13 \o p14 \o p15
    <3>1. ThinExecute(driver, request) = PartsOf(request, asks, than, b)
      BY ONLY <1>0, <1>b, <1>c, <1>d, ThinExecuteIs
    <3>3. p9 = <<0, b>> \o WriteUb(Len(request.rows[1])) \o Zeros(25)
      BY ONLY <1>e, <1>h, <1>p9 DEF Joined
    <3> QED BY ONLY <3>1, <3>3, <1>p DEF PartsOf
  <2> QED BY ONLY <2>3, <1>w DEF Joined
<1>2. /\ 0 \in Byte /\ 1 \in Byte /\ 3 \in Byte /\ 94 \in Byte /\ b \in Byte
  <2>1. 0 \in Byte /\ 1 \in Byte /\ 3 \in Byte /\ 94 \in Byte
    BY ONLY DEF Byte
  <2> QED BY ONLY <1>d, <2>1
<1>3. /\ z2 \in Seq(Byte) /\ Len(z2) = 2 /\ pair \in Seq(Byte) /\ Len(pair) = 2
      /\ p1 \in Seq(Byte) /\ Len(p1) = 3 /\ p3 \in Seq(Byte) /\ Len(p3) = 2 /\ p5 \in Seq(Byte) /\ Len(p5) = 1
      /\ p7 \in Seq(Byte) /\ Len(p7) = 3 /\ p11 \in Seq(Byte) /\ Len(p11) = 2
  <2>1. z2 \in Seq(Byte) /\ Len(z2) = 2 /\ pair \in Seq(Byte) /\ Len(pair) = 2
    BY ONLY <1>2, <1>e
  <2>2. p1 \in Seq(Byte) /\ Len(p1) = 3 /\ p3 \in Seq(Byte) /\ Len(p3) = 2
    BY ONLY <1>a, <1>2, <1>p
  <2>3. p5 \in Seq(Byte) /\ Len(p5) = 1 /\ p7 \in Seq(Byte) /\ Len(p7) = 3 /\ p11 \in Seq(Byte) /\ Len(p11) = 2
    BY ONLY <1>2, <1>p
  <2> QED BY ONLY <2>1, <2>2, <2>3
<1>4. p2 \in Seq(Byte) /\ p4 \in Seq(Byte) /\ p6 \in Seq(Byte) /\ p8 \in Seq(Byte) /\ p12 \in Seq(Byte) /\ count \in Seq(Byte)
  <2>1. p2 \in Seq(Byte)
    BY ONLY <1>b, <1>p, WriteUbBytes
  <2>2. p4 \in Seq(Byte)
    BY ONLY <1>a, <1>p, WriteUbBytes
  <2>3. p6 \in Seq(Byte)
    BY ONLY <1>c, <1>p, WriteUbBytes
  <2>4. p8 \in Seq(Byte)
    BY ONLY <1>a, <1>p, WriteUbBytes
  <2>5. p12 \in Seq(Byte)
    BY ONLY <1>a, <1>p, WriteUbBytes
  <2>6. count \in Seq(Byte)
    BY ONLY <1>a, <1>e, WriteUbBytes
  <2> QED BY ONLY <2>1, <2>2, <2>3, <2>4, <2>5, <2>6
<1>5. p10 \in Seq(Byte)
  BY ONLY <1>a, <1>p, WrittenIsBytes
<1>6. p13 \in Seq(Byte) /\ Len(p13) = 11 /\ Zeros(25) \in Seq(Byte) /\ Len(Zeros(25)) = 25
  <2>1. PICK n, k : n = 11 /\ k = 25 /\ n \in Nat /\ k \in Nat
    OBVIOUS
  <2>2. Zeros(n) \in Seq(Byte) /\ Len(Zeros(n)) = n /\ Zeros(k) \in Seq(Byte) /\ Len(Zeros(k)) = k
    BY ONLY <2>1, ZerosAreBytes
  <2> QED BY ONLY <1>p, <2>1, <2>2
<1>7. bits \in Seq(Byte) /\ Len(bits) = 2 + Len(count) /\ Len(count) \in Nat
  <2>1. bits \in Seq(Byte) /\ Len(bits) = Len(pair) + Len(count) /\ Len(count) \in Nat
    BY ONLY <1>3, <1>4, <1>h, JoinedBytes
  <2>2. Len(pair) = 2
    BY ONLY <1>3
  <2> QED BY ONLY <2>1, <2>2
<1>8. p9 \in Seq(Byte) /\ Len(p9) = Len(bits) + 25
  <2>1. p9 \in Seq(Byte) /\ Len(p9) = Len(bits) + Len(Zeros(25))
    BY ONLY <1>6, <1>7, <1>p9, JoinedBytes
  <2> QED BY ONLY <1>6, <2>1
<1>9. p14 \in Seq(Byte) /\ p15 \in Seq(Byte)
  BY <1>p, <1>p
<1>c1. PICK seqs : seqs = <<p1, p2, p3, p4, p5, p6, p7, p8, p9, p10, p11, p12, p13, p14, p15>>
  OBVIOUS
<1>c2. PICK f : f = <<p1, w2, w3, w4, w5, w6, w7, w8, w9, w10, w11, w12, w13, w14, w15>>
  OBVIOUS
<1>c3. Len(seqs) = 15 /\ seqs[1] = p1 /\ seqs[2] = p2 /\ seqs[3] = p3 /\ seqs[4] = p4 /\ seqs[5] = p5 /\ seqs[6] = p6 /\ seqs[7] = p7
      /\ seqs[8] = p8 /\ seqs[9] = p9 /\ seqs[10] = p10 /\ seqs[11] = p11 /\ seqs[12] = p12 /\ seqs[13] = p13 /\ seqs[14] = p14 /\ seqs[15] = p15
  BY ONLY <1>c1
<1>c4. f[1] = p1 /\ f[2] = w2 /\ f[3] = w3 /\ f[4] = w4 /\ f[5] = w5 /\ f[6] = w6 /\ f[7] = w7
      /\ f[8] = w8 /\ f[9] = w9 /\ f[10] = w10 /\ f[11] = w11 /\ f[12] = w12 /\ f[13] = w13 /\ f[14] = w14 /\ f[15] = w15
  BY ONLY <1>c2
<1>c5. \A i \in 1..15 : i \in {1, 2, 3, 4, 5, 6, 7, 8, 9, 10, 11, 12, 13, 14, 15}
  OBVIOUS
<1>c6. p1 \in Seq(Byte) /\ p2 \in Seq(Byte) /\ p3 \in Seq(Byte) /\ p4 \in Seq(Byte) /\ p5 \in Seq(Byte)
      /\ p6 \in Seq(Byte) /\ p7 \in Seq(Byte) /\ p8 \in Seq(Byte) /\ p9 \in Seq(Byte) /\ p10 \in Seq(Byte)
      /\ p11 \in Seq(Byte) /\ p12 \in Seq(Byte) /\ p13 \in Seq(Byte) /\ p14 \in Seq(Byte) /\ p15 \in Seq(Byte)
  BY ONLY <1>3, <1>4, <1>5, <1>6, <1>8, <1>9
<1>c7. \A i \in 1..15 : seqs[i] \in Seq(Byte)
  <2> TAKE i \in 1..15
  <2> QED BY ONLY <1>c3, <1>c5, <1>c6, i \in 1..15
<1>c8. \A i \in 2..15 : f[i] = Joined(f[i - 1], seqs[i])
  <2> TAKE i \in 2..15
  <2>16. i \in {2, 3, 4, 5, 6, 7, 8, 9, 10, 11, 12, 13, 14, 15}
    OBVIOUS
  <2> QED BY ONLY <1>w, <1>c3, <1>c4, <2>16, SMTT(60)
<1>c9. Chained(f, seqs, 15)
  <2>1. 15 \in Nat \ {0} /\ f[1] = seqs[1]
    BY ONLY <1>c3, <1>c4
  <2> QED BY ONLY <1>c3, <1>c7, <1>c8, <2>1 DEF Chained
<1>10. /\ f[15] \in Seq(Byte)
       /\ \A dd \in Seq(Byte) : \A at \in Nat \ {0} : StandsAt(f[15], dd, at) => EachStands(seqs, dd, at, at + Len(f[15]))
  BY ONLY <1>c9, ChainStands
<1>10w. w15 \in Seq(Byte)
  BY ONLY <1>10, <1>c4
<1>11. d = Joined(z2, w15)
  BY ONLY <1>0, <1>1, <1>e DEF Joined
<1>12. d \in Seq(Byte) /\ Len(d) = 2 + Len(w15) /\ Len(w15) \in Nat
  <2>1. d \in Seq(Byte) /\ Len(d) = Len(z2) + Len(w15) /\ Len(w15) \in Nat
    BY ONLY <1>3, <1>10w, <1>11, JoinedBytes
  <2> QED BY ONLY <1>3, <2>1
<1>13. PICK i1 : i1 = 1
  OBVIOUS
<1>14. PICK i3 : i3 = i1 + Len(z2)
  OBVIOUS
<1>15. i1 \in Nat \ {0} /\ i3 = 3 /\ i3 \in Nat \ {0}
  BY ONLY <1>3, <1>13, <1>14
<1>16. StandsAt(z2, d, i1) /\ StandsAt(w15, d, i3)
  <2>1. StandsAt(d, d, 1)
    BY ONLY <1>12, StandsInItself
  <2>2. StandsAt(Joined(z2, w15), d, i1)
    BY ONLY <1>11, <1>13, <2>1
  <2>3. z2 \in Seq(Byte) /\ w15 \in Seq(Byte) /\ d \in Seq(Byte)
    BY ONLY <1>3, <1>10w, <1>12
  <2> QED BY ONLY <1>14, <1>15, <2>2, <2>3, PartsOfJoined
<1>c10. EachStands(seqs, d, i3, i3 + Len(w15))
  BY ONLY <1>c4, <1>10, <1>12, <1>15, <1>16
<1>c11. PICK ats : /\ BehindEach(ats, seqs, i3)
                  /\ \A i \in 1..Len(seqs) : StandsAt(seqs[i], d, ats[i])
                  /\ ats[Len(seqs) + 1] = i3 + Len(w15)
  BY ONLY <1>c10 DEF EachStands
<1>17. /\ ats[1] = i3
       /\ \A i \in 1..15 : StandsAt(seqs[i], d, ats[i]) /\ ats[i + 1] = ats[i] + Len(seqs[i])
       /\ \A i \in 1..16 : ats[i] \in Nat \ {0}
       /\ ats[16] = i3 + Len(w15)
  <2>1. 15 + 1 = 16
    OBVIOUS
  <2> QED BY ONLY <1>c3, <1>c11, <2>1 DEF BehindEach
<1>17a. 1 \in 1..16 /\ 2 \in 1..16 /\ 3 \in 1..16 /\ 4 \in 1..16 /\ 5 \in 1..16 /\ 6 \in 1..16 /\ 7 \in 1..16 /\ 8 \in 1..16 /\ 9 \in 1..16 /\ 10 \in 1..16 /\ 1 \in 1..15
  OBVIOUS
<1>a1. PICK a1 : a1 = ats[1] /\ a1 \in Nat \ {0}
  BY ONLY <1>17, <1>17a
<1>a2. PICK a2 : a2 = ats[2] /\ a2 \in Nat \ {0}
  BY ONLY <1>17, <1>17a
<1>a3. PICK a3 : a3 = ats[3] /\ a3 \in Nat \ {0}
  BY ONLY <1>17, <1>17a
<1>a4. PICK a4 : a4 = ats[4] /\ a4 \in Nat \ {0}
  BY ONLY <1>17, <1>17a
<1>a5. PICK a5 : a5 = ats[5] /\ a5 \in Nat \ {0}
  BY ONLY <1>17, <1>17a
<1>a6. PICK a6 : a6 = ats[6] /\ a6 \in Nat \ {0}
  BY ONLY <1>17, <1>17a
<1>a7. PICK a7 : a7 = ats[7] /\ a7 \in Nat \ {0}
  BY ONLY <1>17, <1>17a
<1>a8. PICK a8 : a8 = ats[8] /\ a8 \in Nat \ {0}
  BY ONLY <1>17, <1>17a
<1>a9. PICK a9 : a9 = ats[9] /\ a9 \in Nat \ {0}
  BY ONLY <1>17, <1>17a
<1>a10. PICK a10 : a10 = ats[10] /\ a10 \in Nat \ {0}
  BY ONLY <1>17, <1>17a
<1>a11. PICK a11 : a11 = ats[11] /\ a11 \in Nat \ {0}
  BY ONLY <1>17, <1>17a
<1>a12. PICK a12 : a12 = ats[12] /\ a12 \in Nat \ {0}
  BY ONLY <1>17, <1>17a
<1>a13. PICK a13 : a13 = ats[13] /\ a13 \in Nat \ {0}
  BY ONLY <1>17, <1>17a
<1>a14. PICK a14 : a14 = ats[14] /\ a14 \in Nat \ {0}
  BY ONLY <1>17, <1>17a
<1>a15. PICK a15 : a15 = ats[15] /\ a15 \in Nat \ {0}
  BY ONLY <1>17, <1>17a
<1>a16. PICK a16 : a16 = ats[16] /\ a16 \in Nat \ {0}
  BY ONLY <1>17, <1>17a
<1>s1. StandsAt(p1, d, a1) /\ a2 = a1 + Len(p1)
  <2>1. 1 \in 1..15 /\ 1 + 1 = 2
    OBVIOUS
  <2>2. StandsAt(seqs[1], d, ats[1]) /\ ats[2] = ats[1] + Len(seqs[1])
    BY ONLY <1>17, <2>1
  <2> QED BY ONLY <2>2, <1>c3, <1>a1, <1>a2
<1>s2. StandsAt(p2, d, a2) /\ a3 = a2 + Len(p2)
  BY ONLY <1>17, <1>c3, <1>a2, <1>a3
<1>s3. StandsAt(p3, d, a3) /\ a4 = a3 + Len(p3)
  BY ONLY <1>17, <1>c3, <1>a3, <1>a4
<1>s4. StandsAt(p4, d, a4) /\ a5 = a4 + Len(p4)
  BY ONLY <1>17, <1>c3, <1>a4, <1>a5
<1>s5. StandsAt(p5, d, a5) /\ a6 = a5 + Len(p5)
  BY ONLY <1>17, <1>c3, <1>a5, <1>a6
<1>s6. StandsAt(p6, d, a6) /\ a7 = a6 + Len(p6)
  BY ONLY <1>17, <1>c3, <1>a6, <1>a7
<1>s7. StandsAt(p7, d, a7) /\ a8 = a7 + Len(p7)
  BY ONLY <1>17, <1>c3, <1>a7, <1>a8
<1>s8. StandsAt(p8, d, a8) /\ a9 = a8 + Len(p8)
  BY ONLY <1>17, <1>c3, <1>a8, <1>a9
<1>s9. StandsAt(p9, d, a9) /\ a10 = a9 + Len(p9)
  BY ONLY <1>17, <1>c3, <1>a9, <1>a10
<1>s10. StandsAt(p10, d, a10) /\ a11 = a10 + Len(p10)
  BY ONLY <1>17, <1>c3, <1>a10, <1>a11
<1>s11. StandsAt(p11, d, a11) /\ a12 = a11 + Len(p11)
  BY ONLY <1>17, <1>c3, <1>a11, <1>a12
<1>s12. StandsAt(p12, d, a12) /\ a13 = a12 + Len(p12)
  BY ONLY <1>17, <1>c3, <1>a12, <1>a13
<1>s13. StandsAt(p13, d, a13) /\ a14 = a13 + Len(p13)
  BY ONLY <1>17, <1>c3, <1>a13, <1>a14
<1>s14. StandsAt(p14, d, a14) /\ a15 = a14 + Len(p14)
  BY ONLY <1>17, <1>c3, <1>a14, <1>a15
<1>s15. StandsAt(p15, d, a15) /\ a16 = a15 + Len(p15)
  BY ONLY <1>17, <1>c3, <1>a15, <1>a16
<1>18. a1 = 3 /\ a2 = 6 /\ a16 = i3 + Len(w15)
  BY ONLY <1>3, <1>15, <1>17, <1>a1, <1>a2, <1>a16, <1>s1
<1>19. PICK h : Fields(d, 1, Header) = Got(h, a5) /\ h[7] = 1 /\ h[8] = Len(request.sql)
  <2>1. StandsAt(<<0, 0>>, d, 1) /\ StandsAt(<<3, 94, request.seq>>, d, 3)
    BY ONLY <1>13, <1>16, <1>18, <1>e, <1>p, <1>s1
  <2>2. StandsAt(WriteUb(asks), d, 6) /\ a3 = 6 + Len(WriteUb(asks))
    BY ONLY <1>18, <1>p, <1>s2
  <2>3. StandsAt(<<0, 1>>, d, a3) /\ a4 = a3 + 2
    BY ONLY <1>3, <1>p, <1>s3
  <2>4. PICK n : n = Len(request.sql) /\ n \in FourBytes
    BY ONLY <1>a
  <2>5. StandsAt(WriteUb(n), d, a4) /\ a5 = a4 + Len(WriteUb(n))
    BY ONLY <1>p, <1>s4, <2>4
  <2>6. PICK seq : seq = request.seq /\ seq \in Byte
    BY ONLY <1>a
  <2>7. a3 \in Nat /\ a4 \in Nat /\ a5 \in Nat /\ asks \in FourBytes /\ d \in Seq(Byte) /\ StandsAt(<<3, 94, seq>>, d, 3)
    BY ONLY <1>a3, <1>a4, <1>a5, <1>b, <1>12, <2>1, <2>6, SMTT(60)
  <2>8. \E v : Fields(d, 1, Header) = Got(v, a5) /\ v[7] = 1 /\ v[8] = n
    <3>1. HeaderStands(d, seq, asks, n, a3, a4, a5)
      BY ONLY <2>1, <2>2, <2>3, <2>4, <2>5, <2>6, <2>7 DEF HeaderStands
    <3> QED BY ONLY <3>1, HeaderIsRead
  <2> QED BY ONLY <2>4, <2>8
<1>20. PICK o : /\ Fields(d, a5, Preamble \o Options) = Got(o, a10)
                /\ o[6] = request.size /\ o[8] = b /\ o[9] = Len(request.rows[1])
  <2>1. StandsAt(<<1>>, d, a5) /\ a6 = a5 + 1
    BY ONLY <1>3, <1>p, <1>s5
  <2>2. StandsAt(WriteUb(than), d, a6) /\ a7 = a6 + Len(WriteUb(than))
    BY ONLY <1>p, <1>s6
  <2>3. StandsAt(<<0, 0, 0>>, d, a7) /\ a8 = a7 + 3
    BY ONLY <1>3, <1>p, <1>s7
  <2>4. PICK size : size = request.size /\ size \in FourBytes
    BY ONLY <1>a
  <2>5. StandsAt(WriteUb(size), d, a8) /\ a9 = a8 + Len(WriteUb(size))
    BY ONLY <1>p, <1>s8, <2>4
  <2>6. PICK n : n = Len(request.rows[1]) /\ n \in FourBytes
    BY ONLY <1>a
  <2>7. PICK q : q = a9 + Len(bits)
    OBVIOUS
  <2>8. StandsAt(bits, d, a9) /\ StandsAt(Zeros(25), d, q) /\ q \in Nat \ {0}
    <3>1. StandsAt(Joined(bits, Zeros(25)), d, a9)
      BY ONLY <1>p9, <1>s9
    <3>2. bits \in Seq(Byte) /\ Zeros(25) \in Seq(Byte) /\ d \in Seq(Byte)
      BY ONLY <1>6, <1>7, <1>12
    <3> QED BY ONLY <1>a9, <2>7, <3>1, <3>2, PartsOfJoined
  <2>9. PICK r : r = a9 + Len(pair)
    OBVIOUS
  <2>10. StandsAt(pair, d, a9) /\ StandsAt(count, d, r) /\ r \in Nat \ {0}
    <3>1. StandsAt(Joined(pair, count), d, a9)
      BY ONLY <1>h, <2>8
    <3>2. pair \in Seq(Byte) /\ count \in Seq(Byte) /\ d \in Seq(Byte)
      BY ONLY <1>3, <1>4, <1>12
    <3> QED BY ONLY <1>a9, <2>9, <3>1, <3>2, PartsOfJoined
  <2>11. r = a9 + 2 /\ q = r + Len(count) /\ a10 = q + 25
    <3>1. r = a9 + 2
      BY ONLY <1>3, <2>9
    <3>2. PICK k : k = Len(count) /\ k \in Nat
      BY ONLY <1>7
    <3>3. q = a9 + (2 + k)
      BY ONLY <1>7, <2>7, <3>2
    <3>4. a10 = a9 + (2 + k + 25)
      BY ONLY <1>7, <1>8, <1>s9, <3>2
    <3>5. a9 \in Nat /\ k \in Nat
      BY ONLY <1>a9, <3>2
    <3>6. q = r + k
      BY ONLY <3>1, <3>3, <3>5
    <3>7. a10 = q + 25
      BY ONLY <3>3, <3>4, <3>5
    <3> QED BY ONLY <3>1, <3>2, <3>6, <3>7
  <2>12. StandsAt(<<0, b>>, d, a9)
    BY ONLY <1>e, <2>10
  <2>13. StandsAt(WriteUb(n), d, r) /\ q = r + Len(WriteUb(n))
    BY ONLY <1>e, <2>6, <2>10, <2>11
  <2>14. /\ a5 \in Nat \ {0} /\ a6 \in Nat /\ a7 \in Nat /\ a8 \in Nat /\ a9 \in Nat /\ r \in Nat /\ q \in Nat
         /\ b \in Byte /\ than \in FourBytes /\ d \in Seq(Byte) /\ r = a9 + 2 /\ StandsAt(Zeros(25), d, q)
    BY ONLY <1>a5, <1>a6, <1>a7, <1>a8, <1>a9, <1>2, <1>c, <1>12, <2>8, <2>10, <2>11
  <2>15. \E v : /\ Fields(d, a5, Preamble \o Options) = Got(v, q + 25)
                /\ v[6] = size /\ v[8] = b /\ v[9] = n
    <3>1. OptionsStand(d, than, size, b, n, a5, a6, a7, a8, a9, r, q)
      BY ONLY <2>1, <2>2, <2>3, <2>4, <2>5, <2>6, <2>12, <2>13, <2>14 DEF OptionsStand
    <3> QED BY ONLY <3>1, OptionsAreRead
  <2> QED BY ONLY <2>4, <2>6, <2>11, <2>15
<1>21. ReadValue(d, a10, TRUE) = Got(request.sql, a11)
  <2>1. PICK v : v = request.sql /\ v \in Seq(Byte) \cup {Null}
    BY ONLY <1>a
  <2>2. StandsAt(WriteValue(v), d, a10) /\ a11 = a10 + Len(WriteValue(v))
    BY ONLY <1>p, <1>s10, <2>1
  <2>3. ReadValue(d, a10, TRUE) = Got(v, a10 + Len(WriteValue(v)))
    BY ONLY <1>12, <1>a10, <2>1, <2>2, ValuesReadBack
  <2> QED BY ONLY <2>1, <2>2, <2>3
<1>22. PICK n : Fields(d, a11, Iterations) = Got(n, a14) /\ n[2] = Len(request.rows)
  <2>1. StandsAt(<<1, 1>>, d, a11) /\ a12 = a11 + 2
    BY ONLY <1>3, <1>p, <1>s11
  <2>2. PICK m : m = Len(request.rows) /\ m \in FourBytes
    BY ONLY <1>a
  <2>3. StandsAt(WriteUb(m), d, a12) /\ a13 = a12 + Len(WriteUb(m))
    BY ONLY <1>p, <1>s12, <2>2
  <2>4. StandsAt(Zeros(11), d, a13) /\ a14 = a13 + 11
    BY ONLY <1>6, <1>p, <1>s13
  <2>5. a11 \in Nat \ {0} /\ a12 \in Nat /\ a13 \in Nat /\ d \in Seq(Byte)
    BY ONLY <1>a11, <1>a12, <1>a13, <1>12
  <2>6. \E v : Fields(d, a11, Iterations) = Got(v, a13 + 11) /\ v[2] = m
    <3>1. IterationsStand(d, m, a11, a12, a13)
      BY ONLY <2>1, <2>2, <2>3, <2>4, <2>5 DEF IterationsStand
    <3> QED BY ONLY <3>1, IterationsAreRead
  <2> QED BY ONLY <2>2, <2>4, <2>6
<1>23. a15 + Len(p15) = Len(d) + 1
  BY ONLY <1>12, <1>15, <1>18, <1>s15
<1>24. Leads(d, request, p14, p15, h, o, n, a5, a10, a11, a14, a15)
  BY ONLY <1>19, <1>20, <1>21, <1>22, <1>23, <1>a14, <1>a15, <1>s14, <1>s15, <1>d DEF Leads
<1>25. Leads(d, request, DescriptorsOf(request), RowsOf(request), h, o, n, a5, a10, a11, a14, a15)
  BY ONLY <1>24, <1>p
<1>26. StandsAt(<<3, 94, request.seq>>, d, 3)
  BY ONLY <1>18, <1>p, <1>s1
<1> QED BY ONLY <1>1, <1>10w, <1>12, <1>25, <1>26

\* What is read of an Execute's binds, for b and nb as its options tell them:
\* first the types, then the rows.
RowsBehind(d, nb, iters, ds) ==
  IF nb = 0 \/ (~ds.v.marker /\ ds.at > Len(d)) THEN Got(<<>>, ds.at)
  ELSE IF ds.v.marker THEN Rows(d, ds.at, ds.v.types, iters, FALSE)
  ELSE IF d[ds.at] # RowData THEN Fail("bad")
  ELSE Rows(d, ds.at + 1, ds.v.types, iters, FALSE)

BoundWith(d, sql, size, nb, iters, ds) ==
  Then(RowsBehind(d, nb, iters, ds), LAMBDA rows : Request(sql, rows.v, ds.v.types, size, iters))

TypesBehind(d, b, at) == IF b # 0 THEN Descriptors(d, at, FALSE) ELSE NoDescriptors(at)

BoundBehind(d, sql, size, b, nb, iters, at) ==
  Then(TypesBehind(d, b, at), LAMBDA ds : BoundWith(d, sql, size, nb, iters, ds))

\* An Execute whose lead is read is read for its binds.
LEMMA BindsBehindTheLead ==
  ASSUME NEW d, NEW request, Sent(request), NEW descriptors, NEW rows,
         NEW h, NEW o, NEW n, NEW p5, NEW p10, NEW p11, NEW p14, NEW p15,
         Leads(d, request, descriptors, rows, h, o, n, p5, p10, p11, p14, p15)
  PROVE  ParseStrict(d) = BoundBehind(d, request.sql, o[6], o[8], o[9], n[2], p14)
<1>1. Fields(d, 1, Header) = Got(h, p5) /\ h[7] = 1 /\ h[8] = Len(request.sql)
  BY DEF Leads
<1>2. Fields(d, p5, Preamble \o Options) = Got(o, p10)
  BY DEF Leads
<1>3. ReadValue(d, p10, TRUE) = Got(request.sql, p11)
  BY DEF Leads
<1>4. Fields(d, p11, Iterations) = Got(n, p14)
  BY DEF Leads
<1>5. request.sql \in Seq(Byte) /\ request.sql # <<>>
  BY DEF Sent
<1>6. PICK H, O, S, N : H = Got(h, p5) /\ O = Got(o, p10) /\ S = Got(request.sql, p11) /\ N = Got(n, p14)
  OBVIOUS
<1>10. H.r = "ok" /\ H.v = h /\ H.at = p5 /\ O.r = "ok" /\ O.v = o /\ O.at = p10
       /\ S.r = "ok" /\ S.v = request.sql /\ S.at = p11 /\ N.r = "ok" /\ N.v = n /\ N.at = p14
  BY ONLY <1>6 DEF Got
<1>11. ~OmitsSql(H)
  <2>1. Len(request.sql) # 0
    BY ONLY <1>5
  <2> QED BY ONLY <1>1, <1>10, <2>1 DEF OmitsSql
<1>12. ~(S.v = Null \/ Len(S.v) # H.v[8])
  <2>1. request.sql # Null
    <3>1. <<-1>> \notin Seq(Byte)
      BY ONLY DEF Byte
    <3> QED BY ONLY <1>5, <3>1 DEF Null
  <2> QED BY ONLY <1>1, <1>10, <2>1
<1>13. Fields(d, 1, Header) = H /\ Fields(d, H.at, Preamble \o Options) = O
       /\ ReadValue(d, O.at, TRUE) = S /\ Fields(d, S.at, Iterations) = N
  BY ONLY <1>1, <1>2, <1>3, <1>4, <1>6, <1>10, ZenonT(60)
<1>14. ParseStrict(d) = BoundBehind(d, S.v, O.v[6], O.v[8], O.v[9], N.v[2], N.at)
  BY ONLY <1>10, <1>11, <1>12, <1>13, ZenonT(60) DEF ParseStrict, Then, BoundBehind, BoundWith, TypesBehind, RowsBehind
<1> QED BY ONLY <1>10, <1>14

\* The types of the values that a row begins with.
Begins(ts, types, k) ==
  k \in Nat /\ Len(types) \in Nat /\ k <= Len(types) /\ Len(ts) = k /\ \A i \in 1..k : ts[i] = types[i]

\* The values that end with the payload are all the values there are, however
\* many types there are behind theirs: those of the outputs.
LEMMA ValuesEndWithTheMessage ==
  ASSUME NEW d, NEW at, NEW ts, NEW types, NEW k, Begins(ts, types, k),
         NEW v, NEW q, q > Len(d), Values(d, at, ts) = Got(v, q)
  PROVE  Values(d, at, types) = Got(v, q)
<1>1. k \in Nat /\ Len(types) \in Nat /\ k <= Len(types) /\ Len(ts) = k /\ \A i \in 1..k : ts[i] = types[i]
  BY DEF Begins
<1>2. PICK m : m = Len(types) /\ m \in Nat /\ k <= m
  BY <1>1
<1>3. PICK f : /\ Values(d, at, types) = f[m]
               /\ f[0] = Got(<<>>, at)
               /\ \A n \in 1..m : f[n] = OneValue(f[n - 1], d, types[n])
  <2>1. \E f : /\ Values(d, at, types) = f[Len(types)]
               /\ f[0] = Got(<<>>, at)
               /\ \A n \in 1..Len(types) : f[n] = OneValue(f[n - 1], d, types[n])
    BY <1>1, ValuesIs
  <2> QED BY <1>2, <2>1
<1>4. PICK g : /\ Values(d, at, ts) = g[k]
               /\ g[0] = Got(<<>>, at)
               /\ \A n \in 1..k : g[n] = OneValue(g[n - 1], d, ts[n])
  <2>1. \E g : /\ Values(d, at, ts) = g[Len(ts)]
               /\ g[0] = Got(<<>>, at)
               /\ \A n \in 1..Len(ts) : g[n] = OneValue(g[n - 1], d, ts[n])
    BY <1>1, ValuesIs
  <2> QED BY <1>1, <2>1
<1> DEFINE T == {n \in Nat : f[n] = g[n]}
<1>5. 0 \in T
  BY <1>3, <1>4
<1>6. ASSUME NEW n \in 1..k, n - 1 \in T PROVE n \in T
  <2>1. n \in 1..m /\ n \in Nat
    BY <1>1, <1>2
  <2>2. f[n - 1] = g[n - 1]
    BY <1>6
  <2>3. ts[n] = types[n]
    BY <1>1
  <2> QED BY <1>3, <1>4, <2>1, <2>2, <2>3
<1> HIDE DEF T
<1>7. f[k] = g[k]
  <2>1. \A n \in 0..k : n \in T
    BY <1>1, <1>5, <1>6, UpToTheEnd
  <2>2. k \in 0..k
    BY <1>1
  <2> QED BY <2>1, <2>2 DEF T
<1>8. PICK x : x = Got(v, q)
  OBVIOUS
<1>9. x.r = "ok" /\ x.at > Len(d)
  BY <1>8 DEF Got
<1>10. Settled(f, k, m, x)
  <2>1. f[k] = x
    BY <1>4, <1>7, <1>8
  <2>2. ASSUME NEW n \in (k + 1)..m, f[n - 1] = x PROVE f[n] = x
    <3>1. n \in 1..m
      BY <1>1, <1>2
    <3>2. OneValue(x, d, types[n]) = x
      BY <1>9 DEF OneValue
    <3> QED BY <1>3, <2>2, <3>1, <3>2
  <2> QED BY <2>1, <2>2 DEF Settled
<1>11. f[m] = x
  <2>1. k \in 0..m
    BY <1>1, <1>2
  <2> QED BY <1>2, <1>10, <2>1, StaysSo
<1> QED BY <1>3, <1>8, <1>11

\* Types without a row bind nothing.
LEMMA BoundToNothing ==
  ASSUME NEW d, NEW sql, NEW size, NEW nb, NEW iters, NEW types, NEW at, nb = 0 \/ at > Len(d)
  PROVE  BoundWith(d, sql, size, nb, iters, Bare(types, at)) = Request(sql, <<>>, types, size, iters)
<1>1. PICK ds : ds = Bare(types, at)
  OBVIOUS
<1>2. ds.at = at /\ ~ds.v.marker /\ ds.v.types = types
  BY ONLY <1>1 DEF Bare, Got, Known
<1>3. PICK none : none = Got(<<>>, at)
  OBVIOUS
<1>4. none.r = "ok" /\ none.v = <<>>
  BY ONLY <1>3 DEF Got
<1>5. RowsBehind(d, nb, iters, ds) = none
  BY <1>2, <1>3 DEF RowsBehind
<1>6. BoundWith(d, sql, size, nb, iters, ds) = Request(sql, none.v, ds.v.types, size, iters)
  BY ONLY <1>4, <1>5 DEF BoundWith, Then
<1> QED BY ONLY <1>1, <1>2, <1>4, <1>6

\* Behind the marker of a row the rows are bound, for all the types.
LEMMA BoundToRows ==
  ASSUME NEW d, NEW sql, NEW size, NEW nb, NEW iters, NEW types, NEW at, nb # 0,
         NEW rows, NEW q, StrictRows(d, at, types, iters) = Got(rows, q)
  PROVE  BoundWith(d, sql, size, nb, iters, AtRow(types, at)) = Request(sql, rows, types, size, iters)
<1>1. PICK ds : ds = AtRow(types, at)
  OBVIOUS
<1>2. ds.at = at /\ ds.v.marker /\ ds.v.types = types
  BY ONLY <1>1 DEF AtRow, Got, Known
<1>3. PICK some : some = Got(rows, q)
  OBVIOUS
<1>4. some.r = "ok" /\ some.v = rows
  BY ONLY <1>3 DEF Got
<1>5. RowsBehind(d, nb, iters, ds) = StrictRows(d, at, types, iters)
  BY <1>2 DEF RowsBehind, StrictRows
<1>6. RowsBehind(d, nb, iters, ds) = some
  BY <1>3, <1>5
<1>7. BoundWith(d, sql, size, nb, iters, ds) = Request(sql, some.v, ds.v.types, size, iters)
  BY ONLY <1>4, <1>6 DEF BoundWith, Then
<1> QED BY ONLY <1>1, <1>2, <1>4, <1>7

-----------------------------------------------------------------------------
(* The binds of an Execute. *)

\* The values a driver sends in each row: none for the outputs of a RETURNING,
\* which come last.
HeldRows(request) == [i \in 1..Len(request.rows) |-> SubSeq(request.rows[i], 1, Len(request.rows[i]) - request.outs)]

HeldTypes(request) == SubSeq(Types(request.rows[1]), 1, Len(request.rows[1]) - request.outs)

\* What a driver can execute: as many values as the server takes, of any types
\* but the one that is a row's marker, in any number of rows that are all of
\* the same types.  Outputs are those of a single row.
Executable(request, Value) ==
  /\ Sent(request)
  /\ request.rows \in Seq(Seq(Value)) /\ request.rows # <<>>
  /\ Types(request.rows[1]) \in Seq(Byte)
  /\ ~(Len(request.rows[1]) > MaxDescriptors)
  /\ \A i \in 1..Len(request.rows[1]) : Types(request.rows[1])[i] # RowData
  /\ request.outs \in 0..Len(request.rows[1])
  /\ request.outs # 0 => Len(request.rows) = 1
  /\ request.outs # Len(request.rows[1]) => AlikeRows(HeldRows(request), HeldTypes(request), Len(request.rows))

\* The values the server is to bind, row by row.
Given(request) == IF request.outs = Len(request.rows[1]) THEN <<>>
                  ELSE DecodedRows(HeldRows(request), Len(request.rows))

\* The counts of what a driver executes.
LEMMA ExecutableCounts ==
  ASSUME NEW Value, NEW request, Executable(request, Value),
         NEW types, types = Types(request.rows[1]), NEW row, row = request.rows[1]
  PROVE  /\ Len(request.rows) \in Nat \ {0} /\ DOMAIN request.rows = 1..Len(request.rows)
         /\ types \in Seq(Byte) /\ Len(types) = Len(row) /\ DOMAIN types = 1..Len(types) /\ Len(types) \in Nat
         /\ row \in Seq(Value) /\ (row = <<>> <=> Len(types) = 0) /\ (Len(types) = 0 => types = <<>>)
<1>1. request.rows \in Seq(Seq(Value)) /\ request.rows # <<>> /\ types \in Seq(Byte)
  BY DEF Executable
<1>2. Len(request.rows) \in Nat \ {0} /\ DOMAIN request.rows = 1..Len(request.rows)
  BY ONLY <1>1
<1>3. row \in Seq(Value)
  <2>1. 1 \in 1..Len(request.rows)
    BY ONLY <1>2
  <2> QED BY ONLY <1>1, <2>1, ElementOfSeq, row = request.rows[1]
<1>4. DOMAIN types = 1..Len(types) /\ Len(types) \in Nat
  BY ONLY <1>1
<1>5. DOMAIN row = 1..Len(row) /\ Len(row) \in Nat /\ (row = <<>> <=> Len(row) = 0)
  BY ONLY <1>3
<1>6. DOMAIN types = DOMAIN row
  BY DEF Types
<1>7. Len(types) = Len(row)
  <2>1. PICK a, b : a = Len(types) /\ b = Len(row)
    OBVIOUS
  <2>2. a \in Nat /\ b \in Nat /\ 1..a = 1..b
    BY ONLY <1>4, <1>5, <1>6, <2>1
  <2>3. (a # 0 => a \in 1..a) /\ (b # 0 => b \in 1..b)
    BY ONLY <2>2
  <2>4. (a # 0 => a \in 1..b) /\ (b # 0 => b \in 1..a)
    BY ONLY <2>2, <2>3
  <2>5. (a # 0 => a <= b) /\ (b # 0 => b <= a)
    BY ONLY <2>2, <2>4
  <2> QED BY ONLY <2>1, <2>2, <2>5
<1>8. Len(types) = 0 => types = <<>>
  BY ONLY <1>1
<1> QED BY ONLY <1>1, <1>2, <1>3, <1>4, <1>5, <1>7, <1>8

\* A descriptor is bytes.
LEMMA DescriptorIsBytes ==
  ASSUME NEW type \in Byte
  PROVE  ThinDescriptor(type) \in Seq(Byte)
<1>1a. PICK a : a = <<type, 1, 0, 0>>
  OBVIOUS
<1>2. PICK n : n = 4000 /\ n \in FourBytes
  <2>1. 4000 \in FourBytes
    BY SMT DEF FourBytes
  <2> QED BY <2>1
<1>1b. PICK b, c, e : b = WriteUb(n) /\ c = <<0, 0, 0, 0>> /\ e = <<0, 1, 0, 0>>
  OBVIOUS
<1>1. a = <<type, 1, 0, 0>> /\ b = WriteUb(n) /\ c = <<0, 0, 0, 0>> /\ e = <<0, 1, 0, 0>>
  BY <1>1a, <1>1b
<1>3. a \in Seq(Byte) /\ b \in Seq(Byte) /\ c \in Seq(Byte) /\ e \in Seq(Byte) /\ Len(a) = 4 /\ Len(c) = 4 /\ Len(e) = 4
  <2>1. 0 \in Byte /\ 1 \in Byte
    BY DEF Byte
  <2> QED BY <1>1, <1>2, <2>1, WriteUbBytes
<1>4. PICK ab, abc, w : ab = Joined(a, b) /\ abc = Joined(ab, c) /\ w = Joined(abc, e)
  OBVIOUS
<1>5. w = ThinDescriptor(type)
  BY <1>1, <1>2, <1>4, SMTT(60) DEF ThinDescriptor, Joined
<1>6. ab \in Seq(Byte) /\ Len(ab) = 4 + Len(b) /\ Len(b) \in Nat
  <2>1. ab \in Seq(Byte) /\ Len(ab) = Len(a) + Len(b) /\ Len(b) \in Nat
    BY <1>3, <1>4, JoinedBytes
  <2> QED BY <1>3, <2>1
<1>7. abc \in Seq(Byte) /\ Len(abc) = 8 + Len(b)
  <2>1. abc \in Seq(Byte) /\ Len(abc) = Len(ab) + Len(c)
    BY <1>3, <1>4, <1>6, JoinedBytes
  <2> QED BY <1>3, <1>6, <2>1
<1>8. w \in Seq(Byte) /\ Len(w) = 12 + Len(b)
  <2>1. w \in Seq(Byte) /\ Len(w) = Len(abc) + Len(e)
    BY <1>3, <1>4, <1>7, JoinedBytes
  <2> QED BY <1>3, <1>6, <1>7, <2>1
<1> QED BY <1>5, <1>8

\* The descriptors of an Execute stand one behind the other.
LEMMA DescriptorsStand ==
  ASSUME NEW Value, NEW request, Executable(request, Value), NEW types, types = Types(request.rows[1])
  PROVE  /\ DescriptorsOf(request) \in Seq(Byte)
         /\ \A d \in Seq(Byte) : \A at \in Nat \ {0} : StandsAt(DescriptorsOf(request), d, at) =>
              EachStands(DescribedAs(types), d, at, at + Len(DescriptorsOf(request)))
<1>1. PICK row : row = request.rows[1]
  OBVIOUS
<1>2. types \in Seq(Byte) /\ DOMAIN types = 1..Len(types) /\ Len(types) \in Nat
  BY <1>1, ExecutableCounts
<1>3. PICK seqs : seqs = DescribedAs(types)
  OBVIOUS
<1>4. seqs = [i \in 1..Len(types) |-> ThinDescriptor(types[i])]
  BY ONLY <1>3 DEF DescribedAs
<1>5. DescriptorsOf(request) = FlattenSeq(seqs)
  <2>1. seqs = [i \in DOMAIN types |-> ThinDescriptor(types[i])]
    BY ONLY <1>2, <1>4
  <2>2. DescriptorsOf(request) = FlattenSeq([i \in DOMAIN types |-> ThinDescriptor(types[i])])
    BY ONLY types = Types(request.rows[1]) DEF DescriptorsOf, EachOf
  <2> QED BY ONLY <2>1, <2>2
<1>6. Len(seqs) = Len(types) /\ (Len(seqs) = 0 => seqs = <<>>)
  BY ONLY <1>2, <1>4
<1>7. \A i \in 1..Len(seqs) : seqs[i] \in Seq(Byte)
  <2>1. ASSUME NEW i \in 1..Len(types) PROVE seqs[i] \in Seq(Byte)
    <3>1. types[i] \in Byte
      BY ONLY <1>2, i \in 1..Len(types), ElementOfSeq
    <3>2. ThinDescriptor(types[i]) \in Seq(Byte)
      BY ONLY <3>1, DescriptorIsBytes
    <3> QED BY ONLY <1>4, <3>2, i \in 1..Len(types)
  <2> QED BY ONLY <1>6, <2>1
<1>8. /\ FlattenSeq(seqs) \in Seq(Byte)
      /\ \A d \in Seq(Byte) : \A at \in Nat \ {0} : StandsAt(FlattenSeq(seqs), d, at) =>
           EachStands(seqs, d, at, at + Len(FlattenSeq(seqs)))
  <2>1. Len(seqs) \in Nat
    BY ONLY <1>2, <1>6
  <2> QED BY ONLY <1>6, <1>7, <2>1, JoinedStands
<1> QED BY ONLY <1>3, <1>5, <1>8

\* So do its rows.
LEMMA RowsStand ==
  ASSUME NEW request, request.outs # Len(request.rows[1]),
         NEW n, n = Len(request.rows), DOMAIN request.rows = 1..n,
         NEW types, AlikeRows(HeldRows(request), types, n)
  PROVE  /\ RowsOf(request) \in Seq(Byte)
         /\ \A d \in Seq(Byte) : \A at \in Nat \ {0} : StandsAt(RowsOf(request), d, at) =>
              EachStands(WrittenRows(HeldRows(request), n), d, at, at + Len(RowsOf(request)))
<1>0. request.outs # Len(request.rows[1]) /\ n = Len(request.rows) /\ DOMAIN request.rows = 1..n
  OBVIOUS
<1>1. PICK held : held = HeldRows(request)
  OBVIOUS
<1>2. n \in Nat \ {0} /\ \A i \in 1..n : Carried(held[i]) /\ Types(held[i]) = types
  BY <1>1 DEF AlikeRows
<1>3. PICK seqs : seqs = WrittenRows(held, n)
  OBVIOUS
<1>4. seqs = [i \in 1..n |-> RowOf(held[i])]
  BY ONLY <1>3 DEF WrittenRows
<1>5. \A i \in 1..n : held[i] = SubSeq(request.rows[i], 1, Len(request.rows[i]) - request.outs)
  BY ONLY <1>0, <1>1 DEF HeldRows
<1>6. RowsOf(request) = FlattenSeq(seqs)
  <2>1. seqs = [i \in DOMAIN request.rows |-> RowOf(SubSeq(request.rows[i], 1, Len(request.rows[i]) - request.outs))]
    BY ONLY <1>0, <1>4, <1>5
  <2>2. RowsOf(request) = FlattenSeq([i \in DOMAIN request.rows |-> RowOf(SubSeq(request.rows[i], 1, Len(request.rows[i]) - request.outs))])
    BY ONLY <1>0 DEF RowsOf, EachOf
  <2> QED BY ONLY <2>1, <2>2
<1>7. Len(seqs) = n /\ Len(seqs) # 0
  BY ONLY <1>2, <1>4
<1>8. \A i \in 1..Len(seqs) : seqs[i] \in Seq(Byte)
  <2>1. ASSUME NEW i \in 1..n PROVE seqs[i] \in Seq(Byte)
    <3>1. PICK values : values = held[i]
      OBVIOUS
    <3>2. Carried(values)
      BY ONLY <1>2, <3>1, i \in 1..n
    <3>3. RowOf(values) \in Seq(Byte)
      BY ONLY <3>2, RowOfIsRead
    <3> QED BY ONLY <1>4, <3>1, <3>3, i \in 1..n
  <2> QED BY ONLY <1>7, <2>1
<1>9. /\ FlattenSeq(seqs) \in Seq(Byte)
      /\ \A d \in Seq(Byte) : \A at \in Nat \ {0} : StandsAt(FlattenSeq(seqs), d, at) =>
           EachStands(seqs, d, at, at + Len(FlattenSeq(seqs)))
  <2>1. Len(seqs) \in Nat
    BY ONLY <1>2, <1>7
  <2> QED BY ONLY <1>7, <1>8, <2>1, JoinedStands
<1> QED BY ONLY <1>1, <1>3, <1>6, <1>9

\* They are bytes.
LEMMA ExecutableRows ==
  ASSUME NEW Value, NEW request, Executable(request, Value)
  PROVE  RowsOf(request) \in Seq(Byte)
<1>1. CASE request.outs = Len(request.rows[1])
  BY ONLY <1>1 DEF RowsOf
<1>2. CASE request.outs # Len(request.rows[1])
  <2>1. PICK ts, n, types, row : ts = HeldTypes(request) /\ n = Len(request.rows)
                                 /\ types = Types(request.rows[1]) /\ row = request.rows[1]
    OBVIOUS
  <2>2. AlikeRows(HeldRows(request), ts, n)
    BY <1>2, <2>1 DEF Executable
  <2>3. DOMAIN request.rows = 1..n
    BY ONLY <2>1, Executable(request, Value), ExecutableCounts
  <2> QED BY ONLY <1>2, <2>1, <2>2, <2>3, RowsStand
<1> QED BY ONLY <1>1, <1>2

\* The rows that end an Execute are read: with outputs, the one row ends before
\* the values of all the types are read.
LEMMA RowsOfExecute ==
  ASSUME NEW Value, NEW request, Executable(request, Value), request.outs # Len(request.rows[1]),
         NEW types, types = Types(request.rows[1]), NEW n, n = Len(request.rows),
         NEW d \in Seq(Byte), NEW p \in Nat \ {0}, NEW q, q = Len(d) + 1,
         EachStands(WrittenRows(HeldRows(request), n), d, p, q)
  PROVE  /\ p \in 1..Len(d) /\ d[p] = RowData
         /\ StrictRows(d, p + 1, types, n) = Got(DecodedRows(HeldRows(request), n), q)
<1>0. PICK row : row = request.rows[1]
  OBVIOUS
<1>1. n \in Nat \ {0} /\ types \in Seq(Byte) /\ Len(types) = Len(row) /\ Len(types) \in Nat
  <2>1. Executable(request, Value) /\ types = Types(request.rows[1]) /\ n = Len(request.rows)
    OBVIOUS
  <2> QED BY ONLY <1>0, <2>1, ExecutableCounts
<1>2. PICK held, ts : held = HeldRows(request) /\ ts = HeldTypes(request)
  OBVIOUS
<1>4. /\ request.outs \in 0..Len(row) /\ request.outs # Len(row)
      /\ request.outs # 0 => n = 1
  BY <1>0 DEF Executable
<1>5. AlikeRows(held, ts, n)
  BY <1>2 DEF Executable
<1>6. PICK k : k = Len(types) - request.outs
  OBVIOUS
<1>7. k \in Nat /\ k <= Len(types) /\ (request.outs = 0 => k = Len(types))
  BY ONLY <1>1, <1>4, <1>6
<1>8. ts = SubSeq(types, 1, k)
  <2>1. types = Types(request.rows[1])
    OBVIOUS
  <2> QED BY ONLY <1>0, <1>1, <1>2, <1>6, <2>1 DEF HeldTypes
<1>9. d \in Seq(Byte) /\ p \in Nat \ {0} /\ q = Len(d) + 1 /\ EachStands(WrittenRows(held, n), d, p, q)
  BY <1>2
<1>10. CASE request.outs = 0
  <2>1. ts = types
    <3>1. ts = SubSeq(types, 1, Len(types))
      BY ONLY <1>7, <1>8, <1>10
    <3> QED BY ONLY <1>1, <3>1, SubSeqFull
  <2>2. AlikeRows(held, types, n)
    BY ONLY <1>5, <2>1
  <2>3. /\ p \in 1..Len(d) /\ d[p] = RowData
        /\ StrictRows(d, p + 1, types, n) = Got(DecodedRows(held, n), q)
    BY ONLY <1>9, <2>2, RowsAreRead
  <2> QED BY ONLY <1>2, <2>3
<1>11. CASE request.outs # 0
  <2>1. n = 1
    BY ONLY <1>4, <1>11
  <2>2. PICK values : values = held[1]
    OBVIOUS
  <2>3. Carried(values) /\ ts = Types(values)
    BY ONLY <1>5, <2>1, <2>2 DEF AlikeRows
  <2>4. PICK ws : ws = WrittenRows(held, n)
    OBVIOUS
  <2>5. Len(ws) = 1 /\ ws[1] = RowOf(values)
    BY ONLY <2>1, <2>2, <2>4 DEF WrittenRows
  <2>6. StandsAt(RowOf(values), d, p) /\ q = p + Len(RowOf(values))
    <3>1. PICK ats : /\ BehindEach(ats, ws, p)
                     /\ \A i \in 1..Len(ws) : StandsAt(ws[i], d, ats[i])
                     /\ ats[Len(ws) + 1] = q
      BY ONLY <1>9, <2>4 DEF EachStands
    <3>2. ats[1] = p /\ ats[2] = ats[1] + Len(ws[1])
      <4>1. 1 \in 1..Len(ws) /\ 1 + 1 = 2
        BY ONLY <2>5
      <4> QED BY ONLY <3>1, <4>1 DEF BehindEach
    <3>3. StandsAt(ws[1], d, ats[1]) /\ ats[2] = q
      <4>1. 1 \in 1..Len(ws) /\ Len(ws) + 1 = 2
        BY ONLY <2>5
      <4> QED BY ONLY <3>1, <4>1
    <3> QED BY ONLY <2>5, <3>2, <3>3
  <2>7. /\ p \in 1..Len(d) /\ d[p] = RowData
        /\ Values(d, p + 1, ts) = Got(Decoded(values), q)
    BY ONLY <1>9, <2>3, <2>6, RowIsThere
  <2>8. Begins(ts, types, k)
    <3>1. Len(ts) = k /\ \A i \in 1..k : ts[i] = types[i]
      BY ONLY <1>1, <1>7, <1>8
    <3> QED BY ONLY <1>1, <1>7, <3>1 DEF Begins
  <2>9. PICK at, v : at = p + 1 /\ v = Decoded(values)
    OBVIOUS
  <2>11. Values(d, at, types) = Got(v, q)
    <3>1. Values(d, at, ts) = Got(v, q)
      BY ONLY <2>7, <2>9
    <3>2. q > Len(d)
      <4>1. Len(d) \in Nat
        BY ONLY <1>9
      <4> QED BY ONLY <1>9, <4>1
    <3> QED BY ONLY <2>8, <3>1, <3>2, ValuesEndWithTheMessage
  <2>12. FirstRow(d, at, types) = Got(<<v>>, q)
    <3>1. PICK got : got = Got(v, q)
      OBVIOUS
    <3>2. got.r = "ok" /\ got.v = v /\ got.at = q
      BY ONLY <3>1 DEF Got
    <3>3. FirstRow(d, at, types) = Got(<<got.v>>, got.at)
      BY ONLY <2>11, <3>1, <3>2 DEF FirstRow, Then
    <3> QED BY ONLY <3>2, <3>3
  <2>13. StrictRows(d, at, types, n) = FirstRow(d, at, types)
    <3>1. More(n) = 0
      BY ONLY <2>1 DEF More
    <3>2. PICK f : /\ StrictRows(d, at, types, n) = f[More(n)]
                   /\ f[0] = FirstRow(d, at, types)
      <4>1. More(n) \in Nat
        BY ONLY <3>1
      <4>2. \E f : /\ StrictRows(d, at, types, n) = f[More(n)]
                   /\ f[0] = FirstRow(d, at, types)
                   /\ \A i \in 1..More(n) : f[i] = NextRow(f[i - 1], d, types)
        BY ONLY <4>1, RowByRowIs
      <4> QED BY ONLY <4>2
    <3> QED BY ONLY <3>1, <3>2
  <2>14. DecodedRows(held, n) = <<v>>
    <3>1. DecodedRows(held, n) = [i \in 1..1 |-> Decoded(held[i])]
      BY ONLY <2>1 DEF DecodedRows
    <3>2. \A i \in 1..1 : Decoded(held[i]) = v
      BY ONLY <2>2, <2>9
    <3>3. <<v>> = [i \in 1..1 |-> v]
      OBVIOUS
    <3> QED BY ONLY <3>1, <3>2, <3>3
  <2> QED BY ONLY <1>2, <2>7, <2>9, <2>12, <2>13, <2>14
<1> QED BY ONLY <1>10, <1>11

\* What a driver means by an Execute.
Intended(request) == Request(request.sql, Given(request), Types(request.rows[1]), request.size, Len(request.rows))

\* The server binds what a thin driver executes: its text, every value of every
\* row for the type the driver declared, no more values than it sent, and as
\* many rows as it asked for (wire.rs, parse_execute).
THEOREM ExecutesReadBack ==
  ASSUME NEW Value, NEW driver, driver.kind # "jdbc", NEW request, Executable(request, Value),
         NEW d, d = <<0, 0>> \o ThinExecute(driver, request)
  PROVE  ParseStrict(d) = Intended(request)
<1>0. PICK types, row, n : types = Types(request.rows[1]) /\ row = request.rows[1] /\ n = Len(request.rows)
  OBVIOUS
<1>1. /\ n \in Nat \ {0} /\ DOMAIN request.rows = 1..n
      /\ types \in Seq(Byte) /\ Len(types) = Len(row) /\ Len(types) \in Nat
      /\ (row = <<>> <=> Len(types) = 0) /\ (Len(types) = 0 => types = <<>>)
  <2>1. Executable(request, Value)
    OBVIOUS
  <2> QED BY ONLY <1>0, <2>1, ExecutableCounts
<1>2. Sent(request) /\ ~(Len(types) > MaxDescriptors) /\ (\A i \in 1..Len(types) : types[i] # RowData)
      /\ request.outs \in 0..Len(types)
  BY ONLY <1>0, <1>1, Executable(request, Value) DEF Executable
<1>3. PICK ds, rs : ds = DescriptorsOf(request) /\ rs = RowsOf(request)
  OBVIOUS
<1>4. /\ ds \in Seq(Byte)
      /\ \A dd \in Seq(Byte) : \A at \in Nat \ {0} : StandsAt(ds, dd, at) =>
           EachStands(DescribedAs(types), dd, at, at + Len(ds))
  BY ONLY <1>0, <1>3, Executable(request, Value), DescriptorsStand
<1>5. request.outs # Len(row) =>
        \A dd \in Seq(Byte) : \A at \in Nat \ {0} : StandsAt(rs, dd, at) =>
           EachStands(WrittenRows(HeldRows(request), n), dd, at, at + Len(rs))
  <2>1. SUFFICES ASSUME request.outs # Len(request.rows[1])
                 PROVE  \A dd \in Seq(Byte) : \A at \in Nat \ {0} : StandsAt(rs, dd, at) =>
                          EachStands(WrittenRows(HeldRows(request), n), dd, at, at + Len(rs))
    BY <1>0
  <2>2. PICK ts : ts = HeldTypes(request)
    OBVIOUS
  <2>3. AlikeRows(HeldRows(request), ts, n)
    BY <1>0, <2>1, <2>2 DEF Executable
  <2> QED BY ONLY <1>0, <1>1, <1>3, <2>1, <2>3, RowsStand
<1>6. rs \in Seq(Byte)
  BY ONLY <1>3, Executable(request, Value), ExecutableRows
<1>7. PICK h, o, m, p5, p10, p11, p14, p15 : Leads(d, request, ds, rs, h, o, m, p5, p10, p11, p14, p15) /\ d \in Seq(Byte)
  <2>1. driver.kind # "jdbc" /\ Sent(request) /\ d = <<0, 0>> \o ThinExecute(driver, request)
    BY <1>2
  <2>2. DescriptorsOf(request) \in Seq(Byte) /\ RowsOf(request) \in Seq(Byte)
    BY ONLY <1>3, <1>4, <1>6
  <2> QED BY ONLY <1>3, <2>1, <2>2, LeadIsRead
<1>8. /\ o[6] = request.size /\ o[8] = (IF row = <<>> THEN 0 ELSE 1) /\ o[9] = Len(row) /\ m[2] = n
      /\ p14 \in Nat \ {0} /\ StandsAt(ds, d, p14)
      /\ p15 = p14 + Len(ds) /\ p15 \in Nat \ {0} /\ StandsAt(rs, d, p15) /\ p15 + Len(rs) = Len(d) + 1
  BY ONLY <1>0, <1>7 DEF Leads
<1>9. PICK nb, size, sql : nb = Len(row) /\ size = request.size /\ sql = request.sql
  OBVIOUS
<1>10. ParseStrict(d) = BoundBehind(d, sql, size, o[8], nb, n, p14)
  <2>1. ParseStrict(d) = BoundBehind(d, request.sql, o[6], o[8], o[9], m[2], p14)
    BY ONLY <1>2, <1>7, BindsBehindTheLead
  <2> QED BY ONLY <1>8, <1>9, <2>1
<1>11. ASSUME NEW got, got.r = "ok", TypesBehind(d, o[8], p14) = got
       PROVE  ParseStrict(d) = BoundWith(d, sql, size, nb, n, got)
  BY ONLY <1>10, <1>11 DEF BoundBehind, Then
<1>12. \A ts, at : Bare(ts, at).r = "ok" /\ AtRow(ts, at).r = "ok"
  BY DEF Bare, AtRow, Got
<1>13. CASE row = <<>>
  <2>1. types = <<>> /\ Len(types) = 0 /\ request.outs = Len(request.rows[1]) /\ o[8] = 0 /\ nb = 0
    BY ONLY <1>0, <1>1, <1>2, <1>8, <1>9, <1>13
  <2>2. TypesBehind(d, o[8], p14) = Bare(types, p14)
    BY ONLY <2>1 DEF TypesBehind, NoDescriptors, Bare
  <2>3. ParseStrict(d) = BoundWith(d, sql, size, nb, n, Bare(types, p14))
    BY ONLY <1>11, <1>12, <2>2
  <2>4. ParseStrict(d) = Request(sql, <<>>, types, size, n)
    BY ONLY <2>1, <2>3, BoundToNothing
  <2>5. Given(request) = <<>>
    BY ONLY <2>1 DEF Given
  <2> QED BY ONLY <1>0, <1>9, <2>4, <2>5 DEF Intended
<1>14. CASE row # <<>>
  <2>1. o[8] # 0 /\ nb # 0 /\ TypesBehind(d, o[8], p14) = StrictTypes(d, p14)
    BY ONLY <1>1, <1>8, <1>9, <1>14 DEF TypesBehind, StrictTypes
  <2>2. EachStands(DescribedAs(types), d, p14, p15)
    BY ONLY <1>4, <1>7, <1>8
  <2>3. /\ p15 \in 1..Len(d) /\ d[p15] = RowData =>
              StrictTypes(d, p14) = AtRow(types, p15 + 1)
        /\ p15 = Len(d) + 1 => StrictTypes(d, p14) = Bare(types, p15)
    <3>1. d \in Seq(Byte) /\ p14 \in Nat \ {0} /\ types \in Seq(Byte)
      BY ONLY <1>1, <1>7, <1>8
    <3>2. ~(Len(types) > MaxDescriptors) /\ \A i \in 1..Len(types) : types[i] # RowData
      BY ONLY <1>2
    <3> QED BY ONLY <2>2, <3>1, <3>2, DescriptorsAreRead
  <2>4. CASE request.outs = Len(request.rows[1])
    <3>1. rs = <<>> /\ Len(rs) = 0
      BY ONLY <1>3, <2>4 DEF RowsOf
    <3>2. p15 = Len(d) + 1 /\ p15 > Len(d)
      BY ONLY <1>7, <1>8, <3>1
    <3>3. ParseStrict(d) = BoundWith(d, sql, size, nb, n, Bare(types, p15))
      BY ONLY <1>11, <1>12, <2>1, <2>3, <3>2
    <3>4. ParseStrict(d) = Request(sql, <<>>, types, size, n)
      BY ONLY <3>2, <3>3, BoundToNothing
    <3>5. Given(request) = <<>>
      BY ONLY <2>4 DEF Given
    <3> QED BY ONLY <1>0, <1>9, <3>4, <3>5 DEF Intended
  <2>5. CASE request.outs # Len(request.rows[1])
    <3>1. PICK q, at, rows : q = Len(d) + 1 /\ at = p15 + 1 /\ rows = DecodedRows(HeldRows(request), n)
      OBVIOUS
    <3>2. EachStands(WrittenRows(HeldRows(request), n), d, p15, q)
      BY ONLY <1>0, <1>5, <1>7, <1>8, <2>5, <3>1
    <3>3. /\ p15 \in 1..Len(d) /\ d[p15] = RowData
          /\ StrictRows(d, p15 + 1, types, n) = Got(DecodedRows(HeldRows(request), n), q)
      <4>1. Executable(request, Value)
        OBVIOUS
      <4>2. types = Types(request.rows[1]) /\ n = Len(request.rows)
        BY ONLY <1>0
      <4>3. d \in Seq(Byte)
        BY ONLY <1>7
      <4>4. p15 \in Nat \ {0}
        BY ONLY <1>8
      <4>5. q = Len(d) + 1
        BY ONLY <3>1
      <4> QED BY ONLY <2>5, <3>2, <4>1, <4>2, <4>3, <4>4, <4>5, RowsOfExecute
    <3>4. StrictRows(d, at, types, n) = Got(rows, q)
      BY ONLY <3>1, <3>3
    <3>5. ParseStrict(d) = BoundWith(d, sql, size, nb, n, AtRow(types, at))
      BY ONLY <1>11, <1>12, <2>1, <2>3, <3>1, <3>3
    <3>6. ParseStrict(d) = Request(sql, rows, types, size, n)
      BY ONLY <2>1, <3>4, <3>5, BoundToRows
    <3>7. Given(request) = rows
      BY ONLY <1>0, <2>5, <3>1 DEF Given
    <3> QED BY ONLY <1>0, <1>9, <3>6, <3>7 DEF Intended
  <2> QED BY ONLY <2>4, <2>5
<1> QED BY ONLY <1>13, <1>14

\* The payload that an Execute travels in is the message it is read from.
LEMMA ExecuteIsItsMessage ==
  ASSUME NEW Value, NEW driver, driver.kind # "jdbc", NEW request, Executable(request, Value),
         NEW d, d = <<0, 0>> \o ThinExecute(driver, request)
  PROVE  /\ d \in Seq(Byte) /\ ThinExecute(driver, request) \in Seq(Byte)
         /\ Len(d) >= 5 /\ Message(d) = d /\ d[3] = Function /\ d[4] = Execute
<1>1. Sent(request) /\ DescriptorsOf(request) \in Seq(Byte)
  <2>1. PICK types : types = Types(request.rows[1])
    OBVIOUS
  <2> QED BY <2>1, DescriptorsStand DEF Executable
<1>2. RowsOf(request) \in Seq(Byte)
  BY ExecutableRows
<1>3. /\ d \in Seq(Byte) /\ ThinExecute(driver, request) \in Seq(Byte)
      /\ StandsAt(<<3, 94, request.seq>>, d, 3)
  BY <1>1, <1>2, LeadIsRead
<1>4. PICK seq : seq = request.seq
  OBVIOUS
<1>5. PICK three : three = 3 /\ three \in Nat \ {0}
  OBVIOUS
<1>6. d[three] = 3 /\ d[three + 1] = 94
  <2>1. StandsAt(<<3, 94, seq>>, d, three)
    BY ONLY <1>3, <1>4, <1>5
  <2>2. d \in Seq(Byte) /\ three \in Nat \ {0}
    BY ONLY <1>3, <1>5
  <2> QED BY ONLY <2>1, <2>2, ThreeStand
<1>7. d[3] = 3 /\ d[4] = 94
  BY ONLY <1>5, <1>6
<1>8. d[3] # Piggyback /\ d[3] = Function /\ d[4] = Execute
  BY ONLY <1>7 DEF Piggyback, Function, Execute
<1>9. Message(d) = d
  BY ONLY <1>8 DEF Message
<1>10. Len(d) >= 5
  <2>1. 3 + Len(<<3, 94, seq>>) - 1 <= Len(d)
    BY ONLY <1>3, <1>4 DEF StandsAt
  <2>2. Len(<<3, 94, seq>>) = 3 /\ Len(d) \in Nat
    BY ONLY <1>3
  <2> QED BY ONLY <2>1, <2>2
<1> QED BY ONLY <1>3, <1>8, <1>9, <1>10

\* What the command loop makes of a thin driver's payload.
ThinCall(d, cached) == ParseCall(d, FALSE, cached)

\* The command loop runs of a payload what the driver meant.
RunsAs(d, cached, request) == ThinCall(Message(d), cached) = Intended(request)

\* What the strict reader makes of an Execute is what runs, and nothing else is
\* tried.
LEMMA ReadThenRun ==
  ASSUME NEW request, request.sql # <<>>, NEW d, ParseStrict(d) = Intended(request), d[4] = Execute, NEW cached
  PROVE  ThinCall(d, cached) = Intended(request)
<1>1. PICK read : read = Intended(request)
  OBVIOUS
<1>2. read.r = "ok" /\ read.v.sql = request.sql
  BY ONLY <1>1 DEF Intended, Request, Got
<1>3. ParseExecute(d) = read
  BY <1>1, <1>2 DEF ParseExecute, OrElse
<1>4. request.sql # <<>> /\ d[4] = Execute
  OBVIOUS
<1>5. ThinCall(d, cached) = read
  BY ONLY <1>2, <1>3, <1>4 DEF ThinCall, ParseCall
<1> QED BY ONLY <1>1, <1>5

\* What the command loop runs for an Execute of a thin driver is that Execute,
\* whatever statement it has kept: neither the tolerant reader nor the text of
\* an earlier statement ever takes its place (server.rs, the command loop).
THEOREM ExecutesRunAsSent ==
  ASSUME NEW Value, NEW driver, driver.kind # "jdbc", NEW request, Executable(request, Value),
         NEW d, d = <<0, 0>> \o ThinExecute(driver, request), NEW cached
  PROVE  RunsAs(d, cached, request)
<1>1. ParseStrict(d) = Intended(request)
  BY ExecutesReadBack
<1>2. request.sql # <<>>
  BY DEF Executable, Sent
<1>3. Message(d) = d /\ d[4] = Execute
  BY ExecuteIsItsMessage
<1>4. ThinCall(Message(d), cached) = Intended(request)
  BY ONLY <1>1, <1>2, <1>3, ReadThenRun
<1> QED BY ONLY <1>4 DEF RunsAs


-----------------------------------------------------------------------------
(* A request behind a piggyback. *)

\* Where the request is, as seen from each place.
Ahead(f, d, i) ==
  IF i >= Len(d) THEN 0
  ELSE IF d[i] = Piggyback THEN f[i + 3]
  ELSE IF d[i] = Function /\ d[i + 1] \in KnownFunctions THEN i
  ELSE f[i + 1]

Seeks(f, d, m) == \A i \in 3..(Len(d) + 3) : i > m => f[i] = Ahead(f, d, i)

\* The walk through a payload exists.
LEMMA AheadExists ==
  ASSUME NEW d, Len(d) \in Nat
  PROVE  \E f : f = [i \in 3..(Len(d) + 3) |-> Ahead(f, d, i)]
<1>0. PICK n : n = Len(d) + 3 /\ n \in Nat
  OBVIOUS
<1> DEFINE Has(m) == \E f : f = [i \in 3..n |-> f[i]] /\ Seeks(f, d, m)
           Bad == {k \in Nat : k <= n /\ ~Has(n - k)}
<1>1. Bad = {}
  <2>1. SUFFICES ASSUME Bad # {} PROVE FALSE
    OBVIOUS
  <2>2. PICK x \in Bad : \A y \in Bad : x <= y
    <3>1. Bad \in SUBSET Nat
      OBVIOUS
    <3> HIDE DEF Bad
    <3> QED BY <2>1, <3>1, LeastNat
  <2>3. x \in Nat /\ x <= n /\ ~Has(n - x)
    BY <2>2
  <2>4. CASE x = 0
    <3>1. PICK f : f = [i \in 3..n |-> 0]
      OBVIOUS
    <3>2. f = [i \in 3..n |-> f[i]]
      BY <3>1
    <3>3. Seeks(f, d, n - x)
      BY <1>0, <2>4 DEF Seeks
    <3> QED BY <2>3, <3>2, <3>3
  <2>5. CASE x # 0
    <3>1. x - 1 \in Nat /\ x - 1 <= n /\ ~(x <= x - 1)
      BY <1>0, <2>3, <2>5
    <3>2. Has(n - (x - 1))
      BY <2>2, <3>1
    <3>3. PICK f : f = [i \in 3..n |-> f[i]] /\ Seeks(f, d, n - (x - 1))
      BY <3>2
    <3>4. PICK q : q = n - x + 1 /\ q \in 1..n /\ n - (x - 1) = q /\ n - x = q - 1
      BY <1>0, <2>3, <2>5
    <3>5. PICK g : g = [i \in 3..n |-> IF i = q THEN Ahead(f, d, q) ELSE f[i]]
      OBVIOUS
    <3>6. g = [i \in 3..n |-> g[i]]
      BY <3>5
    <3>7. ASSUME NEW i \in 3..n, i > q - 1
          PROVE  g[i] = Ahead(g, d, i)
      <4>1. Ahead(f, d, i) = Ahead(g, d, i)
        <5>1. CASE i >= Len(d)
          BY <5>1 DEF Ahead
        <5>2. CASE ~(i >= Len(d))
          <6>1. i + 1 \in 3..n /\ i + 1 # q /\ i + 3 \in 3..n /\ i + 3 # q
            BY <1>0, <3>4, <3>7, <5>2
          <6>2. f[i + 1] = g[i + 1] /\ f[i + 3] = g[i + 3]
            BY <3>5, <6>1
          <6> QED BY <6>2 DEF Ahead
        <5> QED BY <5>1, <5>2
      <4>2. CASE i = q
        <5>1. g[q] = Ahead(f, d, q)
          BY <3>5, <4>2
        <5> QED BY <4>1, <4>2, <5>1
      <4>3. CASE i # q
        <5>1. i > n - (x - 1) /\ i \in 3..(Len(d) + 3)
          BY <1>0, <3>4, <3>7, <4>3
        <5>2. f[i] = Ahead(f, d, i)
          BY <3>3, <5>1 DEF Seeks
        <5> QED BY <3>5, <4>1, <4>3, <5>2
      <4> QED BY <4>2, <4>3
    <3>8. Seeks(g, d, n - x)
      BY <1>0, <3>4, <3>7 DEF Seeks
    <3> QED BY <2>3, <3>6, <3>8
  <2> QED BY <2>4, <2>5
<1>2. Has(0)
  <2>1. n \in Nat /\ n <= n /\ n - n = 0
    BY <1>0
  <2>2. n \notin Bad
    BY <1>1
  <2> QED BY <2>1, <2>2
<1>3. PICK f : f = [i \in 3..n |-> f[i]] /\ Seeks(f, d, 0)
  BY <1>2
<1>4. \A i \in 3..n : f[i] = Ahead(f, d, i)
  BY <1>0, <1>3 DEF Seeks
<1>5. f = [i \in 3..n |-> Ahead(f, d, i)]
  BY <1>3, <1>4
<1> QED BY <1>0, <1>5

\* The request is where the walk from behind the flags finds it.
LEMMA MessageAtIs ==
  ASSUME NEW d, Len(d) \in Nat
  PROVE  \E f : /\ MessageAt(d) = f[3]
                /\ \A i \in 3..(Len(d) + 3) : f[i] = Ahead(f, d, i)
<1> DEFINE f == CHOOSE g : g = [i \in 3..(Len(d) + 3) |->
                                  IF i >= Len(d) THEN 0
                                  ELSE IF d[i] = Piggyback THEN g[i + 3]
                                  ELSE IF d[i] = Function /\ d[i + 1] \in KnownFunctions THEN i
                                  ELSE g[i + 1]]
<1>1. MessageAt(d) = f[3]
  BY DEF MessageAt
<1>2. \E g : g = [i \in 3..(Len(d) + 3) |->
                    IF i >= Len(d) THEN 0
                    ELSE IF d[i] = Piggyback THEN g[i + 3]
                    ELSE IF d[i] = Function /\ d[i + 1] \in KnownFunctions THEN i
                    ELSE g[i + 1]]
  <2>1. \E g : g = [i \in 3..(Len(d) + 3) |-> Ahead(g, d, i)]
    BY AheadExists
  <2> QED BY <2>1 DEF Ahead
<1>3. f = [i \in 3..(Len(d) + 3) |->
             IF i >= Len(d) THEN 0
             ELSE IF d[i] = Piggyback THEN f[i + 3]
             ELSE IF d[i] = Function /\ d[i + 1] \in KnownFunctions THEN i
             ELSE f[i + 1]]
  BY <1>2
<1> HIDE DEF f
<1>4. f = [i \in 3..(Len(d) + 3) |-> Ahead(f, d, i)]
  BY <1>3 DEF Ahead
<1>5. \A i \in 3..(Len(d) + 3) : f[i] = Ahead(f, d, i)
  BY <1>4
<1> QED BY <1>1, <1>5

\* Nothing from one place of a payload up to another begins a message.
Quiet(d, from, to) ==
  \A i \in from..to : d[i] # Piggyback /\ ~(d[i] = Function /\ d[i + 1] \in KnownFunctions)

\* A piggyback is walked over up to the first message behind it.
LEMMA WalkedOver ==
  ASSUME NEW d \in Seq(Byte), NEW stop, stop \in 6..(Len(d) - 1),
         d[3] = Piggyback, Quiet(d, 6, stop - 1), d[stop] = Function, d[stop + 1] \in KnownFunctions
  PROVE  MessageAt(d) = stop
<1>0. PICK n : n = Len(d) /\ n \in Nat
  OBVIOUS
<1>1. PICK f : /\ MessageAt(d) = f[3]
               /\ \A i \in 3..(n + 3) : f[i] = Ahead(f, d, i)
  BY <1>0, MessageAtIs
<1>2. stop \in Nat /\ 6 <= stop /\ stop < n
  BY <1>0
<1>3. f[stop] = stop
  <2>1. stop \in 3..(n + 3) /\ ~(stop >= Len(d))
    BY <1>0, <1>2
  <2>2. Piggyback # Function
    BY DEF Piggyback, Function
  <2> QED BY <1>1, <2>1, <2>2 DEF Ahead
<1>4. f[3] = f[6]
  <2>1. 3 \in 3..(n + 3) /\ ~(3 >= Len(d)) /\ 3 + 3 = 6
    BY <1>0, <1>2
  <2>2. Ahead(f, d, 3) = f[3 + 3]
    BY <2>1 DEF Ahead
  <2> QED BY <1>1, <2>1, <2>2
<1> DEFINE T == {k \in Nat : k <= stop - 6 => f[stop - k] = stop}
<1>5. 0 \in T
  <2>1. stop - 0 = stop
    BY <1>2
  <2> QED BY <1>3, <2>1
<1>6. ASSUME NEW k \in 1..(stop - 6), k - 1 \in T PROVE k \in T
  <2>1. PICK i : i = stop - k
    OBVIOUS
  <2>2. i \in 6..(stop - 1) /\ i + 1 = stop - (k - 1) /\ i \in 3..(n + 3) /\ ~(i >= Len(d)) /\ k - 1 <= stop - 6
    BY <1>0, <1>2, <2>1
  <2>3. f[i + 1] = stop
    BY <1>6, <2>2
  <2>4. d[i] # Piggyback /\ ~(d[i] = Function /\ d[i + 1] \in KnownFunctions)
    BY <2>2 DEF Quiet
  <2>5. f[i] = f[i + 1]
    BY <1>1, <2>2, <2>4 DEF Ahead
  <2> QED BY <2>1, <2>3, <2>5
<1> HIDE DEF T
<1>7. stop - 6 \in T
  <2>1. stop - 6 \in Nat
    BY <1>2
  <2>2. \A k \in 0..(stop - 6) : k \in T
    BY <1>5, <1>6, <2>1, UpToTheEnd
  <2>3. stop - 6 \in 0..(stop - 6)
    BY <2>1
  <2> QED BY <2>2, <2>3
<1>8. f[6] = stop
  <2>1. stop - (stop - 6) = 6 /\ stop - 6 <= stop - 6
    BY <1>2
  <2> QED BY <1>7, <2>1 DEF T
<1> QED BY <1>1, <1>4, <1>8

\* What is put together has the one behind the other.
LEMMA JoinedPlaces ==
  ASSUME NEW a \in Seq(Byte), NEW b \in Seq(Byte)
  PROVE  /\ \A i \in 1..Len(a) : Joined(a, b)[i] = a[i]
         /\ \A i \in 1..Len(b) : Joined(a, b)[Len(a) + i] = b[i]
BY DEF Joined

\* The server acts on what stands there, whatever it is.
LEMMA MessageFromThere ==
  ASSUME NEW d \in Seq(Byte), NEW stop, stop \in 6..(Len(d) - 1),
         d[3] = Piggyback, Quiet(d, 6, stop - 1), d[stop] = Function, d[stop + 1] \in KnownFunctions,
         NEW w \in Seq(Byte), StandsAt(w, d, stop), stop + Len(w) = Len(d) + 1
  PROVE  Message(d) = <<0, 0>> \o w
<1>1. MessageAt(d) = stop
  BY WalkedOver
<1>2. stop \in Nat \ {0} /\ Len(d) \in Nat /\ ~(Len(d) < 3) /\ stop + Len(w) - 1 = Len(d) /\ stop # 0
  <2>1. Len(d) \in Nat /\ Len(w) \in Nat
    OBVIOUS
  <2> QED BY <2>1
<1>3. SubSeq(d, stop, Len(d)) = w
  <2>1. Take(d, stop, Len(w)) = Got(w, stop + Len(w))
    BY <1>2, BytesAreTaken
  <2>2. Take(d, stop, Len(w)) = Got(SubSeq(d, stop, Len(d)), stop + Len(w))
    <3>1. stop + Len(w) - 1 <= Len(d)
      BY <1>2
    <3>2. Take(d, stop, Len(w)) = Got(SubSeq(d, stop, stop + Len(w) - 1), stop + Len(w))
      BY ONLY <3>1 DEF Take
    <3> QED BY ONLY <1>2, <3>2
  <2>3. PICK a, b : a = SubSeq(d, stop, Len(d)) /\ b = stop + Len(w)
    OBVIOUS
  <2>4. Got(a, b) = Got(w, b)
    BY ONLY <2>1, <2>2, <2>3
  <2>5. a = w
    BY ONLY <2>4 DEF Got
  <2> QED BY ONLY <2>3, <2>5
<1>4. d[3] = Piggyback
  OBVIOUS
<1> QED BY ONLY <1>1, <1>2, <1>3, <1>4 DEF Message

\* A CLOSE_CURSORS is bytes.
LEMMA ClosesAreBytes ==
  ASSUME NEW ids \in Seq(FourBytes), ids # <<>>, Len(ids) \in FourBytes
  PROVE  /\ Piggybacks(ids) \in Seq(Byte) /\ Len(Piggybacks(ids)) \in Nat /\ Len(Piggybacks(ids)) >= 4
         /\ Piggybacks(ids)[1] = Piggyback
<1>1. PICK head, count : head = <<17, 105, 9, 1>> /\ count = WriteUb(Len(ids))
  OBVIOUS
<1>3. PICK seqs : seqs = [i \in DOMAIN ids |-> WriteUb(ids[i])]
  OBVIOUS
<1>4. PICK list, front : list = FlattenSeq(seqs) /\ front = Joined(head, count)
  OBVIOUS
<1>6. Piggybacks(ids) = Joined(front, list)
  <2>1. ids # <<>>
    OBVIOUS
  <2> QED BY ONLY <1>1, <1>3, <1>4, <2>1 DEF Piggybacks, EachOf, Joined
<1>7. head \in Seq(Byte) /\ Len(head) = 4 /\ head[1] = Piggyback
  <2>1. 17 \in Byte /\ 105 \in Byte /\ 9 \in Byte /\ 1 \in Byte
    BY DEF Byte
  <2> QED BY ONLY <1>1, <2>1 DEF Piggyback
<1>8. count \in Seq(Byte)
  BY <1>1, WriteUbBytes
<1>9. list \in Seq(Byte)
  <2>1. DOMAIN ids = 1..Len(ids) /\ Len(ids) \in Nat /\ (Len(ids) = 0 => ids = <<>>)
    OBVIOUS
  <2>2. Len(seqs) = Len(ids) /\ Len(ids) # 0
    BY <1>3, <2>1
  <2>3. ASSUME NEW i \in 1..Len(seqs) PROVE seqs[i] \in Seq(Byte)
    <3>1. i \in 1..Len(ids)
      BY <2>2
    <3>2. PICK id : id = ids[i] /\ id \in FourBytes
      BY <3>1, ElementOfSeq
    <3>3. WriteUb(id) \in Seq(Byte)
      BY ONLY <3>2, WriteUbBytes
    <3> QED BY ONLY <1>3, <2>1, <3>1, <3>2, <3>3
  <2>4. Len(seqs) \in Nat /\ (Len(seqs) = 0 => seqs = <<>>)
    BY ONLY <2>1, <2>2
  <2> QED BY ONLY <1>4, <2>3, <2>4, JoinedStands
<1>10. front \in Seq(Byte) /\ Len(front) = 4 + Len(count) /\ Len(count) \in Nat /\ front[1] = Piggyback
  <2>1. front \in Seq(Byte) /\ Len(front) = Len(head) + Len(count) /\ Len(count) \in Nat
    BY ONLY <1>4, <1>7, <1>8, JoinedBytes
  <2>2. front[1] = head[1]
    <3>1. 1 \in 1..Len(head)
      BY ONLY <1>7
    <3> QED BY ONLY <1>4, <1>7, <1>8, <3>1, JoinedPlaces
  <2> QED BY ONLY <1>7, <2>1, <2>2
<1>11. PICK pre : pre = Joined(front, list)
  OBVIOUS
<1>12. pre \in Seq(Byte) /\ Len(pre) = Len(front) + Len(list) /\ Len(list) \in Nat /\ pre[1] = front[1]
  <2>1. pre \in Seq(Byte) /\ Len(pre) = Len(front) + Len(list) /\ Len(list) \in Nat
    BY ONLY <1>9, <1>10, <1>11, JoinedBytes
  <2>2. pre[1] = front[1]
    <3>1. 1 \in 1..Len(front)
      BY ONLY <1>10
    <3> QED BY ONLY <1>9, <1>10, <1>11, <3>1, JoinedPlaces
  <2> QED BY ONLY <2>1, <2>2
<1>13. Len(pre) \in Nat /\ Len(pre) >= 4
  BY ONLY <1>10, <1>12
<1> QED BY ONLY <1>6, <1>10, <1>11, <1>12, <1>13

\* A request that travels behind deferred closes.
Travels(d, ids, body) ==
  /\ ids \in Seq(FourBytes) /\ ids # <<>> /\ Len(ids) \in FourBytes
  /\ body \in Seq(Byte) /\ Len(body) >= 2 /\ body[1] = Function /\ body[2] \in KnownFunctions
  /\ d = <<0, 0>> \o Piggybacks(ids) \o body

\* A payload that has one behind the other.
Laid(d, pre, body, m) ==
  /\ d \in Seq(Byte) /\ Len(d) = 2 + m + Len(body) /\ m \in Nat /\ m >= 4 /\ Len(body) \in Nat
  /\ d[3] = Piggyback /\ pre \in Seq(Byte)
  /\ (\A i \in 1..m : d[2 + i] = pre[i]) /\ (\A i \in 1..Len(body) : d[2 + m + i] = body[i])

\* Where the closes and the request stand in the payload.
LEMMA TravelsThere ==
  ASSUME NEW ids, NEW body, NEW d, Travels(d, ids, body), NEW pre, pre = Piggybacks(ids), NEW m, m = Len(pre)
  PROVE  Laid(d, pre, body, m)
<1>0. /\ ids \in Seq(FourBytes) /\ ids # <<>> /\ Len(ids) \in FourBytes
      /\ body \in Seq(Byte) /\ d = <<0, 0>> \o Piggybacks(ids) \o body
  BY DEF Travels
<1>1. pre \in Seq(Byte) /\ m \in Nat /\ m >= 4 /\ pre[1] = Piggyback
  BY <1>0, ClosesAreBytes
<1>2. PICK z2 : z2 = <<0, 0>>
  OBVIOUS
<1>3. z2 \in Seq(Byte) /\ Len(z2) = 2
  <2>1. 0 \in Byte
    BY DEF Byte
  <2> QED BY ONLY <1>2, <2>1
<1>4. PICK front : front = Joined(z2, pre)
  OBVIOUS
<1>5. d = Joined(front, body)
  BY <1>0, <1>2, <1>4 DEF Joined
<1>6. front \in Seq(Byte) /\ Len(front) = 2 + m
  <2>1. front \in Seq(Byte) /\ Len(front) = Len(z2) + Len(pre)
    BY ONLY <1>1, <1>3, <1>4, JoinedBytes
  <2> QED BY <1>3, <2>1
<1>7. d \in Seq(Byte) /\ Len(d) = 2 + m + Len(body) /\ Len(body) \in Nat
  <2>1. d \in Seq(Byte) /\ Len(d) = Len(front) + Len(body) /\ Len(body) \in Nat
    BY ONLY <1>0, <1>5, <1>6, JoinedBytes
  <2> QED BY ONLY <1>6, <2>1
<1>8. \A i \in 1..Len(body) : d[2 + m + i] = body[i]
  <2>1. \A i \in 1..Len(body) : Joined(front, body)[Len(front) + i] = body[i]
    BY ONLY <1>0, <1>6, JoinedPlaces
  <2> QED BY ONLY <1>5, <1>6, <2>1
<1>9. \A i \in 1..m : d[2 + i] = pre[i]
  <2>1. \A i \in 1..Len(pre) : front[Len(z2) + i] = pre[i]
    BY ONLY <1>1, <1>3, <1>4, JoinedPlaces
  <2>2. \A i \in 1..Len(front) : Joined(front, body)[i] = front[i]
    BY ONLY <1>0, <1>6, JoinedPlaces
  <2>3. \A i \in 1..m : 2 + i \in 1..Len(front)
    BY ONLY <1>1, <1>6
  <2>4. m = Len(pre)
    OBVIOUS
  <2> QED BY ONLY <1>3, <1>5, <2>1, <2>2, <2>3, <2>4
<1>10. d[3] = Piggyback
  <2>1. 1 \in 1..m /\ 2 + 1 = 3
    BY ONLY <1>1
  <2> QED BY ONLY <1>1, <1>9, <2>1
<1> QED BY ONLY <1>1, <1>7, <1>8, <1>9, <1>10 DEF Laid

\* Behind deferred closes whose bytes never look like a message the request is
\* found, and it is all the server acts on (wire.rs, strip_piggyback).
THEOREM RequestsFoundBehindCloses ==
  ASSUME NEW ids, NEW body, NEW d, Travels(d, ids, body), NEW m, m = Len(Piggybacks(ids)), Quiet(d, 6, 2 + m)
  PROVE  Message(d) = <<0, 0>> \o body
<1>1. PICK pre : pre = Piggybacks(ids)
  OBVIOUS
<1>0. Travels(d, ids, body) /\ m = Len(pre)
  BY <1>1
<1>1b. Laid(d, pre, body, m)
  BY ONLY <1>0, <1>1, TravelsThere
<1>2. /\ d \in Seq(Byte) /\ Len(d) = 2 + m + Len(body) /\ m \in Nat /\ m >= 4 /\ Len(body) \in Nat
      /\ d[3] = Piggyback /\ \A i \in 1..Len(body) : d[2 + m + i] = body[i]
  BY ONLY <1>1b DEF Laid
<1>3. body \in Seq(Byte) /\ Len(body) >= 2 /\ body[1] = Function /\ body[2] \in KnownFunctions
  BY DEF Travels
<1>4. PICK stop : stop = 3 + m
  OBVIOUS
<1>5. stop \in 6..(Len(d) - 1) /\ stop - 1 = 2 + m /\ stop + Len(body) = Len(d) + 1
  BY ONLY <1>2, <1>3, <1>4
<1>6. d[stop] = Function /\ d[stop + 1] \in KnownFunctions
  <2>1. 1 \in 1..Len(body) /\ 2 \in 1..Len(body) /\ 2 + m + 1 = stop /\ 2 + m + 2 = stop + 1
    BY ONLY <1>2, <1>3, <1>4
  <2> QED BY ONLY <1>2, <1>3, <2>1
<1>7. StandsAt(body, d, stop)
  <2>1. \A i \in 1..Len(body) : 2 + m + i = stop + i - 1
    BY ONLY <1>2, <1>4
  <2>2. stop + Len(body) - 1 <= Len(d)
    BY ONLY <1>2, <1>5
  <2> QED BY ONLY <1>2, <2>1, <2>2 DEF StandsAt
<1>8. Quiet(d, 6, stop - 1)
  BY <1>5
<1> QED BY ONLY <1>2, <1>3, <1>5, <1>6, <1>7, <1>8, MessageFromThere

\* When the last byte of the closes is a 3, as that of cursor 3 is, the server
\* takes it for the first of the request, one byte early: what it acts on is no
\* Execute, Fetch or commit but a function 3 that the client never called.
THEOREM CloseOfThreeHidesTheRequest ==
  ASSUME NEW ids, NEW body, NEW d, Travels(d, ids, body), NEW m, m = Len(Piggybacks(ids)), Quiet(d, 6, 1 + m),
         Piggybacks(ids)[m] = Function
  PROVE  Message(d) = <<0, 0>> \o (<<3>> \o body) /\ Message(d)[4] = Function
<1>1. PICK pre : pre = Piggybacks(ids)
  OBVIOUS
<1>0. Travels(d, ids, body) /\ m = Len(pre)
  BY <1>1
<1>1a. Laid(d, pre, body, m)
  BY ONLY <1>0, <1>1, TravelsThere
<1>2. /\ d \in Seq(Byte) /\ Len(d) = 2 + m + Len(body) /\ m \in Nat /\ m >= 4 /\ Len(body) \in Nat
      /\ d[3] = Piggyback
  BY ONLY <1>1a DEF Laid
<1>2a. (\A i \in 1..m : d[2 + i] = pre[i]) /\ (\A i \in 1..Len(body) : d[2 + m + i] = body[i])
  BY ONLY <1>1a DEF Laid
<1>3. body \in Seq(Byte) /\ Len(body) >= 2 /\ body[1] = Function /\ body[2] \in KnownFunctions
  BY DEF Travels
<1>4. PICK stop, three : stop = 2 + m /\ three = <<3>>
  OBVIOUS
<1>6. PICK w : w = Joined(three, body)
  OBVIOUS
<1>7. three \in Seq(Byte) /\ Len(three) = 1 /\ three[1] = 3
  <2>1. 3 \in Byte
    BY DEF Byte
  <2> QED BY ONLY <1>4, <2>1
<1>8. w \in Seq(Byte) /\ Len(w) = 1 + Len(body)
  <2>1. w \in Seq(Byte) /\ Len(w) = Len(three) + Len(body)
    BY ONLY <1>3, <1>6, <1>7, JoinedBytes
  <2> QED BY ONLY <1>7, <2>1
<1>9. w[1] = 3 /\ \A i \in 1..Len(body) : w[1 + i] = body[i]
  <2>1. /\ \A i \in 1..Len(three) : w[i] = three[i]
        /\ \A i \in 1..Len(body) : w[Len(three) + i] = body[i]
    BY ONLY <1>3, <1>6, <1>7, JoinedPlaces
  <2> QED BY ONLY <1>7, <2>1
<1>10. stop \in 6..(Len(d) - 1) /\ stop - 1 = 1 + m /\ stop + Len(w) = Len(d) + 1
  BY ONLY <1>2, <1>3, <1>4, <1>8
<1>11. d[stop] = 3 /\ Function = 3
  <2>1. m \in 1..m
    BY ONLY <1>2
  <2>2. pre[m] = Function
    BY <1>1
  <2>3. d[2 + m] = Function
    BY ONLY <1>2a, <2>1, <2>2
  <2> QED BY ONLY <1>4, <2>3 DEF Function
<1>12. d[stop + 1] = 3
  <2>1. 1 \in 1..Len(body) /\ 2 + m + 1 = stop + 1
    BY ONLY <1>2, <1>3, <1>4
  <2> QED BY ONLY <1>2a, <1>3, <1>11, <2>1
<1>13. d[stop] = Function /\ d[stop + 1] \in KnownFunctions
  BY ONLY <1>11, <1>12 DEF KnownFunctions
<1>14. StandsAt(w, d, stop)
  <2>1. stop + Len(w) - 1 <= Len(d)
    BY ONLY <1>2, <1>10
  <2>2. ASSUME NEW i \in 1..Len(w) PROVE d[stop + i - 1] = w[i]
    <3>1. CASE i = 1
      <4>1. stop + i - 1 = stop
        BY ONLY <1>2, <1>4, <3>1
      <4> QED BY ONLY <1>9, <1>11, <3>1, <4>1
    <3>2. CASE i # 1
      <4>1. PICK j : j = i - 1
        OBVIOUS
      <4>2. j \in 1..Len(body) /\ stop + i - 1 = 2 + m + j /\ i = 1 + j
        BY ONLY <1>2, <1>4, <1>8, <2>2, <3>2, <4>1
      <4> QED BY ONLY <1>2a, <1>9, <4>2
    <3> QED BY ONLY <3>1, <3>2
  <2> QED BY ONLY <2>1, <2>2 DEF StandsAt
<1>15. Quiet(d, 6, stop - 1)
  BY <1>10
<1>16. Message(d) = <<0, 0>> \o w
  BY ONLY <1>2, <1>8, <1>10, <1>13, <1>14, <1>15, MessageFromThere
<1>17. (<<0, 0>> \o w)[4] = Function
  <2>1. PICK z2 : z2 = <<0, 0>>
    OBVIOUS
  <2>2. z2 \in Seq(Byte) /\ Len(z2) = 2
    <3>1. 0 \in Byte
      BY DEF Byte
    <3> QED BY ONLY <2>1, <3>1
  <2>3. \A i \in 1..Len(w) : Joined(z2, w)[Len(z2) + i] = w[i]
    BY ONLY <1>8, <2>2, JoinedPlaces
  <2>4. 2 \in 1..Len(w) /\ Len(z2) + 2 = 4 /\ 1 + 1 = 2 /\ 1 \in 1..Len(body)
    BY ONLY <1>2, <1>3, <1>8, <2>2
  <2>5. Joined(z2, w)[4] = body[1]
    BY ONLY <1>9, <2>3, <2>4
  <2> QED BY ONLY <1>3, <2>1, <2>5 DEF Joined
<1> QED BY ONLY <1>4, <1>6, <1>16, <1>17 DEF Joined

\* So an Execute runs as sent behind such closes, too.
THEOREM ExecutesRunBehindCloses ==
  ASSUME NEW Value, NEW driver, driver.kind # "jdbc", NEW request, Executable(request, Value),
         NEW ids, NEW d, Travels(d, ids, ThinExecute(driver, request)),
         NEW m, m = Len(Piggybacks(ids)), Quiet(d, 6, 2 + m), NEW cached
  PROVE  RunsAs(d, cached, request)
<1>1. PICK body, alone : body = ThinExecute(driver, request) /\ alone = <<0, 0>> \o ThinExecute(driver, request)
  OBVIOUS
<1>3. Message(d) = alone
  <2>1. Travels(d, ids, body) /\ m = Len(Piggybacks(ids)) /\ Quiet(d, 6, 2 + m)
    BY <1>1
  <2>2. Message(d) = <<0, 0>> \o body
    BY ONLY <2>1, RequestsFoundBehindCloses
  <2> QED BY ONLY <1>1, <2>2
<1>4. alone[4] = Execute
  BY <1>1, ExecuteIsItsMessage
<1>5. ParseStrict(alone) = Intended(request)
  BY <1>1, ExecutesReadBack
<1>6. request.sql # <<>>
  BY DEF Executable, Sent
<1>7. ThinCall(alone, cached) = Intended(request)
  BY ONLY <1>4, <1>5, <1>6, ReadThenRun
<1> QED BY ONLY <1>3, <1>7 DEF RunsAs

-----------------------------------------------------------------------------
(* The packets requests travel in. *)

\* What stands at a place is what is between there and its end.
LEMMA SubSeqStands ==
  ASSUME NEW d \in Seq(Byte), NEW w \in Seq(Byte), NEW p \in Nat \ {0}, StandsAt(w, d, p),
         NEW q, q = p + Len(w) - 1
  PROVE  SubSeq(d, p, q) = w
<1>1. Take(d, p, Len(w)) = Got(w, p + Len(w))
  BY BytesAreTaken
<1>2. Take(d, p, Len(w)) = Got(SubSeq(d, p, q), p + Len(w))
  <2>1. p + Len(w) - 1 <= Len(d)
    BY DEF StandsAt
  <2>2. Take(d, p, Len(w)) = Got(SubSeq(d, p, p + Len(w) - 1), p + Len(w))
    BY ONLY <2>1 DEF Take
  <2> QED BY <2>2
<1>3. PICK a, b : a = SubSeq(d, p, q) /\ b = p + Len(w)
  OBVIOUS
<1>4. Got(a, b) = Got(w, b)
  BY ONLY <1>1, <1>2, <1>3
<1>5. a = w
  BY ONLY <1>4 DEF Got
<1> QED BY ONLY <1>3, <1>5

\* The headers there are, and what they declare to a session that has
\* negotiated large ones and to one that has not.
SmallHeader(n) == PacketHeader(n, FALSE)

LargeHeader(n) == PacketHeader(n, TRUE)

SmallLength(h) == PacketLength(h, FALSE)

LargeLength(h) == PacketLength(h, TRUE)

\* A header of a data packet.
HeadsData(h) == h \in Seq(Byte) /\ Len(h) = 8 /\ h[5] = 6

\* The length is in the first two bytes, or in the first four unless those are
\* of the older kind.
LEMMA LengthIs ==
  ASSUME NEW h, NEW small, small = BigEndian(SubSeq(h, 1, 2)), NEW large, large = BigEndian(SubSeq(h, 1, 4))
  PROVE  /\ SmallLength(h) = small
         /\ SubSeq(h, 3, 4) = <<0, 0>> => (small >= 8 => LargeLength(h) = small)
         /\ ~(small >= 8) => LargeLength(h) = large
         /\ SubSeq(h, 3, 4) # <<0, 0>> => LargeLength(h) = large
<1>1. SmallLength(h) = small
  BY DEF SmallLength, PacketLength
<1>2. LargeLength(h) = IF SubSeq(h, 3, 4) = <<0, 0>> /\ small >= 8 THEN small ELSE large
  BY DEF LargeLength, PacketLength
<1> QED BY <1>1, <1>2

\* The parts of a header.
LEMMA HeaderParts ==
  ASSUME NEW size, size \in Seq(Byte), Len(size) = 4, NEW h, h = Joined(size, <<6, 0, 0, 0>>)
  PROVE  /\ h \in Seq(Byte) /\ Len(h) = 8 /\ h[5] = 6
         /\ h[1] = size[1] /\ h[2] = size[2] /\ h[3] = size[3] /\ h[4] = size[4]
<1>0. size \in Seq(Byte) /\ Len(size) = 4 /\ h = Joined(size, <<6, 0, 0, 0>>)
  OBVIOUS
<1>1. PICK tail : tail = <<6, 0, 0, 0>>
  OBVIOUS
<1>2. tail \in Seq(Byte) /\ Len(tail) = 4 /\ tail[1] = 6
  <2>1. 6 \in Byte /\ 0 \in Byte
    BY DEF Byte
  <2> QED BY ONLY <1>1, <2>1
<1>3. h \in Seq(Byte) /\ Len(h) = 8
  <2>1. h \in Seq(Byte) /\ Len(h) = Len(size) + Len(tail)
    BY ONLY <1>0, <1>1, <1>2, JoinedBytes
  <2> QED BY ONLY <1>0, <1>2, <2>1
<1>4. /\ \A i \in 1..Len(size) : h[i] = size[i]
      /\ \A i \in 1..Len(tail) : h[Len(size) + i] = tail[i]
  BY ONLY <1>0, <1>1, <1>2, JoinedPlaces, ZenonT(60)
<1>5. h[1] = size[1] /\ h[2] = size[2] /\ h[3] = size[3] /\ h[4] = size[4]
  <2>1. 1 \in 1..Len(size) /\ 2 \in 1..Len(size) /\ 3 \in 1..Len(size) /\ 4 \in 1..Len(size)
    BY ONLY <1>0
  <2> QED BY ONLY <1>4, <2>1
<1>6. h[5] = 6
  <2>1. 1 \in 1..Len(tail) /\ Len(size) + 1 = 5
    BY ONLY <1>0, <1>2
  <2>2. h[Len(size) + 1] = tail[1]
    BY ONLY <1>4, <2>1
  <2> QED BY ONLY <1>2, <2>1, <2>2
<1> QED BY ONLY <1>3, <1>5, <1>6

\* Parts of a header that are read.
LEMMA HeaderHalves ==
  ASSUME NEW h \in Seq(Byte), Len(h) = 8
  PROVE  /\ SubSeq(h, 1, 2) = <<h[1], h[2]>> /\ SubSeq(h, 3, 4) = <<h[3], h[4]>>
         /\ SubSeq(h, 1, 4) = <<h[1], h[2], h[3], h[4]>>
<1>1. PICK a, b, c, e : a = h[1] /\ b = h[2] /\ c = h[3] /\ e = h[4]
  OBVIOUS
<1>2. a \in Byte /\ b \in Byte /\ c \in Byte /\ e \in Byte
  <2>1. 1 \in 1..Len(h) /\ 2 \in 1..Len(h) /\ 3 \in 1..Len(h) /\ 4 \in 1..Len(h)
    OBVIOUS
  <2> QED BY <1>1, <2>1, ElementOfSeq
<1>3. PICK x, y, z : x = <<a, b>> /\ y = <<c, e>> /\ z = <<a, b, c, e>>
  OBVIOUS
<1>4. x \in Seq(Byte) /\ Len(x) = 2 /\ x[1] = a /\ x[2] = b /\ y \in Seq(Byte) /\ Len(y) = 2 /\ y[1] = c /\ y[2] = e
  BY ONLY <1>2, <1>3
<1>5. z \in Seq(Byte) /\ Len(z) = 4 /\ z[1] = a /\ z[2] = b /\ z[3] = c /\ z[4] = e
  BY ONLY <1>2, <1>3
<1>6. StandsAt(x, h, 1)
  <2>1. \A i \in 1..2 : h[1 + i - 1] = x[i]
    <3>1. \A i \in 1..2 : i \in {1, 2} /\ 1 + i - 1 = i
      OBVIOUS
    <3> QED BY ONLY <1>1, <1>4, <3>1
  <2> QED BY <1>4, <2>1 DEF StandsAt
<1>7. StandsAt(y, h, 3)
  <2>1. \A i \in 1..2 : h[3 + i - 1] = y[i]
    <3>1. \A i \in 1..2 : i \in {1, 2} /\ 3 + i - 1 = i + 2
      OBVIOUS
    <3>2. 1 + 2 = 3 /\ 2 + 2 = 4
      OBVIOUS
    <3> QED BY ONLY <1>1, <1>4, <3>1, <3>2
  <2> QED BY <1>4, <2>1 DEF StandsAt
<1>8. StandsAt(z, h, 1)
  <2>1. \A i \in 1..4 : h[1 + i - 1] = z[i]
    <3>1. \A i \in 1..4 : i \in {1, 2, 3, 4} /\ 1 + i - 1 = i
      OBVIOUS
    <3> QED BY ONLY <1>1, <1>5, <3>1
  <2> QED BY <1>5, <2>1 DEF StandsAt
<1>9. PICK one, three, two, four : one = 1 /\ three = 3 /\ two = 2 /\ four = 4
  OBVIOUS
<1>0. h \in Seq(Byte)
  OBVIOUS
<1>10. SubSeq(h, one, two) = x
  <2>1. one \in Nat \ {0} /\ two = one + Len(x) - 1
    BY ONLY <1>4, <1>9
  <2>2. StandsAt(x, h, one)
    BY ONLY <1>6, <1>9
  <2>3. x \in Seq(Byte)
    BY ONLY <1>4
  <2> QED BY ONLY <1>0, <2>1, <2>2, <2>3, SubSeqStands
<1>11. SubSeq(h, three, four) = y
  <2>1. three \in Nat \ {0} /\ four = three + Len(y) - 1
    BY ONLY <1>4, <1>9
  <2>2. StandsAt(y, h, three)
    BY ONLY <1>7, <1>9
  <2>3. y \in Seq(Byte)
    BY ONLY <1>4
  <2> QED BY ONLY <1>0, <2>1, <2>2, <2>3, SubSeqStands
<1>12. SubSeq(h, one, four) = z
  <2>1. one \in Nat \ {0} /\ four = one + Len(z) - 1
    BY ONLY <1>5, <1>9
  <2>2. StandsAt(z, h, one)
    BY ONLY <1>8, <1>9
  <2>3. z \in Seq(Byte)
    BY ONLY <1>5
  <2> QED BY ONLY <1>0, <2>1, <2>2, <2>3, SubSeqStands
<1> QED BY ONLY <1>1, <1>3, <1>9, <1>10, <1>11, <1>12

\* A legacy header is read for what it declares, whatever the session has
\* negotiated.
LEMMA SmallHeaderIsRead ==
  ASSUME NEW n \in Nat, 8 + n < 65536, NEW h, h = SmallHeader(n)
  PROVE  HeadsData(h) /\ SmallLength(h) = 8 + n /\ LargeLength(h) = 8 + n
<1>0. n \in Nat /\ 8 + n < 65536 /\ h = SmallHeader(n)
  OBVIOUS
<1>1. PICK N : N = 8 + n
  OBVIOUS
<1>2. N \in TwoBytes /\ N \in Nat /\ N >= 8
  <2>1. N \in Nat /\ N >= 8 /\ N < 65536
    BY ONLY <1>0, <1>1
  <2> QED BY ONLY <2>1 DEF TwoBytes
<1>3. PICK two, zeros : two = Be(N, 2) /\ zeros = <<0, 0>>
  BY ONLY TRUE
<1>4. two \in Seq(Byte) /\ Len(two) = 2 /\ BigEndian(two) = N
  BY ONLY <1>2, <1>3, BeAmountsToIt
<1>5. zeros \in Seq(Byte) /\ Len(zeros) = 2 /\ zeros[1] = 0 /\ zeros[2] = 0
  <2>1. 0 \in Byte
    BY DEF Byte
  <2> QED BY ONLY <1>3, <2>1
<1>6. PICK size : size = Joined(two, zeros)
  OBVIOUS
<1>7. size \in Seq(Byte) /\ Len(size) = 4
  <2>1. size \in Seq(Byte) /\ Len(size) = Len(two) + Len(zeros)
    BY ONLY <1>4, <1>5, <1>6, JoinedBytes
  <2> QED BY ONLY <1>4, <1>5, <2>1
<1>8. size[1] = two[1] /\ size[2] = two[2] /\ size[3] = 0 /\ size[4] = 0
  <2>1. /\ \A i \in 1..Len(two) : size[i] = two[i]
        /\ \A i \in 1..Len(zeros) : size[Len(two) + i] = zeros[i]
    BY ONLY <1>4, <1>5, <1>6, JoinedPlaces
  <2>2. 1 \in 1..Len(two) /\ 2 \in 1..Len(two) /\ 1 \in 1..Len(zeros) /\ 2 \in 1..Len(zeros)
        /\ Len(two) + 1 = 3 /\ Len(two) + 2 = 4
    BY ONLY <1>4, <1>5
  <2>3. size[1] = two[1] /\ size[2] = two[2] /\ size[Len(two) + 1] = zeros[1] /\ size[Len(two) + 2] = zeros[2]
    BY ONLY <2>1, <2>2
  <2> QED BY ONLY <1>5, <2>2, <2>3
<1>9. h = Joined(size, <<6, 0, 0, 0>>)
  <2>1. h = (Be(8 + n, 2) \o <<0, 0>>) \o <<6, 0, 0, 0>>
    BY ONLY <1>0 DEF SmallHeader, PacketHeader
  <2> QED BY ONLY <1>1, <1>3, <1>6, <2>1 DEF Joined
<1>10. /\ h \in Seq(Byte) /\ Len(h) = 8 /\ h[5] = 6
       /\ h[1] = size[1] /\ h[2] = size[2] /\ h[3] = size[3] /\ h[4] = size[4]
  BY ONLY <1>7, <1>9, HeaderParts
<1>11. SubSeq(h, 1, 2) = <<h[1], h[2]>> /\ SubSeq(h, 3, 4) = <<h[3], h[4]>>
  BY ONLY <1>10, HeaderHalves
<1>12. two = <<two[1], two[2]>>
  <2>1. PICK x, y : x = (N \div 256) % 256 /\ y = N % 256
    OBVIOUS
  <2>2. Be(N, 2) = <<(N \div 256) % 256, N % 256>>
    BY ONLY <1>2, BeOf
  <2>3. two = <<x, y>>
    BY ONLY <1>3, <2>1, <2>2
  <2> QED BY ONLY <2>3
<1>13. SubSeq(h, 1, 2) = two
  BY ONLY <1>8, <1>10, <1>11, <1>12
<1>14. SubSeq(h, 3, 4) = <<0, 0>>
  BY ONLY <1>8, <1>10, <1>11
<1>15. PICK small, large : small = BigEndian(SubSeq(h, 1, 2)) /\ large = BigEndian(SubSeq(h, 1, 4))
  OBVIOUS
<1>16. SmallLength(h) = small /\ (SubSeq(h, 3, 4) = <<0, 0>> => (small >= 8 => LargeLength(h) = small))
  BY ONLY <1>15, LengthIs
<1>17. small = N
  BY ONLY <1>4, <1>13, <1>15
<1>18. HeadsData(h)
  BY ONLY <1>10 DEF HeadsData
<1> QED BY ONLY <1>1, <1>2, <1>14, <1>16, <1>17, <1>18

\* A header of the newer kind is read for what it declares, too, as long as
\* that is no more than eight times what a legacy one can: its first two bytes
\* are then too little for the length of a packet.
LEMMA LargeHeaderIsRead ==
  ASSUME NEW n \in Nat, 8 + n < 524288, NEW h, h = LargeHeader(n)
  PROVE  HeadsData(h) /\ LargeLength(h) = 8 + n
<1>0. n \in Nat /\ 8 + n < 524288 /\ h = LargeHeader(n)
  OBVIOUS
<1>1. PICK N : N = 8 + n
  OBVIOUS
<1>2. N \in FourBytes /\ N \in Nat /\ N < 524288
  BY ONLY <1>0, <1>1 DEF FourBytes
<1>3. PICK size : size = Be(N, 4)
  OBVIOUS
<1>4. size \in Seq(Byte) /\ Len(size) = 4 /\ BigEndian(size) = N
  BY ONLY <1>2, <1>3, BeAmountsToIt
<1>5. PICK x, y, z : x = N \div 256 /\ y = x \div 256 /\ z = y \div 256
  OBVIOUS
<1>6. x \in Nat /\ N = 256 * x + (N % 256) /\ N % 256 \in Nat
  BY ONLY <1>2, <1>5, DivideBy256 DEF Byte
<1>7. y \in Nat /\ x = 256 * y + (x % 256) /\ x % 256 \in Nat
  BY ONLY <1>5, <1>6, DivideBy256 DEF Byte
<1>8. y < 8
  <2>1. PICK r, s : r = N % 256 /\ s = x % 256
    OBVIOUS
  <2>2. x \in Nat /\ y \in Nat /\ r \in Nat /\ s \in Nat /\ N = 256 * x + r /\ x = 256 * y + s /\ N < 524288
    BY ONLY <1>2, <1>6, <1>7, <2>1
  <2> QED BY ONLY <2>2
<1>9. z % 256 = 0 /\ y % 256 = y
  <2>1. z \in Nat /\ y = 256 * z + (y % 256) /\ y % 256 \in Nat
    BY ONLY <1>5, <1>7, DivideBy256 DEF Byte
  <2>2. z = 0 /\ y % 256 = y
    BY ONLY <1>7, <1>8, <2>1
  <2>3. 0 % 256 = 0
    OBVIOUS
  <2> QED BY ONLY <2>2, <2>3
<1>10. size[1] = 0 /\ size[2] = y /\ size = <<size[1], size[2], size[3], size[4]>>
  <2>1. PICK e, f, i, j : e = z % 256 /\ f = y % 256 /\ i = x % 256 /\ j = N % 256
    OBVIOUS
  <2>2. Be(N, 4) = <<(((N \div 256) \div 256) \div 256) % 256, ((N \div 256) \div 256) % 256,
                     (N \div 256) % 256, N % 256>>
    BY ONLY <1>2, BeOf
  <2>3. size = <<e, f, i, j>>
    BY ONLY <1>3, <1>5, <2>1, <2>2
  <2> QED BY ONLY <1>9, <2>1, <2>3
<1>11. h = Joined(size, <<6, 0, 0, 0>>)
  <2>1. h = Be(8 + n, 4) \o <<6, 0, 0, 0>>
    BY ONLY <1>0 DEF LargeHeader, PacketHeader
  <2> QED BY ONLY <1>1, <1>3, <2>1 DEF Joined
<1>12. /\ h \in Seq(Byte) /\ Len(h) = 8 /\ h[5] = 6
       /\ h[1] = size[1] /\ h[2] = size[2] /\ h[3] = size[3] /\ h[4] = size[4]
  BY ONLY <1>4, <1>11, HeaderParts
<1>13. SubSeq(h, 1, 2) = <<h[1], h[2]>> /\ SubSeq(h, 1, 4) = <<h[1], h[2], h[3], h[4]>>
  BY ONLY <1>12, HeaderHalves
<1>14. SubSeq(h, 1, 2) = <<0, y>>
  BY ONLY <1>10, <1>12, <1>13
<1>15. SubSeq(h, 1, 4) = size
  BY ONLY <1>10, <1>12, <1>13
<1>16. PICK small, large : small = BigEndian(SubSeq(h, 1, 2)) /\ large = BigEndian(SubSeq(h, 1, 4))
  OBVIOUS
<1>17. ~(small >= 8) => LargeLength(h) = large
  BY ONLY <1>16, LengthIs
<1>18. ~(small >= 8)
  <2>1. \A a, b \in Nat : BigEndian(<<a, b>>) = 256 * a + b
    BY ONLY BigEndianOf
  <2>2. BigEndian(<<0, y>>) = 256 * 0 + y
    BY ONLY <1>7, <2>1
  <2>3. small = 256 * 0 + y
    BY ONLY <1>14, <1>16, <2>2
  <2> QED BY ONLY <1>7, <1>8, <2>3
<1>19. large = N
  BY ONLY <1>4, <1>15, <1>16
<1>20. HeadsData(h)
  BY ONLY <1>12 DEF HeadsData
<1> QED BY ONLY <1>1, <1>17, <1>18, <1>19, <1>20

\* A packet at the front of what has come.
Framed(stream, h, payload, rest) ==
  /\ HeadsData(h) /\ payload \in Seq(Byte) /\ rest \in Seq(Byte)
  /\ stream = Joined(Joined(h, payload), rest)

\* What stands where in it.
FrontOf(stream, h, payload, rest) ==
  /\ stream \in Seq(Byte) /\ Len(stream) = 8 + Len(payload) + Len(rest)
  /\ StandsAt(h, stream, 1) /\ StandsAt(payload, stream, 9) /\ StandsAt(rest, stream, 9 + Len(payload))

\* A packet is its header, its payload and what follows.
LEMMA FramedStands ==
  ASSUME NEW stream, NEW h, NEW payload, NEW rest, Framed(stream, h, payload, rest)
  PROVE  FrontOf(stream, h, payload, rest)
<1>1. /\ h \in Seq(Byte) /\ Len(h) = 8 /\ payload \in Seq(Byte) /\ rest \in Seq(Byte)
      /\ stream = Joined(Joined(h, payload), rest)
  BY DEF Framed, HeadsData
<1>2. PICK front : front = Joined(h, payload)
  OBVIOUS
<1>3. front \in Seq(Byte) /\ Len(front) = 8 + Len(payload) /\ Len(payload) \in Nat
  <2>1. front \in Seq(Byte) /\ Len(front) = Len(h) + Len(payload) /\ Len(payload) \in Nat
    BY ONLY <1>1, <1>2, JoinedBytes
  <2> QED BY ONLY <1>1, <2>1
<1>4. stream \in Seq(Byte) /\ Len(stream) = 8 + Len(payload) + Len(rest) /\ Len(rest) \in Nat
  <2>1. stream = Joined(front, rest)
    BY ONLY <1>1, <1>2
  <2>2. stream \in Seq(Byte) /\ Len(stream) = Len(front) + Len(rest) /\ Len(rest) \in Nat
    <3>1. front \in Seq(Byte) /\ rest \in Seq(Byte)
      BY ONLY <1>1, <1>3
    <3> QED BY ONLY <2>1, <3>1, JoinedBytes
  <2> QED BY ONLY <1>3, <2>2
<1>5. /\ \A i \in 1..Len(front) : stream[i] = front[i]
      /\ \A i \in 1..Len(rest) : stream[Len(front) + i] = rest[i]
  <2>1. front \in Seq(Byte) /\ rest \in Seq(Byte) /\ stream = Joined(front, rest)
    BY ONLY <1>1, <1>2, <1>3
  <2> QED BY ONLY <2>1, JoinedPlaces
<1>6. /\ \A i \in 1..Len(h) : front[i] = h[i]
      /\ \A i \in 1..Len(payload) : front[Len(h) + i] = payload[i]
  BY ONLY <1>1, <1>2, JoinedPlaces
<1>7. StandsAt(h, stream, 1)
  <2>1. \A i \in 1..8 : i \in 1..Len(front) /\ 1 + i - 1 = i
    BY ONLY <1>3
  <2>2. 1 + Len(h) - 1 <= Len(stream)
    BY ONLY <1>1, <1>3, <1>4
  <2>3. \A i \in 1..Len(h) : stream[1 + i - 1] = h[i]
    BY ONLY <1>1, <1>5, <1>6, <2>1, SMTT(60)
  <2> QED BY ONLY <2>2, <2>3 DEF StandsAt
<1>8. StandsAt(payload, stream, 9)
  <2>1. \A i \in 1..Len(payload) : 8 + i \in 1..Len(front) /\ 9 + i - 1 = 8 + i
    BY ONLY <1>3
  <2>2. 9 + Len(payload) - 1 <= Len(stream)
    BY ONLY <1>3, <1>4
  <2>3. \A i \in 1..Len(payload) : stream[9 + i - 1] = payload[i]
    BY ONLY <1>1, <1>5, <1>6, <2>1
  <2> QED BY ONLY <2>2, <2>3 DEF StandsAt
<1>9. StandsAt(rest, stream, 9 + Len(payload))
  <2>1. \A i \in 1..Len(rest) : 9 + Len(payload) + i - 1 = Len(front) + i
    BY ONLY <1>3, <1>4
  <2>2. 9 + Len(payload) + Len(rest) - 1 <= Len(stream)
    BY ONLY <1>3, <1>4
  <2>3. \A i \in 1..Len(rest) : stream[9 + Len(payload) + i - 1] = rest[i]
    BY ONLY <1>5, <2>1
  <2> QED BY ONLY <2>2, <2>3 DEF StandsAt
<1> QED BY ONLY <1>4, <1>7, <1>8, <1>9 DEF FrontOf

\* A stream cut behind a payload of n bytes.
CutAt(stream, n) == [payload |-> SubSeq(stream, 9, 8 + n), rest |-> SubSeq(stream, 9 + n, Len(stream))]

Parted(got, payload, rest) == got.payload = payload /\ got.rest = rest

\* Cut behind its payload it is that, and the rest.
LEMMA CutBehindIt ==
  ASSUME NEW stream, NEW h, NEW payload, NEW rest, FrontOf(stream, h, payload, rest),
         payload \in Seq(Byte), rest \in Seq(Byte), NEW n, n = Len(payload)
  PROVE  Parted(CutAt(stream, n), payload, rest)
<1>1. stream \in Seq(Byte) /\ Len(stream) = 8 + n + Len(rest)
      /\ payload \in Seq(Byte) /\ rest \in Seq(Byte) /\ n \in Nat /\ n = Len(payload) /\ Len(rest) \in Nat
  BY DEF FrontOf
<1>2. StandsAt(payload, stream, 9) /\ StandsAt(rest, stream, 9 + n)
  BY DEF FrontOf
<1>3. PICK p, q, r, s : p = 9 /\ q = 8 + n /\ r = 9 + n /\ s = Len(stream)
  OBVIOUS
<1>4. p \in Nat \ {0} /\ q = p + Len(payload) - 1 /\ r \in Nat \ {0} /\ s = r + Len(rest) - 1
  BY ONLY <1>1, <1>3, SMTT(60)
<1>5. SubSeq(stream, p, q) = payload
  <2>1. StandsAt(payload, stream, p)
    BY ONLY <1>2, <1>3
  <2>2. stream \in Seq(Byte) /\ payload \in Seq(Byte)
    BY ONLY <1>1
  <2>3. p \in Nat \ {0}
    BY ONLY <1>4
  <2>4. q = p + Len(payload) - 1
    BY ONLY <1>4
  <2> QED BY ONLY <2>1, <2>2, <2>3, <2>4, SubSeqStands
<1>6. SubSeq(stream, r, s) = rest
  <2>1. StandsAt(rest, stream, r)
    BY ONLY <1>2, <1>3
  <2>2. stream \in Seq(Byte) /\ rest \in Seq(Byte)
    BY ONLY <1>1
  <2>3. r \in Nat \ {0}
    BY ONLY <1>4
  <2>4. s = r + Len(rest) - 1
    BY ONLY <1>4
  <2> QED BY ONLY <2>1, <2>2, <2>3, <2>4, SubSeqStands
<1>7. PICK a, b : a = SubSeq(stream, p, q) /\ b = SubSeq(stream, r, s)
  OBVIOUS
<1>8. CutAt(stream, n) = [payload |-> a, rest |-> b]
  BY ONLY <1>3, <1>7 DEF CutAt
<1> QED BY ONLY <1>5, <1>6, <1>7, <1>8 DEF Parted

\* How the server reads a packet: what its header declares, and on to the end
\* of a Fetch that is longer.
AsksForRows(stream, declared) == declared >= 5 /\ stream[5] = 6 /\ SubSeq(stream, 11, 12) = <<3, 5>>

PastNumber(stream, off) == off + 1 + (stream[8 + off + 1] % 128)

ThickPacket(stream) == ReadPacket(stream, TRUE, TRUE)

LargePacket(stream) == ReadPacket(stream, TRUE, FALSE)

SmallPacket(stream) == ReadPacket(stream, FALSE, FALSE)

Longer(stream, declared) ==
  IF AsksForRows(stream, declared) /\ PastNumber(stream, PastNumber(stream, 5)) > declared
  THEN PastNumber(stream, PastNumber(stream, 5)) ELSE declared

\* Every packet is cut behind what its header declares, or where its Fetch ends.
LEMMA PacketsAreCut ==
  ASSUME NEW stream
  PROVE  /\ ThickPacket(stream) = CutAt(stream, LargeLength(SubSeq(stream, 1, 8)) - 8)
         /\ LargePacket(stream) = CutAt(stream, Longer(stream, LargeLength(SubSeq(stream, 1, 8)) - 8))
         /\ SmallPacket(stream) = CutAt(stream, Longer(stream, SmallLength(SubSeq(stream, 1, 8)) - 8))
<1>1. ThickPacket(stream) = CutAt(stream, LargeLength(SubSeq(stream, 1, 8)) - 8)
  BY ONLY DEF ThickPacket, ReadPacket, CutAt, LargeLength
<1>2. LargePacket(stream) = CutAt(stream, Longer(stream, LargeLength(SubSeq(stream, 1, 8)) - 8))
  BY ONLY DEF LargePacket, ReadPacket, CutAt, LargeLength, Longer, AsksForRows, PastNumber
<1>3. SmallPacket(stream) = CutAt(stream, Longer(stream, SmallLength(SubSeq(stream, 1, 8)) - 8))
  BY ONLY DEF SmallPacket, ReadPacket, CutAt, SmallLength, Longer, AsksForRows, PastNumber
<1> QED BY ONLY <1>1, <1>2, <1>3

\* A payload that is no Fetch.
IsFetch(payload) == payload[3] = Function /\ payload[4] = FetchRows

\* What is no Fetch is read no further than its header declares.
LEMMA NotLonger ==
  ASSUME NEW stream, NEW h, NEW payload, NEW rest, FrontOf(stream, h, payload, rest),
         NEW n, n = Len(payload), n \in Nat, Len(rest) \in Nat, ~IsFetch(payload)
  PROVE  Longer(stream, n) = n
<1>1. stream \in Seq(Byte) /\ Len(stream) = 8 + n + Len(rest) /\ n \in Nat /\ Len(rest) \in Nat
  BY DEF FrontOf
<1>2. \A i \in 1..n : stream[9 + i - 1] = payload[i]
  BY DEF FrontOf, StandsAt
<1>3. ~IsFetch(payload)
  OBVIOUS
<1>4. ASSUME AsksForRows(stream, n) PROVE FALSE
  <2>1. n >= 5 /\ SubSeq(stream, 11, 12) = <<3, 5>>
    BY ONLY <1>4 DEF AsksForRows
  <2>2. SubSeq(stream, 11, 12) = [i \in 1..2 |-> stream[11 + i - 1]]
    <3>1. 11 \in 1..Len(stream) /\ 12 \in 1..Len(stream)
      BY ONLY <1>1, <2>1
    <3> QED BY ONLY <1>1, <3>1
  <2>3. stream[11] = 3 /\ stream[12] = 5
    <3>1. 1 \in 1..2 /\ 2 \in 1..2 /\ 11 + 1 - 1 = 11 /\ 11 + 2 - 1 = 12
      OBVIOUS
    <3>2. SubSeq(stream, 11, 12)[1] = stream[11] /\ SubSeq(stream, 11, 12)[2] = stream[12]
      BY ONLY <2>2, <3>1
    <3>3. PICK two : two = SubSeq(stream, 11, 12)
      OBVIOUS
    <3>4. two = <<3, 5>>
      BY ONLY <2>1, <3>3
    <3>5. two[1] = 3 /\ two[2] = 5
      BY ONLY <3>4
    <3> QED BY ONLY <3>2, <3>3, <3>5
  <2>4. stream[11] = payload[3] /\ stream[12] = payload[4]
    <3>1. 3 \in 1..n /\ 4 \in 1..n /\ 9 + 3 - 1 = 11 /\ 9 + 4 - 1 = 12
      BY ONLY <1>1, <2>1
    <3> QED BY ONLY <1>2, <3>1
  <2> QED BY ONLY <1>3, <2>3, <2>4 DEF IsFetch, Function, FetchRows
<1> QED BY ONLY <1>4 DEF Longer

\* The header of a packet is its first eight bytes.
LEMMA HeaderInFront ==
  ASSUME NEW stream, NEW h, NEW payload, NEW rest, FrontOf(stream, h, payload, rest), HeadsData(h)
  PROVE  SubSeq(stream, 1, 8) = h
<1>1. stream \in Seq(Byte) /\ h \in Seq(Byte) /\ Len(h) = 8 /\ StandsAt(h, stream, 1)
  BY DEF FrontOf, HeadsData
<1>2. PICK p, q : p = 1 /\ q = 8
  OBVIOUS
<1>3. p \in Nat \ {0}
  BY ONLY <1>2
<1>4. q = p + Len(h) - 1
  BY ONLY <1>1, <1>2
<1>5. StandsAt(h, stream, p)
  BY ONLY <1>1, <1>2
<1>6. SubSeq(stream, p, q) = h
  <2>1. stream \in Seq(Byte) /\ h \in Seq(Byte)
    BY ONLY <1>1
  <2> QED BY ONLY <1>3, <1>4, <1>5, <2>1, SubSeqStands
<1> QED BY ONLY <1>2, <1>6

\* Payloads whose length a legacy header can declare, and a large one without
\* its first two bytes being enough for a legacy one.
FitsSmall(n) == 8 + n < 65536

FitsLarge(n) == 8 + n < 524288

\* What is sent in a packet is what the server takes out of it, no less and no
\* more, whatever follows: from the legacy header in either kind of session,
\* and from a large one up to a length no packet reaches, whose first two bytes
\* could be a legacy length (tns.rs, packet_length, read_packet).  A Fetch,
\* which may be longer than its header declares, is FetchPacketsReadBack's.
THEOREM PacketsReadBack ==
  ASSUME NEW payload \in Seq(Byte), NEW rest \in Seq(Byte), NEW n, n = Len(payload)
  PROVE  /\ FitsSmall(n) /\ ~IsFetch(payload) =>
              /\ Parted(SmallPacket(SmallHeader(n) \o payload \o rest), payload, rest)
              /\ Parted(LargePacket(SmallHeader(n) \o payload \o rest), payload, rest)
         /\ FitsLarge(n) /\ ~IsFetch(payload) =>
              Parted(LargePacket(LargeHeader(n) \o payload \o rest), payload, rest)
         /\ FitsLarge(n) =>
              Parted(ThickPacket(LargeHeader(n) \o payload \o rest), payload, rest)
<1>0. payload \in Seq(Byte) /\ rest \in Seq(Byte) /\ n = Len(payload) /\ n \in Nat /\ Len(rest) \in Nat
  OBVIOUS
<1>1. ASSUME FitsSmall(n), ~IsFetch(payload), NEW h, h = SmallHeader(n), NEW stream, stream = h \o payload \o rest
      PROVE  Parted(SmallPacket(stream), payload, rest) /\ Parted(LargePacket(stream), payload, rest)
  <2>1. HeadsData(h) /\ SmallLength(h) = 8 + n /\ LargeLength(h) = 8 + n
    <3>1. 8 + n < 65536
      BY ONLY <1>1 DEF FitsSmall
    <3> QED BY ONLY <1>0, <1>1, <3>1, SmallHeaderIsRead
  <2>2. stream = Joined(Joined(h, payload), rest)
    BY ONLY <1>1 DEF Joined
  <2>3. Framed(stream, h, payload, rest)
    BY ONLY <1>0, <2>1, <2>2 DEF Framed
  <2>4. FrontOf(stream, h, payload, rest)
    BY ONLY <2>3, FramedStands
  <2>5. h = SubSeq(stream, 1, 8)
    BY ONLY <2>1, <2>4, HeaderInFront
  <2>6. PICK m : m = SmallLength(h) - 8
    OBVIOUS
  <2>7. m = n /\ m = LargeLength(h) - 8
    BY ONLY <1>0, <2>1, <2>6
  <2>8. /\ LargePacket(stream) = CutAt(stream, Longer(stream, m))
        /\ SmallPacket(stream) = CutAt(stream, Longer(stream, m))
    <3>1. m = SmallLength(SubSeq(stream, 1, 8)) - 8 /\ m = LargeLength(SubSeq(stream, 1, 8)) - 8
      BY ONLY <2>5, <2>6, <2>7
    <3>2. /\ LargePacket(stream) = CutAt(stream, Longer(stream, LargeLength(SubSeq(stream, 1, 8)) - 8))
          /\ SmallPacket(stream) = CutAt(stream, Longer(stream, SmallLength(SubSeq(stream, 1, 8)) - 8))
      BY ONLY PacketsAreCut
    <3> QED BY ONLY <3>1, <3>2
  <2>9. Longer(stream, n) = n
    BY ONLY <1>0, <1>1, <2>4, NotLonger
  <2>10. Parted(CutAt(stream, n), payload, rest)
    BY ONLY <1>0, <2>4, CutBehindIt
  <2> QED BY ONLY <2>7, <2>8, <2>9, <2>10
<1>2. ASSUME FitsLarge(n), NEW h, h = LargeHeader(n), NEW stream, stream = h \o payload \o rest
      PROVE  /\ Parted(ThickPacket(stream), payload, rest)
             /\ ~IsFetch(payload) => Parted(LargePacket(stream), payload, rest)
  <2>1. HeadsData(h) /\ LargeLength(h) = 8 + n
    <3>1. 8 + n < 524288
      BY ONLY <1>2 DEF FitsLarge
    <3> QED BY ONLY <1>0, <1>2, <3>1, LargeHeaderIsRead
  <2>2. stream = Joined(Joined(h, payload), rest)
    BY ONLY <1>2 DEF Joined
  <2>3. Framed(stream, h, payload, rest)
    BY ONLY <1>0, <2>1, <2>2 DEF Framed
  <2>4. FrontOf(stream, h, payload, rest)
    BY ONLY <2>3, FramedStands
  <2>5. h = SubSeq(stream, 1, 8)
    BY ONLY <2>1, <2>4, HeaderInFront
  <2>6. PICK m : m = LargeLength(h) - 8
    OBVIOUS
  <2>7. m = n
    BY ONLY <1>0, <2>1, <2>6
  <2>8. /\ ThickPacket(stream) = CutAt(stream, m)
        /\ LargePacket(stream) = CutAt(stream, Longer(stream, m))
    <3>1. m = LargeLength(SubSeq(stream, 1, 8)) - 8
      BY ONLY <2>5, <2>6
    <3>2. /\ ThickPacket(stream) = CutAt(stream, LargeLength(SubSeq(stream, 1, 8)) - 8)
          /\ LargePacket(stream) = CutAt(stream, Longer(stream, LargeLength(SubSeq(stream, 1, 8)) - 8))
      BY ONLY PacketsAreCut
    <3> QED BY ONLY <3>1, <3>2
  <2>9. ~IsFetch(payload) => Longer(stream, n) = n
    BY ONLY <1>0, <2>4, NotLonger
  <2>10. Parted(CutAt(stream, n), payload, rest)
    BY ONLY <1>0, <2>4, CutBehindIt
  <2> QED BY ONLY <2>7, <2>8, <2>9, <2>10
<1>3. PICK a, b : a = SmallHeader(n) /\ b = LargeHeader(n)
  OBVIOUS
<1>4. PICK s, t : s = a \o payload \o rest /\ t = b \o payload \o rest
  OBVIOUS
<1>5. FitsSmall(n) /\ ~IsFetch(payload) => Parted(SmallPacket(s), payload, rest) /\ Parted(LargePacket(s), payload, rest)
  <2>1. ASSUME FitsSmall(n), ~IsFetch(payload)
        PROVE  Parted(SmallPacket(s), payload, rest) /\ Parted(LargePacket(s), payload, rest)
    BY ONLY <1>1, <1>3, <1>4, <2>1
  <2> QED BY ONLY <2>1
<1>6. FitsLarge(n) => /\ Parted(ThickPacket(t), payload, rest)
                      /\ ~IsFetch(payload) => Parted(LargePacket(t), payload, rest)
  <2>1. ASSUME FitsLarge(n)
        PROVE  /\ Parted(ThickPacket(t), payload, rest)
               /\ ~IsFetch(payload) => Parted(LargePacket(t), payload, rest)
    BY ONLY <1>2, <1>3, <1>4, <2>1
  <2> QED BY ONLY <2>1
<1>7. s = SmallHeader(n) \o payload \o rest /\ t = LargeHeader(n) \o payload \o rest
  BY ONLY <1>3, <1>4
<1>8. FitsSmall(n) /\ ~IsFetch(payload) =>
        /\ Parted(SmallPacket(SmallHeader(n) \o payload \o rest), payload, rest)
        /\ Parted(LargePacket(SmallHeader(n) \o payload \o rest), payload, rest)
  BY ONLY <1>5, <1>7, Zenon
<1>9. FitsLarge(n) => Parted(ThickPacket(LargeHeader(n) \o payload \o rest), payload, rest)
  BY ONLY <1>6, <1>7, Zenon
<1>10. FitsLarge(n) /\ ~IsFetch(payload) => Parted(LargePacket(LargeHeader(n) \o payload \o rest), payload, rest)
  BY ONLY <1>6, <1>7, Zenon
<1> QED BY ONLY <1>8, <1>9, <1>10, Zenon

\* The first byte of a number counts those behind it.
LEMMA CountOfANumber ==
  ASSUME NEW n \in FourBytes, NEW w, w = WriteUb(n)
  PROVE  w \in Seq(Byte) /\ Len(w) \in 1..5 /\ w[1] % 128 = Len(w) - 1
<1>0. w = WriteUb(n) /\ n \in FourBytes
  OBVIOUS
<1>1. w \in Seq(Byte) /\ Len(w) \in 1..5
  BY ONLY <1>0, WriteUbBytes
<1>2. PICK v \in Seq(Byte) : WriteUb(n) = <<Len(v)>> \o v /\ Len(v) \in {0, 1, 2, 4}
  BY WriteUbForm DEF UbOf
<1>3. PICK k, one : k = Len(v) /\ one = <<k>>
  OBVIOUS
<1>4. one \in Seq(Byte) /\ Len(one) = 1 /\ one[1] = k /\ k \in {0, 1, 2, 4}
  <2>1. k \in {0, 1, 2, 4}
    BY ONLY <1>2, <1>3
  <2>2. k \in Byte
    BY ONLY <2>1 DEF Byte
  <2> QED BY ONLY <1>3, <2>1, <2>2
<1>5. w = Joined(one, v)
  BY ONLY <1>0, <1>2, <1>3 DEF Joined
<1>6. Len(w) = 1 + k
  <2>1. Len(w) = Len(one) + Len(v)
    BY ONLY <1>2, <1>4, <1>5, JoinedBytes
  <2> QED BY ONLY <1>3, <1>4, <2>1
<1>7. w[1] = k
  <2>1. 1 \in 1..Len(one)
    BY ONLY <1>4
  <2>2. \A i \in 1..Len(one) : Joined(one, v)[i] = one[i]
    BY ONLY <1>2, <1>4, JoinedPlaces
  <2> QED BY ONLY <1>4, <1>5, <2>1, <2>2
<1>8. k % 128 = k
  <2>1. 0 % 128 = 0 /\ 1 % 128 = 1 /\ 2 % 128 = 2 /\ 4 % 128 = 4
    OBVIOUS
  <2> QED BY ONLY <1>4, <2>1
<1> QED BY ONLY <1>1, <1>4, <1>6, <1>7, <1>8

\* A Fetch: what its packet's end is found by.
FetchForm(d, a, b) ==
  /\ d \in Seq(Byte) /\ Len(d) = 5 + a + b /\ a \in 1..5 /\ b \in 1..5
  /\ d[3] = 3 /\ d[4] = 5 /\ d[6] % 128 = a - 1 /\ d[6 + a] % 128 = b - 1

\* It has a function, an id and a number of rows.
LEMMA FetchHasItsForm ==
  ASSUME NEW request, request.seq \in Byte, request.size \in FourBytes, NEW id \in TwoBytes,
         NEW d, d = <<0, 0>> \o ThinFetch(request, id),
         NEW a, a = Len(WriteUb(id)), NEW b, b = Len(WriteUb(request.size))
  PROVE  FetchForm(d, a, b)
<1>1. FetchStandsIn(d, request, id)
  BY FetchStands
<1>2. id \in FourBytes
  BY SMT DEF TwoBytes, FourBytes
<1>3. PICK u, v, seq, size : u = WriteUb(id) /\ v = WriteUb(request.size) /\ seq = request.seq /\ size = request.size
  OBVIOUS
<1>4. a = Len(u) /\ b = Len(v) /\ v = WriteUb(size) /\ seq \in Byte /\ size \in FourBytes
  BY <1>3
<1>5. u \in Seq(Byte) /\ Len(u) \in 1..5 /\ u[1] % 128 = Len(u) - 1
  BY ONLY <1>2, <1>3, CountOfANumber
<1>6. v \in Seq(Byte) /\ Len(v) \in 1..5 /\ v[1] % 128 = Len(v) - 1
  BY ONLY <1>4, CountOfANumber
<1>7. d \in Seq(Byte) /\ Len(d) = 5 + a + b
  BY ONLY <1>1, <1>3, <1>4 DEF FetchStandsIn
<1>8. PICK head : head = <<3, FetchRows, seq>>
  OBVIOUS
<1>9. head \in Seq(Byte) /\ Len(head) = 3 /\ head[1] = 3 /\ head[2] = 5
  <2>1. 3 \in Byte /\ 5 \in Byte
    BY DEF Byte
  <2> QED BY ONLY <1>4, <1>8, <2>1 DEF FetchRows
<1>10. StandsAt(head, d, 3) /\ StandsAt(u, d, 6) /\ StandsAt(v, d, 6 + a)
  BY ONLY <1>1, <1>3, <1>4, <1>8 DEF FetchStandsIn
<1>11. d[3] = 3 /\ d[4] = 5
  <2>1. \A i \in 1..3 : d[3 + i - 1] = head[i]
    BY ONLY <1>9, <1>10 DEF StandsAt
  <2>2. 1 \in 1..3 /\ 2 \in 1..3 /\ 3 + 1 - 1 = 3 /\ 3 + 2 - 1 = 4
    OBVIOUS
  <2> QED BY ONLY <1>9, <2>1, <2>2
<1>12. d[6] = u[1]
  <2>1. \A i \in 1..Len(u) : d[6 + i - 1] = u[i]
    BY ONLY <1>10 DEF StandsAt
  <2>2. 1 \in 1..Len(u) /\ 6 + 1 - 1 = 6
    BY ONLY <1>5
  <2> QED BY ONLY <2>1, <2>2
<1>13. d[6 + a] = v[1]
  <2>1. \A i \in 1..Len(v) : d[6 + a + i - 1] = v[i]
    BY ONLY <1>10 DEF StandsAt
  <2>2. 1 \in 1..Len(v) /\ 6 + a + 1 - 1 = 6 + a
    BY ONLY <1>4, <1>5, <1>6
  <2> QED BY ONLY <2>1, <2>2
<1> QED BY ONLY <1>4, <1>5, <1>6, <1>7, <1>11, <1>12, <1>13 DEF FetchForm

\* The server reads a Fetch to its end, if its header declares all of it or two
\* bytes less.
LEMMA FetchIsReadWhole ==
  ASSUME NEW stream, NEW h, NEW d, NEW rest, FrontOf(stream, h, d, rest), HeadsData(h), rest \in Seq(Byte),
         NEW a, NEW b, FetchForm(d, a, b), NEW n, n = Len(d), NEW short \in {n, n - 2}
  PROVE  Longer(stream, short) = n
<1>1. stream \in Seq(Byte) /\ Len(stream) = 8 + n + Len(rest) /\ Len(rest) \in Nat
  <2>1. Len(rest) \in Nat
    OBVIOUS
  <2> QED BY <2>1 DEF FrontOf
<1>2. /\ n = 5 + a + b /\ a \in 1..5 /\ b \in 1..5
      /\ d[3] = 3 /\ d[4] = 5 /\ d[6] % 128 = a - 1 /\ d[6 + a] % 128 = b - 1
  BY DEF FetchForm
<1>3. short \in Nat /\ short >= 5 /\ short <= n
  BY ONLY <1>2, short \in {n, n - 2}
<1>4. \A i \in 1..n : stream[9 + i - 1] = d[i]
  BY DEF FrontOf, StandsAt
<1>5. stream[5] = 6
  <2>1. \A i \in 1..8 : stream[1 + i - 1] = h[i]
    BY DEF FrontOf, StandsAt, HeadsData
  <2>2. h[5] = 6
    BY DEF HeadsData
  <2>3. 5 \in 1..8 /\ 1 + 5 - 1 = 5
    OBVIOUS
  <2> QED BY ONLY <2>1, <2>2, <2>3
<1>6. stream[11] = d[3] /\ stream[12] = d[4] /\ stream[14] = d[6] /\ stream[14 + a] = d[6 + a]
  <2>1. /\ 3 \in 1..n /\ 4 \in 1..n /\ 6 \in 1..n /\ 6 + a \in 1..n
        /\ 9 + 3 - 1 = 11 /\ 9 + 4 - 1 = 12 /\ 9 + 6 - 1 = 14 /\ 9 + (6 + a) - 1 = 14 + a
    BY ONLY <1>2
  <2> QED BY ONLY <1>4, <2>1
<1>7. SubSeq(stream, 11, 12) = <<3, 5>>
  <2>1. SubSeq(stream, 11, 12) = [i \in 1..2 |-> stream[11 + i - 1]]
    <3>1. 11 \in 1..Len(stream) /\ 12 \in 1..Len(stream)
      BY ONLY <1>1, <1>2
    <3> QED BY ONLY <1>1, <3>1
  <2>2. \A i \in 1..2 : i \in {1, 2}
    OBVIOUS
  <2>3. 11 + 1 - 1 = 11 /\ 11 + 2 - 1 = 12
    OBVIOUS
  <2>4. [i \in 1..2 |-> stream[11 + i - 1]] = <<3, 5>>
    BY ONLY <1>2, <1>6, <2>2, <2>3
  <2> QED BY ONLY <2>1, <2>4
<1>8. AsksForRows(stream, short)
  BY ONLY <1>3, <1>5, <1>7 DEF AsksForRows
<1>9. PastNumber(stream, 5) = 5 + a
  <2>1. 8 + 5 + 1 = 14 /\ 5 + 1 + (a - 1) = 5 + a
    BY ONLY <1>2
  <2>2. PastNumber(stream, 5) = 5 + 1 + (stream[14] % 128)
    BY ONLY <2>1 DEF PastNumber
  <2> QED BY ONLY <1>2, <1>6, <2>1, <2>2
<1>10. PastNumber(stream, 5 + a) = n
  <2>1. 8 + (5 + a) + 1 = 14 + a /\ 5 + a + 1 + (b - 1) = n
    BY ONLY <1>2
  <2>2. PastNumber(stream, 5 + a) = 5 + a + 1 + (stream[14 + a] % 128)
    BY ONLY <2>1 DEF PastNumber
  <2> QED BY ONLY <1>2, <1>6, <2>1, <2>2
<1>11. PICK whole : whole = PastNumber(stream, PastNumber(stream, 5))
  OBVIOUS
<1>12. whole = n
  BY ONLY <1>9, <1>10, <1>11
<1>13. Longer(stream, short) = IF whole > short THEN whole ELSE short
  BY ONLY <1>8, <1>11 DEF Longer
<1>14. n \in Nat /\ (~(n > short) => short = n)
  BY ONLY <1>2, <1>3
<1> QED BY ONLY <1>12, <1>13, <1>14

\* A Fetch is taken whole out of its packet, whatever follows: of the packet of
\* a driver that declares it two bytes short, too, with a legacy header in a
\* session that has negotiated large ones (tns.rs, read_packet).
THEOREM FetchPacketsReadBack ==
  ASSUME NEW request, request.seq \in Byte, request.size \in FourBytes, NEW id \in TwoBytes,
         NEW d, d = <<0, 0>> \o ThinFetch(request, id), NEW rest \in Seq(Byte),
         NEW short \in {Len(d), Len(d) - 2}
  PROVE  /\ Parted(SmallPacket(SmallHeader(short) \o d \o rest), d, rest)
         /\ Parted(LargePacket(SmallHeader(short) \o d \o rest), d, rest)
         /\ Parted(LargePacket(LargeHeader(short) \o d \o rest), d, rest)
<1>0. PICK n, a, b : n = Len(d) /\ a = Len(WriteUb(id)) /\ b = Len(WriteUb(request.size))
  OBVIOUS
<1>2. FetchForm(d, a, b)
  BY <1>0, FetchHasItsForm
<1>3. d \in Seq(Byte) /\ n = 5 + a + b /\ a \in 1..5 /\ b \in 1..5
  BY ONLY <1>0, <1>2 DEF FetchForm
<1>4. short \in {n, n - 2} /\ rest \in Seq(Byte)
  BY ONLY <1>0, short \in {Len(d), Len(d) - 2}, rest \in Seq(Byte)
<1>5. short \in Nat /\ 8 + short < 65536 /\ 8 + short < 524288
  BY ONLY <1>3, <1>4
<1>6. ASSUME NEW h, HeadsData(h), NEW stream, stream = h \o d \o rest,
             NEW m, m = SmallLength(h) - 8 \/ m = LargeLength(h) - 8, m = short
      PROVE  SubSeq(stream, 1, 8) = h /\ Parted(CutAt(stream, Longer(stream, m)), d, rest)
  <2>1. stream = Joined(Joined(h, d), rest)
    BY ONLY <1>6 DEF Joined
  <2>2. Framed(stream, h, d, rest)
    BY ONLY <1>3, <1>4, <1>6, <2>1 DEF Framed
  <2>3. FrontOf(stream, h, d, rest)
    BY ONLY <2>2, FramedStands
  <2>4. SubSeq(stream, 1, 8) = h
    BY ONLY <1>6, <2>3, HeaderInFront
  <2>5. Longer(stream, short) = n
    BY ONLY <1>0, <1>2, <1>4, <1>6, <2>3, FetchIsReadWhole
  <2>6. Parted(CutAt(stream, n), d, rest)
    BY ONLY <1>0, <1>3, <1>4, <2>3, CutBehindIt
  <2> QED BY ONLY <1>6, <2>4, <2>5, <2>6
<1>7. PICK small, large : small = SmallHeader(short) /\ large = LargeHeader(short)
  OBVIOUS
<1>8. PICK s, t : s = small \o d \o rest /\ t = large \o d \o rest
  OBVIOUS
<1>9. HeadsData(small) /\ SmallLength(small) = 8 + short /\ LargeLength(small) = 8 + short
  BY ONLY <1>5, <1>7, SmallHeaderIsRead
<1>10. HeadsData(large) /\ LargeLength(large) = 8 + short
  BY ONLY <1>5, <1>7, LargeHeaderIsRead
<1>11. Parted(SmallPacket(s), d, rest) /\ Parted(LargePacket(s), d, rest)
  <2>1. PICK m : m = SmallLength(small) - 8
    OBVIOUS
  <2>2. m = short /\ m = LargeLength(small) - 8
    BY ONLY <1>5, <1>9, <2>1
  <2>3. small = SubSeq(s, 1, 8) /\ Parted(CutAt(s, Longer(s, m)), d, rest)
    BY ONLY <1>6, <1>8, <1>9, <2>1, <2>2
  <2>4. LargePacket(s) = CutAt(s, Longer(s, m)) /\ SmallPacket(s) = CutAt(s, Longer(s, m))
    <3>1. m = SmallLength(SubSeq(s, 1, 8)) - 8 /\ m = LargeLength(SubSeq(s, 1, 8)) - 8
      BY ONLY <2>1, <2>2, <2>3
    <3>2. /\ LargePacket(s) = CutAt(s, Longer(s, LargeLength(SubSeq(s, 1, 8)) - 8))
          /\ SmallPacket(s) = CutAt(s, Longer(s, SmallLength(SubSeq(s, 1, 8)) - 8))
      BY ONLY PacketsAreCut
    <3> QED BY ONLY <3>1, <3>2
  <2> QED BY ONLY <2>3, <2>4
<1>12. Parted(LargePacket(t), d, rest)
  <2>1. PICK m : m = LargeLength(large) - 8
    OBVIOUS
  <2>2. m = short
    BY ONLY <1>5, <1>10, <2>1
  <2>3. large = SubSeq(t, 1, 8) /\ Parted(CutAt(t, Longer(t, m)), d, rest)
    BY ONLY <1>6, <1>8, <1>10, <2>1, <2>2
  <2>4. LargePacket(t) = CutAt(t, Longer(t, m))
    <3>1. m = LargeLength(SubSeq(t, 1, 8)) - 8
      BY ONLY <2>1, <2>3
    <3>2. LargePacket(t) = CutAt(t, Longer(t, LargeLength(SubSeq(t, 1, 8)) - 8))
      BY ONLY PacketsAreCut
    <3> QED BY ONLY <3>1, <3>2
  <2> QED BY ONLY <2>3, <2>4
<1>13. s = SmallHeader(short) \o d \o rest /\ t = LargeHeader(short) \o d \o rest
  BY ONLY <1>7, <1>8
<1>14. Parted(LargePacket(LargeHeader(short) \o d \o rest), d, rest)
  BY ONLY <1>12, <1>13, Zenon
<1>15. /\ Parted(SmallPacket(SmallHeader(short) \o d \o rest), d, rest)
       /\ Parted(LargePacket(SmallHeader(short) \o d \o rest), d, rest)
  BY ONLY <1>11, <1>13, Zenon
<1> QED BY ONLY <1>14, <1>15, Zenon

\* A request of a thin driver, in the packet the server has read of it.
LEMMA ExecuteTravelsInOne ==
  ASSUME NEW driver, driver.large = TRUE, driver.oci = FALSE,
         NEW request, request.func = "execute", NEW id,
         NEW d, d = <<0, 0>> \o Piggybacks(request.closes) \o ThinExecute(driver, request)
  PROVE  Transmitted(driver, request, id) = LargeHeader(Len(d)) \o d
<1>1. Body(driver, request, id) = ThinExecute(driver, request)
  BY DEF Body
<1>2. PICK func : func = request.func
  OBVIOUS
<1>3. func # "fetch"
  BY <1>2
<1>4. Transmitted(driver, request, id) = PacketHeader(Len(d), driver.large) \o d
  BY <1>1, <1>2, <1>3 DEF Transmitted
<1>5. PacketHeader(Len(d), driver.large) = LargeHeader(Len(d))
  BY DEF LargeHeader
<1> QED BY ONLY <1>4, <1>5

\* What a thin driver's payload holds: an Execute, alone or behind closes that
\* are taken for no other message.
Carries(d, driver, request) ==
  \/ request.closes = <<>> /\ d = <<0, 0>> \o ThinExecute(driver, request)
  \/ /\ Travels(d, request.closes, ThinExecute(driver, request))
     /\ Quiet(d, 6, 2 + Len(Piggybacks(request.closes)))

\* The payload is bytes, and what the server makes of it is what was meant.
LEMMA CarriedIsRun ==
  ASSUME NEW Value, NEW driver, driver.kind # "jdbc", NEW request, Executable(request, Value),
         NEW d, Carries(d, driver, request), NEW cached
  PROVE  d \in Seq(Byte) /\ ~IsFetch(d) /\ RunsAs(d, cached, request)
<1>0. driver.kind # "jdbc" /\ Executable(request, Value)
  OBVIOUS
<1>1. CASE request.closes = <<>> /\ d = <<0, 0>> \o ThinExecute(driver, request)
  <2>1. d \in Seq(Byte) /\ d[4] = Execute
    BY <1>1, ExecuteIsItsMessage
  <2>2. RunsAs(d, cached, request)
    BY ONLY <1>0, <1>1, ExecutesRunAsSent
  <2>3. ~IsFetch(d)
    BY ONLY <2>1 DEF IsFetch, Execute, FetchRows
  <2> QED BY ONLY <2>1, <2>2, <2>3
<1>2. CASE /\ Travels(d, request.closes, ThinExecute(driver, request))
           /\ Quiet(d, 6, 2 + Len(Piggybacks(request.closes)))
  <2>1. PICK ids, m, body : /\ ids = request.closes /\ m = Len(Piggybacks(ids))
                            /\ body = ThinExecute(driver, request)
    OBVIOUS
  <2>2. Travels(d, ids, body) /\ Quiet(d, 6, 2 + m)
    BY ONLY <1>2, <2>1
  <2>3. RunsAs(d, cached, request)
    <3>1. Travels(d, ids, ThinExecute(driver, request)) /\ m = Len(Piggybacks(ids))
      BY ONLY <2>1, <2>2
    <3> QED BY ONLY <1>0, <2>2, <3>1, ExecutesRunBehindCloses
  <2>4. PICK pre : pre = Piggybacks(ids)
    OBVIOUS
  <2>5. Laid(d, pre, body, m)
    <3>1. m = Len(pre)
      BY ONLY <2>1, <2>4
    <3> QED BY ONLY <2>2, <2>4, <3>1, TravelsThere
  <2>6. d \in Seq(Byte) /\ d[3] = Piggyback
    BY ONLY <2>5 DEF Laid
  <2>7. ~IsFetch(d)
    BY ONLY <2>6 DEF IsFetch, Piggyback, Function
  <2> QED BY ONLY <2>3, <2>6, <2>7
<1> QED BY <1>1, <1>2 DEF Carries

\* From the driver's transmission to the call that runs: the server takes the
\* packet of an Execute, with whatever follows it, for its payload, and runs it
\* as the driver meant it: its text, its values, its number of rows.
THEOREM ExecutesArrive ==
  ASSUME NEW Value, NEW driver, driver.kind # "jdbc", driver.large = TRUE, driver.oci = FALSE,
         NEW request, request.func = "execute", Executable(request, Value),
         NEW d, d = <<0, 0>> \o Piggybacks(request.closes) \o ThinExecute(driver, request),
         Carries(d, driver, request), FitsLarge(Len(d)),
         NEW id, NEW rest \in Seq(Byte), NEW cached
  PROVE  /\ RunsAs(LargePacket(Transmitted(driver, request, id) \o rest).payload, cached, request)
         /\ LargePacket(Transmitted(driver, request, id) \o rest).rest = rest
<1>1. d \in Seq(Byte) /\ ~IsFetch(d) /\ RunsAs(d, cached, request)
  <2>1. driver.kind # "jdbc" /\ Executable(request, Value) /\ Carries(d, driver, request)
    OBVIOUS
  <2> QED BY ONLY <2>1, CarriedIsRun
<1>2. Transmitted(driver, request, id) = LargeHeader(Len(d)) \o d
  BY ExecuteTravelsInOne, ZenonT(60)
<1>3. PICK n : n = Len(d)
  OBVIOUS
<1>4. FitsLarge(n)
  BY <1>3
<1>5. PICK got : got = LargePacket(LargeHeader(n) \o d \o rest)
  OBVIOUS
<1>6. Parted(got, d, rest)
  BY ONLY <1>1, <1>3, <1>4, <1>5, rest \in Seq(Byte), PacketsReadBack
<1>7. got = LargePacket(Transmitted(driver, request, id) \o rest)
  BY ONLY <1>2, <1>3, <1>5
<1>8. got.payload = d /\ got.rest = rest
  BY ONLY <1>6 DEF Parted
<1>9. RunsAs(got.payload, cached, request)
  BY ONLY <1>1, <1>8
<1> QED BY ONLY <1>7, <1>8, <1>9

-----------------------------------------------------------------------------
(* Sessions of thin drivers: BoundAsSent. *)

-----------------------------------------------------------------------------
(* Sessions of thin drivers: BoundAsSent. *)

\* A statement without the outputs at its end.
BareSql(sql) == IF SplitReturningInto(sql) = None THEN sql ELSE SplitReturningInto(sql).sql

\* The place a search finds is one of those it searches.
LEMMA LeastFound ==
  ASSUME NEW found \in SUBSET Nat, Least(found) # 0
  PROVE  Least(found) \in found
<1>1. found # {}
  BY DEF Least
<1>2. \E p \in found : \A q \in found : p <= q
  BY <1>1, LeastNat
<1>3. PICK least : least = CHOOSE p \in found : \A q \in found : p <= q
  OBVIOUS
<1>4. least \in found
  BY <1>2, <1>3
<1>5. Least(found) = least
  BY <1>1, <1>3 DEF Least
<1> QED BY <1>4, <1>5

\* A statement without its outputs is a text, and they are counted.
LEMMA PartsOfReturning ==
  ASSUME NEW sql \in Seq(Byte)
  PROVE  BareSql(sql) \in Seq(Byte) /\ Outputs(sql) \in Nat
<1>1. CASE SplitReturningInto(sql) = None
  <2>1. BareSql(sql) = sql /\ Outputs(sql) = 0
    BY <1>1 DEF BareSql, Outputs
  <2> QED BY <2>1
<1>2. CASE SplitReturningInto(sql) # None
  <2>1. PICK at : at = Latest(sql, LAMBDA i : sql[i] = Returning)
    OBVIOUS
  <2>2. PICK found : found = {p \in (at + 1)..Len(sql) : p \in DOMAIN sql /\ sql[p] = Into}
    OBVIOUS
  <2>3. PICK into : into = Least(found)
    OBVIOUS
  <2>4. PICK rest : rest = SubSeq(sql, into + 1, Len(sql))
    OBVIOUS
  <2>5. into # 0 /\ SplitReturningInto(sql) = [sql |-> SubSeq(sql, 1, into - 1), outs |-> Len(Occurrences(rest))]
    BY <1>2, <2>1, <2>2, <2>3, <2>4 DEF SplitReturningInto, First
  <2>6. found \in SUBSET (1..Len(sql)) /\ found \in SUBSET Nat
    <3>1. DOMAIN sql = 1..Len(sql) /\ Len(sql) \in Nat
      OBVIOUS
    <3> QED BY <2>2, <3>1
  <2>7. into \in 1..Len(sql)
    BY <2>3, <2>5, <2>6, LeastFound
  <2>8. SubSeq(sql, 1, into - 1) \in Seq(Byte)
    <3>1. Len(sql) \in Nat
      OBVIOUS
    <3>2. \A i \in 1..(into - 1) : i \in 1..Len(sql)
      BY <2>7, <3>1
    <3>3. \A i \in 1..(into - 1) : sql[i] \in Byte
      BY <3>2, ElementOfSeq
    <3> QED BY <2>7, <3>1, <3>3, SubSeqProperties
  <2>9. Len(rest) \in Nat
    <3>1. rest \in Seq(Byte)
      <4>1. Len(sql) \in Nat
        OBVIOUS
      <4>2. \A i \in (into + 1)..Len(sql) : i \in 1..Len(sql)
        BY <2>7, <4>1
      <4>3. \A i \in (into + 1)..Len(sql) : sql[i] \in Byte
        BY <4>2, ElementOfSeq
      <4> QED BY <2>4, <2>7, <4>1, <4>3, SubSeqProperties
    <3> QED BY <3>1
  <2>10. Len(Occurrences(rest)) \in Nat
    <3>1. Occurrences(rest) \in Seq(Placeholders)
      BY <2>9, OccurrencesArePlaceholders
    <3> QED BY <3>1
  <2> QED BY <1>2, <2>5, <2>8, <2>10 DEF BareSql, Outputs
<1> QED BY <1>1, <1>2

\* The placeholders of a statement are all names or all numbers, the numbers
\* from 1 on in the order of their first occurrence; a block has none.
Placed(sql) ==
  /\ \/ \A k \in 1..Len(Occurrences(sql)) : Occurrences(sql)[k] \notin Digits
     \/ \A k \in 1..Len(Occurrences(sql)) :
          /\ Occurrences(sql)[k] \in Digits
          /\ Occurrences(sql)[k] - 48 \in 1..Len(Names(sql))
          /\ Names(sql)[Occurrences(sql)[k] - 48] = Occurrences(sql)[k]
  /\ sql[1] = PlSql => Occurrences(sql) = <<>>

\* No two are the same.
Apart(names) == \A i, j \in 1..Len(names) : names[i] = names[j] => i = j

\* Each is the name of a placeholder.
NamedBy(names, tokens) == \A i \in 1..Len(names) : \E k \in 1..Len(tokens) : names[i] = Upcase(tokens[k])

\* The names of a statement are distinct, and those of its placeholders.
LEMMA NamesStand ==
  ASSUME NEW sql, Len(sql) \in Nat, NEW tokens, tokens = Occurrences(sql), NEW names, names = Names(sql)
  PROVE  /\ tokens \in Seq(Placeholders) /\ names \in Seq(Int) /\ Len(names) \in Nat /\ DOMAIN names = 1..Len(names)
         /\ Apart(names) /\ NamedBy(names, tokens)
<1>1. tokens \in Seq(Placeholders)
  BY OccurrencesArePlaceholders
<1>2. PICK upper : upper = [k \in DOMAIN tokens |-> Upcase(tokens[k])]
  OBVIOUS
<1>3. /\ upper \in Seq(Int) /\ Len(upper) = Len(tokens) /\ Len(tokens) \in Nat
      /\ \A k \in 1..Len(tokens) : upper[k] = Upcase(tokens[k])
  <2>1. DOMAIN tokens = 1..Len(tokens) /\ Len(tokens) \in Nat
    BY <1>1
  <2>2. \A k \in 1..Len(tokens) : tokens[k] \in Int
    <3>1. \A k \in 1..Len(tokens) : tokens[k] \in Placeholders
      BY <1>1, ElementOfSeq
    <3>2. \A x \in Placeholders : x \in Int
      BY SMT DEF Placeholders, Lower, Upper, Digits
    <3> QED BY ONLY <3>1, <3>2
  <2>3. \A k \in 1..Len(tokens) : Upcase(tokens[k]) \in Int
    <3>1. \A x \in Int : Upcase(x) \in Int
      BY SMT DEF Upcase
    <3> QED BY ONLY <2>2, <3>1
  <2> QED BY <1>2, <2>1, <2>3
<1>4. names = Distinct(upper)
  BY <1>2 DEF Names
<1>5. names \in Seq(Int) /\ EachOnce(names, upper, Len(upper))
  BY <1>3, <1>4, DistinctHasEachOnce
<1>6. Len(names) \in Nat /\ DOMAIN names = 1..Len(names)
  BY <1>5
<1>7. \A i, j \in 1..Len(names) : names[i] = names[j] => i = j
  BY ONLY <1>5 DEF EachOnce
<1>8. \A i \in 1..Len(names) : \E k \in 1..Len(tokens) : names[i] = upper[k]
  BY ONLY <1>3, <1>5 DEF EachOnce
<1>9. \A i \in 1..Len(names) : \E k \in 1..Len(tokens) : names[i] = Upcase(tokens[k])
  BY ONLY <1>3, <1>8
<1> QED BY ONLY <1>1, <1>5, <1>6, <1>7, <1>9 DEF Apart, NamedBy

\* The same, spelt out.
LEMMA NamesAre ==
  ASSUME NEW sql, Len(sql) \in Nat, NEW tokens, tokens = Occurrences(sql), NEW names, names = Names(sql)
  PROVE  /\ tokens \in Seq(Placeholders) /\ names \in Seq(Int) /\ Len(names) \in Nat /\ DOMAIN names = 1..Len(names)
         /\ \A i, j \in 1..Len(names) : names[i] = names[j] => i = j
         /\ \A i \in 1..Len(names) : \E k \in 1..Len(tokens) : names[i] = Upcase(tokens[k])
<1>1. /\ tokens \in Seq(Placeholders) /\ names \in Seq(Int) /\ Len(names) \in Nat /\ DOMAIN names = 1..Len(names)
      /\ Apart(names) /\ NamedBy(names, tokens)
  BY NamesStand
<1> QED BY ONLY <1>1 DEF Apart, NamedBy

\* Every placeholder takes the value that stands where its name does, and every
\* name is some placeholder's.
LEMMA IndexIsItsName ==
  ASSUME NEW sql, Len(sql) \in Nat, Placed(sql), NEW tokens, tokens = Occurrences(sql),
         NEW names, names = Names(sql), NEW ix, ix = BindIndexes(sql)
  PROVE  /\ ix \in Seq(Nat) /\ Len(ix) = Len(tokens) /\ Len(tokens) \in Nat
         /\ \A k \in 1..Len(tokens) : ix[k] \in 1..Len(names) /\ names[ix[k]] = Upcase(tokens[k])
         /\ \A j \in 1..Len(names) : \E k \in 1..Len(tokens) : ix[k] = j
<1>1. /\ tokens \in Seq(Placeholders) /\ Len(names) \in Nat
      /\ \A i, j \in 1..Len(names) : names[i] = names[j] => i = j
      /\ \A i \in 1..Len(names) : \E k \in 1..Len(tokens) : names[i] = Upcase(tokens[k])
  <2>1. Len(sql) \in Nat /\ tokens = Occurrences(sql) /\ names = Names(sql)
    OBVIOUS
  <2>2. tokens \in Seq(Placeholders) /\ Len(names) \in Nat /\ Apart(names) /\ NamedBy(names, tokens)
    BY ONLY <2>1, NamesStand
  <2> QED BY ONLY <2>2 DEF Apart, NamedBy
<1>2. ix \in Seq(Nat) /\ Len(ix) = Len(tokens) /\ Len(tokens) \in Nat
  <2>1. ix \in Seq(Nat) /\ Len(ix) = Len(tokens)
    BY NumbersFollowThemselves
  <2> QED BY ONLY <1>1, <2>1
<1>3. \A k \in 1..Len(tokens) : ix[k] \in 1..Len(names) /\ names[ix[k]] = Upcase(tokens[k])
  <2>1. CASE \A k \in 1..Len(tokens) : tokens[k] \notin Digits
    BY <2>1, IndexesFollowNames
  <2>2. CASE \A k \in 1..Len(tokens) : /\ tokens[k] \in Digits /\ tokens[k] - 48 \in 1..Len(names)
                                       /\ names[tokens[k] - 48] = tokens[k]
    <3>1. \A k \in 1..Len(tokens) : tokens[k] \in Digits => ix[k] = tokens[k] - 48
      BY NumbersFollowThemselves
    <3>2. \A k \in 1..Len(tokens) : ix[k] = tokens[k] - 48
      BY ONLY <2>2, <3>1
    <3>3. \A k \in 1..Len(tokens) : Upcase(tokens[k]) = tokens[k]
      <4>1. \A x \in Digits : Upcase(x) = x
        BY SMT DEF Upcase, Digits, Lower
      <4> QED BY ONLY <2>2, <4>1
    <3> QED BY ONLY <2>2, <3>2, <3>3
  <2> QED BY <2>1, <2>2 DEF Placed
<1>4. \A j \in 1..Len(names) : \E k \in 1..Len(tokens) : ix[k] = j
  <2>1. TAKE j \in 1..Len(names)
  <2>2. PICK k \in 1..Len(tokens) : names[j] = Upcase(tokens[k])
    BY ONLY <1>1, <2>1
  <2>3. ix[k] \in 1..Len(names) /\ names[ix[k]] = names[j]
    BY ONLY <1>3, <2>2
  <2>4. ix[k] = j
    BY ONLY <1>1, <2>1, <2>3
  <2> QED BY ONLY <2>2, <2>4
<1> QED BY ONLY <1>2, <1>3, <1>4

\* A row is bound unless a value of it is one the database refuses.
LEMMA BoundUnlessRefused ==
  ASSUME NEW sql, Len(sql) \in Nat, Placed(sql), NEW names, names = Names(sql),
         NEW binds, DOMAIN binds = 1..Len(names), NEW style \in {"postgres", "mariadb"},
         NEW bound, bound = BindParameters(sql, binds, style)
  PROVE  bound.r = "ok" <=> \A j \in 1..Len(names) : Parameter(style, binds[j]).t # "refused"
<1>1. PICK tokens, ix : tokens = Occurrences(sql) /\ ix = BindIndexes(sql)
  OBVIOUS
<1>2. /\ ix \in Seq(Nat) /\ Len(ix) = Len(tokens) /\ Len(tokens) \in Nat /\ DOMAIN ix = 1..Len(tokens)
      /\ \A k \in 1..Len(tokens) : ix[k] \in 1..Len(names) /\ names[ix[k]] = Upcase(tokens[k])
      /\ \A j \in 1..Len(names) : \E k \in 1..Len(tokens) : ix[k] = j
  <2>1. /\ ix \in Seq(Nat) /\ Len(ix) = Len(tokens) /\ Len(tokens) \in Nat
        /\ \A k \in 1..Len(tokens) : ix[k] \in 1..Len(names) /\ names[ix[k]] = Upcase(tokens[k])
        /\ \A j \in 1..Len(names) : \E k \in 1..Len(tokens) : ix[k] = j
    BY <1>1, IndexIsItsName
  <2>2. DOMAIN ix = 1..Len(tokens)
    BY ONLY <2>1
  <2> QED BY ONLY <2>1, <2>2
<1>3. CASE sql[1] = PlSql
  <2>1. bound.r = "ok"
    BY <1>3 DEF BindParameters, Got
  <2>2. tokens = <<>>
    BY <1>1, <1>3 DEF Placed
  <2>3. 1..Len(tokens) = {}
    BY ONLY <2>2
  <2>4. \A j \in 1..Len(names) : FALSE
    BY ONLY <1>2, <2>3
  <2> QED BY ONLY <2>1, <2>4
<1>4. CASE sql[1] # PlSql
  <2>1. PICK once : once = Distinct(ix)
    OBVIOUS
  <2>2. PICK from : from = IF style = "postgres" THEN once ELSE ix
    OBVIOUS
  <2>3. PICK values : values = [k \in DOMAIN from |-> Parameter(style, binds[from[k]])]
    OBVIOUS
  <2>4. \A k \in DOMAIN ix : ix[k] \in DOMAIN binds
    BY ONLY <1>2, DOMAIN binds = 1..Len(names)
  <2>5. bound = IF \E k \in DOMAIN values : values[k].t = "refused" THEN Fail("refused")
                ELSE Got([values |-> values,
                          places |-> [k \in DOMAIN ix |-> IF style = "mariadb" THEN k
                                                          ELSE CHOOSE j \in DOMAIN once : once[j] = ix[k]]], 0)
    <3>1. CASE style = "postgres"
      <4>1. from = once /\ values = [k \in DOMAIN once |-> PgParameter(binds[once[k]])]
        BY <2>2, <2>3, <3>1 DEF Parameter
      <4> QED BY <1>1, <1>4, <2>1, <2>4, <3>1, <4>1 DEF BindParameters
    <3>2. CASE style = "mariadb"
      <4>1. from = ix /\ values = [k \in DOMAIN ix |-> MyParameter(binds[ix[k]])]
        BY <2>2, <2>3, <3>2 DEF Parameter
      <4> QED BY <1>1, <1>4, <2>1, <2>4, <3>2, <4>1 DEF BindParameters
    <3> QED BY <3>1, <3>2
  <2>6. bound.r = "ok" <=> \A k \in DOMAIN values : values[k].t # "refused"
    BY ONLY <2>5 DEF Fail, Got
  <2>7. /\ \A k \in DOMAIN from : \E i \in 1..Len(tokens) : from[k] = ix[i]
        /\ \A i \in 1..Len(tokens) : \E k \in DOMAIN from : from[k] = ix[i]
    <3>1. CASE style = "postgres"
      <4>1. once \in Seq(Nat) /\ EachOnce(once, ix, Len(ix))
        BY ONLY <1>2, <2>1, DistinctHasEachOnce
      <4>2. DOMAIN once = 1..Len(once)
        BY ONLY <4>1
      <4> QED BY ONLY <1>2, <2>2, <3>1, <4>1, <4>2 DEF EachOnce
    <3>2. CASE style # "postgres"
      BY ONLY <1>2, <2>2, <3>2
    <3> QED BY ONLY <3>1, <3>2
  <2>8. ASSUME NEW j \in 1..Len(names)
        PROVE  \E k \in DOMAIN values : values[k] = Parameter(style, binds[j])
    <3>1. PICK i \in 1..Len(tokens) : ix[i] = j
      BY ONLY <1>2, <2>8
    <3>2. PICK k \in DOMAIN from : from[k] = ix[i]
      BY ONLY <2>7, <3>1
    <3> QED BY ONLY <2>3, <3>1, <3>2
  <2>9. ASSUME NEW k \in DOMAIN values
        PROVE  \E j \in 1..Len(names) : values[k] = Parameter(style, binds[j])
    <3>1. k \in DOMAIN from /\ values[k] = Parameter(style, binds[from[k]])
      BY ONLY <2>3, <2>9
    <3>2. PICK i \in 1..Len(tokens) : from[k] = ix[i]
      BY ONLY <2>7, <3>1
    <3> QED BY ONLY <1>2, <3>1, <3>2
  <2> QED BY ONLY <2>6, <2>8, <2>9
<1> QED BY ONLY <1>3, <1>4

\* A statement a driver can send: a text of any length, with no more names than
\* the server has descriptors for; the names of its outputs, each once, come
\* behind those of its other placeholders, and a RETURNING clause has outputs.
Drivable(sql) ==
  /\ sql \in Seq(Byte) /\ sql # <<>> /\ Len(sql) \in FourBytes
  /\ Len(Names(sql)) <= MaxDescriptors
  /\ Len(Names(sql)) = Len(Names(BareSql(sql))) + Outputs(sql)
  /\ \A i \in 1..Len(Names(BareSql(sql))) : Names(sql)[i] = Names(BareSql(sql))[i]
  /\ Outputs(sql) = 0 => BareSql(sql) = sql
  /\ Placed(BareSql(sql))

\* What a value means to a database.
MeantOn(style, value) ==
  CASE value.t = "text" /\ value.v = <<>> -> [t |-> "null", v |-> Null]
    [] value.t = "time" /\ style = "mariadb" -> [value EXCEPT !.v.offset = <<>>]
    [] OTHER -> value

\* A value is decoded to what it means, and refused when no database has it.
Honest(value, style) ==
  LET got == Parameter(style, DecodeBind(value.type, value.wire))
  IN  /\ got.t = "refused" <=> value.means.t = "refused"
      /\ got.t # "refused" => SameValue(Taken(got), MeantOn(style, value.means))

\* The values a client sends for a row, and the row a database gets for them.
SentOf(row, outs) == SubSeq(row, 1, Len(row) - outs)

BoundOf(sql, row, outs, style) == BindParameters(BareSql(sql), Decoded(SentOf(row, outs)), style)

\* The value the client gave a token of its statement.
GivenTo(sql, row, token) == row[CHOOSE i \in DOMAIN Names(sql) : Names(sql)[i] = Upcase(token)].means

\* A row of a statement with as many values as it has names.
Fills(row, sql) == Len(row) = Len(Names(sql)) /\ DOMAIN row = 1..Len(Names(sql))

\* A row of the client is bound unless the database refuses one of its values,
\* and then every placeholder has the value its name was given.
LEMMA RowIsBound ==
  ASSUME NEW sql, Drivable(sql), NEW style \in {"postgres", "mariadb"}, NEW row, Fills(row, sql),
         \A i \in 1..Len(row) : Honest(row[i], style),
         NEW bound, bound = BoundOf(sql, row, Outputs(sql), style),
         NEW tokens, tokens = Occurrences(BareSql(sql))
  PROVE  /\ bound.r = "ok" <=> \A k \in 1..(Len(row) - Outputs(sql)) : row[k].means.t # "refused"
         /\ bound.r = "ok" => \A k \in DOMAIN tokens :
              SameValue(Taken(bound.v.values[bound.v.places[k]]), MeantOn(style, GivenTo(sql, row, tokens[k])))
<1>1. PICK bare, outs, names, all : bare = BareSql(sql) /\ outs = Outputs(sql) /\ names = Names(bare) /\ all = Names(sql)
  OBVIOUS
<1>2. bare \in Seq(Byte) /\ outs \in Nat /\ Len(bare) \in Nat
  <2>1. bare \in Seq(Byte) /\ outs \in Nat
    BY <1>1, PartsOfReturning DEF Drivable
  <2> QED BY ONLY <2>1
<1>3. Len(all) = Len(names) + outs /\ (\A i \in 1..Len(names) : all[i] = names[i]) /\ Placed(bare)
  BY <1>1 DEF Drivable
<1>4. /\ all \in Seq(Int) /\ Len(all) \in Nat /\ DOMAIN all = 1..Len(all)
      /\ \A i, j \in 1..Len(all) : all[i] = all[j] => i = j
  <2>1. Len(sql) \in Nat
    BY DEF Drivable
  <2> QED BY <1>1, <2>1, NamesAre
<1>5. Len(names) \in Nat /\ tokens \in Seq(Placeholders)
  BY <1>1, <1>2, NamesAre
<1>6. Len(row) = Len(all) /\ DOMAIN row = 1..Len(all)
  BY <1>1 DEF Fills
<1>7. PICK binds : binds = Decoded(SentOf(row, outs))
  OBVIOUS
<1>8. DOMAIN binds = 1..Len(names) /\ \A j \in 1..Len(names) : binds[j] = DecodeBind(row[j].type, row[j].wire)
  <2>1. PICK held, n : held = SentOf(row, outs) /\ n = Len(names)
    OBVIOUS
  <2>3. n \in Nat /\ Len(row) - outs = n
    BY ONLY <1>2, <1>3, <1>5, <1>6, <2>1
  <2>4. held = [i \in 1..n |-> row[i]]
    <3>1. SubSeq(row, 1, n) = [i \in 1..n |-> row[i]]
      BY ONLY <2>3, SMT
    <3> QED BY ONLY <2>1, <2>3, <3>1 DEF SentOf
  <2>5. Len(held) = n /\ \A i \in 1..n : held[i] = row[i]
    BY ONLY <2>3, <2>4
  <2> QED BY ONLY <1>7, <2>1, <2>5 DEF Decoded
<1>9. bound = BindParameters(bare, binds, style)
  BY <1>1, <1>7 DEF BoundOf
<1>10. bound.r = "ok" <=> \A j \in 1..Len(names) : Parameter(style, binds[j]).t # "refused"
  BY ONLY <1>1, <1>2, <1>3, <1>8, <1>9, style \in {"postgres", "mariadb"}, BoundUnlessRefused, SMTT(60)
<1>11. ASSUME NEW j \in 1..Len(names)
       PROVE  /\ Parameter(style, binds[j]).t = "refused" <=> row[j].means.t = "refused"
              /\ Parameter(style, binds[j]).t # "refused" =>
                   SameValue(Taken(Parameter(style, binds[j])), MeantOn(style, row[j].means))
  <2>1. j \in 1..Len(row)
    BY ONLY <1>2, <1>3, <1>5, <1>6, <1>11
  <2>2. Honest(row[j], style)
    BY <2>1
  <2>3. binds[j] = DecodeBind(row[j].type, row[j].wire)
    BY ONLY <1>8, <1>11
  <2> QED BY ONLY <2>2, <2>3 DEF Honest
<1>12. Len(row) - outs = Len(names)
  BY ONLY <1>2, <1>3, <1>5, <1>6
<1>13. bound.r = "ok" <=> \A k \in 1..(Len(row) - outs) : row[k].means.t # "refused"
  BY ONLY <1>10, <1>11, <1>12
<1>14. ASSUME bound.r = "ok", NEW k \in DOMAIN tokens
       PROVE  SameValue(Taken(bound.v.values[bound.v.places[k]]), MeantOn(style, GivenTo(sql, row, tokens[k])))
  <2>1. PICK ix, x : ix = BindIndexes(bare) /\ x = ix[k]
    OBVIOUS
  <2>2. k \in 1..Len(tokens) /\ Len(tokens) \in Nat
    BY ONLY <1>5, <1>14
  <2>3. /\ ix \in Seq(Nat) /\ Len(ix) = Len(tokens)
        /\ x \in 1..Len(names) /\ names[x] = Upcase(tokens[k])
    <3>1. tokens = Occurrences(bare)
      BY <1>1
    <3> QED BY ONLY <1>1, <1>2, <1>3, <2>1, <2>2, <3>1, IndexIsItsName
  <2>4. bare[1] # PlSql
    <3>1. tokens # <<>>
      BY ONLY <2>2
    <3>2. tokens = Occurrences(bare)
      BY <1>1
    <3> QED BY ONLY <1>3, <3>1, <3>2 DEF Placed
  <2>5. bound.v.values[bound.v.places[k]] = Parameter(style, binds[x])
    <3>1. k \in 1..Len(BindIndexes(bare)) /\ BindIndexes(bare) \in Seq(Nat)
      BY ONLY <2>1, <2>2, <2>3
    <3> QED BY ONLY <1>9, <1>14, <2>1, <2>4, <3>1, style \in {"postgres", "mariadb"}, PlacesHoldTheirValues
  <2>6. SameValue(Taken(Parameter(style, binds[x])), MeantOn(style, row[x].means))
    <3>1. Parameter(style, binds[x]).t # "refused"
      BY ONLY <1>10, <1>14, <2>3
    <3> QED BY ONLY <1>11, <2>3, <3>1
  <2>7. GivenTo(sql, row, tokens[k]) = row[x].means
    <3>1. PICK c : c = CHOOSE i \in DOMAIN all : all[i] = Upcase(tokens[k])
      OBVIOUS
    <3>2. x \in DOMAIN all /\ all[x] = Upcase(tokens[k])
      <4>1. x \in 1..Len(all)
        BY ONLY <1>2, <1>3, <1>4, <1>5, <2>3
      <4>2. DOMAIN all = 1..Len(all)
        BY ONLY <1>4
      <4> QED BY ONLY <1>3, <2>3, <4>1, <4>2
    <3>3. c \in DOMAIN all /\ all[c] = Upcase(tokens[k])
      BY ONLY <3>1, <3>2
    <3>4. c = x
      BY ONLY <1>4, <3>2, <3>3
    <3> QED BY ONLY <1>1, <3>1, <3>4 DEF GivenTo
  <2> QED BY ONLY <2>5, <2>6, <2>7
<1> QED BY ONLY <1>1, <1>13, <1>14

\* None is neither a sequence nor one of the records it is told from.
NoneApart == DOMAIN None \notin {1..n : n \in Nat} \cup {{"func", "sql", "rows"}, {"sql", "types"}}

\* The values clients bind.
ClientValues == {BindValues[v] : v \in DOMAIN BindValues}

\* A value of a type other than the one that is a row's marker, which carries it.
Sendable(value) ==
  /\ value.type \in Byte /\ value.type # RowData
  /\ value.wire \in Seq(Byte) \cup {Null} /\ DecodeBind(value.type, value.wire).v # Refused

\* A request with rows for a statement, several of them only of a statement
\* with names and no outputs.
Fitting(request, sql) ==
  /\ request.rows \in Seq(Seq(ClientValues)) /\ Len(request.rows) \in 1..2
  /\ \A i \in 1..Len(request.rows) : request.rows[i] = request.rows[1]
  /\ Len(request.rows[1]) = Len(Names(sql))
  /\ Len(request.rows) # 1 => Outputs(sql) = 0 /\ Names(sql) # <<>>

\* The rows of parameters the server binds of a request it has read.
TakenRows(read) == IF read.rows = <<>> THEN <<read.binds>> ELSE read.rows

SentRows(request) == [i \in 1..Len(request.rows) |-> Decoded(SentOf(request.rows[i], request.outs))]

\* What is bound for a request: nothing if a value has to be refused, otherwise
\* at every placeholder of every row what the client gave its name.
BoundFor(request, sql, style, rows) ==
  /\ rows = None <=> ~Bindable(request)
  /\ rows # None =>
       /\ Len(rows) = Len(request.rows)
       /\ \A i \in DOMAIN request.rows : \A k \in DOMAIN Occurrences(BareSql(sql)) :
            SameValue(Taken(rows[i].values[rows[i].places[k]]),
                      MeantOn(style, GivenTo(sql, request.rows[i], Occurrences(BareSql(sql))[k])))

\* Each row of a fitting request has a value for each name.
LEMMA FittingRows ==
  ASSUME NEW sql, NEW request, Fitting(request, sql)
  PROVE  /\ DOMAIN request.rows = 1..Len(request.rows) /\ Len(request.rows) \in 1..2 /\ 1 \in 1..Len(request.rows)
         /\ Len(Names(sql)) \in Nat
         /\ \A i \in 1..Len(request.rows) :
              /\ request.rows[i] \in Seq(ClientValues) /\ Fills(request.rows[i], sql)
              /\ \A k \in 1..Len(request.rows[i]) : request.rows[i][k] \in ClientValues
<1>1. PICK rows, n : rows = request.rows /\ n = Len(Names(sql))
  OBVIOUS
<1>2. /\ rows \in Seq(Seq(ClientValues)) /\ Len(rows) \in 1..2
      /\ (\A i \in 1..Len(rows) : rows[i] = rows[1]) /\ Len(rows[1]) = n
  BY <1>1 DEF Fitting
<1>3. DOMAIN rows = 1..Len(rows) /\ 1 \in 1..Len(rows)
  BY ONLY <1>2
<1>4. \A i \in 1..Len(rows) : rows[i] \in Seq(ClientValues)
  BY ONLY <1>2, ElementOfSeq
<1>5. \A i \in 1..Len(rows) : Len(rows[i]) = n
  BY ONLY <1>2
<1>6. n \in Nat
  BY ONLY <1>2, <1>3, <1>4
<1>7. ASSUME NEW i \in 1..Len(rows)
      PROVE  Fills(rows[i], sql) /\ \A k \in 1..Len(rows[i]) : rows[i][k] \in ClientValues
  <2>1. PICK row : row = rows[i]
    OBVIOUS
  <2>2. row \in Seq(ClientValues) /\ Len(row) = n
    BY ONLY <1>4, <1>5, <1>7, <2>1
  <2>3. DOMAIN row = 1..n /\ \A k \in 1..Len(row) : row[k] \in ClientValues
    BY ONLY <2>2, ElementOfSeq
  <2> QED BY ONLY <1>1, <2>1, <2>2, <2>3 DEF Fills
<1> QED BY ONLY <1>1, <1>2, <1>3, <1>4, <1>6, <1>7

\* The rows of a request are bound, or none of them is.
LEMMA RowsAreBound ==
  ASSUME NoneApart, NEW sql, Drivable(sql), backend \in {"postgres", "mariadb"},
         \A v \in ClientValues : Honest(v, backend),
         NEW request, Fitting(request, sql), request.outs = Outputs(sql),
         NEW read, TakenRows(read) = SentRows(request),
         NEW rows, rows = BoundRows(read, BareSql(sql))
  PROVE  BoundFor(request, sql, backend, rows)
<1>1. PICK n, outs, bare : n = Len(request.rows) /\ outs = Outputs(sql) /\ bare = BareSql(sql)
  OBVIOUS
<1>2. /\ DOMAIN request.rows = 1..n /\ n \in Nat
      /\ \A i \in 1..n : /\ Fills(request.rows[i], sql)
                         /\ \A k \in 1..Len(request.rows[i]) : request.rows[i][k] \in ClientValues
  <2>1. n \in 1..2 => n \in Nat
    OBVIOUS
  <2> QED BY <1>1, <2>1, FittingRows
<1>3. PICK bound : bound = [i \in 1..n |-> BoundOf(sql, request.rows[i], outs, backend)]
  OBVIOUS
<1>4. rows = IF \E i \in 1..n : bound[i].r # "ok" THEN None ELSE [i \in 1..n |-> bound[i].v]
  <2>1. PICK taken : taken = TakenRows(read)
    OBVIOUS
  <2>2. taken = [i \in 1..n |-> Decoded(SentOf(request.rows[i], outs))]
    BY <1>1, <2>1 DEF SentRows
  <2>3. DOMAIN taken = 1..n /\ \A i \in 1..n : taken[i] = Decoded(SentOf(request.rows[i], outs))
    BY ONLY <2>2
  <2>4. bound = [i \in DOMAIN taken |-> BindParameters(bare, taken[i], backend)]
    BY ONLY <1>1, <1>3, <2>3 DEF BoundOf
  <2>5. DOMAIN bound = 1..n
    BY ONLY <1>3
  <2>6. rows = IF \E i \in DOMAIN bound : bound[i].r # "ok" THEN None ELSE [i \in DOMAIN bound |-> bound[i].v]
    BY <1>1, <2>1, <2>4 DEF BoundRows, TakenRows
  <2> QED BY ONLY <2>5, <2>6
<1>5. ASSUME NEW i \in 1..n
      PROVE  /\ bound[i].r = "ok" <=> \A k \in 1..(Len(request.rows[i]) - outs) : request.rows[i][k].means.t # "refused"
             /\ bound[i].r = "ok" => \A k \in DOMAIN Occurrences(bare) :
                  SameValue(Taken(bound[i].v.values[bound[i].v.places[k]]),
                            MeantOn(backend, GivenTo(sql, request.rows[i], Occurrences(bare)[k])))
  <2>1. PICK row, one : row = request.rows[i] /\ one = bound[i]
    OBVIOUS
  <2>2. Fills(row, sql) /\ \A k \in 1..Len(row) : Honest(row[k], backend)
    BY <1>2, <1>5, <2>1
  <2>3. one = BoundOf(sql, row, Outputs(sql), backend)
    BY ONLY <1>1, <1>3, <1>5, <2>1
  <2>4. Drivable(sql) /\ backend \in {"postgres", "mariadb"}
    OBVIOUS
  <2> QED BY ONLY <1>1, <2>1, <2>2, <2>3, <2>4, RowIsBound, SMTT(60)
<1>6. rows # None <=> \A i \in 1..n : bound[i].r = "ok"
  <2>1. PICK f : f = [i \in 1..n |-> bound[i].v]
    OBVIOUS
  <2>2. DOMAIN f = 1..n
    BY ONLY <2>1
  <2>3. f # None
    BY ONLY <1>2, <2>2, NoneApart DEF NoneApart
  <2> QED BY ONLY <1>4, <2>1, <2>3
<1>7. Bindable(request) <=> \A i \in 1..n : bound[i].r = "ok"
  <2>1. Bindable(request) <=> \A i \in 1..n : \A k \in 1..(Len(request.rows[i]) - outs) : request.rows[i][k].means.t # "refused"
    BY <1>1, <1>2 DEF Bindable
  <2> QED BY ONLY <1>5, <2>1
<1>8. ASSUME rows # None
      PROVE  /\ Len(rows) = n
             /\ \A i \in 1..n : \A k \in DOMAIN Occurrences(bare) :
                  SameValue(Taken(rows[i].values[rows[i].places[k]]),
                            MeantOn(backend, GivenTo(sql, request.rows[i], Occurrences(bare)[k])))
  <2>1. \A i \in 1..n : bound[i].r = "ok"
    BY ONLY <1>6, <1>8
  <2>2. rows = [i \in 1..n |-> bound[i].v]
    BY ONLY <1>4, <2>1
  <2>3. Len(rows) = n /\ \A i \in 1..n : rows[i] = bound[i].v
    BY ONLY <1>2, <2>2
  <2> QED BY ONLY <1>5, <2>1, <2>3
<1> QED BY ONLY <1>1, <1>2, <1>6, <1>7, <1>8 DEF BoundFor

\* The part of a row that is sent is a row the server can read.
LEMMA SentIsCarried ==
  ASSUME NEW row \in Seq(ClientValues), \A v \in ClientValues : Sendable(v),
         NEW outs \in 0..Len(row), NEW n, n = Len(row) - outs, NEW held, held = SentOf(row, outs)
  PROVE  /\ held \in Seq(ClientValues) /\ Len(held) = n /\ Carried(held)
         /\ Types(held) = SubSeq(Types(row), 1, Len(row) - outs)
         /\ Types(row) \in Seq(Byte) /\ Len(Types(row)) = Len(row)
         /\ \A i \in 1..Len(row) : Types(row)[i] # RowData
<1>1. /\ Len(row) \in Nat /\ n \in 0..Len(row) /\ DOMAIN row = 1..Len(row)
      /\ \A i \in 1..Len(row) : row[i] \in ClientValues
  <2>1. Len(row) \in Nat /\ DOMAIN row = 1..Len(row)
    OBVIOUS
  <2>2. n \in 0..Len(row)
    BY ONLY <2>1, outs \in 0..Len(row), n = Len(row) - outs
  <2>3. \A i \in 1..Len(row) : row[i] \in ClientValues
    BY ElementOfSeq
  <2> QED BY ONLY <2>1, <2>2, <2>3
<1>2. held = [i \in 1..n |-> row[i]]
  <2>1. SubSeq(row, 1, n) = [i \in 1..n |-> row[i]]
    BY ONLY <1>1, SMT
  <2> QED BY ONLY <2>1, held = SentOf(row, outs), n = Len(row) - outs DEF SentOf
<1>3. /\ held \in Seq(ClientValues) /\ Len(held) = n /\ DOMAIN held = 1..n
      /\ \A i \in 1..n : i \in 1..Len(row) /\ held[i] = row[i]
  <2>1. \A i \in 1..n : i \in 1..Len(row) /\ row[i] \in ClientValues
    BY ONLY <1>1
  <2> QED BY ONLY <1>1, <1>2, <2>1
<1>4. \A i \in 1..Len(row) : Sendable(row[i])
  BY <1>1
<1>5. Carried(held)
  BY ONLY <1>1, <1>3, <1>4 DEF Carried, Sendable
<1>6. PICK types : types = Types(row)
  OBVIOUS
<1>7. types = [i \in 1..Len(row) |-> row[i].type]
  BY ONLY <1>1, <1>6 DEF Types
<1>8. types \in Seq(Byte) /\ Len(types) = Len(row) /\ \A i \in 1..Len(row) : types[i] # RowData /\ types[i] = row[i].type
  BY ONLY <1>1, <1>4, <1>7 DEF Sendable
<1>9. Types(held) = SubSeq(types, 1, n)
  <2>1. Types(held) = [i \in 1..n |-> held[i].type]
    BY ONLY <1>3 DEF Types
  <2>2. SubSeq(types, 1, n) = [i \in 1..n |-> types[i]]
    BY ONLY <1>1, <1>8, SMT
  <2>3. \A i \in 1..n : held[i].type = types[i]
    BY ONLY <1>3, <1>8
  <2> QED BY ONLY <2>1, <2>2, <2>3
<1>10. Types(held) = SubSeq(Types(row), 1, Len(row) - outs)
  BY ONLY <1>6, <1>9, n = Len(row) - outs
<1> QED BY ONLY <1>3, <1>5, <1>6, <1>8, <1>10

\* A fitting request of a drivable statement is one a driver can execute.
LEMMA FittingIsExecutable ==
  ASSUME NEW sql, Drivable(sql), \A v \in ClientValues : Sendable(v),
         NEW request, Fitting(request, sql), request.sql = sql, request.outs = Outputs(sql),
         request.seq \in Byte, request.size \in FourBytes
  PROVE  Executable(request, ClientValues)
<1>1. PICK rows, row, outs, n : rows = request.rows /\ row = rows[1] /\ outs = Outputs(sql) /\ n = Len(Names(sql))
  OBVIOUS
<1>2. /\ DOMAIN rows = 1..Len(rows) /\ Len(rows) \in 1..2 /\ 1 \in 1..Len(rows) /\ n \in Nat
      /\ \A i \in 1..Len(rows) : rows[i] \in Seq(ClientValues) /\ Fills(rows[i], sql)
  BY <1>1, FittingRows
<1>3. rows \in Seq(Seq(ClientValues)) /\ rows # <<>> /\ \A i \in 1..Len(rows) : rows[i] = row
  <2>1. rows \in Seq(Seq(ClientValues)) /\ \A i \in 1..Len(rows) : rows[i] = row
    BY <1>1 DEF Fitting
  <2> QED BY ONLY <1>2, <2>1
<1>4. row \in Seq(ClientValues) /\ Len(row) = n
  BY ONLY <1>1, <1>2 DEF Fills
<1>5. outs \in 0..Len(row) /\ Len(row) <= 1024
  <2>1. outs \in Nat /\ BareSql(sql) \in Seq(Byte)
    BY <1>1, PartsOfReturning DEF Drivable
  <2>2. n = Len(Names(BareSql(sql))) + outs /\ n <= 1024
    BY <1>1 DEF Drivable, MaxDescriptors
  <2>3. Len(Names(BareSql(sql))) \in Nat
    BY ONLY <2>1, NamesAre
  <2> QED BY ONLY <1>4, <2>1, <2>2, <2>3
<1>6. PICK held : held = SentOf(row, outs)
  OBVIOUS
<1>7. /\ Carried(held) /\ Types(held) = SubSeq(Types(row), 1, Len(row) - outs) /\ Types(row) \in Seq(Byte)
      /\ Len(Types(row)) = Len(row) /\ \A i \in 1..Len(row) : Types(row)[i] # RowData
  <2>1. \A v \in ClientValues : Sendable(v)
    OBVIOUS
  <2>2. row \in Seq(ClientValues)
    BY ONLY <1>4
  <2>3. outs \in 0..Len(row)
    BY ONLY <1>5
  <2>4. /\ Carried(held) /\ Types(held) = SubSeq(Types(row), 1, Len(row) - outs) /\ Types(row) \in Seq(Byte)
        /\ Len(Types(row)) = Len(row) /\ \A i \in 1..Len(row) : Types(row)[i] # RowData
    BY ONLY <1>6, <2>1, <2>2, <2>3, SentIsCarried
  <2> QED BY ONLY <2>4
<1>8. Sent(request)
  <2>1. \A k \in Nat : k <= 1024 => k \in FourBytes
    BY SMT DEF FourBytes
  <2>2. Len(rows) \in FourBytes /\ Len(row) \in FourBytes
    <3>1. Len(rows) \in Nat /\ Len(rows) <= 1024 /\ Len(row) \in Nat
      BY ONLY <1>2, <1>4
    <3> QED BY ONLY <1>5, <2>1, <3>1
  <2>3. sql \in Seq(Byte) /\ sql # <<>> /\ Len(sql) \in FourBytes
    BY DEF Drivable
  <2> QED BY <1>1, <2>2, <2>3 DEF Sent
<1>9. outs # 0 => Len(rows) = 1
  BY <1>1 DEF Fitting
<1>10. AlikeRows(HeldRows(request), HeldTypes(request), Len(rows))
  <2>1. \A i \in 1..Len(rows) : HeldRows(request)[i] = held
    <3>1. HeldRows(request) = [i \in 1..Len(rows) |-> SentOf(rows[i], outs)]
      BY <1>1 DEF HeldRows, SentOf
    <3> QED BY ONLY <1>3, <1>6, <3>1
  <2>2. HeldTypes(request) = SubSeq(Types(row), 1, Len(row) - outs)
    BY <1>1 DEF HeldTypes
  <2>3. Len(rows) \in Nat \ {0}
    BY ONLY <1>2
  <2> QED BY ONLY <1>7, <2>1, <2>2, <2>3 DEF AlikeRows
<1>11. ~(Len(row) > MaxDescriptors)
  BY ONLY <1>4, <1>5 DEF MaxDescriptors
<1> QED BY <1>1, <1>3, <1>5, <1>7, <1>8, <1>9, <1>10, <1>11 DEF Executable

\* The rows the server takes from an Execute are those the client sent; so for
\* an Execute without a value, which is run once.
LEMMA TakenFromExecute ==
  ASSUME NEW sql, Drivable(sql), NEW request, Fitting(request, sql), request.outs = Outputs(sql)
  PROVE  TakenRows(Intended(request).v) = SentRows(request)
<1>1. PICK rows, row, outs, n : rows = request.rows /\ row = rows[1] /\ outs = Outputs(sql) /\ n = Len(rows)
  OBVIOUS
<1>2. /\ n \in 1..2 /\ Fills(row, sql) /\ Len(row) \in Nat /\ row \in Seq(ClientValues)
      /\ (n # 1 => outs = 0 /\ Names(sql) # <<>>)
  <2>1. n \in 1..2 /\ row \in Seq(ClientValues) /\ Fills(row, sql)
    BY <1>1, FittingRows
  <2>2. n # 1 => outs = 0 /\ Names(sql) # <<>>
    BY <1>1 DEF Fitting
  <2>3. Len(row) \in Nat
    BY ONLY <2>1
  <2> QED BY ONLY <2>1, <2>2, <2>3
<1>3. PICK sent_ : sent_ = [i \in 1..n |-> Decoded(SentOf(rows[i], outs))]
  OBVIOUS
<1>4. SentRows(request) = sent_
  BY <1>1, <1>3 DEF SentRows
<1>5. PICK given, read : given = Given(request) /\ read = Intended(request).v
  OBVIOUS
<1>6. read.binds = (IF given = <<>> THEN <<>> ELSE given[1]) /\ read.rows = (IF n > 1 THEN given ELSE <<>>)
  BY <1>1, <1>5 DEF Intended, Request, Got
<1>7. CASE outs = Len(row)
  <2>1. given = <<>>
    BY <1>1, <1>5, <1>7 DEF Given
  <2>2. n = 1
    <3>1. n # 1 => Len(row) = 0 /\ Len(row) = Len(Names(sql)) /\ Names(sql) # <<>>
      BY ONLY <1>2, <1>7 DEF Fills
    <3>2. Names(sql) \in Seq(Int)
      <4>1. Len(sql) \in Nat
        BY DEF Drivable
      <4> QED BY <4>1, NamesAre
    <3> QED BY ONLY <3>1, <3>2
  <2>3. TakenRows(read) = << <<>> >>
    BY ONLY <1>6, <2>1, <2>2 DEF TakenRows
  <2>4. Decoded(SentOf(row, outs)) = <<>>
    <3>1. SentOf(row, outs) = <<>>
      <4>1. Len(row) - outs = 0
        BY ONLY <1>2, <1>7
      <4>2. SubSeq(row, 1, 0) = <<>>
        BY ONLY <1>2
      <4> QED BY ONLY <4>1, <4>2 DEF SentOf
    <3>2. Len(<<>>) = 0 /\ 1..0 = {}
      OBVIOUS
    <3> QED BY ONLY <3>1, <3>2 DEF Decoded
  <2>5. sent_ = << <<>> >>
    BY ONLY <1>1, <1>3, <2>2, <2>4
  <2> QED BY ONLY <1>4, <1>5, <2>3, <2>5
<1>8. CASE outs # Len(row)
  <2>1. given = sent_
    <3>1. given = [i \in 1..n |-> Decoded(HeldRows(request)[i])]
      BY <1>1, <1>5, <1>8 DEF Given, DecodedRows
    <3>2. \A i \in 1..n : HeldRows(request)[i] = SentOf(rows[i], outs)
      BY <1>1 DEF HeldRows, SentOf
    <3> QED BY ONLY <1>3, <3>1, <3>2
  <2>2. DOMAIN sent_ = 1..n /\ 1 \in 1..n
    BY ONLY <1>2, <1>3
  <2>3. sent_ # <<>>
    <3>1. DOMAIN <<>> = {}
      OBVIOUS
    <3> QED BY ONLY <2>2, <3>1
  <2>4. CASE n > 1
    BY ONLY <1>4, <1>5, <1>6, <2>1, <2>3, <2>4 DEF TakenRows
  <2>5. CASE n = 1
    <3>1. TakenRows(read) = <<sent_[1]>>
      BY ONLY <1>6, <2>1, <2>3, <2>5 DEF TakenRows
    <3>2. sent_ = <<sent_[1]>>
      BY ONLY <1>3, <2>5
    <3> QED BY ONLY <1>4, <1>5, <3>1, <3>2
  <2> QED BY ONLY <1>2, <2>4, <2>5
<1> QED BY ONLY <1>7, <1>8

\* A thin driver with large packets, as every one is that negotiates them.
Thin(driver) == driver.kind # "jdbc" /\ driver.oci = FALSE /\ driver.large = TRUE

\* What the server takes out of a stream: the message in its only packet.
Arrives(stream, message) ==
  LargePacket(stream).rest = <<>> /\ Message(LargePacket(stream).payload) = message

\* A stream no longer than a packet whose first two bytes are no legacy length.
OnePacket(stream) == Len(stream) < 524288

\* Deferred closes no byte of which begins a message, in front of one.
QuietCloses(ids) ==
  \/ ids = <<>>
  \/ /\ ids \in Seq(FourBytes) /\ ids # <<>> /\ Len(ids) \in FourBytes
     /\ Quiet(Piggybacks(ids) \o <<Function>>, 4, Len(Piggybacks(ids)))

\* Either header is eight bytes.
LEMMA HeadersAreBytes ==
  ASSUME NEW n \in Nat
  PROVE  /\ LargeHeader(n) \in Seq(Byte) /\ Len(LargeHeader(n)) = 8
         /\ SmallHeader(n) \in Seq(Byte) /\ Len(SmallHeader(n)) = 8
<1>1. PICK m : m = 8 + n /\ m \in Nat
  OBVIOUS
<1>2. PICK two, four, none, size : two = Be(m, 2) /\ four = Be(m, 4) /\ none = <<0, 0>> /\ size = Joined(two, none)
  OBVIOUS
<1>3. two \in Seq(Byte) /\ Len(two) = 2 /\ four \in Seq(Byte) /\ Len(four) = 4
  <2>1. PICK a, b, c, e : /\ a = (((m \div 256) \div 256) \div 256) % 256 /\ b = ((m \div 256) \div 256) % 256
                          /\ c = (m \div 256) % 256 /\ e = m % 256
    OBVIOUS
  <2>2. a \in Byte /\ b \in Byte /\ c \in Byte /\ e \in Byte
    <3>1. \A k \in Nat : k \div 256 \in Nat /\ k % 256 \in Byte
      BY SMT DEF Byte
    <3> QED BY ONLY <1>1, <2>1, <3>1
  <2>3. two = <<c, e>> /\ four = <<a, b, c, e>>
    BY ONLY <1>1, <1>2, <2>1, BeOf
  <2> QED BY ONLY <2>2, <2>3
<1>4. none \in Seq(Byte) /\ Len(none) = 2
  <2>1. 0 \in Byte
    BY DEF Byte
  <2> QED BY ONLY <1>2, <2>1
<1>5. size \in Seq(Byte) /\ Len(size) = 4
  <2>1. size \in Seq(Byte) /\ Len(size) = Len(two) + Len(none)
    BY ONLY <1>2, <1>3, <1>4, JoinedBytes
  <2> QED BY ONLY <1>3, <1>4, <2>1
<1>6. PICK large, small : large = Joined(four, <<6, 0, 0, 0>>) /\ small = Joined(size, <<6, 0, 0, 0>>)
  OBVIOUS
<1>7. large \in Seq(Byte) /\ Len(large) = 8
  BY ONLY <1>3, <1>6, HeaderParts
<1>8. small \in Seq(Byte) /\ Len(small) = 8
  BY ONLY <1>5, <1>6, HeaderParts
<1>9. LargeHeader(n) = large /\ SmallHeader(n) = small
  BY ONLY <1>1, <1>2, <1>6 DEF LargeHeader, SmallHeader, PacketHeader, Joined
<1> QED BY ONLY <1>7, <1>8, <1>9

\* A packet is eight bytes longer than what it carries.
LEMMA HeaderIsEight ==
  ASSUME NEW d \in Seq(Byte), NEW n \in Nat, NEW stream, stream = LargeHeader(n) \o d
  PROVE  stream \in Seq(Byte) /\ Len(stream) = 8 + Len(d) /\ Len(d) \in Nat
<1>1. PICK h : h = LargeHeader(n)
  OBVIOUS
<1>2. h \in Seq(Byte) /\ Len(h) = 8
  BY ONLY <1>1, n \in Nat, HeadersAreBytes
<1>3. stream = Joined(h, d)
  BY ONLY <1>1, stream = LargeHeader(n) \o d DEF Joined
<1>4. Joined(h, d) \in Seq(Byte) /\ Len(Joined(h, d)) = Len(h) + Len(d) /\ Len(d) \in Nat
  BY ONLY <1>2, d \in Seq(Byte), JoinedBytes
<1> QED BY ONLY <1>2, <1>3, <1>4

\* A packet with nothing behind it is taken whole, unless it is a Fetch.
LEMMA ComesAlone ==
  ASSUME NEW d \in Seq(Byte), ~IsFetch(d), NEW n, n = Len(d),
         NEW stream, stream = LargeHeader(n) \o d, OnePacket(stream)
  PROVE  LargePacket(stream).rest = <<>> /\ LargePacket(stream).payload = d
<1>1. stream \in Seq(Byte) /\ Len(stream) = 8 + Len(d) /\ n \in Nat
  <2>1. n \in Nat
    OBVIOUS
  <2> QED BY <2>1, HeaderIsEight
<1>2. FitsLarge(n)
  BY ONLY <1>1, n = Len(d), OnePacket(stream) DEF FitsLarge, OnePacket
<1>3. PICK rest \in Seq(Byte) : rest = <<>>
  <2>1. <<>> \in Seq(Byte)
    OBVIOUS
  <2> QED BY ONLY <2>1
<1>4. PICK got : got = LargePacket(LargeHeader(n) \o d \o rest)
  OBVIOUS
<1>5. Parted(got, d, rest)
  BY ONLY <1>2, <1>3, <1>4, d \in Seq(Byte), ~IsFetch(d), n = Len(d), PacketsReadBack
<1>6. LargeHeader(n) \o d \o rest = stream
  <2>1. stream \o <<>> = stream
    BY ONLY <1>1
  <2> QED BY ONLY <1>3, <2>1, stream = LargeHeader(n) \o d
<1> QED BY ONLY <1>3, <1>4, <1>5, <1>6 DEF Parted

\* Closes that are quiet alone are so where they travel.
LEMMA ClosesStayQuiet ==
  ASSUME NEW ids, NEW body, NEW d, Travels(d, ids, body), NEW m, m = Len(Piggybacks(ids)),
         Quiet(Piggybacks(ids) \o <<Function>>, 4, m)
  PROVE  Quiet(d, 6, 2 + m)
<1>1. PICK pre, one, both : pre = Piggybacks(ids) /\ one = <<Function>> /\ both = Joined(pre, one)
  OBVIOUS
<1>2. Laid(d, pre, body, m)
  <2>1. Travels(d, ids, body) /\ m = Len(pre)
    BY <1>1
  <2> QED BY ONLY <1>1, <2>1, TravelsThere
<1>3. /\ Len(body) \in Nat /\ m \in Nat /\ pre \in Seq(Byte)
      /\ (\A i \in 1..m : d[2 + i] = pre[i]) /\ (\A i \in 1..Len(body) : d[2 + m + i] = body[i])
  BY ONLY <1>2 DEF Laid
<1>4. Len(body) >= 2 /\ body[1] = Function
  BY DEF Travels
<1>5. one \in Seq(Byte) /\ Len(one) = 1 /\ one[1] = Function
  <2>1. Function \in Byte
    BY DEF Function, Byte
  <2> QED BY ONLY <1>1, <2>1
<1>6. /\ \A i \in 1..m : both[i] = pre[i]
      /\ both[m + 1] = Function
  <2>1. /\ \A i \in 1..Len(pre) : both[i] = pre[i]
        /\ \A i \in 1..Len(one) : both[Len(pre) + i] = one[i]
    <3>1. both = Joined(pre, one) /\ pre \in Seq(Byte) /\ one \in Seq(Byte)
      BY ONLY <1>1, <1>3, <1>5
    <3>2. \A i \in 1..Len(pre) : Joined(pre, one)[i] = pre[i]
      BY ONLY <3>1, JoinedPlaces
    <3>3. \A i \in 1..Len(one) : Joined(pre, one)[Len(pre) + i] = one[i]
      BY ONLY <3>1, JoinedPlaces
    <3> QED BY ONLY <3>1, <3>2, <3>3
  <2>2. m = Len(pre) /\ 1 \in 1..Len(one)
    BY <1>1, <1>5
  <2> QED BY ONLY <1>5, <2>1, <2>2
<1>7. \A j \in 1..(m + 1) : d[2 + j] = both[j]
  <2>1. d[2 + (m + 1)] = Function
    <3>1. 1 \in 1..Len(body) /\ 2 + m + 1 = 2 + (m + 1)
      BY ONLY <1>3, <1>4
    <3> QED BY ONLY <1>3, <1>4, <3>1
  <2>2. \A j \in 1..(m + 1) : j \in 1..m \/ j = m + 1
    BY ONLY <1>3
  <2> QED BY ONLY <1>3, <1>6, <2>1, <2>2
<1>8. Quiet(both, 4, m)
  BY <1>1 DEF Joined
<1>9. ASSUME NEW i \in 6..(2 + m)
      PROVE  d[i] # Piggyback /\ ~(d[i] = Function /\ d[i + 1] \in KnownFunctions)
  <2>1. PICK j : j = i - 2
    OBVIOUS
  <2>2. j \in 4..m /\ j \in 1..(m + 1) /\ j + 1 \in 1..(m + 1) /\ 2 + j = i /\ 2 + (j + 1) = i + 1
    BY ONLY <1>3, <1>9, <2>1
  <2>3. d[i] = both[j] /\ d[i + 1] = both[j + 1]
    BY ONLY <1>7, <2>2
  <2> QED BY ONLY <1>8, <2>2, <2>3 DEF Quiet
<1> QED BY ONLY <1>9 DEF Quiet

\* An Execute is in its payload, behind its closes.
LEMMA ExecuteIsCarried ==
  ASSUME NEW Value, NEW driver, Thin(driver), NEW request, Executable(request, Value), QuietCloses(request.closes),
         NEW d, d = <<0, 0>> \o Piggybacks(request.closes) \o ThinExecute(driver, request),
         NEW message, message = <<0, 0>> \o ThinExecute(driver, request)
  PROVE  d \in Seq(Byte) /\ ~IsFetch(d) /\ Message(d) = message /\ message[4] = Execute
<1>1. PICK body, ids : body = ThinExecute(driver, request) /\ ids = request.closes
  OBVIOUS
<1>2. /\ message \in Seq(Byte) /\ body \in Seq(Byte) /\ Len(message) >= 5
      /\ Message(message) = message /\ message[3] = Function /\ message[4] = Execute
  BY <1>1, ExecuteIsItsMessage DEF Thin
<1>3. CASE ids = <<>>
  <2>1. Piggybacks(ids) = <<>>
    BY ONLY <1>3 DEF Piggybacks
  <2>2. <<0, 0>> \o <<>> = <<0, 0>>
    OBVIOUS
  <2>3. d = message
    BY <1>1, <2>1, <2>2
  <2>4. ~IsFetch(d)
    BY ONLY <1>2, <2>3 DEF IsFetch, Execute, FetchRows
  <2> QED BY ONLY <1>2, <2>3, <2>4
<1>4. CASE ids # <<>>
  <2>1. PICK m : m = Len(Piggybacks(ids))
    OBVIOUS
  <2>2. /\ ids \in Seq(FourBytes) /\ ids # <<>> /\ Len(ids) \in FourBytes
        /\ Quiet(Piggybacks(ids) \o <<Function>>, 4, m)
    BY <1>1, <1>4, <2>1 DEF QuietCloses
  <2>3. Len(body) >= 2 /\ body[1] = Function /\ body[2] \in KnownFunctions
    <3>1. PICK z2 : z2 = <<0, 0>>
      OBVIOUS
    <3>2. z2 \in Seq(Byte) /\ Len(z2) = 2
      <4>1. 0 \in Byte
        BY DEF Byte
      <4> QED BY ONLY <3>1, <4>1
    <3>3. message = Joined(z2, body)
      BY <1>1, <3>1 DEF Joined
    <3>4. \A i \in 1..Len(body) : message[2 + i] = body[i]
      <4>1. body \in Seq(Byte)
        BY ONLY <1>2
      <4>2. \A i \in 1..Len(body) : Joined(z2, body)[Len(z2) + i] = body[i]
        BY ONLY <3>2, <4>1, JoinedPlaces
      <4> QED BY ONLY <3>2, <3>3, <4>2
    <3>5. Len(body) >= 2
      <4>1. Len(Joined(z2, body)) = Len(z2) + Len(body) /\ Len(body) \in Nat
        BY ONLY <1>2, <3>2, JoinedBytes
      <4> QED BY ONLY <1>2, <3>2, <3>3, <4>1
    <3>6. 1 \in 1..Len(body) /\ 2 \in 1..Len(body) /\ 2 + 1 = 3 /\ 2 + 2 = 4
      BY ONLY <1>2, <3>5
    <3>7. body[1] = Function /\ body[2] = Execute
      BY ONLY <1>2, <3>4, <3>6
    <3> QED BY ONLY <3>5, <3>7 DEF KnownFunctions, Execute
  <2>4. Travels(d, ids, body)
    BY <1>1, <1>2, <2>2, <2>3 DEF Travels
  <2>5. Quiet(d, 6, 2 + m)
    BY ONLY <2>1, <2>2, <2>4, ClosesStayQuiet
  <2>6. Message(d) = <<0, 0>> \o body
    BY ONLY <2>1, <2>4, <2>5, RequestsFoundBehindCloses
  <2>7. PICK pre : pre = Piggybacks(ids)
    OBVIOUS
  <2>8. Laid(d, pre, body, m)
    BY ONLY <2>1, <2>4, <2>7, TravelsThere
  <2>9. d \in Seq(Byte) /\ d[3] = Piggyback
    BY ONLY <2>8 DEF Laid
  <2>10. ~IsFetch(d)
    BY ONLY <2>9 DEF IsFetch, Piggyback, Function
  <2> QED BY <1>1, <1>2, <2>6, <2>9, <2>10
<1> QED BY ONLY <1>3, <1>4

\* An Execute arrives: the message the server acts on is it, and runs as it was
\* meant.
LEMMA ExecuteComes ==
  ASSUME NEW Value, NEW driver, Thin(driver), NEW request, request.func = "execute", Executable(request, Value),
         QuietCloses(request.closes), NEW id,
         NEW stream, stream = Transmitted(driver, request, id), OnePacket(stream), NEW cached
  PROVE  \E message : /\ Arrives(stream, message) /\ message[4] = Execute
                      /\ ThinCall(message, cached) = Intended(request)
<1>1. PICK d : d = <<0, 0>> \o Piggybacks(request.closes) \o ThinExecute(driver, request)
  OBVIOUS
<1>2. PICK message : message = <<0, 0>> \o ThinExecute(driver, request)
  OBVIOUS
<1>3. d \in Seq(Byte) /\ ~IsFetch(d) /\ Message(d) = message /\ message[4] = Execute
  BY <1>1, <1>2, ExecuteIsCarried
<1>4. stream = LargeHeader(Len(d)) \o d
  <2>1. driver.large = TRUE /\ driver.oci = FALSE
    BY DEF Thin
  <2> QED BY <1>1, <2>1, ExecuteTravelsInOne, ZenonT(60)
<1>5. LargePacket(stream).rest = <<>> /\ LargePacket(stream).payload = d
  <2>1. PICK n : n = Len(d)
    OBVIOUS
  <2> QED BY <1>3, <1>4, <2>1, ComesAlone
<1>6. ThinCall(message, cached) = Intended(request)
  <2>1. ParseStrict(message) = Intended(request)
    BY <1>2, ExecutesReadBack DEF Thin
  <2>2. request.sql # <<>>
    BY DEF Executable, Sent
  <2> QED BY ONLY <1>3, <2>1, <2>2, ReadThenRun
<1> QED BY ONLY <1>3, <1>5, <1>6 DEF Arrives

\* A re-execute is a message.
LEMMA ReexecuteIsAMessage ==
  ASSUME NEW request, request.seq \in Byte, request.size \in FourBytes, NEW id \in FourBytes,
         NEW values, values = request.rows[1], Carried(values),
         NEW d, d = <<0, 0>> \o ThinReexecute(request, id)
  PROVE  d \in Seq(Byte) /\ d[3] = 3 /\ d[4] = Reexec
<1>1. PICK a, b, c, e, z : /\ a = <<0, 0>> /\ b = <<3, Reexec, request.seq>> /\ z = <<0, 0, 0>>
                           /\ c = WriteUb(id) /\ e = WriteUb(request.size)
  OBVIOUS
<1>2. PICK row : row = IF values = <<>> THEN <<>> ELSE RowOf(values)
  OBVIOUS
<1>3. /\ a \in Seq(Byte) /\ b \in Seq(Byte) /\ c \in Seq(Byte) /\ e \in Seq(Byte) /\ z \in Seq(Byte)
      /\ Len(a) = 2 /\ Len(b) = 3 /\ b[1] = 3 /\ b[2] = Reexec
  <2>1. 0 \in Byte /\ 3 \in Byte /\ Reexec \in Byte
    BY DEF Byte, Reexec
  <2>2. request.seq \in Byte
    OBVIOUS
  <2>3. a \in Seq(Byte) /\ b \in Seq(Byte) /\ z \in Seq(Byte) /\ Len(a) = 2 /\ Len(b) = 3 /\ b[1] = 3 /\ b[2] = Reexec
    BY ONLY <1>1, <2>1, <2>2
  <2> QED BY <1>1, <2>3, WriteUbBytes
<1>4. row \in Seq(Byte)
  <2>1. <<>> \in Seq(Byte)
    OBVIOUS
  <2> QED BY <1>2, <2>1, RowOfIsRead
<1>5. PICK w1, w2, w3, w4 : /\ w1 = Joined(b, c) /\ w2 = Joined(w1, e) /\ w3 = Joined(w2, z)
                            /\ w4 = Joined(w3, row)
  OBVIOUS
<1>6. d = Joined(a, w4)
  BY <1>1, <1>2, <1>5 DEF Joined, ThinReexecute
<1>7. ASSUME NEW v \in Seq(Byte), Len(v) >= 2, v[1] = 3, v[2] = Reexec, NEW w \in Seq(Byte)
      PROVE  Joined(v, w) \in Seq(Byte) /\ Len(Joined(v, w)) >= 2 /\ Joined(v, w)[1] = 3 /\ Joined(v, w)[2] = Reexec
  <2>1. Joined(v, w) \in Seq(Byte) /\ Len(Joined(v, w)) = Len(v) + Len(w) /\ Len(v) \in Nat /\ Len(w) \in Nat
    BY ONLY <1>7, JoinedBytes
  <2>2. \A i \in 1..Len(v) : Joined(v, w)[i] = v[i]
    BY ONLY <1>7, JoinedPlaces
  <2>3. 1 \in 1..Len(v) /\ 2 \in 1..Len(v)
    BY ONLY <1>7, <2>1
  <2> QED BY ONLY <1>7, <2>1, <2>2, <2>3
<1>8. w1 \in Seq(Byte) /\ Len(w1) >= 2 /\ w1[1] = 3 /\ w1[2] = Reexec
  BY ONLY <1>3, <1>5, <1>7, SMTT(60)
<1>9. w2 \in Seq(Byte) /\ Len(w2) >= 2 /\ w2[1] = 3 /\ w2[2] = Reexec
  BY ONLY <1>3, <1>5, <1>7, <1>8
<1>10. w3 \in Seq(Byte) /\ Len(w3) >= 2 /\ w3[1] = 3 /\ w3[2] = Reexec
  BY ONLY <1>3, <1>5, <1>7, <1>9
<1>11. w4 \in Seq(Byte) /\ Len(w4) >= 2 /\ w4[1] = 3 /\ w4[2] = Reexec
  BY ONLY <1>4, <1>5, <1>7, <1>10
<1>12. d \in Seq(Byte)
  BY ONLY <1>3, <1>6, <1>11, JoinedBytes
<1>13. d[3] = w4[1] /\ d[4] = w4[2]
  <2>1. \A i \in 1..Len(w4) : Joined(a, w4)[Len(a) + i] = w4[i]
    BY ONLY <1>3, <1>11, JoinedPlaces
  <2>2. 1 \in 1..Len(w4) /\ 2 \in 1..Len(w4) /\ Len(a) + 1 = 3 /\ Len(a) + 2 = 4
    BY ONLY <1>3, <1>11
  <2> QED BY ONLY <1>6, <2>1, <2>2
<1> QED BY ONLY <1>11, <1>12, <1>13

\* A re-execute arrives, and is taken for the statement the session keeps with
\* the values it brings.
LEMMA ReexecuteComes ==
  ASSUME NEW driver, Thin(driver), NEW request, request.func = "reexecute", request.closes = <<>>,
         request.seq \in Byte, request.size \in FourBytes, NEW id \in FourBytes,
         NEW values, values = request.rows[1], Carried(values),
         NEW stream, stream = Transmitted(driver, request, id), OnePacket(stream),
         NEW cached, cached # None, cached.types = Types(values)
  PROVE  \E message :
           /\ Arrives(stream, message) /\ message[4] = Reexec
           /\ ThinCall(message, cached) = Request(cached.sql, <<Decoded(values)>>, cached.types, request.size, 1)
<1>1. PICK d : d = <<0, 0>> \o ThinReexecute(request, id)
  OBVIOUS
<1>2. d \in Seq(Byte) /\ d[3] = 3 /\ d[4] = Reexec
  BY <1>1, ReexecuteIsAMessage
<1>3. ~IsFetch(d) /\ Message(d) = d
  <2>1. d[3] # Piggyback /\ d[4] # FetchRows
    BY ONLY <1>2 DEF Piggyback, Reexec, FetchRows
  <2> QED BY ONLY <2>1 DEF IsFetch, Message
<1>4. stream = LargeHeader(Len(d)) \o d
  <2>1. driver.large = TRUE /\ driver.oci = FALSE
    BY DEF Thin
  <2>2. PICK func : func = request.func /\ func = "reexecute"
    OBVIOUS
  <2>3. func # "execute" /\ func # "fetch"
    BY ONLY <2>2
  <2>4. Body(driver, request, id) = ThinReexecute(request, id)
    BY ONLY <2>1, <2>2, <2>3 DEF Body
  <2>5. Piggybacks(request.closes) = <<>>
    BY DEF Piggybacks
  <2>6. <<0, 0>> \o <<>> = <<0, 0>>
    OBVIOUS
  <2>7. <<0, 0>> \o Piggybacks(request.closes) \o Body(driver, request, id) = d
    BY ONLY <1>1, <2>4, <2>5, <2>6
  <2>8. Transmitted(driver, request, id) = PacketHeader(Len(d), driver.large) \o d
    BY ONLY <2>2, <2>3, <2>7 DEF Transmitted
  <2> QED BY <2>1, <2>8 DEF LargeHeader
<1>5. LargePacket(stream).rest = <<>> /\ LargePacket(stream).payload = d
  <2>1. PICK n, head : n = Len(d) /\ head = LargeHeader(n)
    OBVIOUS
  <2>2. d \in Seq(Byte) /\ ~IsFetch(d) /\ stream = LargeHeader(n) \o d /\ OnePacket(stream)
    BY <1>2, <1>3, <1>4, <2>1
  <2> QED BY ONLY <2>1, <2>2, ComesAlone
<1>6. ThinCall(d, cached) = ParseReexecute(d, cached)
  <2>1. d[4] # Execute
    BY ONLY <1>2 DEF Reexec, Execute
  <2>2. cached # None
    OBVIOUS
  <2> QED BY ONLY <2>1, <2>2 DEF ThinCall, ParseCall
<1>7. ParseReexecute(d, cached) = Request(cached.sql, <<Decoded(values)>>, cached.types, request.size, 1)
  BY <1>1, ReexecutesReadBack
<1> QED BY ONLY <1>2, <1>3, <1>5, <1>6, <1>7 DEF Arrives

\* A Fetch arrives, the one that is declared two bytes short, too.
LEMMA FetchComes ==
  ASSUME NEW driver, Thin(driver), NEW request, request.func = "fetch", request.closes = <<>>,
         request.seq \in Byte, request.size \in FourBytes, NEW id \in TwoBytes,
         NEW stream, stream = Transmitted(driver, request, id)
  PROVE  \E message : Arrives(stream, message) /\ message[4] = FetchRows
<1>1. PICK d, n : d = <<0, 0>> \o ThinFetch(request, id) /\ n = Len(d)
  OBVIOUS
<1>2. PICK a, b : a = Len(WriteUb(id)) /\ b = Len(WriteUb(request.size))
  OBVIOUS
<1>3. FetchForm(d, a, b)
  BY <1>1, <1>2, FetchHasItsForm
<1>4. d \in Seq(Byte) /\ Message(d) = d /\ d[4] = FetchRows
  <2>1. d \in Seq(Byte) /\ d[3] = 3 /\ d[4] = FetchRows
    BY ONLY <1>3 DEF FetchForm, FetchRows
  <2>2. d[3] # Piggyback
    BY ONLY <2>1 DEF Piggyback
  <2> QED BY ONLY <2>1, <2>2 DEF Message
<1>5. stream = LargeHeader(n) \o d \/ stream = SmallHeader(n - 2) \o d
  <2>1. driver.large = TRUE /\ driver.oci = FALSE
    BY DEF Thin
  <2>2. PICK func : func = request.func /\ func = "fetch"
    OBVIOUS
  <2>3. func # "execute" /\ func # "reexecute"
    BY ONLY <2>2
  <2>4. Body(driver, request, id) = ThinFetch(request, id)
    BY ONLY <2>1, <2>2, <2>3 DEF Body
  <2>5. Piggybacks(request.closes) = <<>>
    BY DEF Piggybacks
  <2>6. <<0, 0>> \o <<>> = <<0, 0>>
    OBVIOUS
  <2>7. <<0, 0>> \o Piggybacks(request.closes) \o Body(driver, request, id) = d
    BY ONLY <1>1, <2>4, <2>5, <2>6
  <2>8. Transmitted(driver, request, id) = IF driver.kind = "lenient" /\ request.func = "fetch"
                                           THEN PacketHeader(Len(d) - 2, FALSE) \o d
                                           ELSE PacketHeader(Len(d), driver.large) \o d
    BY ONLY <2>7 DEF Transmitted
  <2> QED BY <1>1, <2>1, <2>8 DEF LargeHeader, SmallHeader
<1>6. PICK rest \in Seq(Byte) : rest = <<>>
  <2>1. <<>> \in Seq(Byte)
    OBVIOUS
  <2> QED BY ONLY <2>1
<1>7. /\ Parted(LargePacket(SmallHeader(n - 2) \o d \o rest), d, rest)
      /\ Parted(LargePacket(LargeHeader(n) \o d \o rest), d, rest)
  <2>1. PICK whole, short : whole = n /\ short = n - 2
    OBVIOUS
  <2>2. whole \in {Len(d), Len(d) - 2} /\ short \in {Len(d), Len(d) - 2}
    BY ONLY <1>1, <2>1
  <2>3. Parted(LargePacket(SmallHeader(short) \o d \o rest), d, rest)
    BY <1>1, <1>6, <2>2, FetchPacketsReadBack
  <2>4. Parted(LargePacket(LargeHeader(whole) \o d \o rest), d, rest)
    BY <1>1, <1>6, <2>2, FetchPacketsReadBack
  <2> QED BY ONLY <2>1, <2>3, <2>4
<1>8. \A h \in Seq(Byte) : h \o d \o <<>> = h \o d
  BY ONLY <1>4
<1>9. LargeHeader(n) \in Seq(Byte) /\ SmallHeader(n - 2) \in Seq(Byte)
  <2>1. PICK short : short = n - 2
    OBVIOUS
  <2>2. n = 5 + a + b /\ a \in 1..5 /\ b \in 1..5
    BY ONLY <1>1, <1>3 DEF FetchForm
  <2>3. n \in Nat /\ short \in Nat
    BY ONLY <2>1, <2>2
  <2> QED BY ONLY <2>1, <2>3, HeadersAreBytes
<1>10. Parted(LargePacket(stream), d, <<>>)
  <2>1. LargeHeader(n) \o d \o rest = LargeHeader(n) \o d /\ SmallHeader(n - 2) \o d \o rest = SmallHeader(n - 2) \o d
    BY ONLY <1>6, <1>8, <1>9
  <2> QED BY ONLY <1>5, <1>6, <1>7, <2>1
<1> QED BY ONLY <1>4, <1>10 DEF Arrives, Parted

\* The input text of a statement is that without its outputs.
LEMMA InputIsBare ==
  ASSUME NEW sql, Drivable(sql), NEW request, request.sql = sql, request.outs = Outputs(sql)
  PROVE  InputSql(request) = BareSql(sql)
<1>1. CASE Outputs(sql) = 0
  <2>1. BareSql(sql) = sql
    BY <1>1 DEF Drivable
  <2> QED BY <1>1, <2>1 DEF InputSql
<1>2. CASE Outputs(sql) # 0
  <2>1. SplitReturningInto(sql) # None
    BY <1>2 DEF Outputs
  <2> QED BY <1>2, <2>1 DEF InputSql, BareSql
<1> QED BY <1>1, <1>2

-----------------------------------------------------------------------------
(* The session. *)

StatementNames == DOMAIN Queries \cup DOMAIN Changes

\* What a session of a thin driver is about: statements a driver can send, with
\* values that are decoded to what they mean, behind closes that are taken for
\* no message.
ThinWorld ==
  /\ NoneApart /\ Backends \subseteq {"postgres", "mariadb"}
  /\ None \notin StatementNames
  /\ \A name \in StatementNames : Drivable(Statement(name).sql)
  /\ \A name \in StatementNames :
       IsQuery(name) => Outputs(Statement(name).sql) = 0
  /\ \A name \in StatementNames :
       ~IsQuery(name) /\ Statement(name).array => Outputs(Statement(name).sql) = 0 /\ Names(Statement(name).sql) # <<>>
  /\ \A v \in ClientValues : Sendable(v) /\ \A style \in Backends : Honest(v, style)
  /\ Again \subseteq DOMAIN BindValues
  /\ \A ids \in Closes : QuietCloses(ids)
  /\ Sizes \subseteq FourBytes /\ CallNumbers \in 1..255

\* A request for the statement of that name.
CallFits(request, name) ==
  /\ request.func \in {"execute", "reexecute", "fetch"}
  /\ request.seq \in Byte /\ request.size \in FourBytes
  /\ Fitting(request, Statement(name).sql) /\ request.outs = Outputs(Statement(name).sql)
  /\ request.func # "fetch" => request.sql = Statement(name).sql
  /\ request.func = "execute" => QuietCloses(request.closes)
  /\ request.func # "execute" => request.closes = <<>>
  /\ request.func = "reexecute" => Len(request.rows) = 1 /\ request.outs = 0
  /\ request.func = "fetch" => Bindable(request)

Alone == stmt = None => turn = "client" /\ call = None /\ ~view.more

CallInv == stmt # None => CallFits(call, stmt)

\* Once its Execute has been answered the server keeps the statement of the
\* session, with the types of the row the client last sent.
LastInv ==
  stmt # None /\ ~(turn = "server" /\ call.func = "execute") =>
    last = [sql |-> Statement(stmt).sql, types |-> Types(call.rows[1])]

WireInv == turn = "server" => toServer = Transmitted(client, call, CursorId)

\* A client asks on only for a query the server has answered without an error.
ViewInv ==
  /\ DOMAIN view = {"cols", "rows", "more", "count", "code", "seq"}
  /\ view.more => IsQuery(stmt) /\ view.code = 0

ThinInv ==
  /\ Thin(client) /\ backend \in Backends /\ stmt \in StatementNames \cup {None}
  /\ Alone /\ CallInv /\ LastInv /\ WireInv /\ ViewInv /\ BoundAsSent

\* The values of a row.
LEMMA BoundIsARow ==
  ASSUME NEW n \in Nat, NEW row, DOMAIN row = 1..n, \A i \in 1..n : row[i] \in DOMAIN BindValues
  PROVE  Bound(row) \in Seq(ClientValues) /\ Len(Bound(row)) = n
<1>1. PICK held : held = Bound(row)
  OBVIOUS
<1>2. held = [i \in 1..n |-> BindValues[row[i]]]
  BY <1>1 DEF Bound
<1>3. \A i \in 1..n : BindValues[row[i]] \in ClientValues
  BY DEF ClientValues
<1>4. held \in Seq(ClientValues) /\ Len(held) = n
  BY ONLY <1>2, <1>3, n \in Nat
<1> QED BY ONLY <1>1, <1>4

\* One row fits a statement, and the same row twice one of several rows.
LEMMA RowsFit ==
  ASSUME NEW sql, NEW row \in Seq(ClientValues), Len(row) = Len(Names(sql)),
         NEW request, \/ request.rows = <<row>>
                      \/ request.rows = <<row, row>> /\ Outputs(sql) = 0 /\ Names(sql) # <<>>
  PROVE  Fitting(request, sql) /\ request.rows[1] = row
<1>1. PICK rows : rows = request.rows
  OBVIOUS
<1>2. CASE rows = <<row>>
  <2>1. rows \in Seq(Seq(ClientValues)) /\ Len(rows) = 1 /\ rows[1] = row
    BY ONLY <1>2, row \in Seq(ClientValues)
  <2>2. \A i \in 1..Len(rows) : rows[i] = rows[1]
    <3>1. \A i \in 1..1 : i = 1
      OBVIOUS
    <3> QED BY ONLY <2>1, <3>1
  <2>3. Len(rows) \in 1..2
    BY ONLY <2>1
  <2> QED BY <1>1, <2>1, <2>2, <2>3 DEF Fitting
<1>3. CASE rows = <<row, row>> /\ Outputs(sql) = 0 /\ Names(sql) # <<>>
  <2>1. rows \in Seq(Seq(ClientValues)) /\ Len(rows) = 2 /\ rows[1] = row /\ rows[2] = row
    BY ONLY <1>3, row \in Seq(ClientValues)
  <2>2. \A i \in 1..Len(rows) : rows[i] = rows[1]
    <3>1. \A i \in 1..2 : i = 1 \/ i = 2
      OBVIOUS
    <3> QED BY ONLY <2>1, <3>1
  <2>3. Len(rows) \in 1..2
    BY ONLY <2>1
  <2> QED BY <1>1, <1>3, <2>1, <2>2, <2>3 DEF Fitting
<1> QED BY <1>1, <1>2, <1>3

\* A call has the number after the last one's.
LEMMA NumberOfTheCall ==
  ASSUME CallNumbers \in 1..255, call = None \/ call.seq \in Byte,
         NEW func, NEW name, NEW rows, NEW size, NEW closes, NEW c, c = Call(func, name, rows, size, closes)
  PROVE  /\ c.func = func /\ c.seq \in Byte /\ c.rows = rows /\ c.size = size /\ c.closes = closes /\ c.outs = 0
         /\ c.sql = (IF func = "fetch" THEN <<>> ELSE Statement(name).sql)
         /\ DOMAIN c = {"func", "seq", "sql", "rows", "size", "closes", "fetches", "outs"}
<1>1. PICK seq : seq = IF call = None THEN 7 ELSE 1 + (call.seq % CallNumbers)
  OBVIOUS
<1>2. seq \in Byte
  <2>1. 7 \in Byte /\ \A r \in 0..254 : 1 + r \in Byte
    BY SMT DEF Byte
  <2>2. CASE call # None
    <3>1. call.seq \in Int /\ CallNumbers \in Int /\ CallNumbers > 0 /\ CallNumbers <= 255
      BY ONLY <2>2, CallNumbers \in 1..255, call = None \/ call.seq \in Byte, SMT DEF Byte
    <3>2. PICK k, n : k = call.seq /\ n = CallNumbers
      OBVIOUS
    <3>3. k \in Int /\ n \in Int /\ n > 0 /\ n <= 255
      BY ONLY <3>1, <3>2
    <3>4. k % n \in 0..(n - 1)
      BY ONLY <3>3, SMT
    <3>5. k % n \in 0..254
      BY ONLY <3>3, <3>4, SMT
    <3> QED BY ONLY <1>1, <2>1, <2>2, <3>2, <3>5
  <2> QED BY ONLY <1>1, <2>1, <2>2
<1>3. c = [func |-> func, seq |-> seq, sql |-> IF func = "fetch" THEN <<>> ELSE Statement(name).sql, rows |-> rows,
           size |-> size, closes |-> closes, fetches |-> IsQuery(name), outs |-> 0]
  BY <1>1 DEF Call
<1> QED BY ONLY <1>2, <1>3

-----------------------------------------------------------------------------
(* The client's steps.                                                     *)

\* A request that fits its statement keeps the session as it should be.
LEMMA SendingKeeps ==
  ASSUME ThinInv, NEW c, Send(c), stmt' \in StatementNames, CallFits(c, stmt'), LastInv', ViewInv', None \notin StatementNames
  PROVE  ThinInv'
<1>1. /\ client' = client /\ backend' = backend /\ call' = c /\ turn' = "server"
      /\ toServer' = Transmitted(client, c, CursorId)
  BY DEF Send
<1>2. Thin(client)' /\ (backend \in Backends)'
  BY <1>1 DEF ThinInv, Thin
<1>3. stmt' # None
  OBVIOUS
<1>4. Alone'
  BY <1>3 DEF Alone
<1>5. CallInv'
  BY <1>1 DEF CallInv
<1>6. CursorId' = CursorId
  BY <1>1 DEF CursorId
<1>7. WireInv'
  BY <1>1, <1>6 DEF WireInv
<1>8. BoundAsSent'
  BY <1>1 DEF BoundAsSent
<1> QED BY <1>2, <1>4, <1>5, <1>7, <1>8 DEF ThinInv

\* An execution, of one row or of two.
LEMMA ExecutingKeeps ==
  ASSUME ThinWorld, ThinInv, ClientExecutes
  PROVE  ThinInv'
<1>1. stmt = None /\ call = None
  BY DEF ClientExecutes, ThinInv, Alone
<1>2. PICK name \in StatementNames, size \in Sizes, closes \in Closes :
      \E row \in [1..Len(Names(Statement(name).sql)) -> DOMAIN BindValues] :
        LET rows == IF ~IsQuery(name) /\ Statement(name).array /\ ~client.oci THEN <<Bound(row), Bound(row)>>
                    ELSE <<Bound(row)>>
        IN  /\ stmt' = name
            /\ Send([Call("execute", name, rows, size, closes) EXCEPT !.outs = Outputs(Statement(name).sql)])
            /\ view' = NoView
  BY ZenonT(60) DEF ClientExecutes, StatementNames
<1>3. PICK row \in [1..Len(Names(Statement(name).sql)) -> DOMAIN BindValues] :
        /\ stmt' = name
        /\ Send([Call("execute", name, IF ~IsQuery(name) /\ Statement(name).array /\ ~client.oci
                                       THEN <<Bound(row), Bound(row)>> ELSE <<Bound(row)>>, size, closes)
                 EXCEPT !.outs = Outputs(Statement(name).sql)])
        /\ view' = NoView
  BY <1>2
<1>4. PICK sql, held, rows :
        /\ sql = Statement(name).sql /\ held = Bound(row)
        /\ rows = (IF ~IsQuery(name) /\ Statement(name).array /\ ~client.oci THEN <<Bound(row), Bound(row)>>
                   ELSE <<Bound(row)>>)
  OBVIOUS
<1>5. PICK plain : plain = Call("execute", name, rows, size, closes)
  OBVIOUS
<1>6. PICK c : c = [plain EXCEPT !.outs = Outputs(sql)]
  OBVIOUS
<1>7. Send(c)
  BY <1>3, <1>4, <1>5, <1>6
<1>8. Drivable(sql) /\ Len(Names(sql)) \in Nat
  <2>1. Drivable(sql)
    BY <1>4 DEF ThinWorld
  <2>2. Len(sql) \in Nat
    BY <2>1 DEF Drivable
  <2> QED BY ONLY <2>1, <2>2, NamesAre
<1>9. held \in Seq(ClientValues) /\ Len(held) = Len(Names(sql))
  BY <1>4, <1>8, BoundIsARow
<1>10. \/ rows = <<held>>
       \/ rows = <<held, held>> /\ Outputs(sql) = 0 /\ Names(sql) # <<>>
  BY <1>4 DEF ThinWorld
<1>11. /\ plain.func = "execute" /\ plain.seq \in Byte /\ plain.rows = rows /\ plain.size = size /\ plain.closes = closes
       /\ plain.sql = sql /\ DOMAIN plain = {"func", "seq", "sql", "rows", "size", "closes", "fetches", "outs"}
  <2>1. CallNumbers \in 1..255
    BY DEF ThinWorld
  <2>2. PICK func : func = "execute"
    OBVIOUS
  <2>3. plain = Call(func, name, rows, size, closes) /\ (call = None \/ call.seq \in Byte) /\ func # "fetch"
    BY <1>1, <1>5, <2>2
  <2> QED BY ONLY <1>4, <2>1, <2>2, <2>3, NumberOfTheCall
<1>12. /\ c.func = "execute" /\ c.seq \in Byte /\ c.rows = rows /\ c.size = size /\ c.closes = closes
       /\ c.sql = sql /\ c.outs = Outputs(sql)
  BY ONLY <1>6, <1>11
<1>13. Fitting(c, sql)
  BY ONLY <1>9, <1>10, <1>12, RowsFit
<1>14. CallFits(c, name)
  <2>1. size \in FourBytes /\ QuietCloses(closes)
    BY DEF ThinWorld
  <2>2. c.func # "fetch" /\ c.func # "reexecute"
    BY ONLY <1>12
  <2> QED BY ONLY <1>4, <1>12, <1>13, <2>1, <2>2 DEF CallFits
<1>15. LastInv'
  <2>1. turn' = "server" /\ call' = c
    BY <1>7 DEF Send
  <2> QED BY ONLY <1>12, <2>1 DEF LastInv
<1>16. ViewInv'
  BY <1>3 DEF ViewInv, NoView
<1>17. stmt' = name /\ None \notin StatementNames
  BY <1>3 DEF ThinWorld
<1> QED BY <1>7, <1>14, <1>15, <1>16, <1>17, SendingKeeps

\* Another, with values of the types the server has kept.
LEMMA ExecutingAgainKeeps ==
  ASSUME ThinWorld, ThinInv, ClientExecutesAgain
  PROVE  ThinInv'
<1>1. stmt # None /\ call.outs = 0 /\ Len(call.rows) = 1 /\ stmt' = stmt
  BY DEF ClientExecutesAgain
<1>2. PICK row \in [1..Len(call.rows[1]) -> Again] :
        /\ Types(Bound(row)) = Types(call.rows[1])
        /\ Send(Call("reexecute", stmt, <<Bound(row)>>, IF call.size = 0 THEN 1 ELSE call.size, <<>>))
        /\ view' = [NoView EXCEPT !.cols = view.cols]
  BY DEF ClientExecutesAgain
<1>3. PICK sql, held, size :
        sql = Statement(stmt).sql /\ held = Bound(row) /\ size = IF call.size = 0 THEN 1 ELSE call.size
  OBVIOUS
<1>4. PICK c : c = Call("reexecute", stmt, <<held>>, size, <<>>)
  OBVIOUS
<1>5. Send(c)
  BY <1>2, <1>3, <1>4
<1>6. stmt \in StatementNames /\ CallFits(call, stmt)
  BY <1>1 DEF ThinInv, CallInv
<1>7. Outputs(sql) = 0 /\ Len(call.rows[1]) = Len(Names(sql)) /\ call.size \in FourBytes /\ call.seq \in Byte
  BY <1>1, <1>3, <1>6 DEF CallFits, Fitting
<1>8. Len(Names(sql)) \in Nat
  <2>1. Drivable(sql)
    BY <1>3, <1>6 DEF ThinWorld
  <2>2. Len(sql) \in Nat
    BY <2>1 DEF Drivable
  <2> QED BY ONLY <2>2, NamesAre
<1>9. held \in Seq(ClientValues) /\ Len(held) = Len(Names(sql))
  <2>1. DOMAIN row = 1..Len(Names(sql)) /\ \A i \in 1..Len(Names(sql)) : row[i] \in DOMAIN BindValues
    BY <1>2, <1>7 DEF ThinWorld
  <2> QED BY ONLY <1>3, <1>8, <2>1, BoundIsARow
<1>10. /\ c.func = "reexecute" /\ c.seq \in Byte /\ c.rows = <<held>> /\ c.size = size /\ c.closes = <<>>
       /\ c.sql = sql /\ c.outs = 0
  <2>1. CallNumbers \in 1..255
    BY DEF ThinWorld
  <2>2. PICK func : func = "reexecute"
    OBVIOUS
  <2>3. c = Call(func, stmt, <<held>>, size, <<>>) /\ func # "fetch"
    BY <1>4, <2>2
  <2> QED BY ONLY <1>3, <1>7, <2>1, <2>2, <2>3, NumberOfTheCall
<1>11. Fitting(c, sql)
  BY ONLY <1>9, <1>10, RowsFit
<1>12. CallFits(c, stmt)
  <2>1. size \in FourBytes
    <3>1. 1 \in FourBytes
      BY SMT DEF FourBytes
    <3> QED BY ONLY <1>3, <1>7, <3>1
  <2>2. c.func # "fetch" /\ c.func # "execute" /\ Len(c.rows) = 1 /\ c.outs = 0
    BY ONLY <1>10
  <2> QED BY ONLY <1>3, <1>7, <1>10, <1>11, <2>1, <2>2 DEF CallFits
<1>13. LastInv'
  <2>1. turn = "client" /\ call' = c /\ last' = last
    BY <1>5 DEF Send
  <2>2. last = [sql |-> Statement(stmt).sql, types |-> Types(call.rows[1])]
    BY <1>1, <2>1 DEF ThinInv, LastInv
  <2>3. Types(c.rows[1]) = Types(call.rows[1])
    <3>1. c.rows[1] = Bound(row)
      BY ONLY <1>3, <1>10
    <3> QED BY ONLY <1>2, <3>1
  <2> QED BY ONLY <1>1, <2>1, <2>2, <2>3 DEF LastInv
<1>14. ViewInv'
  BY <1>2 DEF ViewInv, NoView
<1>15. stmt' = stmt /\ None \notin StatementNames
  BY <1>1 DEF ThinWorld
<1> QED BY <1>5, <1>6, <1>12, <1>13, <1>14, <1>15, SendingKeeps

\* A client told of an error asks for no rows.
RefusalsSeen == Idle /\ stmt # None /\ ~Bindable(call) => view.code # 0

\* That is part of what ReadAsHeld says.
LEMMA RefusalsAreRead == ReadAsHeld => RefusalsSeen
BY DEF ReadAsHeld, RefusalsSeen

\* A request for rows is for those of a query that has run.
LEMMA FetchingKeeps ==
  ASSUME ThinWorld, ThinInv, RefusalsSeen, ClientFetches
  PROVE  ThinInv'
<1>1. view.more /\ stmt' = stmt /\ view' = view
  BY DEF ClientFetches
<1>2. PICK size \in Sizes : Send(Call("fetch", stmt, call.rows, size, <<>>))
  BY DEF ClientFetches
<1>3. PICK c : c = Call("fetch", stmt, call.rows, size, <<>>)
  OBVIOUS
<1>4. Send(c)
  BY <1>2, <1>3
<1>5. turn = "client" /\ call' = c /\ last' = last
  BY <1>4 DEF Send
<1>6. stmt # None
  BY <1>1 DEF ThinInv, Alone
<1>7. stmt \in StatementNames /\ CallFits(call, stmt) /\ IsQuery(stmt) /\ view.code = 0
  BY <1>1, <1>6 DEF ThinInv, CallInv, ViewInv
<1>8. Bindable(call)
  BY <1>5, <1>6, <1>7 DEF RefusalsSeen, Idle
<1>9. Outputs(Statement(stmt).sql) = 0
  BY <1>7 DEF ThinWorld
<1>10. c.func = "fetch" /\ c.seq \in Byte /\ c.rows = call.rows /\ c.size = size /\ c.closes = <<>> /\ c.outs = 0
  <2>1. CallNumbers \in 1..255 /\ call.seq \in Byte
    BY <1>7 DEF ThinWorld, CallFits
  <2> QED BY ONLY <1>3, <2>1, NumberOfTheCall
<1>11. Bindable(c) /\ Fitting(c, Statement(stmt).sql)
  <2>1. call.outs = 0 /\ Fitting(call, Statement(stmt).sql)
    BY <1>7, <1>9 DEF CallFits
  <2>2. Bindable(c)
    BY ONLY <1>8, <1>10, <2>1 DEF Bindable
  <2>3. Fitting(c, Statement(stmt).sql)
    BY ONLY <1>10, <2>1 DEF Fitting
  <2> QED BY ONLY <2>2, <2>3
<1>12. CallFits(c, stmt)
  <2>1. size \in FourBytes
    BY DEF ThinWorld
  <2>2. c.func # "execute" /\ c.func # "reexecute"
    BY ONLY <1>10
  <2> QED BY ONLY <1>9, <1>10, <1>11, <2>1, <2>2 DEF CallFits
<1>13. LastInv'
  <2>1. last = [sql |-> Statement(stmt).sql, types |-> Types(call.rows[1])]
    BY <1>5, <1>6 DEF ThinInv, LastInv
  <2> QED BY ONLY <1>1, <1>5, <1>10, <2>1 DEF LastInv
<1>14. ViewInv'
  BY <1>1 DEF ThinInv, ViewInv
<1>15. stmt' = stmt /\ None \notin StatementNames
  BY <1>1 DEF ThinWorld
<1> QED BY <1>4, <1>7, <1>12, <1>14, <1>13, <1>15, SendingKeeps

\* A client that has read its reply asks on only for a query without an error.
LEMMA ReadingKeeps ==
  ASSUME ThinWorld, ThinInv, ClientReads
  PROVE  ThinInv'
<1>1. /\ turn = "reply" /\ turn' = "client"
      /\ UNCHANGED <<client, backend, stmt, call, toServer, asked, last, cursor, sent, runs>>
  BY DEF ClientReads
<1>2. Thin(client)' /\ (backend \in Backends)' /\ (stmt \in StatementNames \cup {None})'
  BY <1>1 DEF ThinInv, Thin
<1>3. stmt # None
  BY <1>1 DEF ThinInv, Alone
<1>4. Alone'
  BY <1>1, <1>3 DEF Alone
<1>5. CallInv'
  BY <1>1 DEF ThinInv, CallInv
<1>6. LastInv'
  BY <1>1 DEF ThinInv, LastInv
<1>7. WireInv'
  BY <1>1 DEF WireInv
<1>8. ViewInv'
  <2>1. PICK got :
          view' = IF got.r # "ok" THEN [view EXCEPT !.code = -1, !.more = FALSE]
                  ELSE [cols |-> got.v.cols, rows |-> view.rows \o got.v.reply.rows,
                        more |-> /\ IsQuery(stmt) /\ got.v.reply.code = 0
                                 /\ client.kind = "lenient" => got.v.reply.count > 0,
                        count |-> got.v.reply.count, code |-> got.v.reply.code, seq |-> got.v.reply.seq]
    BY DEF ClientReads
  <2>2. DOMAIN view = {"cols", "rows", "more", "count", "code", "seq"}
    BY DEF ThinInv, ViewInv
  <2>3. CASE got.r # "ok"
    <3>1. view' = [view EXCEPT !.code = -1, !.more = FALSE]
      BY ONLY <2>1, <2>3
    <3>2. DOMAIN view' = {"cols", "rows", "more", "count", "code", "seq"} /\ view'.more = FALSE
      BY ONLY <2>2, <3>1
    <3> QED BY ONLY <3>2 DEF ViewInv
  <2>4. CASE got.r = "ok"
    <3>1. DOMAIN view' = {"cols", "rows", "more", "count", "code", "seq"} /\ view'.code = got.v.reply.code
      BY ONLY <2>1, <2>4
    <3>2. view'.more = (/\ IsQuery(stmt) /\ got.v.reply.code = 0
                        /\ client.kind = "lenient" => got.v.reply.count > 0)
      BY ONLY <2>1, <2>4
    <3>3. view'.more => IsQuery(stmt) /\ view'.code = 0
      BY ONLY <3>1, <3>2
    <3> QED BY ONLY <1>1, <3>1, <3>3 DEF ViewInv
  <2> QED BY ONLY <2>3, <2>4
<1>9. BoundAsSent'
  BY <1>1 DEF BoundAsSent
<1> QED BY <1>2, <1>4, <1>5, <1>6, <1>7, <1>8, <1>9 DEF ThinInv

-----------------------------------------------------------------------------
(* The server's step.                                                      *)

\* What BoundAsSent says of one answered request.
AsSent(asks, request, sql, style) ==
  /\ asks = None <=> ~Bindable(request)
  /\ asks # None =>
       /\ asks.func \in Functions[request.func]
       /\ request.func # "fetch" =>
            /\ asks.sql = BareSql(sql)
            /\ Len(asks.rows) = Len(request.rows)
            /\ \A i \in DOMAIN request.rows : \A k \in DOMAIN Occurrences(BareSql(sql)) :
                 SameValue(Taken(asks.rows[i].values[asks.rows[i].places[k]]),
                           MeantOn(style, GivenTo(sql, request.rows[i], Occurrences(BareSql(sql))[k])))

\* A record of the server's is not None.
LEMMA RecordsAreSome ==
  ASSUME NoneApart, NEW func, NEW sql, NEW rows, NEW types
  PROVE  [func |-> func, sql |-> sql, rows |-> rows] # None /\ [sql |-> sql, types |-> types] # None
<1>1. DOMAIN None # {"func", "sql", "rows"} /\ DOMAIN None # {"sql", "types"}
  BY DEF NoneApart
<1>2. /\ DOMAIN [func |-> func, sql |-> sql, rows |-> rows] = {"func", "sql", "rows"}
      /\ DOMAIN [sql |-> sql, types |-> types] = {"sql", "types"}
  OBVIOUS
<1> QED BY ONLY <1>1, <1>2

\* What the server does of a request it has read is what BoundFor says it binds.
LEMMA BoundForIsAsSent ==
  ASSUME NoneApart, NEW request, NEW sql, NEW style, NEW rows, BoundFor(request, sql, style, rows),
         NEW func, func \in Functions[request.func], NEW asks,
         asks = IF rows = None THEN None ELSE [func |-> func, sql |-> BareSql(sql), rows |-> rows]
  PROVE  AsSent(asks, request, sql, style)
<1>1. PICK bare : bare = BareSql(sql)
  OBVIOUS
<1>2. PICK held : held = [func |-> func, sql |-> bare, rows |-> rows]
  OBVIOUS
<1>3. held # None /\ held.func = func /\ held.sql = bare /\ held.rows = rows
  <2>1. held # None
    BY <1>2, RecordsAreSome
  <2> QED BY ONLY <1>2, <2>1
<1>4. CASE rows = None
  <2>1. asks = None /\ ~Bindable(request)
    BY <1>4 DEF BoundFor
  <2> QED BY ONLY <2>1 DEF AsSent
<1>5. CASE rows # None
  <2>1. asks = held
    BY <1>1, <1>2, <1>5
  <2>2. Bindable(request)
    BY <1>5 DEF BoundFor
  <2>3. /\ Len(rows) = Len(request.rows)
        /\ \A i \in DOMAIN request.rows : \A k \in DOMAIN Occurrences(bare) :
             SameValue(Taken(rows[i].values[rows[i].places[k]]),
                       MeantOn(style, GivenTo(sql, request.rows[i], Occurrences(bare)[k])))
    BY ONLY <1>1, <1>5, BoundFor(request, sql, style, rows) DEF BoundFor
  <2> QED BY ONLY <1>1, <1>3, <2>1, <2>2, <2>3, func \in Functions[request.func] DEF AsSent
<1> QED BY ONLY <1>4, <1>5

\* An answered request that was served as sent is what BoundAsSent asks for.
LEMMA AsSentIsBound ==
  ASSUME ThinWorld, stmt' \in StatementNames, CallFits(call', stmt'), toServer' = <<>>,
         AsSent(asked', call', Statement(stmt').sql, backend')
  PROVE  BoundAsSent'
<1>1. PICK sql, bare : sql = Statement(stmt').sql /\ bare = BareSql(sql)
  OBVIOUS
<1>2. \A v : Meant(v)' = MeantOn(backend', v)
  BY DEF Meant, MeantOn
<1>3. \A row, token : ValueOf(row, token)' = GivenTo(sql, row, token)
  BY <1>1 DEF ValueOf, GivenTo
<1>4. call'.func # "fetch" => InputSql(call') = bare
  <2>1. Drivable(sql)
    BY <1>1 DEF ThinWorld
  <2>2. CASE call'.func # "fetch"
    <3>1. call'.sql = sql /\ call'.outs = Outputs(sql)
      BY ONLY <1>1, <2>2, CallFits(call', stmt') DEF CallFits
    <3> QED BY ONLY <1>1, <2>1, <3>1, InputIsBare
  <2> QED BY ONLY <2>2
<1>5. /\ asked' = None <=> ~Bindable(call')
      /\ asked' # None =>
           /\ asked'.func \in Functions[call'.func]
           /\ call'.func # "fetch" =>
                /\ asked'.sql = bare
                /\ Len(asked'.rows) = Len(call'.rows)
                /\ \A i \in DOMAIN call'.rows : \A k \in DOMAIN Occurrences(bare) :
                     SameValue(Taken(asked'.rows[i].values[asked'.rows[i].places[k]]),
                               Meant(ValueOf(call.rows[i], Occurrences(bare)[k]))')
  <2>1. \A i \in DOMAIN call'.rows : \A k \in DOMAIN Occurrences(bare) :
          Meant(ValueOf(call.rows[i], Occurrences(bare)[k]))' =
            MeantOn(backend', GivenTo(sql, call'.rows[i], Occurrences(bare)[k]))
    BY ONLY <1>2, <1>3
  <2>2. AsSent(asked', call', sql, backend')
    BY ONLY <1>1, AsSent(asked', call', Statement(stmt').sql, backend')
  <2> QED BY ONLY <1>1, <2>1, <2>2 DEF AsSent
<1> QED BY ONLY <1>4, <1>5, toServer' = <<>> DEF BoundAsSent

\* What the server keeps and does of a message it has read as a call.
LEMMA RunningTakes ==
  ASSUME NEW d, NEW seq, client.oci = FALSE, NEW read, ThinCall(d, last) = Got(read, 0), read.sql # <<>>, ServerRuns(d, seq)
  PROVE  /\ asked' = IF BoundRows(read, BareSql(read.sql)) = None THEN None
                     ELSE [func |-> d[4], sql |-> BareSql(read.sql), rows |-> BoundRows(read, BareSql(read.sql))]
         /\ last' = IF d[4] = Execute THEN [sql |-> read.sql, types |-> read.types] ELSE last
<1>1. PICK parsed : parsed = ParseCall(d, client.oci, last)
  OBVIOUS
<1>2. parsed.r = "ok" /\ parsed.v = read
  <2>1. parsed = ThinCall(d, last)
    BY ONLY <1>1, client.oci = FALSE DEF ThinCall
  <2>2. parsed = Got(read, 0)
    BY ONLY <2>1, ThinCall(d, last) = Got(read, 0)
  <2> QED BY ONLY <2>2 DEF Got
<1>3. PICK split : split = SplitReturningInto(read.sql)
  OBVIOUS
<1>4. PICK bare : bare = IF split = None THEN read.sql ELSE split.sql
  OBVIOUS
<1>5. bare = BareSql(read.sql)
  BY <1>3, <1>4 DEF BareSql
<1>6. /\ last' = IF d[4] = Execute /\ read.sql # <<>> THEN [sql |-> read.sql, types |-> read.types] ELSE last
      /\ asked' = IF BoundRows(read, bare) = None THEN None
                  ELSE [func |-> d[4], sql |-> bare, rows |-> BoundRows(read, bare)]
  BY <1>1, <1>2, <1>3, <1>4 DEF ServerRuns
<1> QED BY ONLY <1>5, <1>6, read.sql # <<>>

\* What a call of the client's is run as, whichever of the two functions brought it.
LEMMA CallsAreServed ==
  ASSUME ThinWorld, Thin(client), backend \in Backends, stmt \in StatementNames, CallFits(call, stmt),
         call.func # "fetch", NEW d, NEW seq, d[4] \in Functions[call.func],
         NEW read, ThinCall(d, last) = Got(read, 0), read.sql = Statement(stmt).sql,
         TakenRows(read) = SentRows(call), ServerRuns(d, seq)
  PROVE  /\ AsSent(asked', call, Statement(stmt).sql, backend)
         /\ last' = IF d[4] = Execute THEN [sql |-> Statement(stmt).sql, types |-> read.types] ELSE last
<1>1. PICK sql, rows : sql = Statement(stmt).sql /\ rows = BoundRows(read, BareSql(sql))
  OBVIOUS
<1>2. Drivable(sql) /\ NoneApart /\ backend \in {"postgres", "mariadb"} /\ \A v \in ClientValues : Honest(v, backend)
  BY <1>1 DEF ThinWorld
<1>3. Fitting(call, sql) /\ call.outs = Outputs(sql)
  BY <1>1 DEF CallFits
<1>4. BoundFor(call, sql, backend, rows)
  BY <1>1, <1>2, <1>3, RowsAreBound
<1>5. sql # <<>> /\ client.oci = FALSE
  BY <1>2 DEF Drivable, Thin
<1>6. /\ asked' = IF rows = None THEN None ELSE [func |-> d[4], sql |-> BareSql(sql), rows |-> rows]
      /\ last' = IF d[4] = Execute THEN [sql |-> sql, types |-> read.types] ELSE last
  <2>1. read.sql = sql /\ rows = BoundRows(read, BareSql(read.sql))
    BY <1>1
  <2>2. read.sql # <<>>
    BY ONLY <1>5, <2>1
  <2>3. /\ asked' = IF BoundRows(read, BareSql(read.sql)) = None THEN None
                    ELSE [func |-> d[4], sql |-> BareSql(read.sql), rows |-> BoundRows(read, BareSql(read.sql))]
        /\ last' = IF d[4] = Execute THEN [sql |-> read.sql, types |-> read.types] ELSE last
    BY <1>5, <2>2, RunningTakes
  <2> QED BY ONLY <2>1, <2>3
<1>7. AsSent(asked', call, sql, backend)
  BY <1>2, <1>4, <1>6, BoundForIsAsSent
<1> QED BY ONLY <1>1, <1>6, <1>7

\* A request is answered as it was meant.
LEMMA AnsweringServes ==
  ASSUME ThinWorld, ThinInv, turn = "server", OnePacket(toServer), ServerAnswers
  PROVE  /\ toServer' = <<>> /\ AsSent(asked', call, Statement(stmt).sql, backend)
         /\ last' = [sql |-> Statement(stmt).sql, types |-> Types(call.rows[1])]
<1>1. /\ Thin(client) /\ backend \in Backends /\ stmt \in StatementNames /\ CallFits(call, stmt)
      /\ toServer = Transmitted(client, call, CursorId)
  BY DEF ThinInv, Alone, CallInv, WireInv
<1>2. PICK sql, id : sql = Statement(stmt).sql /\ id = CursorId
  OBVIOUS
<1>3. id \in TwoBytes /\ id \in FourBytes
  <2>1. 1 \in TwoBytes /\ 3 \in TwoBytes /\ 1 \in FourBytes /\ 3 \in FourBytes
    BY SMT DEF TwoBytes, FourBytes
  <2> QED BY <1>2, <2>1 DEF CursorId
<1>4. client.large = TRUE /\ client.oci = FALSE
  BY <1>1 DEF Thin
<1>5. /\ Drivable(sql) /\ \A v \in ClientValues : Sendable(v)
      /\ NoneApart
  BY <1>1, <1>2 DEF ThinWorld
<1>6. ASSUME NEW message, Arrives(toServer, message)
      PROVE  /\ toServer' = <<>>
             /\ message[4] \in {Execute, Fetching, Reexec} => ServerRuns(message, message[5])
             /\ message[4] = FetchRows => ServerFetches(message, message[5])
  <2>1. PICK packet : packet = LargePacket(toServer)
    OBVIOUS
  <2>2. packet.rest = <<>> /\ Message(packet.payload) = message
    BY <1>6, <2>1 DEF Arrives
  <2>3. ReadPacket(toServer, client.large, client.oci) = packet
    BY <1>4, <2>1 DEF LargePacket
  <2>4. FetchRows \notin {Execute, Fetching, Reexec}
    BY SMT DEF FetchRows, Execute, Fetching, Reexec
  <2>5. /\ toServer' = packet.rest
        /\ IF message[4] \in {Execute, Fetching, Reexec} THEN ServerRuns(message, message[5])
           ELSE IF message[4] = FetchRows THEN ServerFetches(message, message[5])
           ELSE TRUE
    BY <2>2, <2>3 DEF ServerAnswers
  <2> QED BY ONLY <2>2, <2>4, <2>5
<1>7. Functions.execute = {Execute} /\ Functions.reexecute = {Reexec, Fetching} /\ Functions.fetch = {FetchRows}
  BY DEF Functions
<1>8. CASE call.func = "execute"
  <2>1. Executable(call, ClientValues)
    BY <1>1, <1>2, <1>5, <1>8, FittingIsExecutable DEF CallFits
  <2>2. QuietCloses(call.closes)
    BY <1>1, <1>8 DEF CallFits
  <2>3. PICK message : /\ Arrives(toServer, message) /\ message[4] = Execute
                       /\ ThinCall(message, last) = Intended(call)
    BY <1>1, <1>8, <2>1, <2>2, ExecuteComes
  <2>4. ServerRuns(message, message[5]) /\ toServer' = <<>>
    BY <1>6, <2>3
  <2>5. PICK read : Intended(call) = Got(read, 0)
    BY DEF Intended, Request
  <2>6. read = Intended(call).v
    BY <2>5 DEF Got
  <2>7. read.sql = sql /\ read.types = Types(call.rows[1])
    <3>1. call.sql = sql
      BY <1>1, <1>2, <1>8 DEF CallFits
    <3> QED BY <2>6, <3>1 DEF Intended, Request, Got
  <2>8. TakenRows(read) = SentRows(call)
    BY <1>1, <1>2, <1>5, <2>6, TakenFromExecute DEF CallFits
  <2>9. message[4] \in Functions[call.func] /\ call.func # "fetch"
    BY ONLY <1>7, <1>8, <2>3
  <2>10. /\ AsSent(asked', call, Statement(stmt).sql, backend)
         /\ last' = IF message[4] = Execute THEN [sql |-> Statement(stmt).sql, types |-> read.types] ELSE last
    <3>1. ThinCall(message, last) = Got(read, 0)
      BY <2>3, <2>5
    <3>2. read.sql = Statement(stmt).sql
      BY <1>2, <2>7
    <3> QED BY ONLY ThinWorld, <1>1, <2>4, <2>8, <2>9, <3>1, <3>2, CallsAreServed
  <2> QED BY ONLY <2>3, <2>4, <2>7, <2>10
<1>9. CASE call.func = "reexecute"
  <2>1. PICK values : values = call.rows[1]
    OBVIOUS
  <2>2. Fitting(call, sql) /\ call.outs = Outputs(sql) /\ Len(call.rows) = 1 /\ call.closes = <<>>
        /\ call.seq \in Byte /\ call.size \in FourBytes
    BY <1>1, <1>2, <1>9 DEF CallFits
  <2>3. values \in Seq(ClientValues) /\ DOMAIN call.rows = 1..1
    BY <2>1, <2>2, FittingRows
  <2>4. last = [sql |-> sql, types |-> Types(values)]
    BY <1>1, <1>2, <1>9, <2>1 DEF ThinInv, LastInv, ThinWorld
  <2>5. last # None
    BY <1>5, <2>4, RecordsAreSome
  <2>6. last.types = Types(values) /\ last.sql = sql
    BY ONLY <2>4
  <2>7. Carried(values) /\ SentOf(values, 0) = values
    <3>1. 0 \in 0..Len(values) /\ SubSeq(values, 1, Len(values)) = values /\ Len(values) - 0 = Len(values)
      BY ONLY <2>3
    <3>2. SentOf(values, 0) = values
      BY ONLY <3>1 DEF SentOf
    <3> QED BY <1>5, <2>3, <3>1, <3>2, SentIsCarried
  <2>8. PICK message :
          /\ Arrives(toServer, message) /\ message[4] = Reexec
          /\ ThinCall(message, last) = Request(last.sql, <<Decoded(values)>>, last.types, call.size, 1)
    BY ONLY <1>1, <1>2, <1>3, <1>9, <2>1, <2>2, <2>5, <2>6, <2>7, OnePacket(toServer), ReexecuteComes
  <2>9. ServerRuns(message, message[5]) /\ toServer' = <<>>
    BY <1>6, <2>8
  <2>10. PICK read : /\ Request(last.sql, <<Decoded(values)>>, last.types, call.size, 1) = Got(read, 0)
                     /\ read.sql = last.sql /\ read.types = last.types /\ read.rows = <<>>
                     /\ read.binds = Decoded(values)
    <3>1. PICK rows : rows = <<Decoded(values)>>
      OBVIOUS
    <3>2. rows # <<>> /\ rows[1] = Decoded(values)
      BY ONLY <3>1
    <3> QED BY ONLY <3>1, <3>2 DEF Request
  <2>11. TakenRows(read) = SentRows(call)
    <3>1. TakenRows(read) = <<Decoded(values)>>
      BY ONLY <2>10 DEF TakenRows
    <3>2. SentRows(call) = [i \in 1..1 |-> Decoded(SentOf(call.rows[i], call.outs))]
      BY ONLY <2>2 DEF SentRows
    <3>3. \A i \in 1..1 : Decoded(SentOf(call.rows[i], call.outs)) = Decoded(values)
      <4>1. \A i \in 1..1 : i = 1
        OBVIOUS
      <4>2. Decoded(SentOf(call.rows[1], call.outs)) = Decoded(values)
        BY <1>1, <1>9, <2>1, <2>7 DEF CallFits
      <4> QED BY ONLY <4>1, <4>2
    <3>4. <<Decoded(values)>> = [i \in 1..1 |-> Decoded(values)]
      OBVIOUS
    <3> QED BY ONLY <3>1, <3>2, <3>3, <3>4
  <2>12. message[4] \in Functions[call.func] /\ call.func # "fetch"
    BY ONLY <1>7, <1>9, <2>8
  <2>13. /\ AsSent(asked', call, Statement(stmt).sql, backend)
         /\ last' = IF message[4] = Execute THEN [sql |-> Statement(stmt).sql, types |-> read.types] ELSE last
    <3>1. ThinCall(message, last) = Got(read, 0) /\ read.sql = Statement(stmt).sql
      BY <1>2, <2>6, <2>8, <2>10
    <3> QED BY ONLY ThinWorld, <1>1, <2>9, <2>11, <2>12, <3>1, CallsAreServed
  <2>14. message[4] # Execute
    BY ONLY <2>8 DEF Reexec, Execute
  <2> QED BY ONLY <1>2, <2>1, <2>4, <2>9, <2>13, <2>14
<1>10. CASE call.func = "fetch"
  <2>1. PICK message : Arrives(toServer, message) /\ message[4] = FetchRows
    BY <1>1, <1>2, <1>3, <1>10, FetchComes DEF CallFits
  <2>2. ServerFetches(message, message[5]) /\ toServer' = <<>>
    BY <1>6, <2>1
  <2>3. PICK held : held = [func |-> message[4], sql |-> <<>>, rows |-> <<>>]
    OBVIOUS
  <2>4. asked' = held /\ last' = last
    BY <2>2, <2>3 DEF ServerFetches
  <2>5. held # None /\ held.func = FetchRows
    <3>1. held # None
      BY <1>5, <2>3, RecordsAreSome
    <3> QED BY ONLY <2>1, <2>3, <3>1
  <2>6. Bindable(call)
    BY <1>1, <1>10 DEF CallFits
  <2>7. AsSent(asked', call, Statement(stmt).sql, backend)
    BY ONLY <1>7, <1>10, <2>4, <2>5, <2>6 DEF AsSent
  <2>8. last = [sql |-> Statement(stmt).sql, types |-> Types(call.rows[1])]
    BY <1>1, <1>10 DEF ThinInv, LastInv, ThinWorld
  <2> QED BY ONLY <2>2, <2>4, <2>7, <2>8
<1>11. call.func \in {"execute", "reexecute", "fetch"}
  BY <1>1 DEF CallFits
<1> QED BY ONLY <1>8, <1>9, <1>10, <1>11

\* A request is one packet.
RequestFits == turn = "server" => OnePacket(toServer)

\* An answered request is done as it was meant.
LEMMA AnsweringKeeps ==
  ASSUME ThinWorld, ThinInv, RequestFits, ServerAnswers
  PROVE  ThinInv'
<1>1. turn = "server" /\ turn' = "reply" /\ UNCHANGED <<client, backend, stmt, call, view, runs>>
  BY DEF ServerAnswers
<1>2. OnePacket(toServer)
  BY <1>1 DEF RequestFits
<1>3. /\ toServer' = <<>> /\ AsSent(asked', call, Statement(stmt).sql, backend)
      /\ last' = [sql |-> Statement(stmt).sql, types |-> Types(call.rows[1])]
  BY <1>1, <1>2, AnsweringServes
<1>4. stmt \in StatementNames /\ stmt # None /\ CallFits(call, stmt)
  BY <1>1 DEF ThinInv, Alone, CallInv
<1>5. Thin(client)' /\ (backend \in Backends)' /\ (stmt \in StatementNames \cup {None})'
  BY <1>1 DEF ThinInv, Thin
<1>6. Alone'
  BY <1>1, <1>4 DEF Alone
<1>7. CallInv'
  BY <1>1, <1>4 DEF CallInv
<1>8. LastInv'
  BY <1>1, <1>3 DEF LastInv
<1>9. WireInv'
  BY <1>1 DEF WireInv
<1>10. ViewInv'
  BY <1>1 DEF ThinInv, ViewInv
<1>11. BoundAsSent'
  BY <1>1, <1>3, <1>4, AsSentIsBound
<1> QED BY <1>5, <1>6, <1>7, <1>8, <1>9, <1>10, <1>11 DEF ThinInv

\* A session that does nothing stays as it is.
LEMMA RestingKeeps ==
  ASSUME ThinInv, UNCHANGED vars
  PROVE  ThinInv'
<1>1. UNCHANGED <<client, backend, stmt, call, toServer, asked, last, view, turn>>
  BY DEF vars
<1>2. Thin(client)' /\ (backend \in Backends)' /\ (stmt \in StatementNames \cup {None})'
  BY <1>1 DEF ThinInv, Thin
<1>3. Alone' /\ CallInv' /\ LastInv' /\ ViewInv'
  BY <1>1 DEF ThinInv, Alone, CallInv, LastInv, ViewInv
<1>4. WireInv'
  BY <1>1 DEF ThinInv, WireInv, CursorId
<1>5. BoundAsSent'
  <2>1. \A v : Meant(v)' = Meant(v)
    BY <1>1 DEF Meant
  <2>2. \A row, token : ValueOf(row, token)' = ValueOf(row, token)
    BY <1>1 DEF ValueOf
  <2>3. \A row, token : Meant(ValueOf(row, token))' = Meant(ValueOf(row, token))
    BY ONLY <2>1, <2>2
  <2>4. InputSql(call)' = InputSql(call) /\ Bindable(call)' = Bindable(call)
    BY <1>1
  <2>5. BoundAsSent
    BY DEF ThinInv
  <2> QED BY ONLY <1>1, <2>3, <2>4, <2>5 DEF BoundAsSent
<1> QED BY <1>2, <1>3, <1>4, <1>5 DEF ThinInv

\* What a thin client sent is what the server does, in every session whose
\* statements and values are ThinWorld's: each execution, execution again and
\* fetch is taken for what it is, with no byte left over, and binds at every
\* placeholder the value the client gave that name (server.rs's command loop
\* from read_packet to the parameters a database gets).
THEOREM ThinBindsAsSent ==
  ASSUME ThinWorld
  PROVE  Spec /\ Thin(client) /\ []RequestFits /\ []RefusalsSeen => []BoundAsSent
<1>1. Init /\ Thin(client) => ThinInv
  <2>1. SUFFICES ASSUME Init, Thin(client) PROVE ThinInv
    OBVIOUS
  <2>2. stmt = None /\ call = None /\ turn = "client" /\ view = NoView /\ backend \in Backends
    BY <2>1 DEF Init
  <2>3. Alone /\ CallInv /\ LastInv /\ WireInv /\ BoundAsSent
    BY <2>2 DEF Alone, CallInv, LastInv, WireInv, BoundAsSent, NoView
  <2>4. ViewInv
    BY <2>2 DEF ViewInv, NoView
  <2> QED BY <2>1, <2>2, <2>3, <2>4 DEF ThinInv
<1>2. ThinInv /\ RequestFits /\ RefusalsSeen /\ [Next]_vars => ThinInv'
  <2>1. SUFFICES ASSUME ThinInv, RequestFits, RefusalsSeen, [Next]_vars PROVE ThinInv'
    OBVIOUS
  <2>2. CASE ClientExecutes
    BY <2>1, <2>2, ExecutingKeeps
  <2>3. CASE ClientExecutesAgain
    BY <2>1, <2>3, ExecutingAgainKeeps
  <2>4. CASE ClientFetches
    BY <2>1, <2>4, FetchingKeeps
  <2>5. CASE ClientReads
    BY <2>1, <2>5, ReadingKeeps
  <2>6. CASE ServerAnswers
    BY <2>1, <2>6, AnsweringKeeps
  <2>7. CASE UNCHANGED vars
    BY <2>1, <2>7, RestingKeeps
  <2> QED BY <2>1, <2>2, <2>3, <2>4, <2>5, <2>6, <2>7 DEF Next
<1>3. ThinInv => BoundAsSent
  BY DEF ThinInv
<1> QED BY <1>1, <1>2, <1>3, PTL DEF Spec

=============================================================================
