-------------------------- MODULE HandshakeProofs --------------------------
(***************************************************************************)
(* Theorems of Handshake, for any drivers, names, passwords and lists of   *)
(* users.                                                                  *)
(*                                                                         *)
(* The client sends its requests in one order, and at most one of them is  *)
(* on its way, the one it waits on; a reply on its way is the answer to    *)
(* it.  So when a request is read, what the server has learnt is what the  *)
(* requests before it told: the dialect it replies in is the driver's, and *)
(* the password it compares with is the one of the user.  The exception is *)
(* the error of a backend that cannot be reached, which the server sends   *)
(* on top of its last reply, and which the client reads with its next      *)
(* request.                                                                *)
(***************************************************************************)
EXTENDS Handshake, FiniteSetTheorems, TLAPS

Kinds == {"connect", "descriptor", "na", "protocol", "datatypes", "auth1", "auth2", "call"}

\* What a driver sends next.
After(d, short, request) ==
  LET negotiate == IF d \in RunsNa THEN "na" ELSE "protocol" IN
  CASE request = "connect"    -> IF short THEN negotiate ELSE "descriptor"
    [] request = "descriptor" -> negotiate
    [] request = "na"         -> "protocol"
    [] request = "protocol"   -> "datatypes"
    [] request = "datatypes"  -> "auth1"
    [] request = "auth1"      -> "auth2"
    [] request = "auth2"      -> "call"
    [] OTHER                  -> "done"

\* The next of the requests a client has still to send.
First(q) == IF q = <<>> THEN "done" ELSE Head(q)

\* The requests q are the last ones of a driver.
InOrder(d, short, q) ==
  \A i \in 1..Len(q) : After(d, short, q[i]) = IF i = Len(q) THEN "done" ELSE q[i + 1]

\* The packets a reply is due for.
IsRequest(kind) == kind \notin {"marker", "descriptor"}
Class(kind) == IF IsRequest(kind) THEN "request" ELSE kind

\* A list of packets with at most one request, one descriptor and one marker.
Packets(q) == {q[i] : i \in 1..Len(q)}
OneOfEach(q) == \A i, j \in 1..Len(q) : Class(q[i].kind) = Class(q[j].kind) => i = j

\* The client is still there; a request of it has not been read; it knows the password.
Live == told \in {"connecting", "in"}
Asked == \E p \in Packets(up) : IsRequest(p.kind)
Knows == offers.password # None /\ offers.password = Rightful

\* What the server has learnt when the requests up to one have been read.
PastNa == did_na <=> driver \in RunsNa
PastProtocol == PastNa /\ accepted = VersionList(driver) /\ (oci_dialect <=> driver = "oci")
PastDataTypes == PastProtocol /\ caps = Caps(driver)

\* The server is ready to read a request.
Ready(request) ==
  /\ request = "na" => driver \in RunsNa
  /\ request \in {"protocol", "datatypes", "auth1", "auth2", "call"} => PastNa
  /\ request \in {"datatypes", "auth1", "auth2", "call"} => PastProtocol
  /\ request \in {"auth1", "auth2", "call"} => PastDataTypes

\* The challenges there may be, and the one of this session.
Challenges ==
  [verifier : {"11g", "12c"},
   sesskey  : [key : (Passwords \cup {None}) \X {"11g", "12c"}, text : {"server-half"}]]
Issued == [verifier |-> Verifier,
           sesskey  |-> Encrypt(PasswordHash(stored, Verifier), "server-half")]

\* The packets there may be.
UpPackets ==
  [kind : Kinds \cup {"marker"},
   body : {Body(k) : k \in Kinds \cup {"marker"}} \cup {Proof(c) : c \in Challenges}]
Answered == {"na", "protocol", "datatypes", "auth1", "auth2"}
Shapes ==
  {"resend", "accept", "null-adapters", "oci-protocol", "thin-protocol",
   "oci-types", "zone-types", "types",
   "oci-12c", "end-of-call-12c", "status-12c", "status-11g",
   "oci-pairs", "end-of-call-pairs", "status-pairs",
   "oci-error", "end-of-call-error", "completed-error", "plain-error"}
DownPackets ==
  [kind  : {"resend", "accept", "error"} \cup Answered,
   shape : Shapes,
   body  : Challenges \cup {None}]

\* The values of the variables.
TypeInv ==
  /\ driver \in Drivers /\ inline \in BOOLEAN
  /\ offers \in [user : [name : Names, upper : BOOLEAN], password : Passwords \cup {None}]
  /\ config \in [items : Configured, fallback : Passwords \cup {None},
                 version : {"11g", "19c"}, idle : BOOLEAN]
  /\ up \in Seq(UpPackets) /\ down \in Seq(DownPackets)
  /\ server \in Reading \cup {"backend", "serving", "closed"}
  /\ did_na \in BOOLEAN /\ oci_dialect \in BOOLEAN
  /\ accepted \in {"none", "5", "54321"} /\ caps \in {Caps(d) : d \in Drivers} \cup {NoCaps}
  /\ stored \in Passwords \cup {None}
  /\ wants \in Seq(Kinds) /\ awaits \in (Kinds \ {"descriptor"}) \cup {"nothing"}
  /\ told \in {"connecting", "in", "refused", "lost", "gone"}

\* Where the client is in the order of its requests, and what it has been told.
ClientInv ==
  /\ Live => InOrder(driver, inline, wants)
  /\ Live /\ awaits # "nothing" => First(wants) = After(driver, inline, awaits)
  /\ Live /\ awaits = "nothing" => Ready(First(wants)) /\ First(wants) # "auth2"
  /\ Live => (told = "in" <=>
       (awaits = "call" \/ (awaits = "nothing" /\ First(wants) \in {"call", "done"})))
  /\ Live /\ First(wants) \in {"connect", "descriptor"} =>
       \A p \in Packets(up) : p.kind # "descriptor"
  /\ ~Live => awaits = "nothing"
  /\ told = "in" => Knows
  /\ told = "refused" => ~Knows

\* A request on its way is the one the client waits on, and the server is ready for it.
UpInv ==
  /\ OneOfEach(up)
  /\ \A p \in Packets(up) :
       /\ p.kind # "auth2" => p.body = Body(p.kind)
       /\ p.kind = "auth2" => p.body = Proof(Issued)
       /\ IsRequest(p.kind) => Ready(p.kind) /\ (Live => p.kind = awaits)

\* A reply is of a shape the driver reads in answer to its request.
Shaped(r) ==
  /\ r.kind = "error" => server = "closed" /\ r.shape = ReadsError(driver)
  /\ r.kind \in {"resend", "accept"} => r.shape \in Reads(driver, "connect")
  /\ r.kind \in Answered => r.shape \in Reads(driver, r.kind)
  /\ r.kind = "auth1" => r.body = Issued
  /\ r.kind = "auth2" => Knows

\* A reply on its way answers the request the client waits on, unless it is an error;
\* nothing follows it but the error of a backend that cannot be reached.
DownInv ==
  /\ Len(down) <= 2
  /\ Len(down) = 2 => server = "closed" /\ down[1].kind = "auth2" /\ down[2].kind = "error"
  /\ Asked /\ down # <<>> => server = "closed" /\ Len(down) = 1 /\ down[1].kind = "error"
  /\ Live /\ awaits = "nothing" /\ down # <<>> =>
       server = "closed" /\ down[1].kind = "error" /\ told = "in"
  /\ Live /\ awaits # "nothing" /\ down # <<>> /\ down[1].kind # "error" =>
       /\ Ready(First(wants))
       /\ \/ awaits = "connect" /\ down[1].kind \in {"resend", "accept"}
          \/ awaits = down[1].kind /\ awaits \in Answered
  /\ \A r \in Packets(down) : Shaped(r)
  /\ down # <<>> /\ down[1].kind = "error" => ~Knows \/ (Live => told = "in")

\* Where the server is, and whom it has let in.
ServerInv ==
  /\ driver \notin RunsNa => did_na = FALSE
  /\ server \in {"auth2", "backend", "serving"} =>
       PastDataTypes /\ stored = Rightful /\ stored # None
  /\ server \in {"backend", "serving"} =>
       /\ Knows
       /\ down # <<>> => down[1].kind = "auth2"
       /\ Live => told = "in" \/ (awaits = "auth2" /\ down # <<>>)

Inv == TypeInv /\ ClientInv /\ UpInv /\ DownInv /\ ServerInv

-----------------------------------------------------------------------------
(***************************************************************************)
(* The requests of a driver, in order.                                     *)
(***************************************************************************)
\* One request before the others.
LEMMA Prepend ==
  ASSUME NEW d, NEW short, NEW e \in Kinds, NEW q \in Seq(Kinds),
         q # <<>>, InOrder(d, short, q), After(d, short, e) = Head(q)
  PROVE  /\ <<e>> \o q \in Seq(Kinds) /\ <<e>> \o q # <<>>
         /\ Head(<<e>> \o q) = e
         /\ InOrder(d, short, <<e>> \o q)
<1> DEFINE p == <<e>> \o q
<1>1. /\ p \in Seq(Kinds) /\ Len(p) = Len(q) + 1 /\ p[1] = e /\ Head(p) = p[1]
      /\ \A i \in 1..Len(q) : p[1 + i] = q[i]
      /\ Len(q) \in Nat /\ Len(q) >= 1 /\ Head(q) = q[1]
  OBVIOUS
<1> HIDE DEF p
<1>2. ASSUME NEW i \in 1..Len(p)
      PROVE  After(d, short, p[i]) = IF i = Len(p) THEN "done" ELSE p[i + 1]
  <2>1. CASE i = 1
    BY <1>1, <2>1
  <2>2. CASE i # 1
    <3>1. /\ i - 1 \in 1..Len(q)
          /\ p[i] = q[i - 1]
          /\ i # Len(p) => i \in 1..Len(q) /\ p[i + 1] = q[i]
      BY <1>1, <2>2
    <3>2. After(d, short, q[i - 1]) = IF i - 1 = Len(q) THEN "done" ELSE q[(i - 1) + 1]
      BY <3>1 DEF InOrder
    <3> QED BY <1>1, <2>2, <3>1, <3>2
  <2> QED BY <2>1, <2>2
<1> QED BY <1>1, <1>2 DEF InOrder, p

\* A driver sends what it has to send in order.
LEMMA RequestsInOrder ==
  ASSUME NEW d, NEW short \in BOOLEAN
  PROVE  LET q == Requests(d, short) IN
         q \in Seq(Kinds) /\ q # <<>> /\ Head(q) = "connect" /\ InOrder(d, short, q)
<1> DEFINE login     == <<"protocol", "datatypes", "auth1", "auth2", "call">>
           negotiate == IF d \in RunsNa THEN <<"na">> \o login ELSE login
           rest      == IF short THEN negotiate ELSE <<"descriptor">> \o negotiate
           types     == IF d \in RunsNa THEN "na" ELSE "protocol"
<1>1. /\ login \in Seq(Kinds) /\ login # <<>> /\ Len(login) = 5 /\ Head(login) = "protocol"
      /\ login[1] = "protocol" /\ login[2] = "datatypes" /\ login[3] = "auth1"
      /\ login[4] = "auth2" /\ login[5] = "call"
  BY DEF Kinds
<1>2. Requests(d, short) = <<"connect">> \o rest
  BY DEF Requests
<1> HIDE DEF login
<1>3. InOrder(d, short, login)
  BY <1>1 DEF InOrder, After
<1>4. /\ After(d, short, "na") = "protocol" /\ After(d, short, "descriptor") = types
      /\ After(d, short, "connect") = IF short THEN types ELSE "descriptor"
      /\ "na" \in Kinds /\ "descriptor" \in Kinds /\ "connect" \in Kinds
  BY DEF After, Kinds
<1>5. /\ negotiate \in Seq(Kinds) /\ negotiate # <<>>
      /\ Head(negotiate) = types /\ InOrder(d, short, negotiate)
  BY <1>1, <1>3, <1>4, Prepend
<1> HIDE DEF negotiate
<1>6. /\ rest \in Seq(Kinds) /\ rest # <<>> /\ InOrder(d, short, rest)
      /\ Head(rest) = After(d, short, "connect")
  BY <1>4, <1>5, Prepend
<1> HIDE DEF rest
<1> QED BY <1>2, <1>4, <1>6, Prepend

\* What is left of a list without its first element.
LEMMA TailFacts ==
  ASSUME NEW S, NEW q \in Seq(S), q # <<>>
  PROVE  /\ Len(q) \in Nat /\ Len(q) >= 1 /\ Head(q) = q[1] /\ Head(q) \in S
         /\ Tail(q) \in Seq(S) /\ Len(Tail(q)) = Len(q) - 1
         /\ \A i \in 1..Len(q) - 1 : Tail(q)[i] = q[i + 1]
         /\ (Tail(q) = <<>>) <=> (Len(q) = 1)
<1>1. /\ Len(q) \in Nat /\ Len(q) > 0 /\ Head(q) = q[1] /\ Head(q) \in S
      /\ Tail(q) \in Seq(S) /\ Len(Tail(q)) = Len(q) - 1
      /\ \A i \in 1..Len(q) - 1 : Tail(q)[i] = q[i + 1]
  OBVIOUS
<1> DEFINE t == Tail(q)
<1> HIDE DEF t
<1>2. t \in Seq(S) => ((t = <<>>) <=> (Len(t) = 0))
  OBVIOUS
<1> QED BY <1>1, <1>2 DEF t

\* When a request has been sent, the rest is still in order.
LEMMA NextRequest ==
  ASSUME NEW d, NEW short, NEW q \in Seq(Kinds), q # <<>>, InOrder(d, short, q)
  PROVE  /\ Head(q) \in Kinds /\ First(q) = Head(q)
         /\ Tail(q) \in Seq(Kinds) /\ InOrder(d, short, Tail(q))
         /\ First(Tail(q)) = After(d, short, Head(q))
<1> DEFINE t == Tail(q)
<1>1. /\ Len(q) \in Nat /\ Len(q) >= 1 /\ Head(q) = q[1] /\ q[1] \in Kinds
      /\ t \in Seq(Kinds) /\ Len(t) = Len(q) - 1
      /\ \A i \in 1..Len(q) - 1 : t[i] = q[i + 1]
      /\ (t = <<>>) <=> (Len(q) = 1)
  BY TailFacts
<1>2. \A i \in 1..Len(q) : After(d, short, q[i]) = IF i = Len(q) THEN "done" ELSE q[i + 1]
  BY DEF InOrder
<1> HIDE DEF t
<1>3. InOrder(d, short, t)
  <2>1. ASSUME NEW i \in 1..Len(q) - 1
        PROVE  After(d, short, t[i]) = IF i = Len(q) - 1 THEN "done" ELSE t[i + 1]
    <3>1. /\ i + 1 \in 1..Len(q) /\ t[i] = q[i + 1]
          /\ i # Len(q) - 1 => t[i + 1] = q[(i + 1) + 1]
      BY <1>1
    <3>2. After(d, short, q[i + 1]) = IF i + 1 = Len(q) THEN "done" ELSE q[(i + 1) + 1]
      BY <1>2, <3>1
    <3> QED BY <1>1, <3>1, <3>2
  <2> QED BY <1>1, <2>1 DEF InOrder
<1>4. After(d, short, q[1]) = IF 1 = Len(q) THEN "done" ELSE q[2]
  BY <1>1, <1>2
<1>5. t # <<>> => Head(t) = q[2]
  <2>1. t # <<>> => Head(t) = t[1] /\ 1 \in 1..Len(q) - 1
    BY <1>1
  <2> QED BY <1>1, <2>1
<1>6. First(t) = After(d, short, Head(q))
  BY <1>1, <1>4, <1>5 DEF First
<1> QED BY <1>1, <1>3, <1>6 DEF First, t

LEMMA FirstIsARequest ==
  ASSUME NEW q \in Seq(Kinds)
  PROVE  First(q) \in Kinds \cup {"done"}
BY DEF First

(***************************************************************************)
(* A packet is sent, a packet is taken.                                    *)
(***************************************************************************)
LEMMA OneIsLeft ==
  ASSUME NEW n \in Nat, n >= 1, n <= 2, n # 2
  PROVE  n = 1
OBVIOUS

LEMMA NoPackets ==
  ASSUME NEW S
  PROVE  <<>> \in Seq(S) /\ Packets(<<>>) = {}
BY DEF Packets

LEMMA PacketsAppend ==
  ASSUME NEW S, NEW q \in Seq(S), NEW e \in S
  PROVE  /\ Append(q, e) \in Seq(S)
         /\ Packets(Append(q, e)) = Packets(q) \cup {e}
<1>1. /\ Len(Append(q, e)) = Len(q) + 1 /\ Len(q) \in Nat
      /\ Append(q, e)[Len(q) + 1] = e
      /\ \A i \in 1..Len(q) : Append(q, e)[i] = q[i]
  OBVIOUS
<1> QED BY <1>1 DEF Packets

\* A packet of a class of which there is none may be sent.
LEMMA OneOfEachAppend ==
  ASSUME NEW S, NEW q \in Seq(S), NEW e \in S, OneOfEach(q),
         \A p \in Packets(q) : Class(p.kind) # Class(e.kind)
  PROVE  OneOfEach(Append(q, e))
<1>1. /\ Len(Append(q, e)) = Len(q) + 1 /\ Len(q) \in Nat
      /\ Append(q, e)[Len(q) + 1] = e
      /\ \A i \in 1..Len(q) : Append(q, e)[i] = q[i]
  OBVIOUS
<1>2. \A i \in 1..Len(q) : Class(q[i].kind) # Class(e.kind)
  BY DEF Packets
<1> QED BY <1>1, <1>2 DEF OneOfEach

\* When a packet has been taken, there is none of its class.
LEMMA PacketsTail ==
  ASSUME NEW S, NEW q \in Seq(S), q # <<>>, OneOfEach(q)
  PROVE  /\ Head(q) \in Packets(q) /\ Head(q) \in S
         /\ Tail(q) \in Seq(S)
         /\ OneOfEach(Tail(q))
         /\ \A p \in Packets(Tail(q)) :
              p \in Packets(q) /\ Class(p.kind) # Class(Head(q).kind)
<1>1. /\ Len(q) \in Nat /\ Len(q) > 0 /\ Head(q) = q[1] /\ Head(q) \in S
      /\ Len(Tail(q)) = Len(q) - 1 /\ Tail(q) \in Seq(S)
      /\ \A i \in 1..Len(q) - 1 : Tail(q)[i] = q[i + 1]
  OBVIOUS
<1>2. Head(q) \in Packets(q)
  BY <1>1 DEF Packets
<1>3. OneOfEach(Tail(q))
  BY <1>1 DEF OneOfEach
<1>4. ASSUME NEW p \in Packets(Tail(q))
      PROVE  p \in Packets(q) /\ Class(p.kind) # Class(Head(q).kind)
  <2>1. PICK i \in 1..Len(q) - 1 : p = q[i + 1]
    BY <1>1 DEF Packets
  <2>2. i + 1 \in 1..Len(q) /\ i + 1 # 1 /\ 1 \in 1..Len(q)
    BY <1>1
  <2> QED BY <2>1, <2>2, <1>1 DEF Packets, OneOfEach
<1> QED BY <1>1, <1>2, <1>3, <1>4

\* There are three classes.
LEMMA AtMostThree ==
  ASSUME NEW S, NEW q \in Seq(S), OneOfEach(q)
  PROVE  Len(q) <= 3
<1>1. \A k : Class(k) \in {"request", "marker", "descriptor"}
  BY DEF Class, IsRequest
<1>2. Len(q) \in Nat
  OBVIOUS
<1>3. SUFFICES ASSUME Len(q) >= 4 PROVE FALSE
  BY <1>2
<1>4. 1 \in 1..Len(q) /\ 2 \in 1..Len(q) /\ 3 \in 1..Len(q) /\ 4 \in 1..Len(q)
  BY <1>2, <1>3
<1>5. /\ Class(q[1].kind) # Class(q[2].kind) /\ Class(q[1].kind) # Class(q[3].kind)
      /\ Class(q[1].kind) # Class(q[4].kind) /\ Class(q[2].kind) # Class(q[3].kind)
      /\ Class(q[2].kind) # Class(q[4].kind) /\ Class(q[3].kind) # Class(q[4].kind)
  BY <1>4 DEF OneOfEach
<1> HIDE DEF Class
<1> QED BY <1>1, <1>5

\* The replies when the first has been read.
LEMMA FirstReply ==
  ASSUME NEW S, NEW q \in Seq(S)
  PROVE  /\ Len(q) \in Nat
         /\ q # <<>> => /\ Len(q) >= 1 /\ q[1] = Head(q) /\ Head(q) \in Packets(q)
                        /\ Tail(q) \in Seq(S)
                        /\ Packets(Tail(q)) \subseteq Packets(q)
                        /\ Len(Tail(q)) = Len(q) - 1
                        /\ Len(q) = 1 => Tail(q) = <<>>
                        /\ Len(q) = 2 => Tail(q) # <<>> /\ Tail(q)[1] = q[2]
<1>1. CASE q = <<>>
  BY <1>1
<1>2. CASE q # <<>>
  <2>1. /\ Len(q) \in Nat /\ Len(q) >= 1 /\ q[1] = Head(q) /\ Tail(q) \in Seq(S)
        /\ Len(Tail(q)) = Len(q) - 1
        /\ \A i \in 1..Len(q) - 1 : Tail(q)[i] = q[i + 1]
        /\ (Tail(q) = <<>>) <=> (Len(q) = 1)
    BY <1>2, TailFacts
  <2>2. Packets(Tail(q)) \subseteq Packets(q)
    BY <2>1 DEF Packets
  <2>3. Head(q) \in Packets(q)
    BY <2>1 DEF Packets
  <2> QED BY <2>1, <2>2, <2>3
<1> QED BY <1>1, <1>2

-----------------------------------------------------------------------------
(***************************************************************************)
(* What a step leaves alone.                                               *)
(***************************************************************************)
\* The client's driver, user and descriptor and the configuration stay.
LEMMA SameClient ==
  ASSUME UNCHANGED client
  PROVE  /\ driver' = driver /\ offers' = offers /\ inline' = inline /\ config' = config
         /\ Rightful' = Rightful
         /\ Knows' <=> Knows
         /\ UpPackets' = UpPackets
         /\ \A k : Body(k)' = Body(k)
<1>1. driver' = driver /\ offers' = offers /\ inline' = inline /\ config' = config
  BY DEF client
<1>2. Rightful' = Rightful
  BY <1>1 DEF Rightful
<1>3. Knows' <=> Knows
  BY <1>1, <1>2 DEF Knows
<1>4. \A k : Body(k)' = Body(k)
  BY <1>1 DEF Body
<1>5. \A c : Proof(c)' = Proof(c)
  BY <1>1 DEF Proof
<1>6. UpPackets' = UpPackets
  BY <1>4, <1>5 DEF UpPackets
<1> QED BY <1>1, <1>2, <1>3, <1>4, <1>6

\* What has been negotiated stays.
LEMMA SameProfile ==
  ASSUME UNCHANGED client, UNCHANGED profile
  PROVE  /\ did_na' = did_na /\ accepted' = accepted /\ caps' = caps
         /\ oci_dialect' = oci_dialect
         /\ PastDataTypes' <=> PastDataTypes
         /\ \A k : Ready(k)' <=> Ready(k)
         /\ Verifier' = Verifier /\ ErrorShape' = ErrorShape
<1>1. /\ did_na' = did_na /\ accepted' = accepted /\ caps' = caps
      /\ oci_dialect' = oci_dialect
  BY DEF profile
<1>2. driver' = driver /\ config' = config
  BY SameClient
<1>3. /\ PastNa' <=> PastNa
      /\ PastProtocol' <=> PastProtocol
      /\ PastDataTypes' <=> PastDataTypes
  BY <1>1, <1>2 DEF PastNa, PastProtocol, PastDataTypes
<1>4. \A k : Ready(k)' <=> Ready(k)
  BY <1>2, <1>3 DEF Ready
<1>5. Verifier' = Verifier /\ ErrorShape' = ErrorShape
  BY <1>1, <1>2 DEF Verifier, ErrorShape
<1> QED BY <1>1, <1>3, <1>4, <1>5

\* The challenge stays.
LEMMA SameChallenge ==
  ASSUME UNCHANGED client, UNCHANGED profile, stored' = stored
  PROVE  Issued' = Issued /\ Proof(Issued)' = Proof(Issued)
<1>1. Verifier' = Verifier
  BY SameProfile
<1>2. Issued' = Issued
  BY <1>1 DEF Issued
<1>3. driver' = driver /\ offers' = offers
  BY SameClient
<1> QED BY <1>2, <1>3 DEF Proof

\* What is issued is a challenge.
LEMMA AChallenge ==
  ASSUME NEW p \in Passwords \cup {None}, NEW v \in {"11g", "12c"}
  PROVE  [verifier |-> v, sesskey |-> Encrypt(PasswordHash(p, v), "server-half")] \in Challenges
<1>1. PasswordHash(p, v) \in (Passwords \cup {None}) \X {"11g", "12c"}
  BY DEF PasswordHash
<1>2. Encrypt(PasswordHash(p, v), "server-half")
        \in [key : (Passwords \cup {None}) \X {"11g", "12c"}, text : {"server-half"}]
  BY <1>1 DEF Encrypt
<1> QED BY <1>2 DEF Challenges

LEMMA IssuedIsAChallenge ==
  ASSUME stored \in Passwords \cup {None}, Verifier \in {"11g", "12c"}
  PROVE  Issued \in Challenges
BY AChallenge DEF Issued

\* A reply still fits when the server has closed the connection.
LEMMA SameShapes ==
  ASSUME UNCHANGED client, UNCHANGED profile, stored' = stored,
         NEW r, Shaped(r), server' = server \/ server' = "closed"
  PROVE  Shaped(r)'
BY SameClient, SameChallenge DEF Shaped

\* Type correctness after a step of a client that stays the same.
LEMMA TypesAgain ==
  ASSUME TypeInv, UNCHANGED client,
         server' \in Reading \cup {"backend", "serving", "closed"},
         up' \in Seq(UpPackets), down' \in Seq(DownPackets),
         did_na' \in BOOLEAN, oci_dialect' \in BOOLEAN, accepted' \in {"none", "5", "54321"},
         caps' \in {Caps(d) : d \in Drivers} \cup {NoCaps}, stored' \in Passwords \cup {None},
         wants' \in Seq(Kinds), awaits' \in (Kinds \ {"descriptor"}) \cup {"nothing"},
         told' \in {"connecting", "in", "refused", "lost", "gone"}
  PROVE  TypeInv'
<1>1. UpPackets' = UpPackets /\ DownPackets' = DownPackets
  BY SameClient DEF DownPackets
<1>2. up' \in Seq(UpPackets') /\ down' \in Seq(DownPackets')
  BY <1>1
<1>3. /\ driver' \in Drivers /\ inline' \in BOOLEAN
      /\ offers' \in [user : [name : Names, upper : BOOLEAN], password : Passwords \cup {None}]
      /\ config' \in [items : Configured, fallback : Passwords \cup {None},
                       version : {"11g", "19c"}, idle : BOOLEAN]
  BY SameClient DEF TypeInv
<1> QED BY <1>2, <1>3 DEF TypeInv

LEMMA SameTypes ==
  ASSUME TypeInv, UNCHANGED client, UNCHANGED profile, stored' = stored,
         server' \in Reading \cup {"backend", "serving", "closed"},
         up' \in Seq(UpPackets), down' \in Seq(DownPackets),
         wants' \in Seq(Kinds), awaits' \in (Kinds \ {"descriptor"}) \cup {"nothing"},
         told' \in {"connecting", "in", "refused", "lost", "gone"}
  PROVE  TypeInv'
<1>1. /\ did_na' \in BOOLEAN /\ oci_dialect' \in BOOLEAN
      /\ accepted' \in {"none", "5", "54321"}
      /\ caps' \in {Caps(d) : d \in Drivers} \cup {NoCaps}
      /\ stored' \in Passwords \cup {None}
  BY SameProfile DEF TypeInv
<1> QED BY <1>1, TypesAgain

\* Nothing is said of replies when there is none, or only the error of the backend.
LEMMA NoMoreReplies ==
  ASSUME down' = <<>>
  PROVE  DownInv'
BY DEF DownInv, Packets

LEMMA AnErrorIsLeft ==
  ASSUME UNCHANGED client, server' = "closed", down' # <<>>, Len(down') = 1,
         down'[1].kind = "error", told' \in {"connecting", "in"} => told' = "in",
         \A r \in Packets(down') : Shaped(r)'
  PROVE  DownInv'
<1>1. Live' => told' = "in"
  BY DEF Live
<1> QED BY <1>1 DEF DownInv

(***************************************************************************)
(* The client's steps.                                                     *)
(***************************************************************************)
\* A packet that is sent fits where the server is.
LEMMA PacketIsSent ==
  ASSUME Inv, UNCHANGED client, UNCHANGED profile, stored' = stored, told' = told,
         NEW e \in UpPackets, up' = Append(up, e),
         \A p \in Packets(up) : Class(p.kind) # Class(e.kind),
         e.kind # "auth2" => e.body = Body(e.kind),
         e.kind = "auth2" => e.body = Proof(Issued),
         IsRequest(e.kind) => Ready(e.kind) /\ awaits' = e.kind,
         awaits' = awaits \/ \A p \in Packets(up) : ~IsRequest(p.kind)
  PROVE  /\ up' \in Seq(UpPackets)
         /\ Packets(up') = Packets(up) \cup {e}
         /\ UpInv'
<1>1. UpInv /\ up \in Seq(UpPackets)
  BY DEF Inv, TypeInv
<1>2. /\ up' \in Seq(UpPackets) /\ Packets(up') = Packets(up) \cup {e}
      /\ OneOfEach(up')
  BY <1>1, PacketsAppend, OneOfEachAppend DEF UpInv
<1>3. Live' <=> Live
  BY DEF Live
<1>4. ASSUME NEW p \in Packets(up')
      PROVE  /\ p.kind # "auth2" => p.body = Body(p.kind)'
             /\ p.kind = "auth2" => p.body = Proof(Issued)'
             /\ IsRequest(p.kind) => Ready(p.kind)' /\ (Live' => p.kind = awaits')
  <2>1. CASE p = e
    BY <2>1, SameClient, SameProfile, SameChallenge
  <2>2. CASE p \in Packets(up)
    BY <1>1, <1>3, <2>2, SameClient, SameProfile, SameChallenge DEF UpInv
  <2> QED BY <1>2, <1>4, <2>1, <2>2
<1> QED BY <1>2, <1>4 DEF UpInv

\* Send preserves the invariant.
LEMMA SendStep ==
  ASSUME Inv, Send
  PROVE  Inv'
<1> DEFINE k == Head(wants)
           e == Packet(k, Body(k))
<1>1. /\ told \in {"connecting", "in"} /\ awaits = "nothing"
      /\ wants # <<>> /\ k # "auth2"
      /\ up' = Append(up, e)
      /\ wants' = Tail(wants)
      /\ awaits' = IF k = "descriptor" THEN "nothing" ELSE k
      /\ (down' = <<>> /\ server = "closed") \/ down' = down
      /\ UNCHANGED client /\ UNCHANGED profile
      /\ server' = server /\ stored' = stored /\ told' = told
  BY DEF Send
<1> HIDE DEF k
<1>2. Live /\ Live'
  BY <1>1 DEF Live
<1>3. TypeInv /\ ClientInv /\ UpInv /\ DownInv /\ ServerInv
  BY DEF Inv
<1>4. wants \in Seq(Kinds) /\ up \in Seq(UpPackets) /\ down \in Seq(DownPackets)
  BY <1>3 DEF TypeInv
<1>5. /\ k \in Kinds /\ First(wants) = k
      /\ wants' \in Seq(Kinds) /\ InOrder(driver, inline, wants')
      /\ First(wants') = After(driver, inline, k)
  BY <1>1, <1>2, <1>3, <1>4, NextRequest DEF ClientInv, k
<1>6. Ready(k)
  BY <1>1, <1>2, <1>3, <1>5 DEF ClientInv
<1>7. e \in UpPackets /\ e.kind = k /\ e.body = Body(k)
  BY <1>5 DEF UpPackets, Packet
<1>8. \A p \in Packets(up) : ~IsRequest(p.kind)
  <2> SUFFICES ASSUME NEW p \in Packets(up), IsRequest(p.kind) PROVE FALSE
    OBVIOUS
  <2>1. p.kind = awaits
    BY <1>2, <1>3 DEF UpInv
  <2>2. p \in UpPackets
    BY <1>4 DEF Packets
  <2> QED BY <1>1, <2>1, <2>2 DEF UpPackets, Kinds
<1>9. \A p \in Packets(up) : Class(p.kind) # Class(k)
  <2>1. k = "descriptor" => \A p \in Packets(up) : p.kind # "descriptor"
    BY <1>2, <1>3, <1>5 DEF ClientInv
  <2> QED BY <1>5, <1>8, <2>1 DEF Class, IsRequest, Kinds
<1>10. /\ up' \in Seq(UpPackets) /\ Packets(up') = Packets(up) \cup {e}
       /\ UpInv'
  BY <1>1, <1>6, <1>7, <1>8, <1>9, PacketIsSent DEF IsRequest
<1> HIDE DEF e
<1>11. TypeInv'
  <2>1. awaits' \in (Kinds \ {"descriptor"}) \cup {"nothing"}
    BY <1>1, <1>5
  <2>2. down' \in Seq(DownPackets)
    BY <1>1, <1>4, NoPackets
  <2>3. /\ server' \in Reading \cup {"backend", "serving", "closed"}
        /\ told' \in {"connecting", "in", "refused", "lost", "gone"}
    BY <1>1, <1>3 DEF TypeInv
  <2> QED BY <1>1, <1>3, <1>5, <1>10, <2>1, <2>2, <2>3, SameTypes
<1>12. ClientInv'
  <2>1. InOrder(driver, inline, wants)'
    BY <1>1, <1>5, SameClient
  <2>2. awaits' # "nothing" => First(wants)' = After(driver, inline, awaits)'
    BY <1>1, <1>5, SameClient
  <2>3. awaits' = "nothing" => Ready(First(wants))' /\ First(wants)' # "auth2"
    BY <1>1, <1>3, <1>5, SameProfile, SameClient DEF Ready, After, ServerInv, PastNa, TypeInv
  <2>4. (told = "in")' <=>
          (awaits = "call" \/ (awaits = "nothing" /\ First(wants) \in {"call", "done"}))'
    BY <1>1, <1>2, <1>3, <1>5 DEF ClientInv, After, Kinds
  <2>5. First(wants)' \in {"connect", "descriptor"} =>
          \A p \in Packets(up)' : p.kind # "descriptor"
    BY <1>2, <1>3, <1>5, <1>7, <1>10 DEF ClientInv, After
  <2>6. told' = "in" => Knows'
    BY <1>1, <1>3, SameClient DEF ClientInv
  <2> QED BY <1>1, <1>2, <2>1, <2>2, <2>3, <2>4, <2>5, <2>6 DEF ClientInv
<1>13. DownInv'
  <2>1. CASE down' = <<>>
    BY <2>1, NoMoreReplies
  <2>2. CASE down' = down /\ down # <<>>
    <3>1. server = "closed" /\ down[1].kind = "error" /\ told = "in"
      BY <1>1, <1>2, <1>3, <2>2 DEF DownInv
    <3>2. Len(down) = 1
      <4>1. Len(down) \in Nat /\ Len(down) >= 1
        BY <1>4, <2>2, FirstReply
      <4>2. Len(down) <= 2 /\ Len(down) # 2
        BY <1>3, <3>1 DEF DownInv
      <4> QED BY <4>1, <4>2, OneIsLeft
    <3>3. \A r \in Packets(down) : Shaped(r)'
      BY <1>1, <1>3, SameShapes DEF DownInv
    <3>4. \A r \in Packets(down') : Shaped(r)'
      BY <2>2, <3>3
    <3>5. /\ server' = "closed" /\ down' # <<>> /\ Len(down') = 1 /\ down'[1].kind = "error"
          /\ told' = "in" /\ UNCHANGED client
      BY <1>1, <2>2, <3>1, <3>2
    <3> QED BY <3>4, <3>5, AnErrorIsLeft
  <2> QED BY <1>1, <2>1, <2>2
<1>14. ServerInv'
  <2>1. server \in {"backend", "serving"} => told = "in"
    BY <1>1, <1>2, <1>3 DEF ServerInv
  <2> QED BY <1>1, <1>3, <2>1, SameClient, SameProfile DEF ServerInv, PastDataTypes
<1> QED BY <1>10, <1>11, <1>12, <1>13, <1>14 DEF Inv

LEMMA UnsaidRequests ==
  ASSUME Inv, Live, awaits # "nothing", down # <<>>, down[1].kind # "error"
  PROVE  \A p \in Packets(up) : ~IsRequest(p.kind)
BY DEF Inv, DownInv, Asked

LEMMA ReplyIsRead ==
  ASSUME Inv, down # <<>>, down' = Tail(down),
         UNCHANGED client, UNCHANGED profile, stored' = stored, server' = server,
         down[1].kind = "auth2" => told' = "in"
  PROVE  DownInv'
<1>1. DownInv /\ down \in Seq(DownPackets)
  BY DEF Inv, TypeInv
<1>2. Len(down) \in Nat /\ Len(down) >= 1 /\ Len(down) <= 2
  BY <1>1, FirstReply DEF DownInv
<1>3. CASE Len(down) = 1
  <2>1. down' = <<>>
    BY <1>1, <1>3, FirstReply
  <2> QED BY <2>1, NoMoreReplies
<1>4. CASE Len(down) = 2
  <2>1. server = "closed" /\ told' = "in" /\ down[2].kind = "error"
    BY <1>1, <1>4 DEF DownInv
  <2>2. /\ down' # <<>> /\ down'[1] = down[2] /\ Packets(down') \subseteq Packets(down)
        /\ Len(down') = Len(down) - 1
    BY <1>1, <1>4, FirstReply
  <2>3. Len(down') = 1
    BY <1>4, <2>2
  <2>4. \A r \in Packets(down) : Shaped(r)'
    BY <1>1, SameShapes DEF DownInv
  <2>5. \A r \in Packets(down') : Shaped(r)'
    BY <2>2, <2>4
  <2> QED BY <2>1, <2>2, <2>3, <2>5, AnErrorIsLeft
<1>5. Len(down) = 1 \/ Len(down) = 2
  BY <1>2, OneIsLeft
<1> QED BY <1>3, <1>4, <1>5

LEMMA Leaves ==
  ASSUME Inv, UNCHANGED client, UNCHANGED profile, stored' = stored, server' = server,
         up' = up, awaits' = "nothing", wants' = <<>>, told' \in {"gone", "lost", "refused"},
         down' \in Seq(DownPackets), DownInv', server = "closed" \/ down' = down,
         told' = "refused" => ~Knows
  PROVE  Inv'
<1>1. TypeInv /\ ClientInv /\ UpInv /\ ServerInv
  BY DEF Inv
<1>2. ~Live'
  BY DEF Live
<1>3. TypeInv'
  <2>1. /\ server' \in Reading \cup {"backend", "serving", "closed"}
        /\ up' \in Seq(UpPackets)
    BY <1>1 DEF TypeInv
  <2>2. wants' \in Seq(Kinds)
    BY NoPackets
  <2> QED BY <1>1, <2>1, <2>2, SameTypes
<1>4. ClientInv'
  BY <1>2, SameClient DEF ClientInv, Live
<1>5. UpInv'
  <2>1. ASSUME NEW p \in Packets(up)
        PROVE  /\ p.kind # "auth2" => p.body = Body(p.kind)'
               /\ p.kind = "auth2" => p.body = Proof(Issued)'
               /\ IsRequest(p.kind) => Ready(p.kind)'
    BY <1>1, SameClient, SameProfile, SameChallenge DEF UpInv
  <2> QED BY <1>1, <1>2, <2>1 DEF UpInv
<1>6. ServerInv'
  BY <1>1, <1>2, SameClient, SameProfile DEF ServerInv
<1> QED BY <1>3, <1>4, <1>5, <1>6 DEF Inv

LEMMA Disappears ==
  ASSUME Inv, UNCHANGED <<client, up, down, server, profile, stored>>,
         awaits' = "nothing", wants' = <<>>, told' \in {"gone", "lost"}
  PROVE  Inv'
<1>1. /\ UNCHANGED client /\ UNCHANGED profile
      /\ stored' = stored /\ server' = server /\ up' = up /\ down' = down
  OBVIOUS
<1>2. ~Live'
  BY DEF Live
<1>3. DownInv /\ down \in Seq(DownPackets)
  BY DEF Inv, TypeInv
<1>4. \A r \in Packets(down) : Shaped(r)'
  BY <1>1, <1>3, SameShapes DEF DownInv
<1>5. DownInv'
  <2>1. \A r \in Packets(down') : Shaped(r)'
    BY <1>1, <1>4
  <2>2. Asked' <=> Asked
    BY <1>1 DEF Asked
  <2> QED BY <1>1, <1>2, <1>3, <2>1, <2>2 DEF DownInv
<1> QED BY <1>1, <1>3, <1>5, Leaves

LEMMA VanishStep == ASSUME Inv, Vanish PROVE Inv'
BY Disappears DEF Vanish

LEMMA FindsClosedStep == ASSUME Inv, FindsClosed PROVE Inv'
BY Disappears DEF FindsClosed

LEMMA ReceiveStep ==
  ASSUME Inv, Receive
  PROVE  Inv'
<1> DEFINE r == Head(down)
<1>1. /\ Live /\ awaits # "nothing" /\ down # <<>> /\ down' = Tail(down)
      /\ UNCHANGED client /\ UNCHANGED profile
      /\ server' = server /\ stored' = stored
  BY DEF Receive, Live
<1>2. TypeInv /\ ClientInv /\ UpInv /\ DownInv /\ ServerInv
  BY DEF Inv
<1>3. /\ wants \in Seq(Kinds) /\ up \in Seq(UpPackets) /\ down \in Seq(DownPackets)
      /\ server' \in Reading \cup {"backend", "serving", "closed"}
      /\ awaits \in Kinds
  BY <1>1, <1>2 DEF TypeInv
<1>4. /\ r = down[1] /\ r \in Packets(down) /\ down' \in Seq(DownPackets)
      /\ Len(down) \in Nat /\ Len(down) >= 1
  BY <1>1, <1>3, FirstReply
<1>5. Shaped(r)
  BY <1>2, <1>4 DEF DownInv
<1>6. CASE r.kind = "error"
  <2>1. /\ awaits' = "nothing" /\ wants' = <<>> /\ up' = up
        /\ told' = IF awaits = "call" THEN "lost" ELSE "refused"
    BY <1>6 DEF Receive
  <2>2. DownInv'
    BY <1>1, <1>4, <1>6, ReplyIsRead
  <2>3. told' = "refused" => ~Knows
    <3>1. told = "in" => awaits = "call"
      BY <1>1, <1>2 DEF ClientInv
    <3> QED BY <1>1, <1>2, <1>4, <1>6, <2>1, <3>1 DEF DownInv
  <2>4. server = "closed"
    BY <1>5, <1>6 DEF Shaped
  <2> QED BY <1>1, <1>4, <2>1, <2>2, <2>3, <2>4, Leaves
<1>7. ASSUME r.kind # "error"
      PROVE  /\ \A p \in Packets(up) : ~IsRequest(p.kind)
             /\ Ready(First(wants)) /\ First(wants) = After(driver, inline, awaits)
             /\ \/ awaits = "connect" /\ r.kind \in {"resend", "accept"}
                \/ awaits = r.kind /\ awaits \in Answered
             /\ told = "connecting"
             /\ server \in {"backend", "serving"} => r.kind = "auth2"
  <2>1. /\ Ready(First(wants))
        /\ \/ awaits = "connect" /\ r.kind \in {"resend", "accept"}
           \/ awaits = r.kind /\ awaits \in Answered
    BY <1>1, <1>2, <1>4, <1>7 DEF DownInv
  <2>2. First(wants) = After(driver, inline, awaits) /\ (told = "in" <=> awaits = "call")
    BY <1>1, <1>2 DEF ClientInv
  <2>3. \A p \in Packets(up) : ~IsRequest(p.kind)
    BY <1>1, <1>4, <1>7, UnsaidRequests
  <2>4. told = "connecting"
    BY <1>1, <2>1, <2>2 DEF Live, Answered
  <2> QED BY <1>1, <1>2, <1>4, <2>1, <2>2, <2>3, <2>4 DEF ServerInv
<1>8. CASE r.kind = "resend"
  <2> DEFINE e == Packet("connect", None)
  <2>1. /\ up' = Append(up, e) /\ wants' = wants /\ awaits' = awaits /\ told' = told
    BY <1>8 DEF Receive, progress
  <2>2. awaits = "connect"
    BY <1>7, <1>8 DEF Answered
  <2>3. e \in UpPackets /\ e.kind = "connect" /\ e.body = Body("connect")
    BY DEF UpPackets, Packet, Body, Kinds
  <2>4. \A p \in Packets(up) : Class(p.kind) # Class("connect")
    BY <1>7, <1>8 DEF Class, IsRequest
  <2>5. Ready("connect")
    BY DEF Ready
  <2>6. up' \in Seq(UpPackets) /\ Packets(up') = Packets(up) \cup {e} /\ UpInv'
    BY <1>1, <2>1, <2>2, <2>3, <2>4, <2>5, PacketIsSent
  <2> HIDE DEF e
  <2>7. TypeInv'
    <3>1. /\ wants' \in Seq(Kinds) /\ awaits' \in (Kinds \ {"descriptor"}) \cup {"nothing"}
          /\ told' \in {"connecting", "in", "refused", "lost", "gone"}
      BY <1>2, <2>1 DEF TypeInv
    <3> QED BY <1>1, <1>2, <1>3, <1>4, <2>6, <3>1, SameTypes
  <2>8. ClientInv'
    <3>1. InOrder(driver, inline, wants)' /\ First(wants)' = After(driver, inline, awaits)'
      BY <1>1, <1>2, <1>7, <1>8, <2>1, SameClient DEF ClientInv
    <3>2. First(wants)' \in {"connect", "descriptor"} =>
            \A p \in Packets(up)' : p.kind # "descriptor"
      BY <1>1, <1>2, <2>1, <2>3, <2>6 DEF ClientInv
    <3>3. told' = "connecting" /\ Live' /\ awaits' = "connect"
      BY <1>7, <1>8, <2>1, <2>2 DEF Live
    <3> QED BY <3>1, <3>2, <3>3 DEF ClientInv
  <2>9. DownInv'
    BY <1>1, <1>4, <1>8, ReplyIsRead
  <2>10. ServerInv'
    BY <1>1, <1>2, <1>7, <1>8, SameClient, SameProfile DEF ServerInv
  <2> QED BY <2>6, <2>7, <2>8, <2>9, <2>10 DEF Inv
<1>9. CASE r.kind = "auth1"
  <2> DEFINE e == Packet("auth2", Proof(r.body))
  <2>1. /\ up' = Append(up, e) /\ wants' = Tail(wants) /\ awaits' = "auth2" /\ told' = told
    BY <1>9 DEF Receive
  <2>2. awaits = "auth1" /\ First(wants) = "auth2" /\ wants # <<>>
    BY <1>7, <1>9 DEF After, First
  <2>3. /\ wants' \in Seq(Kinds) /\ InOrder(driver, inline, wants')
        /\ First(wants') = "call"
    <3>1. InOrder(driver, inline, wants)
      BY <1>1, <1>2 DEF ClientInv
    <3>2. Head(wants) = "auth2"
      BY <2>2 DEF First
    <3>3. After(driver, inline, "auth2") = "call"
      BY DEF After
    <3>4. /\ Tail(wants) \in Seq(Kinds) /\ InOrder(driver, inline, Tail(wants))
          /\ First(Tail(wants)) = After(driver, inline, Head(wants))
      BY <1>3, <2>2, <3>1, NextRequest
    <3> QED BY <2>1, <3>2, <3>3, <3>4
  <2>4. /\ r.body = Issued /\ r.body \in Challenges
    <3>1. r.body = Issued
      BY <1>5, <1>9 DEF Shaped
    <3>2. stored \in Passwords \cup {None} /\ Verifier \in {"11g", "12c"}
      BY <1>2 DEF TypeInv, Verifier
    <3> QED BY <3>1, <3>2, IssuedIsAChallenge
  <2>5. e \in UpPackets /\ e.kind = "auth2" /\ e.body = Proof(Issued)
    BY <2>4 DEF UpPackets, Packet, Kinds
  <2>6. \A p \in Packets(up) : Class(p.kind) # Class("auth2")
    BY <1>7, <1>9 DEF Class, IsRequest
  <2>7. up' \in Seq(UpPackets) /\ Packets(up') = Packets(up) \cup {e} /\ UpInv'
    BY <1>1, <1>7, <1>9, <2>1, <2>2, <2>5, <2>6, PacketIsSent
  <2> HIDE DEF e
  <2>8. TypeInv'
    <3>1. /\ awaits' \in (Kinds \ {"descriptor"}) \cup {"nothing"}
          /\ told' \in {"connecting", "in", "refused", "lost", "gone"}
      BY <1>7, <1>9, <2>1 DEF Kinds
    <3> QED BY <1>1, <1>2, <1>3, <1>4, <2>3, <2>7, <3>1, SameTypes
  <2>9. ClientInv'
    <3>1. InOrder(driver, inline, wants)' /\ First(wants)' = After(driver, inline, awaits)'
      BY <1>1, <2>1, <2>3, SameClient DEF After
    <3>2. told' = "connecting" /\ Live' /\ awaits' = "auth2" /\ First(wants)' = "call"
      BY <1>7, <1>9, <2>1, <2>3 DEF Live
    <3> QED BY <3>1, <3>2 DEF ClientInv
  <2>10. DownInv'
    BY <1>1, <1>4, <1>9, ReplyIsRead
  <2>11. ServerInv'
    BY <1>1, <1>2, <1>7, <1>9, SameClient, SameProfile DEF ServerInv
  <2> QED BY <2>7, <2>8, <2>9, <2>10, <2>11 DEF Inv
<1>10. CASE r.kind \notin {"error", "resend", "auth1"}
  <2>1. /\ awaits' = "nothing" /\ up' = up /\ wants' = wants
        /\ told' = IF r.kind = "auth2" THEN "in" ELSE told
    BY <1>10 DEF Receive
  <2>2. /\ awaits \in {"connect", "na", "protocol", "datatypes", "auth2"}
        /\ r.kind = "auth2" <=> awaits = "auth2"
    BY <1>7, <1>10 DEF Answered
  <2>3. Live' /\ told' \in {"connecting", "in"}
    BY <1>7, <1>10, <2>1 DEF Live
  <2>4. TypeInv'
    <3>1. up' \in Seq(UpPackets) /\ wants' \in Seq(Kinds)
      BY <1>3, <2>1
    <3> QED BY <1>1, <1>2, <1>3, <1>4, <2>1, <2>3, <3>1, SameTypes
  <2>5. ClientInv'
    <3>1. InOrder(driver, inline, wants)'
      BY <1>1, <1>2, <2>1, SameClient DEF ClientInv
    <3>2. Ready(First(wants))'
      BY <1>1, <1>7, <1>10, <2>1, SameProfile
    <3>3. /\ First(wants)' # "auth2"
          /\ First(wants)' \in {"call", "done"} <=> awaits = "auth2"
      BY <1>7, <1>10, <2>1, <2>2 DEF After
    <3>4. told' = "in" <=> awaits = "auth2"
      BY <1>7, <1>10, <2>1, <2>2
    <3>5. First(wants)' \in {"connect", "descriptor"} =>
            \A p \in Packets(up)' : p.kind # "descriptor"
      BY <1>1, <1>2, <2>1 DEF ClientInv
    <3>6. told' = "in" => Knows'
      BY <1>1, <1>5, <2>2, <3>4, SameClient DEF Shaped
    <3> QED BY <2>1, <2>3, <3>1, <3>2, <3>3, <3>4, <3>5, <3>6 DEF ClientInv
  <2>6. UpInv'
    <3>1. ASSUME NEW p \in Packets(up)
          PROVE  /\ p.kind # "auth2" => p.body = Body(p.kind)'
                 /\ ~IsRequest(p.kind)
      BY <1>1, <1>2, <1>7, <1>10, SameClient DEF UpInv
    <3>2. IsRequest("auth2")
      BY DEF IsRequest
    <3> QED BY <1>2, <2>1, <3>1, <3>2 DEF UpInv
  <2>7. DownInv'
    <3>1. down[1].kind = "auth2" => told' = "in"
      BY <1>4, <2>1
    <3> QED BY <1>1, <3>1, ReplyIsRead
  <2>8. ServerInv'
    <3>1. server \in {"backend", "serving"} => r.kind = "auth2" /\ down' = <<>>
      <4>1. server \in {"backend", "serving"} => Len(down) # 2 /\ Len(down) <= 2
        BY <1>2 DEF DownInv
      <4>2. Len(down) # 2 /\ Len(down) <= 2 => Len(down) = 1
        BY <1>4, OneIsLeft
      <4>3. Len(down) = 1 => down' = <<>>
        BY <1>1, <1>3, FirstReply
      <4> QED BY <1>7, <1>10, <4>1, <4>2, <4>3
    <3>2. server \in {"backend", "serving"} => told' = "in"
      BY <2>1, <3>1
    <3> QED BY <1>1, <1>2, <3>1, <3>2, SameClient, SameProfile DEF ServerInv
  <2> QED BY <2>4, <2>5, <2>6, <2>7, <2>8 DEF Inv
<1> QED BY <1>6, <1>8, <1>9, <1>10

LEMMA InterruptStep ==
  ASSUME Inv, Interrupt
  PROVE  Inv'
<1> DEFINE e == Packet("marker", None)
<1>1. /\ told = "connecting" /\ awaits # "nothing"
      /\ \A i \in 1..Len(up) : up[i].kind # "marker"
      /\ up' = Append(up, e)
      /\ UNCHANGED client /\ UNCHANGED profile
      /\ down' = down /\ server' = server /\ stored' = stored
      /\ wants' = wants /\ awaits' = awaits /\ told' = told
  BY DEF Interrupt, progress
<1>2. TypeInv /\ ClientInv /\ UpInv /\ DownInv /\ ServerInv
  BY DEF Inv
<1>3. e \in UpPackets /\ e.kind = "marker" /\ e.body = Body("marker") /\ ~IsRequest("marker")
  BY DEF UpPackets, Packet, Body, IsRequest
<1>4. \A p \in Packets(up) : Class(p.kind) # Class("marker")
  BY <1>1 DEF Packets, Class, IsRequest
<1>5. up' \in Seq(UpPackets) /\ Packets(up') = Packets(up) \cup {e} /\ UpInv'
  BY <1>1, <1>2, <1>3, <1>4, PacketIsSent
<1> HIDE DEF e
<1>6. TypeInv'
  <2>1. /\ server' \in Reading \cup {"backend", "serving", "closed"}
        /\ down' \in Seq(DownPackets) /\ wants' \in Seq(Kinds)
        /\ awaits' \in (Kinds \ {"descriptor"}) \cup {"nothing"}
        /\ told' \in {"connecting", "in", "refused", "lost", "gone"}
    BY <1>1, <1>2 DEF TypeInv
  <2> QED BY <1>1, <1>2, <1>5, <2>1, SameTypes
<1>7. Live /\ Live'
  BY <1>1 DEF Live
<1>8. ClientInv'
  <2>1. InOrder(driver, inline, wants)' /\ First(wants)' = After(driver, inline, awaits)'
    BY <1>1, <1>2, <1>7, SameClient DEF ClientInv
  <2>2. First(wants)' \in {"connect", "descriptor"} =>
          \A p \in Packets(up)' : p.kind # "descriptor"
    BY <1>1, <1>2, <1>3, <1>5, <1>7 DEF ClientInv
  <2>3. awaits # "call"
    BY <1>1, <1>2, <1>7 DEF ClientInv
  <2> QED BY <1>1, <1>7, <2>1, <2>2, <2>3 DEF ClientInv
<1>9. DownInv'
  <2>1. \A r \in Packets(down) : Shaped(r)'
    BY <1>1, <1>2, SameShapes DEF DownInv
  <2>2. Asked' => Asked
    BY <1>3, <1>5 DEF Asked
  <2>3. Ready(First(wants))' <=> Ready(First(wants))
    BY <1>1, SameProfile
  <2>4. \A r \in Packets(down') : Shaped(r)'
    BY <1>1, <2>1
  <2> QED BY <1>1, <1>2, <1>7, <2>2, <2>3, <2>4, SameClient DEF DownInv
<1>10. ServerInv'
  BY <1>1, <1>2, <1>7, SameClient, SameProfile DEF ServerInv
<1> QED BY <1>5, <1>6, <1>8, <1>9, <1>10 DEF Inv

(***************************************************************************)
(* The server's steps.                                                     *)
(***************************************************************************)
\* A first reply, and one on top of it.
LEMMA OneReply ==
  ASSUME NEW r
  PROVE  /\ Append(<<>>, r) = <<r>> /\ <<r>> # <<>> /\ Len(<<r>>) = 1 /\ <<r>>[1] = r
         /\ Packets(<<r>>) = {r}
BY DEF Packets

LEMMA TwoReplies ==
  ASSUME NEW S, NEW q \in Seq(S), Len(q) = 1, NEW r \in S
  PROVE  Len(Append(q, r)) = 2 /\ Append(q, r) # <<>> /\ Append(q, r)[1] = q[1]
         /\ Append(q, r)[2] = r
<1> DEFINE a == Append(q, r)
<1>1. a \in Seq(S) /\ Len(a) = Len(q) + 1 /\ a[Len(q) + 1] = r /\ \A i \in 1..Len(q) : a[i] = q[i]
  OBVIOUS
<1> HIDE DEF a
<1>2. Len(a) = 2 /\ a[2] = r /\ a[1] = q[1]
  BY <1>1
<1>3. a # <<>>
  BY <1>1, <1>2
<1> QED BY <1>2, <1>3 DEF a

\* A request that is read finds the server ready and no reply on its way.
LEMMA RequestIsTaken ==
  ASSUME Inv, NEW k, Takes(k), IsRequest(k), k # "call", server # "closed"
  PROVE  /\ down = <<>>
         /\ Head(up).kind = k
         /\ k # "auth2" => Head(up).body = Body(k)
         /\ k = "auth2" => Head(up).body = Proof(Issued)
         /\ Ready(k)
         /\ Live => awaits = k /\ told = "connecting"
         /\ up' \in Seq(UpPackets) /\ OneOfEach(up')
         /\ \A p \in Packets(up') : p \in Packets(up) /\ ~IsRequest(p.kind)
<1> DEFINE h == Head(up)
<1>1. up # <<>> /\ h.kind = k /\ up' = Tail(up)
  BY DEF Takes
<1>2. UpInv /\ ClientInv /\ DownInv /\ up \in Seq(UpPackets)
  BY DEF Inv, TypeInv
<1>3. /\ h \in Packets(up) /\ up' \in Seq(UpPackets) /\ OneOfEach(up')
      /\ \A p \in Packets(up') : p \in Packets(up) /\ Class(p.kind) # Class(k)
  BY <1>1, <1>2, PacketsTail DEF UpInv
<1> HIDE DEF h
<1>4. Asked
  BY <1>1, <1>3 DEF Asked
<1>5. down = <<>>
  BY <1>2, <1>4 DEF DownInv
<1>6. /\ k # "auth2" => h.body = Body(k)
      /\ k = "auth2" => h.body = Proof(Issued)
      /\ Ready(k) /\ (Live => awaits = k)
  BY <1>1, <1>2, <1>3 DEF UpInv
<1>7. Live => told = "connecting"
  <2>1. k # "nothing"
    <3>1. h \in UpPackets
      BY <1>2, <1>3 DEF Packets
    <3> QED BY <1>1, <3>1 DEF UpPackets, Kinds
  <2> QED BY <1>2, <1>6, <2>1 DEF ClientInv, Live
<1>8. \A p \in Packets(up') : ~IsRequest(p.kind)
  BY <1>3 DEF Class
<1> QED BY <1>1, <1>3, <1>5, <1>6, <1>7, <1>8 DEF h

\* A request is read and answered: the client's part of the invariant.
LEMMA RequestIsAnswered ==
  ASSUME Inv, NEW k, Takes(k), IsRequest(k), k # "call", k # "nothing", server # "closed",
         UNCHANGED client, UNCHANGED progress,
         NEW r \in DownPackets, down' = Append(down, r), Shaped(r)',
         r.kind = "error" => ~Knows,
         r.kind # "error" =>
           /\ Ready(After(driver, inline, k))'
           /\ (k = "connect" /\ r.kind \in {"resend", "accept"}) \/ (k = r.kind /\ k \in Answered)
  PROVE  up' \in Seq(UpPackets) /\ down' \in Seq(DownPackets) /\ ClientInv' /\ UpInv' /\ DownInv'
<1>1. /\ down = <<>> /\ (Live => awaits = k /\ told = "connecting")
      /\ up' \in Seq(UpPackets) /\ OneOfEach(up')
      /\ \A p \in Packets(up') : p \in Packets(up) /\ ~IsRequest(p.kind)
  BY RequestIsTaken
<1>2. /\ down' = <<r>> /\ down' # <<>> /\ Len(down') = 1 /\ down'[1] = r
      /\ Packets(down') = {r}
  BY <1>1, OneReply
<1>3. wants' = wants /\ awaits' = awaits /\ told' = told
  BY DEF progress
<1>4. ClientInv /\ UpInv
  BY DEF Inv
<1>5. Live' <=> Live
  BY <1>3 DEF Live
<1>6. ClientInv'
  <2>1. Live => InOrder(driver, inline, wants)' /\ First(wants)' = After(driver, inline, awaits)'
    BY <1>1, <1>3, <1>4, SameClient DEF ClientInv
  <2>2. Live /\ First(wants) \in {"connect", "descriptor"} =>
          \A p \in Packets(up') : p.kind # "descriptor"
    BY <1>1, <1>4 DEF ClientInv
  <2>3. /\ ~Live => awaits = "nothing"
        /\ told' = "in" => Knows'
        /\ told' = "refused" => ~Knows'
    BY <1>3, <1>4, SameClient DEF ClientInv
  <2> QED BY <1>1, <1>3, <1>5, <2>1, <2>2, <2>3 DEF ClientInv
<1>7. UpInv'
  <2>1. ASSUME NEW p \in Packets(up')
        PROVE  /\ p.kind # "auth2" => p.body = Body(p.kind)'
               /\ p.kind # "auth2" /\ ~IsRequest(p.kind)
    BY <1>1, <1>4, SameClient DEF UpInv, IsRequest
  <2> QED BY <1>1, <2>1 DEF UpInv
<1>8. DownInv'
  <2>1. ~Asked'
    BY <1>1 DEF Asked
  <2>2. Live => First(wants)' = After(driver, inline, k)' /\ awaits' = k
    BY <1>1, <1>3, <1>4, SameClient DEF ClientInv
  <2>3. \A x \in Packets(down') : Shaped(x)'
    BY <1>2
  <2> QED BY <1>1, <1>2, <1>5, <2>1, <2>2, <2>3, SameClient DEF DownInv
<1>9. down' \in Seq(DownPackets)
  BY <1>1, NoPackets, PacketsAppend
<1> QED BY <1>1, <1>6, <1>7, <1>8, <1>9

LEMMA SameProgress ==
  ASSUME TypeInv, UNCHANGED progress
  PROVE  /\ wants' = wants /\ awaits' = awaits /\ told' = told
         /\ wants' \in Seq(Kinds) /\ awaits' \in (Kinds \ {"descriptor"}) \cup {"nothing"}
         /\ told' \in {"connecting", "in", "refused", "lost", "gone"}
BY DEF TypeInv, progress

\* The drivers are the five described.
LEMMA FiveDrivers ==
  ASSUME TypeInv
  PROVE  driver \in {"oci", "ojdbc", "odp", "thin", "oracle-rs"}
BY HandshakeAssumption DEF TypeInv

\* Once the capabilities are known, every reply has a shape this driver reads.
LEMMA DialectsFit ==
  ASSUME TypeInv, PastDataTypes
  PROVE  /\ ErrorShape = ReadsError(driver)
         /\ ChallengeShape \in Reads(driver, "auth1")
         /\ ProofShape \in Reads(driver, "auth2")
<1>1. /\ caps.oci1 = (driver = "oci")
      /\ caps.newer = (driver \in {"oci", "ojdbc", "odp"})
      /\ caps.backport = (driver # "oracle-rs")
  BY DEF PastDataTypes, Caps
<1>2. OciDialect(caps) <=> driver = "oci"
  BY <1>1 DEF OciDialect
<1>3. NewerDescribeFraming(caps) <=> driver \in {"ojdbc", "odp"}
  BY <1>1, <1>2 DEF NewerDescribeFraming
<1>4. WantsResponseCompletion(caps) <=> driver # "oracle-rs"
  BY <1>1, <1>2 DEF WantsResponseCompletion
<1>5. NoVersionList <=> driver = "odp"
  BY FiveDrivers DEF NoVersionList, NaWithoutVersionList, PastDataTypes, PastProtocol, PastNa,
     RunsNa, VersionList
<1>6. ErrorShape = ReadsError(driver)
  BY <1>2, <1>3, <1>4, FiveDrivers DEF ErrorShape, ReadsError
<1>7. Verifier \in {"11g", "12c"} /\ (Verifier = "11g" => driver \in {"thin", "oracle-rs"})
  BY <1>2, <1>3, FiveDrivers DEF Verifier
<1>8. ChallengeShape \in Reads(driver, "auth1")
  BY <1>2, <1>5, <1>7, FiveDrivers DEF ChallengeShape, Reads
<1>9. ProofShape \in Reads(driver, "auth2")
  BY <1>2, <1>5, FiveDrivers DEF ProofShape, Reads
<1> QED BY <1>6, <1>8, <1>9

\* What is written is a reply.
LEMMA AReplyPacket ==
  ASSUME NEW kind \in {"resend", "accept", "error"} \cup Answered, NEW shape \in Shapes,
         NEW body \in Challenges \cup {None},
         NEW r, r = [kind |-> kind, shape |-> shape, body |-> body]
  PROVE  r \in DownPackets /\ r.kind = kind /\ r.shape = shape /\ r.body = body
BY DEF DownPackets

LEMMA NeverProtocolBeforeNa ==
  ASSUME Inv
  PROVE  Ready(After(driver, inline, "connect")) /\ Ready(After(driver, inline, "descriptor"))
<1> DEFINE types == IF driver \in RunsNa THEN "na" ELSE "protocol"
<1>1. /\ After(driver, inline, "connect") \in {"descriptor", types}
      /\ After(driver, inline, "descriptor") = types
  BY DEF After
<1>2. Ready("descriptor")
  BY DEF Ready
<1>3. driver \notin RunsNa => PastNa
  BY DEF Inv, ServerInv, PastNa
<1>4. Ready(types)
  BY <1>3 DEF Ready
<1> QED BY <1>1, <1>2, <1>4

LEMMA ReadConnectStep ==
  ASSUME Inv, ReadConnect \/ ReadReconnect
  PROVE  Inv'
<1>0. PICK r : r = [kind |-> IF server' = "reconnect" THEN "resend" ELSE "accept",
                 shape |-> IF server' = "reconnect" THEN "resend" ELSE "accept", body |-> None]
  OBVIOUS
<1>1. /\ Takes("connect") /\ down' = Append(down, r)
      /\ server \in {"connect", "reconnect"} /\ server' \in {"reconnect", "negotiate"}
      /\ server' = "reconnect" => driver = "oci"
      /\ UNCHANGED client /\ UNCHANGED profile /\ UNCHANGED progress /\ stored' = stored
  BY <1>0 DEF ReadConnect, ReadReconnect, Accept, Replies
<1>2. TypeInv /\ ServerInv
  BY DEF Inv
<1>3. /\ r \in DownPackets /\ r.kind \in {"resend", "accept"} /\ r.shape = r.kind
      /\ r.kind = "resend" => driver = "oci"
  <2>1. CASE server' = "reconnect"
    <3>1. r = [kind |-> "resend", shape |-> "resend", body |-> None]
      BY <1>0, <2>1
    <3> QED BY <1>1, <2>1, <3>1, AReplyPacket DEF Shapes
  <2>2. CASE server' # "reconnect"
    <3>1. r = [kind |-> "accept", shape |-> "accept", body |-> None]
      BY <1>0, <2>2
    <3> QED BY <3>1, AReplyPacket DEF Shapes
  <2> QED BY <2>1, <2>2
<1>5. Shaped(r)'
  BY <1>1, <1>3, SameClient DEF Shaped, Reads, Answered
<1>6. Ready(After(driver, inline, "connect"))'
  <2>1. Ready(After(driver, inline, "connect"))
    BY NeverProtocolBeforeNa
  <2>2. After(driver, inline, "connect")' = After(driver, inline, "connect")
    BY <1>1, SameClient
  <2> QED BY <1>1, <2>1, <2>2, SameProfile
<1>7. IsRequest("connect")
  BY DEF IsRequest
<1>8. up' \in Seq(UpPackets) /\ down' \in Seq(DownPackets) /\ ClientInv' /\ UpInv' /\ DownInv'
  BY <1>1, <1>3, <1>5, <1>6, <1>7, RequestIsAnswered
<1>9. TypeInv'
  BY <1>1, <1>2, <1>8, SameTypes, SameProgress DEF Reading
<1>10. ServerInv'
  BY <1>1, <1>2, SameClient, SameProfile DEF ServerInv
<1> QED BY <1>8, <1>9, <1>10 DEF Inv

LEMMA NegotiateNaStep ==
  ASSUME Inv, NegotiateNa
  PROVE  Inv'
<1>0. PICK r : r = [kind |-> "na", shape |-> "null-adapters", body |-> None]
  OBVIOUS
<1>1. /\ Takes("na") /\ down' = Append(down, r)
      /\ server = "negotiate" /\ server' = "negotiate" /\ did_na' = TRUE
      /\ accepted' = accepted /\ caps' = caps /\ oci_dialect' = oci_dialect
      /\ UNCHANGED client /\ UNCHANGED progress /\ stored' = stored
  BY <1>0 DEF NegotiateNa, Replies
<1>2. TypeInv /\ ServerInv
  BY DEF Inv
<1>3. r \in DownPackets /\ r.kind = "na" /\ r.shape = "null-adapters"
  BY <1>0 DEF DownPackets, Answered, Shapes
<1>4. Shaped(r)'
  BY <1>1, <1>3, SameClient DEF Shaped, Reads, Answered
<1>5. IsRequest("na")
  BY DEF IsRequest
<1>6. driver \in RunsNa
  BY <1>1, <1>5, RequestIsTaken DEF Ready
<1>7. PastNa'
  BY <1>1, <1>6, SameClient DEF PastNa
<1>8. Ready(After(driver, inline, "na"))'
  BY <1>7 DEF After, Ready
<1>9. up' \in Seq(UpPackets) /\ down' \in Seq(DownPackets) /\ ClientInv' /\ UpInv' /\ DownInv'
  BY <1>1, <1>3, <1>4, <1>5, <1>8, RequestIsAnswered DEF Answered
<1>10. TypeInv'
  <2>1. /\ server' \in Reading \cup {"backend", "serving", "closed"}
        /\ did_na' \in BOOLEAN /\ oci_dialect' \in BOOLEAN /\ accepted' \in {"none", "5", "54321"}
        /\ caps' \in {Caps(d) : d \in Drivers} \cup {NoCaps} /\ stored' \in Passwords \cup {None}
    BY <1>1, <1>2 DEF TypeInv
  <2> QED BY <1>1, <1>2, <1>9, <2>1, TypesAgain, SameProgress
<1>11. ServerInv'
  BY <1>1, <1>6, SameClient DEF ServerInv
<1> QED BY <1>9, <1>10, <1>11 DEF Inv

LEMMA NegotiateProtocolStep ==
  ASSUME Inv, NegotiateProtocol
  PROVE  Inv'
<1>0. PICK r : r = [kind |-> "protocol",
                 shape |-> IF oci_dialect' THEN "oci-protocol" ELSE "thin-protocol",
                 body |-> None]
  OBVIOUS
<1>1. /\ Takes("protocol") /\ down' = Append(down, r)
      /\ server = "negotiate" /\ server' = "negotiate"
      /\ accepted' = Head(up).body /\ oci_dialect' = ProbablyOciAtProtocol(did_na, accepted')
      /\ did_na' = did_na /\ caps' = caps
      /\ UNCHANGED client /\ UNCHANGED progress /\ stored' = stored
  BY <1>0 DEF NegotiateProtocol, Replies
<1>2. TypeInv /\ ServerInv
  BY DEF Inv
<1>3. IsRequest("protocol")
  BY DEF IsRequest
<1>4. accepted' = VersionList(driver) /\ PastNa
  BY <1>1, <1>3, RequestIsTaken DEF Ready, Body
<1>5. oci_dialect' \in BOOLEAN /\ (oci_dialect' <=> driver = "oci")
  BY <1>1, <1>2, <1>4, FiveDrivers DEF ProbablyOciAtProtocol, PastNa, VersionList, RunsNa
<1>6. /\ r \in DownPackets /\ r.kind = "protocol"
      /\ r.shape = IF driver = "oci" THEN "oci-protocol" ELSE "thin-protocol"
  <2>1. (IF oci_dialect' THEN "oci-protocol" ELSE "thin-protocol")
          = (IF driver = "oci" THEN "oci-protocol" ELSE "thin-protocol")
    BY <1>5
  <2> DEFINE shape == IF driver = "oci" THEN "oci-protocol" ELSE "thin-protocol"
  <2>2. shape \in Shapes
    BY DEF Shapes
  <2>3. r = [kind |-> "protocol", shape |-> shape, body |-> None]
    BY <1>0, <2>1
  <2> HIDE DEF shape
  <2> QED BY <2>2, <2>3, AReplyPacket DEF Answered, shape
<1>7. Shaped(r)'
  BY <1>1, <1>6, SameClient DEF Shaped, Reads, Answered
<1>8. PastNa' /\ PastProtocol'
  BY <1>1, <1>4, <1>5, SameClient DEF PastNa, PastProtocol
<1>9. Ready(After(driver, inline, "protocol"))'
  BY <1>8 DEF After, Ready
<1>10. up' \in Seq(UpPackets) /\ down' \in Seq(DownPackets) /\ ClientInv' /\ UpInv' /\ DownInv'
  BY <1>1, <1>3, <1>6, <1>7, <1>9, RequestIsAnswered DEF Answered
<1>11. TypeInv'
  <2>1. /\ server' \in Reading \cup {"backend", "serving", "closed"}
        /\ did_na' \in BOOLEAN
        /\ caps' \in {Caps(d) : d \in Drivers} \cup {NoCaps} /\ stored' \in Passwords \cup {None}
    BY <1>1, <1>2 DEF TypeInv
  <2>2. oci_dialect' \in BOOLEAN /\ accepted' \in {"none", "5", "54321"}
    BY <1>4, <1>5 DEF VersionList
  <2> QED BY <1>1, <1>2, <1>10, <2>1, <2>2, TypesAgain, SameProgress
<1>12. ServerInv'
  BY <1>1, <1>2, SameClient DEF ServerInv
<1> QED BY <1>10, <1>11, <1>12 DEF Inv

LEMMA NegotiateDataTypesStep ==
  ASSUME Inv, NegotiateDataTypes
  PROVE  Inv'
<1>0. PICK r : r = [kind |-> "datatypes",
                 shape |-> IF oci_dialect' THEN "oci-types"
                           ELSE IF NoVersionList THEN "zone-types" ELSE "types",
                 body |-> None]
  OBVIOUS
<1>1. /\ Takes("datatypes") /\ down' = Append(down, r)
      /\ server = "negotiate" /\ server' = "negotiate"
      /\ caps' = Head(up).body /\ oci_dialect' = OciDialect(caps')
      /\ did_na' = did_na /\ accepted' = accepted
      /\ UNCHANGED client /\ UNCHANGED progress /\ stored' = stored
  BY <1>0 DEF NegotiateDataTypes, Replies
<1>2. TypeInv /\ ServerInv
  BY DEF Inv
<1>3. IsRequest("datatypes")
  BY DEF IsRequest
<1>4. caps' = Caps(driver) /\ PastProtocol
  BY <1>1, <1>3, RequestIsTaken DEF Ready, Body
<1>5. oci_dialect' \in BOOLEAN /\ (oci_dialect' <=> driver = "oci")
  <2>1. Caps(driver).oci1 = (driver = "oci")
    BY DEF Caps
  <2> QED BY <1>1, <1>4, <2>1 DEF OciDialect
<1>6. NoVersionList <=> driver = "odp"
  BY <1>2, <1>4, FiveDrivers DEF NoVersionList, NaWithoutVersionList, PastProtocol, PastNa,
     RunsNa, VersionList
<1>7. /\ r \in DownPackets /\ r.kind = "datatypes"
      /\ r.shape = IF driver = "oci" THEN "oci-types"
                   ELSE IF driver = "odp" THEN "zone-types" ELSE "types"
  <2> DEFINE shape == IF driver = "oci" THEN "oci-types"
                      ELSE IF driver = "odp" THEN "zone-types" ELSE "types"
  <2>1. r = [kind |-> "datatypes", shape |-> shape, body |-> None]
    BY <1>0, <1>5, <1>6
  <2>2. shape \in Shapes
    BY DEF Shapes
  <2> HIDE DEF shape
  <2> QED BY <2>1, <2>2, AReplyPacket DEF Answered, shape
<1>8. Shaped(r)'
  BY <1>1, <1>7, SameClient DEF Shaped, Reads, Answered
<1>9. PastNa' /\ PastProtocol' /\ PastDataTypes'
  BY <1>1, <1>4, <1>5, SameClient DEF PastNa, PastProtocol, PastDataTypes
<1>10. Ready(After(driver, inline, "datatypes"))'
  BY <1>9 DEF After, Ready
<1>11. up' \in Seq(UpPackets) /\ down' \in Seq(DownPackets) /\ ClientInv' /\ UpInv' /\ DownInv'
  BY <1>1, <1>3, <1>7, <1>8, <1>10, RequestIsAnswered DEF Answered
<1>12. TypeInv'
  <2>1. /\ server' \in Reading \cup {"backend", "serving", "closed"}
        /\ did_na' \in BOOLEAN /\ accepted' \in {"none", "5", "54321"}
        /\ stored' \in Passwords \cup {None} /\ driver \in Drivers
    BY <1>1, <1>2 DEF TypeInv
  <2>2. oci_dialect' \in BOOLEAN /\ caps' \in {Caps(d) : d \in Drivers} \cup {NoCaps}
    BY <1>4, <1>5, <2>1
  <2> QED BY <1>1, <1>2, <1>11, <2>1, <2>2, TypesAgain, SameProgress
<1>13. ServerInv'
  BY <1>1, <1>2, SameClient DEF ServerInv
<1> QED BY <1>11, <1>12, <1>13 DEF Inv

(***************************************************************************)
(* The configured passwords.                                               *)
(***************************************************************************)
\* Some numbers have a least one: the induction of the lemmas on lists.
LEMMA LeastNumber ==
  ASSUME NEW T, T \subseteq Nat, T # {}
  PROVE  \E x \in T : \A y \in T : x <= y
<1>0. PICK a \in T : TRUE
  OBVIOUS
<1> DEFINE R == StrictSubsetOrdering(1..a)
           F == FiniteSubsetsOf(1..a)
           U == {1..n : n \in T \cap (0..a)}
<1>1. IsWellFoundedOn(R, F)
  BY FS_StrictSubsetOrderingWellFounded
<1>2. U # {}
  OBVIOUS
<1>3. U \subseteq F
  <2>1. ASSUME NEW n \in T \cap (0..a)
        PROVE  1..n \in F
    <3>1. 1..n \subseteq 1..a /\ IsFiniteSet(1..n)
      BY FS_Interval
    <3> QED BY <3>1 DEF FiniteSubsetsOf
  <2> QED BY <2>1
<1>4. PICK m \in U : \A y \in U : ~(<<y, m>> \in R)
  <2> HIDE DEF R, F, U
  <2> QED BY <1>1, <1>2, <1>3, WFMin
<1>5. PICK x \in T \cap (0..a) : m = 1..x
  OBVIOUS
<1>6. ASSUME NEW y \in T, y < x
      PROVE  FALSE
  <2>1. 1..y \in U
    BY <1>5, <1>6
  <2>2. 1..y \subseteq m /\ m \subseteq 1..a /\ 1..y \subseteq 1..a /\ x \in m /\ x \notin 1..y
    BY <1>5, <1>6
  <2>3. <<1..y, m>> \in R
    BY <2>2 DEF StrictSubsetOrdering
  <2> QED BY <1>4, <2>1, <2>3
<1> QED BY <1>5, <1>6

\* The lists of users after each of the first k items.
Loading(items, f, k) ==
  f = [i \in 0..k |-> IF i = 0 THEN <<>> ELSE Insert(f[i - 1], items[i])]

\* Loading a list of any length is defined.
LEMMA ListsAreLoaded ==
  ASSUME NEW items, NEW k \in Nat
  PROVE  \E f : Loading(items, f, k)
<1> DEFINE Bad == {n \in Nat : ~\E f : Loading(items, f, n)}
<1>1. SUFFICES ASSUME Bad # {} PROVE FALSE
  OBVIOUS
<1>2. PICK x \in Bad : \A y \in Bad : x <= y
  BY <1>1, LeastNumber
<1>3. CASE x = 0
  <2>1. Loading(items, [i \in 0..0 |-> <<>>], 0)
    BY DEF Loading
  <2> QED BY <1>2, <1>3, <2>1
<1>4. CASE x # 0
  <2>1. x - 1 \in Nat /\ x - 1 \notin Bad
    BY <1>2, <1>4
  <2>2. PICK f : Loading(items, f, x - 1)
    BY <2>1
  <2>3. PICK g : g = [i \in 0..x |-> IF i = x THEN Insert(f[x - 1], items[x]) ELSE f[i]]
    OBVIOUS
  <2>4. ASSUME NEW i \in 0..x
        PROVE  g[i] = IF i = 0 THEN <<>> ELSE Insert(g[i - 1], items[i])
    <3>1. CASE i = x
      BY <1>4, <2>1, <2>3, <3>1
    <3>2. CASE i # x
      <4>1. i \in 0..(x - 1) /\ (i # 0 => i - 1 \in 0..x /\ i - 1 # x)
        BY <1>2, <3>2
      <4>2. f[i] = IF i = 0 THEN <<>> ELSE Insert(f[i - 1], items[i])
        BY <2>2, <4>1 DEF Loading
      <4> QED BY <2>3, <3>2, <4>1, <4>2
    <3> QED BY <3>1, <3>2
  <2>5. Loading(items, g, x)
    BY <2>3, <2>4 DEF Loading
  <2> QED BY <2>5
<1> QED BY <1>3, <1>4

\* What is loaded of the first k items: their names, each with its last password.
LEMMA LaterItemsOverride ==
  ASSUME NEW items, NEW m \in Nat, NEW f, Loading(items, f, m)
  PROVE  \A k \in 0..m :
           /\ DOMAIN f[k] = {items[i].name : i \in 1..k}
           /\ \A i \in 1..k :
                (\A j \in 1..k : items[j].name = items[i].name => j <= i)
                  => f[k][items[i].name] = items[i].password
<1> DEFINE Right(k) ==
             /\ DOMAIN f[k] = {items[i].name : i \in 1..k}
             /\ \A i \in 1..k :
                  (\A j \in 1..k : items[j].name = items[i].name => j <= i)
                    => f[k][items[i].name] = items[i].password
           Bad == {k \in 0..m : ~Right(k)}
<1>1. SUFFICES ASSUME Bad # {} PROVE FALSE
  OBVIOUS
<1>2. PICK x \in Bad : \A y \in Bad : x <= y
  <2>1. Bad \subseteq Nat
    OBVIOUS
  <2> HIDE DEF Bad
  <2> QED BY <1>1, <2>1, LeastNumber
<1>3. f[0] = <<>>
  BY DEF Loading
<1>4. CASE x = 0
  BY <1>2, <1>3, <1>4
<1>5. CASE x # 0
  <2>1. x \in 0..m /\ x - 1 \in 0..m /\ x - 1 \notin Bad
    BY <1>2, <1>5
  <2>2. f[x] = Insert(f[x - 1], items[x])
    BY <1>5, <2>1 DEF Loading
  <2>3. Right(x - 1)
    BY <2>1
  <2>4. /\ DOMAIN f[x] = DOMAIN f[x - 1] \cup {items[x].name}
        /\ f[x][items[x].name] = items[x].password
        /\ \A n \in DOMAIN f[x - 1] : n # items[x].name => f[x][n] = f[x - 1][n]
    BY <2>2 DEF Insert, Lower
  <2>5. 1..x = 1..(x - 1) \cup {x}
    BY <1>5, <2>1
  <2>6. DOMAIN f[x] = {items[i].name : i \in 1..x}
    BY <2>3, <2>4, <2>5
  <2>7. ASSUME NEW i \in 1..x, \A j \in 1..x : items[j].name = items[i].name => j <= i
        PROVE  f[x][items[i].name] = items[i].password
    <3>1. CASE i = x
      BY <2>4, <3>1
    <3>2. CASE i # x
      <4>1. i \in 1..(x - 1) /\ items[x].name # items[i].name
        BY <2>1, <2>5, <2>7, <3>2
      <4>2. \A j \in 1..(x - 1) : items[j].name = items[i].name => j <= i
        BY <2>5, <2>7
      <4>3. f[x - 1][items[i].name] = items[i].password /\ items[i].name \in DOMAIN f[x - 1]
        BY <2>3, <4>1, <4>2
      <4> QED BY <2>4, <4>1, <4>3
    <3> QED BY <3>1, <3>2
  <2>8. Right(x)
    BY <2>6, <2>7
  <2> QED BY <1>2, <2>8
<1> QED BY <1>4, <1>5

\* What is loaded of the whole list.
LEMMA UsersOfAList ==
  ASSUME NEW items, Len(items) \in Nat
  PROVE  /\ DOMAIN Users(items) = {items[i].name : i \in 1..Len(items)}
         /\ \A i \in 1..Len(items) :
              (\A j \in 1..Len(items) : items[j].name = items[i].name => j <= i)
                => Users(items)[items[i].name] = items[i].password
<1> DEFINE m == Len(items)
           f == CHOOSE g : g = [i \in 0..m |-> IF i = 0 THEN <<>> ELSE Insert(g[i - 1], items[i])]
<1>1. Users(items) = f[m]
  BY DEF Users
<1>2. \E g : g = [i \in 0..m |-> IF i = 0 THEN <<>> ELSE Insert(g[i - 1], items[i])]
  BY ListsAreLoaded DEF Loading
<1>3. Loading(items, f, m)
  BY <1>2 DEF Loading
<1>4. m \in Nat /\ m \in 0..m
  OBVIOUS
<1> HIDE DEF f, m
<1>5. /\ DOMAIN f[m] = {items[i].name : i \in 1..m}
      /\ \A i \in 1..m :
           (\A j \in 1..m : items[j].name = items[i].name => j <= i)
             => f[m][items[i].name] = items[i].password
  BY <1>3, <1>4, LaterItemsOverride
<1> QED BY <1>1, <1>5 DEF m

LEMMA ItemsOfAList ==
  ASSUME NEW S, NEW q \in Seq(S)
  PROVE  Len(q) \in Nat /\ \A i \in 1..Len(q) : q[i] \in S
OBVIOUS

\* For every list of user:password items, what is found for a user is the password of
\* the last item that names it, in any case, or the fallback (credentials.rs).
THEOREM RightfulPassword ==
  ASSUME TypeInv
  PROVE  PasswordFor(offers.user) = Rightful /\ Rightful \in Passwords \cup {None}
<1> DEFINE items == config.items
           name == offers.user.name
           mine == {i \in 1..Len(items) : items[i].name = name}
<1>1. /\ items \in Seq([name : Names, upper : BOOLEAN, password : Passwords])
      /\ config.fallback \in Passwords \cup {None}
  BY HandshakeAssumption DEF TypeInv
<1>2. Len(items) \in Nat /\ \A i \in 1..Len(items) : items[i].password \in Passwords
  <2>1. \A i \in 1..Len(items) : items[i] \in [name : Names, upper : BOOLEAN, password : Passwords]
    BY <1>1, ItemsOfAList
  <2> QED BY <1>1, <2>1, ItemsOfAList
<1> HIDE DEF items
<1>3. PasswordFor(offers.user) = IF name \in DOMAIN Users(items) THEN Users(items)[name]
                                 ELSE config.fallback
  BY DEF PasswordFor, Lower, items
<1>4. name \in DOMAIN Users(items) <=> mine # {}
  <2>1. DOMAIN Users(items) = {items[i].name : i \in 1..Len(items)}
    BY <1>2, UsersOfAList
  <2> QED BY <2>1
<1>5. CASE mine = {}
  BY <1>1, <1>3, <1>4, <1>5 DEF Rightful, items
<1>6. CASE mine # {}
  <2> DEFINE last == CHOOSE i \in mine : \A j \in mine : j <= i
  <2>1. \E i \in mine : \A j \in mine : j <= i
    <3> DEFINE T == {Len(items) - i : i \in mine}
    <3>1. T \subseteq Nat /\ T # {}
      BY <1>2, <1>6
    <3>2. PICK x \in T : \A y \in T : x <= y
      BY <3>1, LeastNumber
    <3>3. PICK i \in mine : x = Len(items) - i
      OBVIOUS
    <3>4. ASSUME NEW j \in mine
          PROVE  j <= i
      <4>1. Len(items) - i <= Len(items) - j
        BY <3>2, <3>3
      <4>2. i \in Nat /\ j \in Nat
        OBVIOUS
      <4> QED BY <1>2, <4>1, <4>2
    <3> QED BY <3>3, <3>4
  <2>2. last \in mine /\ \A j \in mine : j <= last
    BY <2>1
  <2> HIDE DEF last
  <2>3. Users(items)[name] = items[last].password
    BY <1>2, <2>2, UsersOfAList
  <2>4. Rightful = items[last].password
    BY <1>6 DEF Rightful, items, last
  <2> QED BY <1>2, <1>3, <1>4, <1>6, <2>2, <2>3, <2>4
<1> QED BY <1>5, <1>6

\* A step that only reads packets, or closes the connection.
LEMMA OnlyReads ==
  ASSUME Inv, UNCHANGED client, UNCHANGED profile, stored' = stored, UNCHANGED progress,
         down' = down, server' = server \/ server' = "closed",
         up' \in Seq(UpPackets), OneOfEach(up'), Packets(up') \subseteq Packets(up)
  PROVE  Inv'
<1>1. TypeInv /\ ClientInv /\ UpInv /\ DownInv /\ ServerInv
  BY DEF Inv
<1>2. wants' = wants /\ awaits' = awaits /\ told' = told
  BY DEF progress
<1>3. Live' <=> Live
  BY <1>2 DEF Live
<1>4. TypeInv'
  <2>1. /\ server' \in Reading \cup {"backend", "serving", "closed"}
        /\ down' \in Seq(DownPackets)
    BY <1>1 DEF TypeInv
  <2> QED BY <1>1, <2>1, SameTypes, SameProgress
<1>5. ClientInv'
  <2>1. Live => InOrder(driver, inline, wants)'
    BY <1>1, <1>2, SameClient DEF ClientInv
  <2>2. Live /\ awaits # "nothing" => First(wants)' = After(driver, inline, awaits)'
    BY <1>1, <1>2, SameClient DEF ClientInv
  <2>3. Live /\ awaits = "nothing" => Ready(First(wants))' /\ First(wants)' # "auth2"
    BY <1>1, <1>2, SameProfile DEF ClientInv
  <2>4. Live /\ First(wants) \in {"connect", "descriptor"} =>
          \A p \in Packets(up') : p.kind # "descriptor"
    BY <1>1 DEF ClientInv
  <2>5. /\ ~Live => awaits = "nothing"
        /\ Live => (told = "in" <=>
             (awaits = "call" \/ (awaits = "nothing" /\ First(wants) \in {"call", "done"})))
        /\ told = "in" => Knows'
        /\ told = "refused" => ~Knows'
    BY <1>1, SameClient DEF ClientInv
  <2> QED BY <1>2, <1>3, <2>1, <2>2, <2>3, <2>4, <2>5 DEF ClientInv
<1>6. UpInv'
  <2>1. ASSUME NEW p \in Packets(up')
        PROVE  /\ p.kind # "auth2" => p.body = Body(p.kind)'
               /\ p.kind = "auth2" => p.body = Proof(Issued)'
               /\ IsRequest(p.kind) => Ready(p.kind)' /\ (Live' => p.kind = awaits')
    BY <1>1, <1>2, <1>3, SameClient, SameProfile, SameChallenge DEF UpInv
  <2> QED BY <2>1 DEF UpInv
<1>7. DownInv'
  <2>1. \A r \in Packets(down) : Shaped(r)'
    BY <1>1, SameShapes DEF DownInv
  <2>2. \A r \in Packets(down') : Shaped(r)'
    BY <2>1
  <2>3. Asked' => Asked
    BY DEF Asked
  <2>4. Ready(First(wants))' <=> Ready(First(wants))
    BY <1>2, SameProfile
  <2> QED BY <1>1, <1>2, <1>3, <2>2, <2>3, <2>4, SameClient DEF DownInv
<1>8. ServerInv'
  BY <1>1, <1>2, <1>3, SameClient, SameProfile DEF ServerInv
<1> QED BY <1>4, <1>5, <1>6, <1>7, <1>8 DEF Inv

\* A packet is read and not answered.
LEMMA DropsAPacket ==
  ASSUME Inv, NEW k, Takes(k), server' = server \/ server' = "closed",
         UNCHANGED client, UNCHANGED profile, stored' = stored, UNCHANGED progress, down' = down
  PROVE  Inv'
<1>1. up # <<>> /\ up' = Tail(up)
  BY DEF Takes
<1>2. OneOfEach(up) /\ up \in Seq(UpPackets)
  BY DEF Inv, UpInv, TypeInv
<1>3. up' \in Seq(UpPackets) /\ OneOfEach(up') /\ Packets(up') \subseteq Packets(up)
  BY <1>1, <1>2, PacketsTail
<1> QED BY <1>3, OnlyReads

LEMMA ReadDescriptorStep == ASSUME Inv, ReadDescriptor PROVE Inv'
<1>1. /\ Takes("descriptor") /\ server' = server /\ down' = down /\ stored' = stored
      /\ UNCHANGED client /\ UNCHANGED profile /\ UNCHANGED progress
  BY DEF ReadDescriptor
<1> QED BY <1>1, DropsAPacket

LEMMA UnexpectedStep == ASSUME Inv, Unexpected PROVE Inv'
<1>1. /\ Takes("marker") /\ server' = "closed" /\ down' = down /\ stored' = stored
      /\ UNCHANGED client /\ UNCHANGED profile /\ UNCHANGED progress
  BY DEF Unexpected
<1> QED BY <1>1, DropsAPacket

LEMMA ClosesStep == ASSUME Inv, PeerClosed \/ IdleDeadline PROVE Inv'
<1>1. /\ server' = "closed" /\ up' = up /\ down' = down /\ stored' = stored
      /\ UNCHANGED client /\ UNCHANGED profile /\ UNCHANGED progress
  BY DEF PeerClosed, IdleDeadline
<1>2. OneOfEach(up) /\ up \in Seq(UpPackets)
  BY DEF Inv, UpInv, TypeInv
<1> QED BY <1>1, <1>2, OnlyReads

LEMMA StutterStep == ASSUME Inv, UNCHANGED vars PROVE Inv'
<1>1. /\ server' = server /\ up' = up /\ down' = down /\ stored' = stored
      /\ UNCHANGED client /\ UNCHANGED profile /\ UNCHANGED progress
  BY DEF vars
<1>2. OneOfEach(up) /\ up \in Seq(UpPackets)
  BY DEF Inv, UpInv, TypeInv
<1> QED BY <1>1, <1>2, OnlyReads

\* The user's name is read: it is refused, or challenged with the password found.
LEMMA AuthPhaseOneStep ==
  ASSUME Inv, AuthPhaseOne
  PROVE  Inv'
<1>1. /\ Takes("auth1") /\ server = "negotiate" /\ stored' = PasswordFor(Head(up).body)
      /\ UNCHANGED client /\ UNCHANGED profile /\ UNCHANGED progress
  BY DEF AuthPhaseOne
<1>2. TypeInv /\ ServerInv
  BY DEF Inv
<1>3. IsRequest("auth1")
  BY DEF IsRequest
<1>4. Head(up).body = offers.user /\ PastDataTypes
  BY <1>1, <1>3, RequestIsTaken DEF Ready, Body
<1>5. stored' = Rightful /\ stored' \in Passwords \cup {None}
  BY <1>1, <1>2, <1>4, RightfulPassword
<1>6. /\ ErrorShape = ReadsError(driver) /\ ChallengeShape \in Reads(driver, "auth1")
      /\ Verifier' = Verifier /\ Verifier \in {"11g", "12c"}
  BY <1>1, <1>2, <1>4, DialectsFit, SameProfile DEF Verifier
<1>7. SUFFICES /\ server' \in {"auth2", "closed"}
               /\ server' = "auth2" => stored' # None
               /\ up' \in Seq(UpPackets) /\ down' \in Seq(DownPackets)
               /\ ClientInv' /\ UpInv' /\ DownInv'
  <2>1. TypeInv'
    <3>1. /\ server' \in Reading \cup {"backend", "serving", "closed"}
          /\ did_na' \in BOOLEAN /\ oci_dialect' \in BOOLEAN
          /\ accepted' \in {"none", "5", "54321"}
          /\ caps' \in {Caps(d) : d \in Drivers} \cup {NoCaps}
      BY <1>1, <1>2, <1>7, SameProfile DEF TypeInv, Reading
    <3> QED BY <1>1, <1>2, <1>5, <1>7, <3>1, TypesAgain, SameProgress
  <2>2. ServerInv'
    BY <1>1, <1>2, <1>4, <1>5, <1>7, SameClient, SameProfile DEF ServerInv
  <2> QED BY <1>7, <2>1, <2>2 DEF Inv
<1>8. CASE stored' = None
  <2>0. PICK r : r = [kind |-> "error", shape |-> ErrorShape, body |-> None]
    OBVIOUS
  <2>1. down' = Append(down, r) /\ server' = "closed"
    BY <1>8, <2>0 DEF AuthPhaseOne, Refuse, Replies
  <2>2. /\ r \in DownPackets /\ r.kind = "error" /\ r.shape = ReadsError(driver)
    <3>1. ErrorShape \in Shapes
      BY DEF ErrorShape, Shapes
    <3> QED BY <1>6, <2>0, <3>1, AReplyPacket
  <2>3. Shaped(r)'
    BY <1>1, <2>1, <2>2, SameClient DEF Shaped, Answered
  <2>4. ~Knows
    BY <1>5, <1>8 DEF Knows
  <2>5. up' \in Seq(UpPackets) /\ down' \in Seq(DownPackets) /\ ClientInv' /\ UpInv' /\ DownInv'
    BY <1>1, <1>3, <2>1, <2>2, <2>3, <2>4, RequestIsAnswered
  <2> QED BY <2>1, <2>5
<1>9. CASE stored' # None
  <2>0. PICK r : r = [kind |-> "auth1", shape |-> ChallengeShape,
                      body |-> [verifier |-> Verifier, sesskey |-> PhaseOneSesskey(Verifier)]]
    OBVIOUS
  <2>1. down' = Append(down, r) /\ server' = "auth2"
    BY <1>9, <2>0 DEF AuthPhaseOne, Challenge, Replies
  <2>2. /\ r.kind = "auth1" /\ r.shape = ChallengeShape
        /\ r.body = [verifier |-> Verifier,
                     sesskey  |-> Encrypt(PasswordHash(stored', Verifier), "server-half")]
    BY <2>0 DEF PhaseOneSesskey
  <2>3. r.body \in Challenges
    BY <1>5, <1>6, <2>2, AChallenge
  <2>4. r \in DownPackets
    <3>1. ChallengeShape \in Shapes
      BY DEF ChallengeShape, Shapes
    <3>2. "auth1" \in {"resend", "accept", "error"} \cup Answered
      BY DEF Answered
    <3>3. r = [kind |-> "auth1", shape |-> ChallengeShape, body |-> r.body]
      BY <2>0
    <3> QED BY <2>3, <3>1, <3>2, <3>3, AReplyPacket
  <2>5. r.body = Issued'
    BY <1>6, <2>2 DEF Issued
  <2>6. Shaped(r)'
    BY <1>1, <1>6, <2>1, <2>2, <2>5, SameClient DEF Shaped, Answered
  <2>7. Ready(After(driver, inline, "auth1"))'
    BY <1>1, <1>4, SameProfile DEF After, Ready, PastDataTypes, PastProtocol
  <2>8. up' \in Seq(UpPackets) /\ down' \in Seq(DownPackets) /\ ClientInv' /\ UpInv' /\ DownInv'
    BY <1>1, <1>3, <2>1, <2>2, <2>4, <2>6, <2>7, RequestIsAnswered DEF Answered
  <2> QED BY <1>9, <2>1, <2>8
<1> QED BY <1>8, <1>9

\* A proof that can be read under the password found proves it, and no other does.
LEMMA ProofOfThePassword ==
  ASSUME TypeInv, stored = Rightful, stored # None, Proof(Issued).password # None
  PROVE  Proves(Proof(Issued)) <=> Knows
<1> DEFINE v == Verifier
           p == offers.password
           half == Decrypt(PasswordHash(p, v), Issued.sesskey)
           pairs == Proof(Issued)
<1>1. /\ Issued.verifier = v
      /\ Issued.sesskey = [key |-> <<stored, v>>, text |-> "server-half"]
      /\ v \in {"11g", "12c"}
  BY DEF Issued, Encrypt, PasswordHash, Verifier
<1>2. /\ half = IF p = stored THEN "server-half" ELSE Garbage
      /\ Garbage # "server-half" /\ Garbage # "client-half"
  BY <1>1 DEF Decrypt, PasswordHash, Garbage
<1> HIDE DEF half
<1>3. pairs = [sesskey  |-> Encrypt(<<p, v>>, "client-half"),
               password |-> IF p = None THEN None ELSE Encrypt(<<"client-half", half>>, p),
               speedy   |-> IF v = "12c" /\ driver \in {"thin", "oracle-rs"}
                            THEN Encrypt(<<"client-half", half>>, <<"password-key", p>>) ELSE None]
  BY <1>1 DEF Proof, PasswordHash, ComboKey, half
<1>4. /\ pairs.sesskey = Encrypt(<<p, v>>, "client-half")
      /\ p # None /\ pairs.password = Encrypt(<<"client-half", half>>, p)
      /\ pairs.speedy \in {None, Encrypt(<<"client-half", half>>, <<"password-key", p>>)}
  BY <1>3
<1> HIDE DEF pairs, v
<1> DEFINE client_b == Decrypt(<<stored, v>>, pairs.sesskey)
           combo == <<client_b, "server-half">>
<1>5. client_b = IF p = stored THEN "client-half" ELSE Garbage
  BY <1>4 DEF Decrypt, Encrypt
<1>6. Proves(pairs) <=>
        /\ VerifyPassword(combo, pairs.password)
        /\ pairs.speedy # None => VerifySpeedyKey(combo, pairs.speedy, v)
  BY DEF Proves, ComboKey, PasswordHash, v
<1>7. Knows <=> p = stored
  BY <1>4 DEF Knows
<1>8. p = stored => (Proves(pairs) <=> Knows)
  <2> HAVE p = stored
  <2>1. combo = <<"client-half", half>>
    BY <1>2, <1>5
  <2>2. Decrypt(combo, pairs.password) = stored
    BY <1>4, <2>1 DEF Decrypt, Encrypt
  <2>3. stored \in Passwords /\ stored # Garbage /\ Len(stored) \in Nat
    BY GarbageAssumption, HandshakeAssumption DEF TypeInv
  <2>4. IsPrefix(stored, stored)
    BY <2>3 DEF IsPrefix
  <2>5. VerifyPassword(combo, pairs.password)
    BY <2>2, <2>3, <2>4 DEF VerifyPassword
  <2>6. pairs.speedy # None => VerifySpeedyKey(combo, pairs.speedy, v)
    BY <1>4, <2>1 DEF VerifySpeedyKey, Decrypt, Encrypt
  <2> HIDE DEF p, combo
  <2> QED BY <1>6, <1>7, <2>5, <2>6
<1>9. p # stored => (Proves(pairs) <=> Knows)
  <2> HAVE p # stored
  <2>1. combo # <<"client-half", half>>
    BY <1>2, <1>5
  <2>2. Decrypt(combo, pairs.password) = Garbage
    BY <1>4, <2>1 DEF Decrypt, Encrypt
  <2>3. ~VerifyPassword(combo, pairs.password)
    BY <2>2 DEF VerifyPassword
  <2> HIDE DEF p, combo
  <2> QED BY <1>6, <1>7, <2>3
<1> QED BY <1>8, <1>9 DEF pairs

\* The proof is read: silence, a refusal or the login.
LEMMA AuthPhaseTwoStep ==
  ASSUME Inv, AuthPhaseTwo
  PROVE  Inv'
<1> DEFINE pairs == Head(up).body
<1>1. /\ Takes("auth2") /\ server = "auth2"
      /\ UNCHANGED client /\ UNCHANGED profile /\ stored' = stored /\ UNCHANGED progress
      /\ \/ pairs.password = None /\ server' = "closed" /\ down' = down
         \/ pairs.password # None /\ ~Proves(pairs) /\ Refuse
         \/ /\ pairs.password # None /\ Proves(pairs)
            /\ Replies("auth2", ProofShape, None) /\ server' = "backend"
  BY DEF AuthPhaseTwo
<1>2. TypeInv /\ ServerInv
  BY DEF Inv
<1>3. IsRequest("auth2")
  BY DEF IsRequest
<1>4. pairs = Proof(Issued)
  BY <1>1, <1>3, RequestIsTaken
<1> HIDE DEF pairs
<1>5. PastDataTypes /\ stored = Rightful /\ stored # None
  BY <1>1, <1>2 DEF ServerInv
<1>6. pairs.password # None => (Proves(pairs) <=> Knows)
  BY <1>2, <1>4, <1>5, ProofOfThePassword
<1>7. ErrorShape = ReadsError(driver) /\ ProofShape \in Reads(driver, "auth2")
  BY <1>2, <1>5, DialectsFit
<1>8. ASSUME server' \in {"closed", "backend"}, server' = "backend" => Knows,
             server' = "backend" => Len(down') = 1 /\ down'[1].kind = "auth2" /\ down' # <<>>,
             up' \in Seq(UpPackets), down' \in Seq(DownPackets),
             ClientInv', UpInv', DownInv'
      PROVE  Inv'
  <2>1. TypeInv'
    BY <1>1, <1>2, <1>8, SameTypes, SameProgress
  <2>2. Live' <=> Live
    BY <1>1 DEF Live, progress
  <2>3. Live => awaits' = "auth2"
    BY <1>1, <1>3, RequestIsTaken DEF progress
  <2>4. ServerInv'
    BY <1>1, <1>2, <1>5, <1>8, <2>2, <2>3, SameClient, SameProfile DEF ServerInv
  <2> QED BY <1>8, <2>1, <2>4 DEF Inv
<1>9. CASE pairs.password = None
  <2>1. server' = "closed" /\ down' = down
    BY <1>1, <1>9
  <2> QED BY <1>1, <2>1, DropsAPacket
<1>10. CASE pairs.password # None /\ ~Proves(pairs)
  <2>0. PICK r : r = [kind |-> "error", shape |-> ErrorShape, body |-> None]
    OBVIOUS
  <2>1. down' = Append(down, r) /\ server' = "closed"
    BY <1>1, <1>10, <2>0 DEF Refuse, Replies
  <2>2. r \in DownPackets /\ r.kind = "error" /\ r.shape = ReadsError(driver)
    <3>1. ErrorShape \in Shapes
      BY DEF ErrorShape, Shapes
    <3> QED BY <1>7, <2>0, <3>1, AReplyPacket
  <2>3. Shaped(r)'
    BY <1>1, <2>1, <2>2, SameClient DEF Shaped, Answered
  <2>4. ~Knows
    BY <1>6, <1>10
  <2>5. up' \in Seq(UpPackets) /\ down' \in Seq(DownPackets) /\ ClientInv' /\ UpInv' /\ DownInv'
    BY <1>1, <1>3, <2>1, <2>2, <2>3, <2>4, RequestIsAnswered
  <2> QED BY <1>8, <2>1, <2>5
<1>11. CASE pairs.password # None /\ Proves(pairs)
  <2>0. PICK r : r = [kind |-> "auth2", shape |-> ProofShape, body |-> None]
    OBVIOUS
  <2>1. down' = Append(down, r) /\ server' = "backend"
    BY <1>1, <1>11, <2>0 DEF Replies
  <2>2. r \in DownPackets /\ r.kind = "auth2" /\ r.shape = ProofShape
    <3>1. ProofShape \in Shapes
      BY DEF ProofShape, Shapes
    <3>2. "auth2" \in {"resend", "accept", "error"} \cup Answered
      BY DEF Answered
    <3> QED BY <2>0, <3>1, <3>2, AReplyPacket
  <2>3. Knows
    BY <1>6, <1>11
  <2>4. Shaped(r)'
    BY <1>1, <1>7, <2>1, <2>2, <2>3, SameClient DEF Shaped, Answered
  <2>5. Ready(After(driver, inline, "auth2"))'
    BY <1>1, <1>5, SameProfile DEF After, Ready, PastDataTypes, PastProtocol
  <2>6. up' \in Seq(UpPackets) /\ down' \in Seq(DownPackets) /\ ClientInv' /\ UpInv' /\ DownInv'
    BY <1>1, <1>3, <2>1, <2>2, <2>4, <2>5, RequestIsAnswered DEF Answered
  <2>7. down = <<>>
    BY <1>1, <1>3, RequestIsTaken
  <2>8. Len(down') = 1 /\ down'[1].kind = "auth2" /\ down' # <<>>
    BY <2>1, <2>2, <2>7, OneReply
  <2> QED BY <1>8, <2>1, <2>3, <2>6, <2>8
<1> QED BY <1>9, <1>10, <1>11

LEMMA BackendConnectsStep ==
  ASSUME Inv, BackendConnects
  PROVE  Inv'
<1>1. /\ server = "backend" /\ server' = "serving"
      /\ up' = up /\ down' = down /\ stored' = stored
      /\ UNCHANGED client /\ UNCHANGED profile /\ UNCHANGED progress
  BY DEF BackendConnects
<1>2. TypeInv /\ ClientInv /\ UpInv /\ DownInv /\ ServerInv
  BY DEF Inv
<1>3. TypeInv'
  <2>1. up' \in Seq(UpPackets) /\ down' \in Seq(DownPackets)
    BY <1>1, <1>2 DEF TypeInv
  <2> QED BY <1>1, <1>2, <2>1, SameTypes, SameProgress
<1>4. wants' = wants /\ awaits' = awaits /\ told' = told /\ (Live' <=> Live)
      /\ Packets(up') = Packets(up) /\ Packets(down') = Packets(down)
  BY <1>1 DEF Live, progress
<1>5. \A k : Ready(k)' <=> Ready(k)
  BY <1>1, SameProfile
<1>6. ClientInv'
  BY <1>1, <1>2, <1>4, <1>5, SameClient DEF ClientInv
<1>7. UpInv'
  BY <1>1, <1>2, <1>4, <1>5, SameClient, SameChallenge DEF UpInv
<1>8. DownInv'
  <2>1. \A r \in Packets(down) : r.kind # "error"
    BY <1>1, <1>2 DEF DownInv, Shaped
  <2>2. ASSUME NEW r \in Packets(down) PROVE Shaped(r)'
    BY <1>1, <1>2, <2>1, SameClient, SameChallenge DEF DownInv, Shaped
  <2>3. Len(down) # 2 /\ ~(Asked /\ down # <<>>)
        /\ ~(Live /\ awaits = "nothing" /\ down # <<>>)
    BY <1>1, <1>2 DEF DownInv
  <2>4. Asked' <=> Asked
    BY <1>1 DEF Asked
  <2> QED BY <1>1, <1>2, <1>4, <1>5, <2>2, <2>3, <2>4, SameClient DEF DownInv
<1>9. ServerInv'
  BY <1>1, <1>2, <1>4, SameClient, SameProfile DEF ServerInv
<1> QED BY <1>3, <1>6, <1>7, <1>8, <1>9 DEF Inv

\* The backend cannot be reached: the error follows the reply, if that has not been read.
LEMMA BackendRefusesStep ==
  ASSUME Inv, BackendRefuses
  PROVE  Inv'
<1>0. PICK r : r = [kind |-> "error", shape |-> ErrorShape, body |-> None]
  OBVIOUS
<1>1. /\ server = "backend" /\ server' = "closed"
      /\ up' = up /\ down' = Append(down, r) /\ stored' = stored
      /\ UNCHANGED client /\ UNCHANGED profile /\ UNCHANGED progress
  BY <1>0 DEF BackendRefuses, Refuse, Replies
<1>2. TypeInv /\ ClientInv /\ UpInv /\ DownInv /\ ServerInv /\ down \in Seq(DownPackets)
  BY DEF Inv, TypeInv
<1>3. /\ PastDataTypes /\ Knows
      /\ down # <<>> => down[1].kind = "auth2"
      /\ Live => told = "in" \/ (awaits = "auth2" /\ down # <<>>)
  BY <1>1, <1>2 DEF ServerInv
<1>4. ErrorShape = ReadsError(driver)
  BY <1>2, <1>3, DialectsFit
<1>5. r \in DownPackets /\ r.kind = "error" /\ r.shape = ReadsError(driver)
  <2>1. ErrorShape \in Shapes
    BY DEF ErrorShape, Shapes
  <2> QED BY <1>0, <1>4, <2>1, AReplyPacket
<1>6. /\ down' \in Seq(DownPackets) /\ Packets(down') = Packets(down) \cup {r}
  BY <1>1, <1>2, <1>5, PacketsAppend
<1>7. TypeInv'
  <2>1. up' \in Seq(UpPackets)
    BY <1>1, <1>2 DEF TypeInv
  <2> QED BY <1>1, <1>2, <1>6, <2>1, SameTypes, SameProgress
<1>8. wants' = wants /\ awaits' = awaits /\ told' = told /\ (Live' <=> Live)
      /\ Packets(up') = Packets(up)
  BY <1>1 DEF Live, progress
<1>9. \A k : Ready(k)' <=> Ready(k)
  BY <1>1, SameProfile
<1>10. ClientInv'
  BY <1>1, <1>2, <1>8, <1>9, SameClient DEF ClientInv
<1>11. UpInv'
  BY <1>1, <1>2, <1>8, <1>9, SameClient, SameChallenge DEF UpInv
<1>12. ServerInv'
  BY <1>1, <1>2, SameClient, SameProfile DEF ServerInv
<1>13. \A x \in Packets(down') : Shaped(x)'
  <2>1. Shaped(r)'
    BY <1>1, <1>5, SameClient DEF Shaped, Answered
  <2>2. \A x \in Packets(down) : Shaped(x)'
    BY <1>1, <1>2, SameShapes DEF DownInv
  <2> QED BY <1>6, <2>1, <2>2
<1>14. DownInv'
  <2>1. CASE down = <<>>
    <3>1. down' # <<>> /\ Len(down') = 1 /\ down'[1] = r
      BY <1>1, <2>1, OneReply
    <3>2. Live => told' = "in"
      BY <1>3, <1>8, <2>1
    <3>3. told' \in {"connecting", "in"} => told' = "in"
      BY <1>8, <3>2 DEF Live
    <3> QED BY <1>1, <1>5, <1>13, <3>1, <3>3, AnErrorIsLeft
  <2>2. CASE down # <<>>
    <3>1. ~Asked /\ Len(down) # 2 /\ Len(down) <= 2 /\ ~(Live /\ awaits = "nothing")
      BY <1>1, <1>2, <2>2 DEF DownInv
    <3>2. Len(down) \in Nat /\ Len(down) >= 1
      BY <1>2, <2>2, FirstReply
    <3>3. Len(down) = 1
      BY <3>1, <3>2, OneIsLeft
    <3>4. Len(down') = 2 /\ down' # <<>> /\ down'[1] = down[1] /\ down'[2] = r
      BY <1>1, <1>2, <1>5, <3>3, TwoReplies
    <3>5. ~Asked'
      BY <1>8, <3>1 DEF Asked
    <3>6. down[1].kind = "auth2"
      BY <1>3, <2>2
    <3>7. Live /\ awaits # "nothing" => Ready(First(wants)) /\ awaits = down[1].kind
      BY <1>2, <2>2, <3>6 DEF DownInv
    <3>8. /\ Live' /\ awaits' # "nothing" => Ready(First(wants))' /\ awaits' = down'[1].kind
          /\ awaits' = "auth2" => awaits' \in Answered
          /\ ~(Live' /\ awaits' = "nothing")
      BY <1>8, <1>9, <3>1, <3>4, <3>7 DEF Answered
    <3> QED BY <1>1, <1>5, <1>13, <3>4, <3>5, <3>6, <3>8 DEF DownInv
  <2> QED BY <2>1, <2>2
<1> QED BY <1>7, <1>10, <1>11, <1>12, <1>14 DEF Inv

-----------------------------------------------------------------------------
(***************************************************************************)
(* The theorems.                                                           *)
(***************************************************************************)
LEMMA InvAtInit ==
  ASSUME Init
  PROVE  Inv
<1>1. /\ up = <<>> /\ down = <<>> /\ server = "connect" /\ stored = None
      /\ wants = Requests(driver, inline) /\ awaits = "nothing" /\ told = "connecting"
      /\ did_na = FALSE /\ accepted = "none" /\ caps = NoCaps /\ oci_dialect = FALSE
      /\ driver \in Drivers
      /\ offers \in [user : [name : Names, upper : BOOLEAN], password : Passwords \cup {None}]
      /\ config \in [items : Configured, fallback : Passwords \cup {None},
                     version : {"11g", "19c"}, idle : BOOLEAN]
  BY DEF Init
<1>2. inline \in BOOLEAN
  BY DEF Init
<1>3. /\ wants \in Seq(Kinds) /\ First(wants) = "connect" /\ InOrder(driver, inline, wants)
  BY <1>1, <1>2, RequestsInOrder DEF First
<1>4. /\ up \in Seq(UpPackets) /\ Packets(up) = {} /\ OneOfEach(up)
      /\ down \in Seq(DownPackets) /\ Packets(down) = {} /\ Len(down) = 0
  BY <1>1, NoPackets DEF OneOfEach
<1>5. TypeInv
  BY <1>1, <1>2, <1>3, <1>4 DEF TypeInv, Reading
<1>6. ClientInv
  BY <1>1, <1>3, <1>4 DEF ClientInv, Live, Ready
<1>7. UpInv /\ DownInv
  BY <1>1, <1>4 DEF UpInv, DownInv
<1>8. ServerInv
  BY <1>1 DEF ServerInv
<1> QED BY <1>5, <1>6, <1>7, <1>8 DEF Inv

LEMMA InvAtNext ==
  ASSUME Inv, [Next]_vars
  PROVE  Inv'
<1>1. CASE Send
  BY <1>1, SendStep
<1>2. CASE Receive
  BY <1>2, ReceiveStep
<1>3. CASE Interrupt
  BY <1>3, InterruptStep
<1>4. CASE Vanish
  BY <1>4, VanishStep
<1>5. CASE FindsClosed
  BY <1>5, FindsClosedStep
<1>6. CASE ReadConnect \/ ReadReconnect
  BY <1>6, ReadConnectStep
<1>7. CASE ReadDescriptor
  BY <1>7, ReadDescriptorStep
<1>8. CASE NegotiateNa
  BY <1>8, NegotiateNaStep
<1>9. CASE NegotiateProtocol
  BY <1>9, NegotiateProtocolStep
<1>10. CASE NegotiateDataTypes
  BY <1>10, NegotiateDataTypesStep
<1>11. CASE AuthPhaseOne
  BY <1>11, AuthPhaseOneStep
<1>12. CASE AuthPhaseTwo
  BY <1>12, AuthPhaseTwoStep
<1>13. CASE BackendConnects
  BY <1>13, BackendConnectsStep
<1>14. CASE BackendRefuses
  BY <1>14, BackendRefusesStep
<1>15. CASE Unexpected
  BY <1>15, UnexpectedStep
<1>16. CASE PeerClosed \/ IdleDeadline
  BY <1>16, ClosesStep
<1>17. CASE Finished \/ UNCHANGED vars
  BY <1>17, StutterStep DEF Finished
<1> QED BY <1>1, <1>2, <1>3, <1>4, <1>5, <1>6, <1>7, <1>8, <1>9, <1>10, <1>11, <1>12,
           <1>13, <1>14, <1>15, <1>16, <1>17 DEF Next

\* The invariant the others follow from.
THEOREM HandshakeInvariant == Spec => []Inv
<1>1. Init => Inv
  BY InvAtInit
<1>2. Inv /\ [Next]_vars => Inv'
  BY InvAtNext
<1> QED BY <1>1, <1>2, PTL DEF Spec

\* Type correctness of a connection that is being set up, and that the command loop is
\* reached with the password found and in the dialect the client announced.
THEOREM HandshakeTypes == Spec => []TypeOK
<1>1. Inv => TypeOK
  <2> SUFFICES ASSUME Inv PROVE TypeOK
    OBVIOUS
  <2>1. TypeInv /\ OneOfEach(up) /\ Len(down) <= 2 /\ ServerInv
    BY DEF Inv, UpInv, DownInv
  <2>2. up \in Seq(UpPackets) /\ Len(up) <= 3
    BY <2>1, AtMostThree DEF TypeInv
  <2>3. server \in {"auth2", "backend", "serving"} =>
          stored # None /\ (oci_dialect <=> driver = "oci")
    BY <2>1 DEF ServerInv, PastDataTypes, PastProtocol
  <2>4. server \in {"auth2", "backend", "serving"} =>
          stored # None /\ oci_dialect = (driver = "oci")
    BY <2>1, <2>3 DEF TypeInv
  <2> QED BY <2>1, <2>2, <2>4 DEF TypeOK, TypeInv
<1> QED BY <1>1, HandshakeInvariant, PTL

\* Any driver, under any configuration, reads only replies of a shape it knows where it
\* waits (handle_connection in server.rs, profile.rs).
THEOREM EveryReplyFits == Spec => []RepliesFit
<1>1. Inv => RepliesFit
  <2> SUFFICES ASSUME Inv, down # <<>>, awaits # "nothing"
               PROVE  \/ Head(down).kind = "error" /\ Head(down).shape = ReadsError(driver)
                      \/ Head(down).kind # "error" /\ Head(down).shape \in Reads(driver, awaits)
    BY DEF RepliesFit
  <2>1. ClientInv /\ DownInv /\ down \in Seq(DownPackets)
    BY DEF Inv, TypeInv
  <2>2. Live
    BY <2>1 DEF ClientInv
  <2>3. Head(down) = down[1] /\ Head(down) \in Packets(down)
    BY <2>1, FirstReply
  <2>4. Shaped(Head(down))
    BY <2>1, <2>3 DEF DownInv
  <2>5. CASE Head(down).kind = "error"
    BY <2>4, <2>5 DEF Shaped
  <2>6. CASE Head(down).kind # "error"
    <3>1. \/ awaits = "connect" /\ Head(down).kind \in {"resend", "accept"}
          \/ awaits = Head(down).kind /\ awaits \in Answered
      BY <2>1, <2>2, <2>3, <2>6 DEF DownInv
    <3> QED BY <2>4, <2>6, <3>1 DEF Shaped
  <2> QED BY <2>5, <2>6
<1> QED BY <1>1, HandshakeInvariant, PTL

\* Whoever is let in knows the password of the user, whoever is refused does not, for
\* every list of users that may be configured (auth.rs, credentials.rs).
THEOREM OnlyThePasswordDecides == Spec => []VerdictIsThePassword
<1>1. Inv => VerdictIsThePassword
  BY DEF Inv, ClientInv, ServerInv, Knows, VerdictIsThePassword
<1> QED BY <1>1, HandshakeInvariant, PTL
====
