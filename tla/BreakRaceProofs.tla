-------------------------- MODULE BreakRaceProofs --------------------------
(***************************************************************************)
(* Theorems of BreakRace, for any number of calls, rounds and breaks.      *)
(***************************************************************************)
EXTENDS BreakRace, SequenceTheorems, TLAPS

-----------------------------------------------------------------------------
(* What can be on the wire.                                                *)

Empty(s) == Len(s) = 0
One(s, a) == Len(s) = 1 /\ s[1].kind = a
Two(s, a, b) == Len(s) = 2 /\ s[1].kind = a /\ s[2].kind = b
Three(s, a, b, c) == Len(s) = 3 /\ s[1].kind = a /\ s[2].kind = b /\ s[3].kind = c

\* The server awaits the backend.
Running == server \in {"racing", "busy"}

\* The server reads what it is sent.
Live == ~torn /\ server # "closed"

\* A driver that does not wait may still meet the marker of its one break.
Stale == ~patient /\ breaks > 0

WhenIdle ==
  /\ ~Running
  /\ \/ Empty(down) /\ Empty(up)
     \/ Stale /\ Empty(down) /\ One(up, "break")
     \/ Stale /\ One(down, "marker") /\ Empty(up)

WhenLeft ==
  /\ ~Running
  /\ \/ Empty(down) /\ (One(up, "logoff") \/ Two(up, "break", "logoff"))
     \/ One(down, "marker") /\ One(up, "logoff")

\* The call's answer alone, ...
Unbroken ==
  \/ ~Running /\ Empty(down) /\ One(up, "call")
  \/ Running /\ Empty(down) /\ Empty(up)
  \/ ~Running /\ One(down, "data") /\ Empty(up)

\* ... behind an older marker, ...
Overtaken ==
  \/ ~Running /\ Empty(down) /\ Two(up, "break", "call")
  \/ ~Running /\ One(down, "marker") /\ One(up, "call")
  \/ Running /\ One(down, "marker") /\ Empty(up)
  \/ ~Running /\ Two(down, "marker", "data") /\ Empty(up)

\* ... or beside the call's own break.
Broken ==
  \/ ~Running /\ Empty(down) /\ Two(up, "call", "break")
  \/ Running /\ Empty(down) /\ One(up, "break")
  \/ Running /\ One(down, "marker") /\ Empty(up)
  \/ ~Running /\ One(down, "data") /\ One(up, "break")
  \/ ~Running /\ Two(down, "data", "marker") /\ Empty(up)
  \/ ~Running /\ Two(down, "marker", "data") /\ Empty(up)

WhenWaiting ==
  \/ ~broke /\ (Unbroken \/ (Stale /\ Overtaken))
  \/ broke /\ breaks > 0 /\ Broken

WhenLate ==
  /\ ~Running
  /\ \/ Empty(down) /\ One(up, "break")
     \/ One(down, "marker") /\ Empty(up)

\* A RESET is answered by the marker and the call's answer, or by the marker and
\* an error of its own after that answer.
WhenResetting ==
  \/ ~Running /\ Empty(down) /\ (Two(up, "call", "reset") \/ One(up, "reset"))
  \/ Running /\ Empty(down) /\ One(up, "reset")
  \/ ~Running /\ One(down, "data") /\ One(up, "reset")
  \/ Running /\ One(down, "marker") /\ Empty(up)
  \/ ~Running /\ Two(down, "marker", "data") /\ Empty(up)
  \/ ~Running /\ Three(down, "data", "marker", "data") /\ Empty(up)

WhenReset ==
  \/ Running /\ Empty(down) /\ Empty(up)
  \/ ~Running /\ One(down, "data") /\ Empty(up)

LiveWords ==
  /\ client = "idle" => WhenIdle
  /\ client = "left" => WhenLeft
  /\ client = "waiting" => WhenWaiting
  /\ client = "late" => WhenLate
  /\ client = "resetting" => WhenResetting
  /\ client = "reset" => WhenReset

\* What may be on its way to the client, be there more to come or not.
DownWords ==
  /\ client \in {"idle", "late", "left"} => ~Running /\ (Empty(down) \/ One(down, "marker"))
  /\ client \in {"waiting", "resetting"} /\ Running => Empty(down) \/ One(down, "marker")
  /\ client = "waiting" /\ ~Running =>
       \/ Empty(down) \/ One(down, "marker") \/ One(down, "data")
       \/ Two(down, "marker", "data") \/ Two(down, "data", "marker")
  /\ client = "resetting" /\ ~Running =>
       \/ Empty(down) \/ One(down, "marker") \/ One(down, "data")
       \/ Two(down, "marker", "data") \/ Three(down, "data", "marker", "data")
  /\ client = "reset" /\ Running => Empty(down)
  /\ client = "reset" /\ ~Running => Empty(down) \/ One(down, "data")

\* The call in hand has been sent and not read.
CallSent ==
  One(up, "call") \/ Two(up, "break", "call") \/ Two(up, "call", "break") \/ Two(up, "call", "reset")

\* The calls of s are all number n.
CallsAre(s, n) == \A i \in 1..Len(s) : s[i].kind = "call" => s[i].call = n

\* The answers in s are true ones to call n, which ended as o.
AnswersAre(s, n, o) ==
  \A i \in 1..Len(s) : s[i].kind = "data" => s[i].call = n /\ s[i].what \in {o, "cancelled"}

ServingInv ==
  /\ Live => CallsAre(up, made)
  /\ Running => serving = made
  /\ Live => CallSent \/ serving = made

\* A call that has not run has no answer.
Unanswered ==
  /\ \A n \in Numbers : n > made => answers[n] = NoAnswer
  /\ Running \/ client = "waiting" \/ (Live /\ CallSent) => answers[made] = NoAnswer

StepInv ==
  /\ Live => LiveWords
  /\ DownWords
  /\ ServingInv
  /\ AnswersAre(down, made, outcome[made])
  /\ Unanswered
  /\ AnswersItsOwnCall

\* Before the first call is read nothing is answered or reset.
FirstInv ==
  serving = 0 =>
    /\ ~torn /\ down = <<>> /\ ~Running
    /\ server # "closed" /\ up # <<>> =>
         up[1].kind = "call" \/ (up[1].kind = "logoff" /\ client = "left")
    /\ client \in {"idle", "waiting", "left"}
    /\ client = "waiting" => up # <<>>

\* What needs no order of the two sides.
FrameInv ==
  /\ TypeOK
  /\ FirstInv
  /\ torn => ~half
  /\ client \notin {"idle", "left"} => made \in Numbers
  /\ Running => serving \in Numbers

Inv == FrameInv /\ (InStep => StepInv)

-----------------------------------------------------------------------------
(* Sequences of packets.                                                   *)

LEMMA Apart ==
  ASSUME NEW s, NEW a, NEW b, NEW c
  PROVE  /\ Empty(s) => ~One(s, a) /\ ~Two(s, a, b) /\ ~Three(s, a, b, c)
         /\ One(s, a) => ~Two(s, b, c)
BY DEF Empty, One, Two, Three

LEMMA Taken ==
  ASSUME NEW S, NEW s \in Seq(S), s # <<>>, NEW n, NEW o
  PROVE  /\ Tail(s) \in Seq(S) /\ Head(s) \in S /\ Head(s) = s[1] /\ ~Empty(s)
         /\ \A a : One(s, a) => Head(s).kind = a /\ Empty(Tail(s))
         /\ \A a, b : Two(s, a, b) => Head(s).kind = a /\ One(Tail(s), b)
         /\ \A a, b, c : Three(s, a, b, c) => Head(s).kind = a /\ Two(Tail(s), b, c)
         /\ CallsAre(s, n) => /\ CallsAre(Tail(s), n)
                              /\ Head(s).kind = "call" => Head(s).call = n
         /\ AnswersAre(s, n, o) =>
              /\ AnswersAre(Tail(s), n, o)
              /\ Head(s).kind = "data" =>
                   Head(s).call = n /\ Head(s).what \in {o, "cancelled"}
<1>1. /\ Tail(s) \in Seq(S) /\ Len(Tail(s)) = Len(s) - 1 /\ Len(s) \in Nat \ {0}
      /\ Head(s) = s[1] /\ Head(s) \in S
      /\ \A i \in 1..Len(Tail(s)) : Tail(s)[i] = s[i + 1]
  OBVIOUS
<1>2. \A i \in 1..Len(Tail(s)) : i + 1 \in 1..Len(s)
  BY <1>1
<1>3. CallsAre(s, n) => CallsAre(Tail(s), n) /\ (Head(s).kind = "call" => Head(s).call = n)
  BY <1>1, <1>2 DEF CallsAre
<1>4. AnswersAre(s, n, o) =>
        /\ AnswersAre(Tail(s), n, o)
        /\ Head(s).kind = "data" => Head(s).call = n /\ Head(s).what \in {o, "cancelled"}
  BY <1>1, <1>2 DEF AnswersAre
<1>5. /\ ~Empty(s)
      /\ \A a : One(s, a) => Head(s).kind = a /\ Empty(Tail(s))
      /\ \A a, b : Two(s, a, b) => Head(s).kind = a /\ One(Tail(s), b)
  BY <1>1 DEF Empty, One, Two
<1>6. \A a, b, c : Three(s, a, b, c) => Head(s).kind = a /\ Two(Tail(s), b, c)
  BY <1>1 DEF Two, Three
<1> QED BY <1>1, <1>3, <1>4, <1>5, <1>6

LEMMA Sent ==
  ASSUME NEW S, NEW s \in Seq(S), NEW e \in S
  PROVE  /\ Append(s, e) \in Seq(S) /\ Append(s, e) # <<>>
         /\ s # <<>> => Append(s, e)[1] = s[1]
         /\ s = <<>> => Append(s, e)[1] = e
         /\ Empty(s) => One(Append(s, e), e.kind)
         /\ \A a : One(s, a) => Two(Append(s, e), a, e.kind)
         /\ \A a, b : Two(s, a, b) => Three(Append(s, e), a, b, e.kind)
<1>1. /\ Append(s, e) \in Seq(S) /\ Len(Append(s, e)) = Len(s) + 1 /\ Len(s) \in Nat
      /\ Append(s, e)[Len(s) + 1] = e
      /\ \A i \in 1..Len(s) : Append(s, e)[i] = s[i]
      /\ s # <<>> => Len(s) > 0
      /\ s = <<>> => Len(s) = 0
  OBVIOUS
<1>2. /\ Append(s, e) # <<>>
      /\ s # <<>> => Append(s, e)[1] = s[1]
      /\ s = <<>> => Append(s, e)[1] = e
      /\ Empty(s) => One(Append(s, e), e.kind)
  BY <1>1 DEF Empty, One
<1>3. ASSUME NEW a, One(s, a) PROVE Two(Append(s, e), a, e.kind)
  BY <1>1, <1>3 DEF One, Two
<1>4. ASSUME NEW a, NEW b, Two(s, a, b) PROVE Three(Append(s, e), a, b, e.kind)
  BY <1>1, <1>4 DEF Two, Three
<1> QED BY <1>1, <1>2, <1>3, <1>4

LEMMA SentMatches ==
  ASSUME NEW S, NEW s \in Seq(S), NEW e \in S, NEW n, NEW o
  PROVE  /\ CallsAre(s, n) /\ (e.kind = "call" => e.call = n) => CallsAre(Append(s, e), n)
         /\ AnswersAre(s, n, o)
              /\ (e.kind = "data" => e.call = n /\ e.what \in {o, "cancelled"})
              => AnswersAre(Append(s, e), n, o)
<1>1. /\ Len(Append(s, e)) = Len(s) + 1 /\ Len(s) \in Nat
      /\ Append(s, e)[Len(s) + 1] = e
      /\ \A i \in 1..Len(s) : Append(s, e)[i] = s[i]
  OBVIOUS
<1>2. \A i \in 1..(Len(s) + 1) : i \in 1..Len(s) \/ i = Len(s) + 1
  BY <1>1
<1>3. CallsAre(s, n) /\ (e.kind = "call" => e.call = n) => CallsAre(Append(s, e), n)
  BY <1>1, <1>2 DEF CallsAre
<1>4. AnswersAre(s, n, o) /\ (e.kind = "data" => e.call = n /\ e.what \in {o, "cancelled"})
        => AnswersAre(Append(s, e), n, o)
  BY <1>1, <1>2 DEF AnswersAre
<1> QED BY <1>3, <1>4

\* With no answer among them any will do, and with no call.
LEMMA NoneOfThem ==
  ASSUME NEW s, NEW n, NEW o, Empty(s) \/ One(s, "marker") \/ One(s, "break") \/ One(s, "reset")
  PROVE  AnswersAre(s, n, o) /\ CallsAre(s, n)
BY DEF Empty, One, AnswersAre, CallsAre

LEMMA NothingSent ==
  ASSUME NEW s, s = <<>>
  PROVE  Empty(s)
BY DEF Empty

LEMMA NothingLeft ==
  ASSUME NEW S, NEW s \in Seq(S), Empty(s)
  PROVE  s = <<>>
BY DEF Empty

-----------------------------------------------------------------------------
(* Types.                                                                  *)

LEMMA Packets ==
  /\ \A n \in Numbers, r \in BOOLEAN :
       /\ CallPacket(n, r) \in ToServer
       /\ CallPacket(n, r).kind = "call" /\ CallPacket(n, r).call = n
  /\ Break \in ToServer /\ Reset \in ToServer /\ Logoff \in ToServer
  /\ Break.kind = "break" /\ Reset.kind = "reset" /\ Logoff.kind = "logoff"
  /\ \A p \in ToServer : /\ p.kind \in {"call", "break", "reset", "logoff"}
                         /\ p.kind = "call" => p.call \in Numbers
                         /\ p.kind = "break" => p = Break
  /\ Marker \in ToClient /\ Marker.kind = "marker"
  /\ \A n \in Numbers, w \in Whats :
       /\ Data(n, w) \in ToClient /\ Data(n, w).kind = "data"
       /\ Data(n, w).call = n /\ Data(n, w).what = w
  /\ \A p \in ToClient : \/ p = Marker
                         \/ p # Marker /\ p.kind = "data" /\ p \in Answer
<1>1. \A n \in Numbers, w \in Whats :
        Data(n, w).kind = "data" /\ Data(n, w).call = n /\ Data(n, w).what = w
  BY DEF Data
<1>2. Marker.kind = "marker" /\ Marker \in ToClient
  <2>1. Marker.kind = "marker"
    BY DEF Marker
  <2>2. Marker \in ToClient
    BY DEF ToClient
  <2> QED BY <2>1, <2>2
<1>3. \A n \in Numbers, w \in Whats : Data(n, w) \in ToClient
  <2>1. \A n \in Numbers, w \in Whats : Data(n, w) \in Answer
    BY DEF Answer
  <2> QED BY <2>1 DEF ToClient
<1>4. ASSUME NEW p \in ToClient
      PROVE  p = Marker \/ (p # Marker /\ p.kind = "data" /\ p \in Answer)
  <2>1. CASE p \in Answer
    <3>1. p.kind = "data"
      BY <1>1, <2>1 DEF Answer
    <3> QED BY <1>2, <2>1, <3>1
  <2> QED BY <2>1 DEF ToClient, Answer
<1>5. \A n \in Numbers, r \in BOOLEAN :
        CallPacket(n, r).kind = "call" /\ CallPacket(n, r).call = n
  BY DEF CallPacket
<1>6. \A n \in Numbers, r \in BOOLEAN : CallPacket(n, r) \in ToServer
  BY DEF ToServer
<1>7. /\ Break \in ToServer /\ Reset \in ToServer /\ Logoff \in ToServer
      /\ Break.kind = "break" /\ Reset.kind = "reset" /\ Logoff.kind = "logoff"
  BY DEF ToServer, Break, Reset, Logoff
<1>8. ASSUME NEW p \in ToServer
      PROVE  /\ p.kind \in {"call", "break", "reset", "logoff"}
             /\ p.kind = "call" => p.call \in Numbers
             /\ p.kind = "break" => p = Break
  <2>1. CASE p \in {CallPacket(n, r) : n \in Numbers, r \in BOOLEAN}
    <3>1. p.kind = "call" /\ p.call \in Numbers
      BY <1>5, <2>1
    <3> QED BY <3>1
  <2>2. CASE p \in {Break, Reset, Logoff}
    BY <1>7, <2>2
  <2> QED BY <2>1, <2>2 DEF ToServer
<1> QED BY <1>1, <1>2, <1>3, <1>4, <1>5, <1>6, <1>7, <1>8

\* The state between a step's two sides that most steps leave alone.
LEMMA Types ==
  ASSUME TypeOK
  PROVE  /\ up \in Seq(ToServer) /\ down \in Seq(ToClient)
         /\ made \in 0..Calls /\ serving \in 0..Calls /\ breaks \in 0..MaxBreaks
         /\ Calls \in Nat /\ MaxBreaks \in Nat /\ MaxRounds \in Nat
         /\ \A n : n \in Numbers <=> n \in 1..Calls
BY BreakRaceAssumption DEF TypeOK, Numbers

LEMMA FrameInit == Init => FrameInv
<1> SUFFICES ASSUME Init PROVE FrameInv
  OBVIOUS
<1>0. answers \in [Numbers -> Answer \cup {NoAnswer}] /\ outcome \in [Numbers -> Whats \cup {"none"}]
  BY DEF Init
<1>1. up \in Seq(ToServer) /\ down \in Seq(ToClient) /\ (half => up # <<>>)
  BY DEF Init
<1>2. serving \in 0..Calls /\ rounds \in 0..MaxRounds /\ made \in 0..Calls /\ breaks \in 0..MaxBreaks
  BY BreakRaceAssumption DEF Init
<1>3. /\ half \in BOOLEAN /\ torn \in BOOLEAN /\ patient \in BOOLEAN /\ broke \in BOOLEAN
      /\ cancels \in Nat
  BY DEF Init
<1>4. server = "reading" /\ rounds = 0 /\ stmt = "none" /\ client = "idle"
  BY DEF Init
<1>5. TypeOK
  BY <1>0, <1>1, <1>2, <1>3, <1>4 DEF TypeOK
<1>6. FirstInv /\ ~Running
  BY DEF Init, FirstInv, Running
<1>7. ~torn
  BY DEF Init
<1> QED BY <1>4, <1>5, <1>6, <1>7 DEF FrameInv

LEMMA FrameFields ==
  ASSUME FrameInv
  PROVE  /\ TypeOK /\ FirstInv /\ (torn => ~half) /\ (Running => serving \in Numbers)
         /\ client \notin {"idle", "left"} => made \in Numbers
BY DEF FrameInv

LEMMA FrameCall ==
  ASSUME FrameInv, Call
  PROVE  FrameInv'
<1>1. PICK raced \in BOOLEAN : up' = Append(up, CallPacket(made + 1, raced))
  BY DEF Call
<1>2. /\ UNCHANGED <<half, down, server, serving, rounds, torn, stmt, cancels, patient, breaks,
                     answers, outcome>>
      /\ client' = "waiting" /\ client = "idle" /\ broke' = FALSE
      /\ made' = made + 1 /\ made < Calls
  BY DEF Call, handler, backend
<1>0. TypeOK /\ FirstInv /\ (torn => ~half) /\ (Running => serving \in Numbers)
  BY FrameFields
<1>3. made' \in Numbers /\ made' \in 0..Calls
  BY <1>0, <1>2, Types
<1>4. /\ up' \in Seq(ToServer) /\ up' # <<>>
      /\ up # <<>> => up'[1] = up[1]
      /\ up = <<>> => up'[1].kind = "call"
  BY <1>0, <1>1, <1>2, <1>3, Types, Packets, Sent
<1>5. TypeOK'
  BY <1>0, <1>2, <1>3, <1>4 DEF TypeOK
<1>6. FirstInv'
  BY <1>0, <1>2, <1>4 DEF FirstInv, Running
<1> QED BY <1>0, <1>2, <1>3, <1>5, <1>6 DEF FrameInv, Running

LEMMA FrameSendBreak ==
  ASSUME FrameInv, SendBreak
  PROVE  FrameInv'
<1>1. up' = Append(up, Break)
  BY DEF SendBreak
<1>2. /\ UNCHANGED <<half, down, server, serving, rounds, torn, stmt, cancels, client, patient,
                     made, answers, outcome>>
      /\ client = "waiting" /\ broke' = TRUE /\ breaks' = breaks + 1 /\ breaks < MaxBreaks
  BY DEF SendBreak, handler, backend
<1>0. TypeOK /\ FirstInv /\ (torn => ~half) /\ (Running => serving \in Numbers)
  BY FrameFields
<1>3. breaks' \in 0..MaxBreaks
  BY <1>0, <1>2, Types
<1>4. up' \in Seq(ToServer) /\ up' # <<>> /\ (up # <<>> => up'[1] = up[1])
  BY <1>0, <1>1, Types, Packets, Sent
<1>5. TypeOK'
  BY <1>0, <1>2, <1>3, <1>4 DEF TypeOK
<1>6. FirstInv'
  BY <1>0, <1>2, <1>4 DEF FirstInv, Running
<1>7. made \in Numbers
  BY <1>2, FrameFields
<1> QED BY <1>0, <1>2, <1>5, <1>6, <1>7 DEF FrameInv, Running

LEMMA FrameLeave ==
  ASSUME FrameInv, Leave
  PROVE  FrameInv'
<1>1. up' = Append(up, Logoff)
  BY DEF Leave
<1>2. /\ UNCHANGED <<half, down, server, serving, rounds, torn, stmt, cancels, patient, made, broke,
                     breaks, answers, outcome>>
      /\ client' = "left" /\ client = "idle"
  BY DEF Leave, handler, backend
<1>0. TypeOK /\ FirstInv /\ (torn => ~half) /\ (Running => serving \in Numbers)
  BY FrameFields
<1>3. /\ up' \in Seq(ToServer) /\ up' # <<>>
      /\ up # <<>> => up'[1] = up[1]
      /\ up = <<>> => up'[1].kind = "logoff"
  BY <1>0, <1>1, Types, Packets, Sent
<1>4. TypeOK'
  BY <1>0, <1>2, <1>3 DEF TypeOK
<1>5. FirstInv'
  BY <1>0, <1>2, <1>3 DEF FirstInv, Running
<1> QED BY <1>0, <1>2, <1>4, <1>5 DEF FrameInv, Running

LEMMA FrameReceive ==
  ASSUME FrameInv, Receive
  PROVE  FrameInv'
<1>1. down # <<>> /\ down' = Tail(down) /\ client \notin {"idle", "left"}
  BY DEF Receive
<1>2. up' = up \/ up' = Append(up, Reset)
  BY DEF Receive, TakesAnswer, StartsReset, Skips
<1>3. \/ answers' = answers
      \/ answers' = [answers EXCEPT ![made] = Head(down)] /\ Head(down) # Marker
  BY DEF Receive, TakesAnswer, StartsReset, Skips
<1>4. client' \in {"idle", "late", "resetting", "reset"}
  BY DEF Receive, TakesAnswer, StartsReset, Skips
<1>5. UNCHANGED <<half, server, serving, rounds, torn, stmt, cancels, patient, made, broke, breaks,
                  outcome>>
  BY DEF Receive, handler, backend
<1>0. TypeOK /\ FirstInv /\ (torn => ~half) /\ (Running => serving \in Numbers)
  BY FrameFields
<1>6. serving # 0
  BY <1>0, <1>1 DEF FirstInv
<1>7. down' \in Seq(ToClient) /\ Head(down) \in ToClient
  BY <1>0, <1>1, Types, Taken
<1>8. up' \in Seq(ToServer) /\ (up # <<>> => up' # <<>>)
  <2>1. up \in Seq(ToServer) /\ Reset \in ToServer
    BY <1>0, Types, Packets
  <2>2. Append(up, Reset) \in Seq(ToServer) /\ Append(up, Reset) # <<>>
    BY <2>1, Sent
  <2> QED BY <1>2, <2>1, <2>2
<1>9. answers' \in [Numbers -> Answer \cup {NoAnswer}]
  <2>1. answers \in [Numbers -> Answer \cup {NoAnswer}]
    BY <1>0 DEF TypeOK
  <2>2. Head(down) # Marker => Head(down) \in Answer
    BY <1>7, Packets
  <2> QED BY <1>3, <2>1, <2>2
<1>10. TypeOK'
  <2>1. /\ half' \in BOOLEAN /\ (half' => up' # <<>>)
        /\ server' \in {"reading", "racing", "busy", "closed"}
        /\ serving' \in 0..Calls /\ rounds' \in 0..MaxRounds /\ torn' \in BOOLEAN
        /\ stmt' \in Whats \cup {"none", "running"} /\ cancels' \in Nat
        /\ server' = "racing" <=> rounds' > 0
        /\ server' = "reading" => stmt' = "none"
    BY <1>0, <1>5, <1>8 DEF TypeOK
  <2>2. /\ patient' \in BOOLEAN /\ broke' \in BOOLEAN
        /\ made' \in 0..Calls /\ breaks' \in 0..MaxBreaks
        /\ outcome' \in [Numbers -> Whats \cup {"none"}]
    BY <1>0, <1>5 DEF TypeOK
  <2> QED BY <1>4, <1>7, <1>8, <1>9, <2>1, <2>2 DEF TypeOK
<1>11. FirstInv'
  BY <1>0, <1>5, <1>6 DEF FirstInv
<1>12. client \notin {"idle", "left"} => made \in Numbers
  BY FrameFields
<1> QED BY <1>0, <1>1, <1>5, <1>10, <1>11, <1>12 DEF FrameInv, Running

LEMMA FrameReads ==
  ASSUME FrameInv, ReadCall \/ ReadMarker \/ ReadLogoff
  PROVE  FrameInv'
<1>0. TypeOK /\ FirstInv /\ (client \notin {"idle", "left"} => made \in Numbers)
  BY FrameFields
<1>1. /\ server = "reading" /\ ~torn /\ up # <<>> /\ up' = Tail(up) /\ half' = FALSE
      /\ UNCHANGED <<torn, cancels, client, patient, made, broke, breaks, answers, outcome>>
  BY DEF ReadCall, ReadMarker, ReadLogoff, Reads, handler, backend, driver
<1>2. up' \in Seq(ToServer) /\ Head(up) = up[1] /\ Head(up) \in ToServer
  BY <1>0, <1>1, Types, Taken
<1>3. stmt = "none" /\ ~Running
  BY <1>0, <1>1 DEF TypeOK, Running
<1>4. CASE ReadCall
  <2>1. /\ Head(up).kind = "call" /\ serving' = Head(up).call /\ stmt' = "running" /\ down' = down
        /\ \/ \E r \in 1..MaxRounds : rounds' = r /\ server' = "racing"
           \/ server' = "busy" /\ rounds' = rounds
    BY <1>4 DEF ReadCall, Reads
  <2>2. serving' \in Numbers /\ serving' \in 0..Calls /\ serving' # 0
    BY <1>0, <1>2, <2>1, Packets, Types
  <2>3. /\ rounds' \in 0..MaxRounds /\ server' \in {"racing", "busy"}
        /\ server' = "racing" <=> rounds' > 0
    BY <1>0, <1>1, <2>1 DEF TypeOK
  <2>4. TypeOK'
    BY <1>0, <1>1, <1>2, <2>1, <2>2, <2>3 DEF TypeOK
  <2>5. FirstInv'
    BY <2>2 DEF FirstInv
  <2> QED BY <1>0, <1>1, <2>2, <2>4, <2>5 DEF FrameInv
<1>5. CASE ReadMarker
  <2>1. /\ UNCHANGED <<server, serving, rounds, stmt>>
        /\ \/ Head(up).kind = "break" /\ down' = Append(down, Marker)
           \/ Head(up).kind = "reset" /\ down' = down \o <<Marker, Data(serving, "cancelled")>>
    BY <1>5 DEF ReadMarker, Reads, handler, backend
  <2>2. serving \in Numbers
    <3>1. serving # 0
      BY <1>0, <1>1, <1>2, <2>1 DEF FirstInv
    <3> QED BY <1>0, <3>1, Types
  <2>3. down' \in Seq(ToClient)
    <3>1. Marker \in ToClient /\ Data(serving, "cancelled") \in ToClient /\ down \in Seq(ToClient)
      BY <1>0, <2>2, Packets, Types DEF Whats
    <3>2. <<Marker, Data(serving, "cancelled")>> \in Seq(ToClient)
      BY <3>1
    <3>3. down \o <<Marker, Data(serving, "cancelled")>> \in Seq(ToClient)
      BY <3>1, <3>2, ConcatProperties
    <3>4. Append(down, Marker) \in Seq(ToClient)
      BY <3>1, Sent
    <3> QED BY <2>1, <3>3, <3>4
  <2>4. TypeOK'
    BY <1>0, <1>1, <1>2, <2>1, <2>3 DEF TypeOK
  <2>5. FirstInv'
    BY <2>1, <2>2 DEF FirstInv, Numbers
  <2> QED BY <1>0, <1>1, <2>1, <2>2, <2>4, <2>5 DEF FrameInv, Running
<1>6. CASE ReadLogoff
  <2>1. UNCHANGED <<down, serving, rounds, stmt>> /\ server' = "closed" /\ Head(up).kind = "logoff"
    BY <1>6 DEF ReadLogoff, Reads, backend
  <2>2. TypeOK'
    BY <1>0, <1>1, <1>2, <2>1 DEF TypeOK
  <2>3. FirstInv'
    BY <1>0, <1>1, <1>2, <2>1 DEF FirstInv, Running
  <2> QED BY <1>0, <1>1, <2>1, <2>2, <2>3 DEF FrameInv, Running
<1> QED BY <1>4, <1>5, <1>6

LEMMA FrameRace ==
  ASSUME FrameInv, RacePacket \/ PacketBegins \/ RaceEnds \/ BusyEnds
  PROVE  FrameInv'
<1>0. /\ TypeOK /\ FirstInv /\ (torn => ~half) /\ (Running => serving \in Numbers)
      /\ client \notin {"idle", "left"} => made \in Numbers
  BY FrameFields
<1>1. /\ server \in {"racing", "busy"}
      /\ UNCHANGED <<serving, client, patient, made, broke, breaks, answers>>
  BY DEF RacePacket, PacketBegins, RaceEnds, BusyEnds, handler, backend, driver
<1>2. serving \in Numbers /\ serving # 0 /\ FirstInv'
  BY <1>0, <1>1 DEF Running, Numbers, FirstInv
<1>3. CASE RacePacket
  <2>1. /\ up # <<>> /\ up' = Tail(up) /\ half' = FALSE /\ ~torn
        /\ down' = down \/ down' = Append(down, Marker)
        /\ cancels' = cancels \/ (\E sent \in {0, 1} : cancels' = cancels + sent)
        /\ UNCHANGED <<server, rounds, torn, stmt, outcome>>
    BY <1>3 DEF RacePacket, handler
  <2>2. up' \in Seq(ToServer) /\ down' \in Seq(ToClient) /\ cancels' \in Nat
    <3>1. up' \in Seq(ToServer)
      BY <1>0, <2>1, Types, Taken
    <3>2. down' \in Seq(ToClient)
      <4>1. down \in Seq(ToClient) /\ Marker \in ToClient
        BY <1>0, Types, Packets
      <4> QED BY <2>1, <4>1
    <3>3. cancels' \in Nat
      <4>1. cancels \in Nat
        BY <1>0 DEF TypeOK
      <4>2. \A sent \in {0, 1} : cancels + sent \in Nat
        BY <4>1
      <4> QED BY <2>1, <4>1, <4>2
    <3> QED BY <3>1, <3>2, <3>3
  <2>3. TypeOK'
    BY <1>0, <1>1, <2>1, <2>2 DEF TypeOK
  <2> QED BY <1>0, <1>1, <1>2, <2>1, <2>3 DEF FrameInv, Running
<1>4. CASE PacketBegins
  <2>1. /\ up # <<>> /\ half' = TRUE /\ ~torn
        /\ UNCHANGED <<up, down, server, rounds, torn, stmt, cancels, outcome>>
    BY <1>4 DEF PacketBegins, handler, backend
  <2>2. TypeOK'
    BY <1>0, <1>1, <2>1 DEF TypeOK
  <2> QED BY <1>0, <1>1, <1>2, <2>1, <2>2 DEF FrameInv, Running
<1>5. ASSUME RaceEnds \/ BusyEnds,
             down' = Append(down, Data(serving, stmt)), stmt \in Whats,
             outcome' = [outcome EXCEPT ![serving] = stmt]
      PROVE  down' \in Seq(ToClient) /\ outcome' \in [Numbers -> Whats \cup {"none"}]
  <2>1. down' \in Seq(ToClient)
    BY <1>0, <1>2, <1>5, Types, Sent, Packets
  <2>2. outcome \in [Numbers -> Whats \cup {"none"}]
    BY <1>0 DEF TypeOK
  <2> QED BY <1>5, <2>1, <2>2
<1>6. CASE RaceEnds
  <2>1. /\ up' = up /\ half' = FALSE /\ cancels' = cancels /\ server = "racing" /\ stmt \in Whats
        /\ \/ /\ rounds > 1 /\ rounds' = rounds - 1 /\ stmt' = "running"
              /\ UNCHANGED <<down, server, outcome>>
           \/ /\ rounds' = 0 /\ server' = "reading" /\ stmt' = "none"
              /\ outcome' = [outcome EXCEPT ![serving] = stmt]
              /\ down' = Append(down, Data(serving, stmt))
    BY <1>6 DEF RaceEnds, Ended
  <2>2. torn' \in BOOLEAN
    <3>1. torn' = (torn \/ half)
      BY <1>6 DEF RaceEnds
    <3> QED BY <3>1
  <2>3. /\ rounds' \in 0..MaxRounds
        /\ server' = "racing" <=> rounds' > 0
        /\ server' \in {"racing", "reading"}
        /\ server' = "reading" => stmt' = "none"
        /\ stmt' \in {"running", "none"}
    BY <1>0, <2>1, Types DEF TypeOK
  <2>4. down' \in Seq(ToClient) /\ outcome' \in [Numbers -> Whats \cup {"none"}]
    <3>1. down \in Seq(ToClient) /\ outcome \in [Numbers -> Whats \cup {"none"}]
      BY <1>0 DEF TypeOK
    <3> QED BY <1>5, <1>6, <2>1, <3>1
  <2>5. TypeOK'
    BY <1>0, <1>1, <2>1, <2>2, <2>3, <2>4 DEF TypeOK
  <2> QED BY <1>0, <1>1, <1>2, <2>1, <2>5 DEF FrameInv
<1>7. CASE BusyEnds
  <2>1. /\ UNCHANGED <<up, half, rounds, torn, cancels>> /\ server = "busy" /\ stmt \in Whats
        /\ server' = "reading" /\ stmt' = "none"
        /\ outcome' = [outcome EXCEPT ![serving] = stmt]
        /\ down' = Append(down, Data(serving, stmt))
    BY <1>7 DEF BusyEnds, Ended
  <2>2. down' \in Seq(ToClient) /\ outcome' \in [Numbers -> Whats \cup {"none"}]
    BY <1>5, <1>7, <2>1
  <2>3. TypeOK'
    BY <1>0, <1>1, <2>1, <2>2 DEF TypeOK
  <2> QED BY <1>0, <1>1, <1>2, <2>1, <2>3 DEF FrameInv
<1> QED BY <1>3, <1>4, <1>6, <1>7

LEMMA FrameOther ==
  ASSUME FrameInv, Misread \/ IdleDeadline \/ RaceReadFails \/ StatementEnds \/ CancelArrives
                   \/ Over
  PROVE  FrameInv'
<1>0. /\ TypeOK /\ FirstInv /\ (torn => ~half) /\ (Running => serving \in Numbers)
      /\ client \notin {"idle", "left"} => made \in Numbers
  BY FrameFields
<1>1. UNCHANGED <<half, down, serving, torn, client, patient, made, broke, breaks, answers, outcome>>
  BY DEF Misread, IdleDeadline, RaceReadFails, StatementEnds, CancelArrives, Over, channel, handler,
         backend, driver, vars
<1>2. CASE Misread
  <2>1. /\ torn /\ UNCHANGED <<stmt, cancels>> /\ up # <<>> /\ server \in {"reading", "racing"}
        /\ \/ server' = "closed" /\ rounds' = 0 /\ up' = up
           \/ up' = Tail(up) /\ UNCHANGED <<server, rounds>>
    BY <1>2 DEF Misread, backend
  <2>2. ~half /\ serving # 0 /\ up' \in Seq(ToServer)
    <3>1. ~half /\ serving # 0
      BY <1>0, <2>1 DEF FirstInv
    <3>2. up \in Seq(ToServer)
      BY <1>0, Types
    <3> QED BY <2>1, <3>1, <3>2
  <2>3. 0 \in 0..MaxRounds
    BY Types, <1>0
  <2>4. TypeOK'
    BY <1>0, <1>1, <2>1, <2>2, <2>3 DEF TypeOK
  <2>5. FirstInv'
    BY <1>1, <2>2 DEF FirstInv
  <2> QED BY <1>0, <1>1, <2>1, <2>4, <2>5 DEF FrameInv, Running
<1>3. CASE IdleDeadline \/ RaceReadFails
  <2>1. /\ UNCHANGED <<up, stmt, cancels>> /\ server \in {"reading", "racing"}
        /\ server' = "closed"
        /\ (server = "reading" /\ rounds' = rounds) \/ rounds' = 0
    BY <1>3 DEF IdleDeadline, RaceReadFails, channel, backend
  <2>2. rounds' \in 0..MaxRounds /\ ~(rounds' > 0)
    <3>1. rounds \in 0..MaxRounds /\ 0 \in 0..MaxRounds /\ (server = "racing" <=> rounds > 0)
      BY Types, <1>0 DEF TypeOK
    <3> QED BY <2>1, <3>1
  <2>3. TypeOK'
    BY <1>0, <1>1, <2>1, <2>2 DEF TypeOK
  <2>4. FirstInv'
    BY <1>0, <1>1, <2>1 DEF FirstInv, Running
  <2> QED BY <1>0, <1>1, <2>1, <2>3, <2>4 DEF FrameInv, Running
<1>4. CASE StatementEnds \/ CancelArrives \/ Over
  <2>1. UNCHANGED <<up, server, rounds>>
    BY <1>4 DEF StatementEnds, CancelArrives, Over, channel, handler, vars
  <2>2. /\ stmt' \in Whats \cup {"none", "running"} /\ cancels' \in Nat
        /\ server = "reading" => stmt' = "none"
    <3>1. /\ stmt \in Whats \cup {"none", "running"} /\ cancels \in Nat
          /\ server = "reading" => stmt = "none"
      BY <1>0 DEF TypeOK
    <3>2. CASE StatementEnds
      BY <3>1, <3>2 DEF StatementEnds
    <3>3. CASE CancelArrives
      <4>1. cancels - 1 \in Nat
        BY <3>1, <3>3 DEF CancelArrives
      <4> QED BY <3>1, <3>3, <4>1 DEF CancelArrives, Whats
    <3>4. CASE Over
      BY <3>1, <3>4 DEF Over, backend, vars
    <3> QED BY <1>4, <3>2, <3>3, <3>4
  <2>3. TypeOK'
    BY <1>0, <1>1, <2>1, <2>2 DEF TypeOK
  <2>4. FirstInv'
    BY <1>0, <1>1, <2>1 DEF FirstInv, Running
  <2> QED BY <1>0, <1>1, <2>1, <2>3, <2>4 DEF FrameInv, Running
<1> QED BY <1>2, <1>3, <1>4

LEMMA FrameNext ==
  ASSUME FrameInv, [Next]_vars
  PROVE  FrameInv'
<1>1. CASE Next
  BY <1>1, FrameCall, FrameSendBreak, FrameLeave, FrameReceive, FrameReads, FrameRace, FrameOther
     DEF Next
<1>2. CASE UNCHANGED vars
  <2>1. UNCHANGED <<up, half, down, server, serving, rounds, torn, stmt, cancels, client, patient,
                    made, broke, breaks, answers, outcome>>
    BY <1>2 DEF vars, channel, handler, backend, driver
  <2>2. TypeOK'
    BY <2>1, FrameFields DEF TypeOK
  <2>3. FirstInv' /\ Running' = Running
    BY <2>1, FrameFields DEF FirstInv, Running
  <2> QED BY <2>1, <2>2, <2>3 DEF FrameInv
<1> QED BY <1>1, <1>2

-----------------------------------------------------------------------------
(* The client's steps.                                                     *)

LEMMA CallStep ==
  ASSUME FrameInv, StepInv, Call
  PROVE  StepInv'
<1>1. /\ UNCHANGED <<down, server, serving, torn, patient, breaks, answers, outcome>>
      /\ client' = "waiting" /\ client = "idle" /\ broke' = FALSE
      /\ made' = made + 1 /\ made < Calls
  BY DEF Call, handler, backend
<1>2. made + 1 \in Numbers /\ made \in Nat /\ up \in Seq(ToServer)
  BY <1>1, FrameFields, Types
<1>3. PICK e \in ToServer : up' = Append(up, e) /\ e.kind = "call" /\ e.call = made + 1
  <2>1. PICK raced \in BOOLEAN : up' = Append(up, CallPacket(made + 1, raced))
    BY DEF Call
  <2> QED BY <1>2, <2>1, Packets
<1>4. Running' = Running /\ Live' = Live /\ Stale' = Stale
  BY <1>1 DEF Running, Live, Stale
<1>5. ~Running /\ (Empty(down) \/ One(down, "marker")) /\ (Live => WhenIdle)
  BY <1>1 DEF StepInv, DownWords, LiveWords
<1>6. /\ Empty(up) => One(up', "call")
      /\ One(up, "break") => Two(up', "break", "call")
      /\ CallsAre(up, made + 1) => CallsAre(up', made + 1)
  BY <1>2, <1>3, Sent, SentMatches
<1>7. Live' => WhenWaiting' /\ CallSent' /\ CallsAre(up', made')
  <2>1. Live => Empty(up) \/ One(up, "break")
    BY <1>5 DEF WhenIdle
  <2>2. Live => CallSent' /\ CallsAre(up', made')
    BY <1>1, <1>6, <2>1, NoneOfThem DEF CallSent
  <2>3. Live => WhenWaiting'
    BY <1>1, <1>4, <1>5, <1>6 DEF WhenIdle, WhenWaiting, Unbroken, Overtaken
  <2> QED BY <1>4, <2>2, <2>3
<1>8. AnswersAre(down', made', outcome'[made'])
  BY <1>1, <1>5, NoneOfThem
<1>9. Unanswered'
  <2>1. \A n \in Numbers : n > made => answers[n] = NoAnswer
    BY DEF StepInv, Unanswered
  <2>2. \A n \in Numbers : n > made + 1 => n > made
    BY <1>2, FrameFields, Types
  <2>3. answers'[made'] = NoAnswer
    BY <1>1, <1>2, <2>1
  <2> QED BY <1>1, <2>1, <2>2, <2>3 DEF Unanswered
<1>10. AnswersItsOwnCall'
  BY <1>1 DEF StepInv, AnswersItsOwnCall, InStep
<1>11. DownWords' /\ (Live' => LiveWords')
  BY <1>1, <1>4, <1>5, <1>7 DEF DownWords, LiveWords
<1>12. ServingInv'
  BY <1>4, <1>5, <1>7 DEF ServingInv
<1> QED BY <1>8, <1>9, <1>10, <1>11, <1>12 DEF StepInv

LEMMA SendBreakStep ==
  ASSUME FrameInv, StepInv, SendBreak, InStep'
  PROVE  StepInv'
<1>1. /\ UNCHANGED <<down, server, serving, torn, client, patient, made, answers, outcome>>
      /\ client = "waiting" /\ ~broke /\ broke' = TRUE /\ breaks' = breaks + 1
  BY DEF SendBreak, handler, backend
<1>2. breaks \in Nat /\ up \in Seq(ToServer)
  BY FrameFields, Types
<1>3. /\ Empty(up) => One(up', "break")
      /\ One(up, "call") => Two(up', "call", "break")
      /\ CallsAre(up, made) => CallsAre(up', made)
  <2>1. PICK e \in ToServer : up' = Append(up, e) /\ e.kind = "break"
    BY Packets DEF SendBreak
  <2> QED BY <1>2, <2>1, Sent, SentMatches
<1>4. Running' = Running /\ Live' = Live
  BY <1>1 DEF Running, Live
<1>5. ~Stale /\ breaks' > 0
  BY <1>1, <1>2 DEF Stale, InStep
<1>6. Live => Unbroken
  BY <1>1, <1>5 DEF StepInv, LiveWords, WhenWaiting
<1>7. Live' => WhenWaiting' /\ CallsAre(up', made') /\ (CallSent' \/ serving' = made')
  <2>1. Live => CallsAre(up', made')
    BY <1>1, <1>3 DEF StepInv, ServingInv
  <2>2. Live => CallSent' \/ serving' = made'
    <3>1. CASE One(up, "call")
      BY <1>3, <3>1 DEF CallSent
    <3>2. CASE Empty(up)
      BY <1>1, <3>2, Apart DEF StepInv, ServingInv, CallSent
    <3> QED BY <1>6, <3>1, <3>2 DEF Unbroken
  <2>3. Live => Broken'
    BY <1>1, <1>3, <1>4, <1>6 DEF Unbroken, Broken
  <2>4. Live => WhenWaiting'
    BY <1>1, <1>5, <2>3 DEF WhenWaiting
  <2> QED BY <1>4, <2>1, <2>2, <2>4
<1>8. AnswersAre(down', made', outcome'[made'])
  BY <1>1 DEF StepInv
<1>9. Unanswered'
  BY <1>1 DEF StepInv, Unanswered
<1>10. AnswersItsOwnCall'
  <2>1. InStep
    BY <1>1, <1>2 DEF InStep
  <2> QED BY <1>1, <2>1 DEF StepInv, AnswersItsOwnCall
<1>11. DownWords' /\ (Live' => LiveWords')
  BY <1>1, <1>4, <1>7 DEF StepInv, DownWords, LiveWords
<1>12. ServingInv'
  BY <1>1, <1>4, <1>7 DEF StepInv, ServingInv
<1> QED BY <1>8, <1>9, <1>10, <1>11, <1>12 DEF StepInv

LEMMA LeaveStep ==
  ASSUME FrameInv, StepInv, Leave
  PROVE  StepInv'
<1>1. /\ UNCHANGED <<down, server, serving, torn, patient, made, broke, breaks, answers, outcome>>
      /\ client = "idle" /\ client' = "left"
  BY DEF Leave, handler, backend
<1>2. up \in Seq(ToServer)
  BY FrameFields, Types
<1>3. /\ Empty(up) => One(up', "logoff")
      /\ One(up, "break") => Two(up', "break", "logoff")
      /\ CallsAre(up, made) => CallsAre(up', made)
  <2>1. PICK e \in ToServer : up' = Append(up, e) /\ e.kind = "logoff"
    BY Packets DEF Leave
  <2> QED BY <1>2, <2>1, Sent, SentMatches
<1>4. Running' = Running /\ Live' = Live
  BY <1>1 DEF Running, Live
<1>5. ~Running /\ (Empty(down) \/ One(down, "marker")) /\ (Live => WhenIdle)
  BY <1>1 DEF StepInv, DownWords, LiveWords
<1>6. Live => WhenLeft'
  BY <1>1, <1>3, <1>4, <1>5 DEF WhenIdle, WhenLeft
<1>7. Live => serving = made /\ ~CallSent'
  <2>1. Live => ~CallSent
    <3>1. Live => Empty(up) \/ One(up, "break")
      BY <1>5 DEF WhenIdle
    <3> QED BY <3>1 DEF CallSent, Empty, One, Two
  <2>2. Live => One(up', "logoff") \/ Two(up', "break", "logoff")
    BY <1>6 DEF WhenLeft
  <2>3. Live => ~CallSent'
    BY <2>2 DEF CallSent, One, Two
  <2> QED BY <2>1, <2>3 DEF StepInv, ServingInv
<1>8. AnswersAre(down', made', outcome'[made'])
  BY <1>1 DEF StepInv
<1>9. Unanswered'
  BY <1>1, <1>4, <1>5, <1>7 DEF StepInv, Unanswered
<1>10. AnswersItsOwnCall'
  BY <1>1 DEF StepInv, AnswersItsOwnCall, InStep
<1>11. DownWords' /\ (Live' => LiveWords')
  BY <1>1, <1>4, <1>5, <1>6 DEF DownWords, LiveWords
<1>12. ServingInv'
  BY <1>1, <1>3, <1>4, <1>5, <1>7 DEF StepInv, ServingInv
<1> QED BY <1>8, <1>9, <1>10, <1>11, <1>12 DEF StepInv

\* What every Receive leaves alone, and what the head of down then is.
LEMMA Received ==
  ASSUME FrameInv, StepInv, Receive
  PROVE  /\ UNCHANGED <<server, serving, torn, patient, made, broke, breaks, outcome>>
         /\ Running' = Running /\ Live' = Live /\ Stale' = Stale /\ made \in Numbers
         /\ down # <<>> /\ down' = Tail(down) /\ ~Empty(down)
         /\ \A a : One(down, a) => Head(down).kind = a /\ Empty(down')
         /\ \A a, b : Two(down, a, b) => Head(down).kind = a /\ One(down', b)
         /\ \A a, b, c : Three(down, a, b, c) => Head(down).kind = a /\ Two(down', b, c)
         /\ AnswersAre(down', made', outcome'[made'])
         /\ Head(down) = Marker => Head(down).kind = "marker"
         /\ Head(down) # Marker =>
              /\ Head(down) \in Answer /\ Head(down).kind = "data"
              /\ Head(down).call = made /\ Head(down).what \in {outcome[made], "cancelled"}
<1>1. /\ UNCHANGED <<server, serving, torn, patient, made, broke, breaks, outcome>>
      /\ down # <<>> /\ down' = Tail(down) /\ client \notin {"idle", "left"}
  BY DEF Receive, handler
<1>2. Running' = Running /\ Live' = Live /\ Stale' = Stale /\ made \in Numbers
  BY <1>1, FrameFields DEF Running, Live, Stale
<1>3. down \in Seq(ToClient) /\ AnswersAre(down, made, outcome[made])
  BY FrameFields, Types DEF StepInv
<1>4. /\ Head(down) \in ToClient /\ ~Empty(down)
      /\ \A a : One(down, a) => Head(down).kind = a /\ Empty(down')
      /\ \A a, b : Two(down, a, b) => Head(down).kind = a /\ One(down', b)
      /\ \A a, b, c : Three(down, a, b, c) => Head(down).kind = a /\ Two(down', b, c)
      /\ AnswersAre(down', made, outcome[made])
      /\ Head(down).kind = "data" =>
           Head(down).call = made /\ Head(down).what \in {outcome[made], "cancelled"}
  BY <1>1, <1>3, Taken
<1>5. /\ Head(down) = Marker => Head(down).kind = "marker"
      /\ Head(down) # Marker => Head(down).kind = "data" /\ Head(down) \in Answer
  BY <1>4, Packets
<1> QED BY <1>1, <1>2, <1>4, <1>5

\* The client takes an answer: it is that of the call in hand.
LEMMA AnswerStep ==
  ASSUME FrameInv, StepInv, Receive, client \in {"waiting", "reset"}, Head(down) # Marker
  PROVE  StepInv'
<1>1. /\ up' = up /\ answers' = [answers EXCEPT ![made] = Head(down)]
      /\ client = "waiting" => client' = IF broke /\ patient THEN "late" ELSE "idle"
      /\ client = "reset" => client' = "idle"
  BY DEF Receive, TakesAnswer, StartsReset, Skips
<1>2. /\ UNCHANGED <<server, serving, torn, patient, made, broke, breaks, outcome>>
      /\ Running' = Running /\ Live' = Live /\ Stale' = Stale /\ made \in Numbers
  BY Received
<1>3. Head(down).kind = "data" /\ ~Empty(down)
  BY Received
<1>4. ~One(down, "marker") /\ ~Two(down, "marker", "data")
  BY <1>3, Received
<1>5. /\ One(down, "data") => Empty(down')
      /\ Two(down, "data", "marker") => One(down', "marker")
  BY Received
<1>6. ~Running
  BY <1>3, <1>4 DEF StepInv, DownWords
<1>7. DownWords'
  <2>1. /\ client = "waiting" => One(down, "data") \/ Two(down, "data", "marker")
        /\ client = "reset" => One(down, "data")
    BY <1>3, <1>4, <1>6 DEF StepInv, DownWords
  <2>2. (Empty(down') \/ One(down', "marker")) /\ client' \in {"idle", "late"}
    BY <1>1, <1>5, <2>1
  <2> QED BY <1>2, <1>6, <2>2 DEF DownWords
<1>9. Live => LiveWords' /\ ~CallSent
  <2>1. ASSUME Live, client = "waiting" PROVE LiveWords' /\ ~CallSent
    <3>1. WhenWaiting
      BY <2>1 DEF StepInv, LiveWords
    <3>2. \/ ~broke /\ Empty(down') /\ Empty(up)
          \/ broke /\ breaks > 0 /\ Empty(down') /\ One(up, "break")
          \/ broke /\ breaks > 0 /\ One(down', "marker") /\ Empty(up)
      BY <1>3, <1>4, <1>5, <1>6, <3>1 DEF WhenWaiting, Unbroken, Overtaken, Broken
    <3>3. ~CallSent
      BY <3>2 DEF CallSent, Empty, One, Two
    <3>4. LiveWords'
      <4>1. CASE broke /\ patient
        BY <1>1, <1>2, <1>6, <2>1, <3>2, <4>1 DEF LiveWords, WhenLate
      <4>2. CASE ~(broke /\ patient)
        <5>1. broke => Stale'
          BY <1>2, <3>2, <4>2 DEF Stale
        <5> QED BY <1>1, <1>2, <1>6, <2>1, <3>2, <4>2, <5>1 DEF LiveWords, WhenIdle
      <4> QED BY <4>1, <4>2
    <3> QED BY <3>3, <3>4
  <2>2. ASSUME Live, client = "reset" PROVE LiveWords' /\ ~CallSent
    <3>1. Empty(down') /\ Empty(up)
      BY <1>3, <1>5, <1>6, <2>2 DEF StepInv, LiveWords, WhenReset
    <3>2. ~CallSent
      BY <3>1 DEF CallSent, Empty, One, Two
    <3> QED BY <1>1, <1>2, <1>6, <2>2, <3>1, <3>2 DEF LiveWords, WhenIdle
  <2> QED BY <2>1, <2>2
<1>10. ServingInv'
  BY <1>1, <1>2 DEF StepInv, ServingInv, CallSent
<1>11. AnswersAre(down', made', outcome'[made'])
  BY Received
<1>12. Unanswered'
  <2>1. \A n \in Numbers : n > made => answers'[n] = NoAnswer
    <3>1. \A n \in Numbers : n > made => n # made /\ answers[n] = NoAnswer
      BY <1>2, FrameFields, Types DEF StepInv, Unanswered
    <3> QED BY <1>1, <3>1, FrameFields DEF TypeOK
  <2>2. client' # "waiting" /\ ~Running' /\ (Live' => ~CallSent')
    BY <1>1, <1>2, <1>6, <1>9 DEF CallSent
  <2> QED BY <1>2, <2>1, <2>2 DEF Unanswered
<1>13. AnswersItsOwnCall'
  <2>1. SUFFICES ASSUME InStep', NEW n \in Numbers, answers'[n] # NoAnswer
                 PROVE  answers'[n].call = n /\ answers'[n].what \in {outcome'[n], "cancelled"}
    BY DEF AnswersItsOwnCall
  <2>2. InStep
    BY <1>2, <2>1 DEF InStep
  <2>3. CASE n = made
    <3>1. answers'[n] = Head(down)
      BY <1>1, <2>3, FrameFields DEF TypeOK
    <3> QED BY <1>2, <2>3, <3>1, Received
  <2>4. CASE n # made
    <3>1. answers'[n] = answers[n]
      BY <1>1, <2>4, FrameFields DEF TypeOK
    <3> QED BY <1>2, <2>1, <2>2, <3>1 DEF StepInv, AnswersItsOwnCall
  <2> QED BY <2>3, <2>4
<1> QED BY <1>2, <1>7, <1>9, <1>10, <1>11, <1>12, <1>13 DEF StepInv

\* The client takes a marker and answers it with a RESET.
LEMMA ResetStep ==
  ASSUME FrameInv, StepInv, Receive, client \in {"waiting", "late"}, Head(down) = Marker
  PROVE  StepInv'
<1>1. /\ up' = Append(up, Reset) /\ answers' = answers /\ client' = "resetting"
  BY DEF Receive, TakesAnswer, StartsReset, Skips
<1>2. /\ UNCHANGED <<server, serving, torn, patient, made, broke, breaks, outcome>>
      /\ Running' = Running /\ Live' = Live /\ Stale' = Stale
  BY Received
<1>3. Head(down).kind = "marker" /\ ~Empty(down)
  BY Received
<1>4. ~One(down, "data") /\ ~Two(down, "data", "marker")
  BY <1>3, Received
<1>5. /\ One(down, "marker") => Empty(down')
      /\ Two(down, "marker", "data") => One(down', "data")
  BY Received
<1>6. /\ Empty(up) => One(up', "reset")
      /\ One(up, "call") => Two(up', "call", "reset")
      /\ CallsAre(up, made) => CallsAre(up', made)
  <2>1. PICK e \in ToServer : up' = Append(up, e) /\ e.kind = "reset"
    BY <1>1, Packets
  <2>2. up \in Seq(ToServer)
    BY FrameFields, Types
  <2> QED BY <2>1, <2>2, Sent, SentMatches
<1>7. DownWords'
  <2>1. /\ One(down, "marker") \/ (~Running /\ Two(down, "marker", "data"))
    BY <1>3, <1>4 DEF StepInv, DownWords
  <2>2. Empty(down') \/ (~Running /\ One(down', "data"))
    BY <1>5, <2>1
  <2> QED BY <1>1, <1>2, <2>2 DEF DownWords
<1>8. ASSUME Live
      PROVE  /\ LiveWords' /\ CallsAre(up', made)
             /\ \/ CallSent /\ CallSent' /\ client = "waiting"
                \/ ~CallSent /\ ~CallSent'
  <2>1. CallsAre(up, made)
    BY <1>8 DEF StepInv, ServingInv
  <2>2. \/ ~Running /\ One(down, "marker") /\ One(up, "call") /\ client = "waiting"
        \/ One(down, "marker") /\ Empty(up)
        \/ ~Running /\ Two(down, "marker", "data") /\ Empty(up)
    <3>1. CASE client = "waiting"
      <4>1. Unbroken \/ Overtaken \/ Broken
        BY <1>8, <3>1 DEF StepInv, LiveWords, WhenWaiting
      <4> QED BY <1>3, <1>4, <3>1, <4>1 DEF Unbroken, Overtaken, Broken
    <3>2. CASE client = "late"
      BY <1>3, <1>8, <3>2 DEF StepInv, LiveWords, WhenLate
    <3> QED BY <3>1, <3>2
  <2>3. \/ ~Running /\ Empty(down') /\ Two(up', "call", "reset") /\ CallSent /\ client = "waiting"
        \/ Empty(down') /\ One(up', "reset") /\ Empty(up)
        \/ ~Running /\ One(down', "data") /\ One(up', "reset") /\ Empty(up)
    BY <1>5, <1>6, <2>2 DEF CallSent
  <2>4. WhenResetting'
    BY <1>2, <2>3 DEF WhenResetting
  <2>5. Two(up', "call", "reset") => CallSent'
    BY DEF CallSent
  <2>6. One(up', "reset") => ~CallSent'
    BY DEF CallSent, One, Two
  <2>7. Empty(up) => ~CallSent
    BY DEF CallSent, Empty, One, Two
  <2> QED BY <1>1, <1>6, <2>1, <2>3, <2>4, <2>5, <2>6, <2>7 DEF LiveWords
<1>9. ServingInv'
  BY <1>2, <1>8 DEF StepInv, ServingInv
<1>10. AnswersAre(down', made', outcome'[made'])
  BY Received
<1>11. Unanswered'
  <2>1. CASE client = "waiting"
    BY <1>1, <1>2, <2>1 DEF StepInv, Unanswered
  <2>2. CASE client = "late"
    <3>1. ~Running /\ (Live => ~CallSent')
      BY <1>8, <2>2 DEF StepInv, DownWords
    <3>2. client' # "waiting" /\ ~Running' /\ (Live' => ~CallSent')
      BY <1>1, <1>2, <3>1
    <3> QED BY <1>1, <1>2, <3>2 DEF StepInv, Unanswered
  <2> QED BY <2>1, <2>2
<1>12. AnswersItsOwnCall'
  BY <1>1, <1>2 DEF StepInv, AnswersItsOwnCall, InStep
<1> QED BY <1>2, <1>7, <1>8, <1>9, <1>10, <1>11, <1>12 DEF StepInv

\* The client discards what its reset overtook, up to a marker.
LEMMA SkipStep ==
  ASSUME FrameInv, StepInv, Receive,
         client = "resetting" \/ (client = "reset" /\ Head(down) = Marker)
  PROVE  StepInv'
<1>1. /\ up' = up /\ answers' = answers
      /\ Head(down) = Marker => client' = "reset"
      /\ Head(down) # Marker => client' = "resetting"
  BY DEF Receive, TakesAnswer, StartsReset, Skips
<1>2. /\ UNCHANGED <<server, serving, torn, patient, made, broke, breaks, outcome>>
      /\ Running' = Running /\ Live' = Live
  BY Received
<1>3. /\ ~Empty(down)
      /\ One(down, "marker") => Head(down) = Marker /\ Empty(down')
      /\ Two(down, "marker", "data") => Head(down) = Marker /\ One(down', "data")
      /\ One(down, "data") => Head(down) # Marker /\ Empty(down')
      /\ Three(down, "data", "marker", "data") =>
           Head(down) # Marker /\ Two(down', "marker", "data")
  BY Received
<1>4. client = "resetting"
  BY <1>3 DEF StepInv, DownWords
<1>5. \/ One(down, "marker")
      \/ ~Running /\ One(down, "data")
      \/ ~Running /\ Two(down, "marker", "data")
      \/ ~Running /\ Three(down, "data", "marker", "data")
  BY <1>3, <1>4 DEF StepInv, DownWords
<1>6. DownWords'
  BY <1>1, <1>2, <1>3, <1>5 DEF DownWords
<1>7. ASSUME Live PROVE LiveWords'
  <2>1. WhenResetting
    BY <1>4, <1>7 DEF StepInv, LiveWords
  <2>2. CASE Head(down) = Marker
    <3>1. WhenReset'
      BY <1>1, <1>2, <1>3, <2>1, <2>2 DEF WhenResetting, WhenReset
    <3> QED BY <1>1, <2>2, <3>1 DEF LiveWords
  <2>3. CASE Head(down) # Marker
    <3>1. WhenResetting'
      BY <1>1, <1>2, <1>3, <2>1, <2>3 DEF WhenResetting
    <3> QED BY <1>1, <2>3, <3>1 DEF LiveWords
  <2> QED BY <2>2, <2>3
<1>8. ServingInv'
  BY <1>1, <1>2 DEF StepInv, ServingInv, CallSent
<1>9. AnswersAre(down', made', outcome'[made'])
  BY Received
<1>10. Unanswered'
  BY <1>1, <1>2 DEF StepInv, Unanswered, CallSent
<1>11. AnswersItsOwnCall'
  BY <1>1, <1>2 DEF StepInv, AnswersItsOwnCall, InStep
<1> QED BY <1>2, <1>6, <1>7, <1>8, <1>9, <1>10, <1>11 DEF StepInv

LEMMA ReceiveStep ==
  ASSUME FrameInv, StepInv, Receive
  PROVE  StepInv'
<1>1. client \in {"waiting", "late", "resetting", "reset"}
  BY DEF Receive
<1>2. ~(client = "late" /\ Head(down) # Marker)
  BY DEF Receive
<1> QED BY <1>1, <1>2, AnswerStep, ResetStep, SkipStep

-----------------------------------------------------------------------------
(* The command loop's steps.                                               *)

\* What every packet the command loop reads leaves alone, and what it can be.
LEMMA Read ==
  ASSUME FrameInv, StepInv, NEW packet, Reads(packet)
  PROVE  /\ Live /\ ~Running /\ ~Empty(up)
         /\ LiveWords /\ CallsAre(up', made) /\ (CallSent \/ serving = made)
         /\ packet = "call" => Head(up).call = made
         /\ \A a : One(up, a) => packet = a /\ Empty(up')
         /\ \A a, b : Two(up, a, b) => packet = a /\ One(up', b)
         /\ up' = Tail(up)
<1>1. server = "reading" /\ ~torn /\ up # <<>> /\ Head(up).kind = packet /\ up' = Tail(up)
  BY DEF Reads
<1>2. Live /\ ~Running
  BY <1>1 DEF Live, Running
<1>3. LiveWords /\ CallsAre(up, made) /\ (CallSent \/ serving = made)
  BY <1>2 DEF StepInv, ServingInv
<1>4. up \in Seq(ToServer)
  BY FrameFields, Types
<1> QED BY <1>1, <1>2, <1>3, <1>4, Taken

LEMMA ReadCallStep ==
  ASSUME FrameInv, StepInv, ReadCall
  PROVE  StepInv'
<1>1. /\ Reads("call") /\ serving' = Head(up).call
      /\ UNCHANGED <<down, torn, client, patient, made, broke, breaks, answers, outcome>>
      /\ server' \in {"racing", "busy"}
  BY DEF ReadCall, driver
<1>2. /\ Live /\ ~Running /\ ~Empty(up) /\ LiveWords /\ CallsAre(up', made) /\ serving' = made
      /\ \A a : One(up, a) => a = "call" /\ Empty(up')
      /\ \A a, b : Two(up, a, b) => a = "call" /\ One(up', b)
  BY <1>1, Read
<1>3. Running' /\ Live' /\ Stale' = Stale
  BY <1>1, <1>2 DEF Running, Live, Stale
<1>4. /\ One(up, "call") => Empty(up')
      /\ Two(up, "call", "break") => One(up', "break")
      /\ Two(up, "call", "reset") => One(up', "reset")
      /\ ~One(up, "break") /\ ~One(up, "logoff") /\ ~One(up, "reset")
      /\ ~Two(up, "break", "call") /\ ~Two(up, "break", "logoff")
  BY <1>2
<1>5. client \in {"waiting", "resetting"} /\ CallSent
  <2>1. ~(client = "idle") /\ ~(client = "left") /\ ~(client = "late") /\ ~(client = "reset")
    BY <1>2, <1>4 DEF LiveWords, WhenIdle, WhenLeft, WhenLate, WhenReset
  <2>2. client \in {"waiting", "resetting"}
    BY <2>1, FrameFields DEF TypeOK
  <2>3. CASE client = "waiting"
    <3>1. Unbroken \/ Overtaken \/ Broken
      BY <1>2, <2>3 DEF LiveWords, WhenWaiting
    <3> QED BY <1>2, <1>4, <2>2, <3>1 DEF Unbroken, Overtaken, Broken, CallSent
  <2>4. CASE client = "resetting"
    BY <1>2, <1>4, <2>2, <2>4 DEF LiveWords, WhenResetting, CallSent
  <2> QED BY <2>2, <2>3, <2>4
<1>6. answers[made] = NoAnswer
  BY <1>2, <1>5 DEF StepInv, Unanswered
<1>7. LiveWords'
  <2>1. CASE client = "waiting"
    <3>1. WhenWaiting
      BY <1>2, <2>1 DEF LiveWords
    <3>2. WhenWaiting'
      BY <1>1, <1>2, <1>3, <1>4, <3>1 DEF WhenWaiting, Unbroken, Overtaken, Broken
    <3> QED BY <1>1, <2>1, <3>2 DEF LiveWords
  <2>2. CASE client = "resetting"
    <3>1. WhenResetting'
      BY <1>1, <1>2, <1>3, <1>4, <2>2 DEF LiveWords, WhenResetting
    <3> QED BY <1>1, <2>2, <3>1 DEF LiveWords
  <2> QED BY <1>5, <2>1, <2>2
<1>8. DownWords'
  <2>1. Empty(down) \/ One(down, "marker")
    <3>1. CASE client = "waiting"
      <4>1. Unbroken \/ Overtaken \/ Broken
        BY <1>2, <3>1 DEF LiveWords, WhenWaiting
      <4> QED BY <1>2, <1>4, <4>1 DEF Unbroken, Overtaken, Broken
    <3>2. CASE client = "resetting"
      BY <1>2, <1>4, <3>2 DEF LiveWords, WhenResetting
    <3> QED BY <1>5, <3>1, <3>2
  <2> QED BY <1>1, <1>3, <1>5, <2>1 DEF DownWords
<1>9. ServingInv'
  BY <1>1, <1>2 DEF ServingInv
<1>10. AnswersAre(down', made', outcome'[made'])
  BY <1>1 DEF StepInv
<1>11. Unanswered'
  BY <1>1, <1>6 DEF StepInv, Unanswered
<1>12. AnswersItsOwnCall'
  BY <1>1 DEF StepInv, AnswersItsOwnCall, InStep
<1> QED BY <1>7, <1>8, <1>9, <1>10, <1>11, <1>12 DEF StepInv

LEMMA ReadBreakStep ==
  ASSUME FrameInv, StepInv, ReadMarker, Reads("break")
  PROVE  StepInv'
<1>1. /\ down' = Append(down, Marker)
      /\ UNCHANGED <<server, serving, torn, client, patient, made, broke, breaks, answers, outcome>>
  BY DEF ReadMarker, Reads, handler, driver
<1>2. /\ Live /\ ~Running /\ ~Empty(up) /\ LiveWords /\ CallsAre(up', made)
      /\ CallSent \/ serving = made
  BY Read
<1>3. Running' = Running /\ Live' = Live /\ Stale' = Stale
  BY <1>1 DEF Running, Live, Stale
<1>4. /\ One(up, "break") => Empty(up')
      /\ Two(up, "break", "call") => One(up', "call")
      /\ Two(up, "break", "logoff") => One(up', "logoff")
      /\ ~One(up, "call") /\ ~One(up, "logoff") /\ ~One(up, "reset")
      /\ ~Two(up, "call", "break") /\ ~Two(up, "call", "reset")
  BY Read
<1>5. /\ Empty(down) => One(down', "marker")
      /\ One(down, "data") => Two(down', "data", "marker")
      /\ AnswersAre(down', made, outcome[made])
  <2>1. PICK e \in ToClient : down' = Append(down, e) /\ e.kind = "marker"
    BY <1>1, Packets
  <2>2. down \in Seq(ToClient) /\ AnswersAre(down, made, outcome[made])
    BY FrameFields, Types DEF StepInv
  <2> QED BY <2>1, <2>2, Sent, SentMatches
<1>6. LiveWords'
  <2>1. client = "idle" => WhenIdle'
    BY <1>2, <1>3, <1>4, <1>5 DEF LiveWords, WhenIdle
  <2>2. client = "left" => WhenLeft'
    BY <1>2, <1>3, <1>4, <1>5 DEF LiveWords, WhenLeft
  <2>3. client = "waiting" => WhenWaiting'
    BY <1>1, <1>2, <1>3, <1>4, <1>5 DEF LiveWords, WhenWaiting, Unbroken, Overtaken, Broken
  <2>4. client = "late" => WhenLate'
    BY <1>2, <1>3, <1>4, <1>5 DEF LiveWords, WhenLate
  <2>5. client # "resetting" /\ client # "reset"
    BY <1>2, <1>4 DEF LiveWords, WhenResetting, WhenReset
  <2> QED BY <1>1, <2>1, <2>2, <2>3, <2>4, <2>5 DEF LiveWords
<1>7. DownWords'
  BY <1>1, <1>2, <1>3, <1>6 DEF LiveWords, DownWords, WhenIdle, WhenLeft, WhenWaiting, WhenLate,
       WhenResetting, WhenReset, Unbroken, Overtaken, Broken
<1>8. CallSent => CallSent'
  BY <1>4 DEF CallSent
<1>9. ServingInv'
  BY <1>1, <1>2, <1>3, <1>8 DEF ServingInv
<1>10. CallSent' => CallSent
  <2>1. One(up, "break") \/ Two(up, "break", "call") \/ Two(up, "break", "logoff")
    <3>1. client \in {"idle", "left", "late", "waiting"}
      BY <1>2, <1>4, FrameFields DEF TypeOK, LiveWords, WhenResetting, WhenReset
    <3>2. client = "waiting" => Unbroken \/ Overtaken \/ Broken
      BY <1>2 DEF LiveWords, WhenWaiting
    <3>3. CASE client = "waiting"
      BY <1>2, <1>4, <3>2, <3>3 DEF Unbroken, Overtaken, Broken
    <3>4. CASE client # "waiting"
      BY <1>2, <1>4, <3>1, <3>4 DEF LiveWords, WhenIdle, WhenLeft, WhenLate
    <3> QED BY <3>3, <3>4
  <2>2. Empty(up') \/ Two(up, "break", "call") \/ One(up', "logoff")
    BY <1>4, <2>1
  <2> QED BY <2>2 DEF CallSent, Empty, One, Two
<1>11. AnswersAre(down', made', outcome'[made'])
  BY <1>1, <1>5
<1>12. Unanswered'
  BY <1>1, <1>2, <1>3, <1>10 DEF StepInv, Unanswered
<1>13. AnswersItsOwnCall'
  BY <1>1 DEF StepInv, AnswersItsOwnCall, InStep
<1> QED BY <1>6, <1>7, <1>9, <1>11, <1>12, <1>13 DEF StepInv

\* A RESET is answered with a marker and an error of the call last read.
LEMMA ReadResetStep ==
  ASSUME FrameInv, StepInv, ReadMarker, Reads("reset")
  PROVE  StepInv'
<1>1. /\ down' = down \o <<Marker, Data(serving, "cancelled")>>
      /\ UNCHANGED <<server, serving, torn, client, patient, made, broke, breaks, answers, outcome>>
  BY DEF ReadMarker, Reads, handler, driver
<1>2. /\ Live /\ ~Running /\ ~Empty(up) /\ LiveWords /\ CallsAre(up', made)
      /\ CallSent \/ serving = made
  BY Read
<1>3. Running' = Running /\ Live' = Live /\ Stale' = Stale
  BY <1>1 DEF Running, Live, Stale
<1>4. /\ One(up, "reset") => Empty(up')
      /\ ~One(up, "call") /\ ~One(up, "logoff") /\ ~One(up, "break")
      /\ ~Two(up, "call", "break") /\ ~Two(up, "call", "reset")
      /\ ~Two(up, "break", "call") /\ ~Two(up, "break", "logoff")
  BY Read
<1>5. serving = made /\ made \in Numbers
  <2>1. serving = made
    BY <1>2, <1>4 DEF CallSent
  <2>2. client \notin {"idle", "left"}
    BY <1>2, <1>4 DEF LiveWords, WhenIdle, WhenLeft
  <2> QED BY <2>1, <2>2, FrameFields
<1>6. client = "resetting" /\ One(up, "reset") /\ (Empty(down) \/ One(down, "data"))
  <2>1. client \notin {"idle", "left", "late", "reset"}
    BY <1>2, <1>4 DEF LiveWords, WhenIdle, WhenLeft, WhenLate, WhenReset
  <2>2. client # "waiting"
    BY <1>2, <1>4 DEF LiveWords, WhenWaiting, Unbroken, Overtaken, Broken
  <2>3. client = "resetting"
    BY <2>1, <2>2, FrameFields DEF TypeOK
  <2> QED BY <1>2, <1>4, <2>3 DEF LiveWords, WhenResetting
<1>7. /\ Empty(down) => Two(down', "marker", "data")
      /\ One(down, "data") => Three(down', "data", "marker", "data")
      /\ AnswersAre(down', made, outcome[made])
  <2>1. PICK e \in ToClient : e = Marker /\ e.kind = "marker"
    BY Packets
  <2>2. PICK f \in ToClient : /\ f = Data(serving, "cancelled") /\ f.kind = "data"
                              /\ f.call = made /\ f.what = "cancelled"
    BY <1>5, Packets DEF Whats
  <2>3. down \in Seq(ToClient) /\ AnswersAre(down, made, outcome[made])
    BY FrameFields, Types DEF StepInv
  <2>4. /\ Append(down, e) \in Seq(ToClient) /\ AnswersAre(Append(down, e), made, outcome[made])
        /\ Empty(down) => One(Append(down, e), "marker")
        /\ One(down, "data") => Two(Append(down, e), "data", "marker")
    BY <2>1, <2>3, Sent, SentMatches
  <2>5. PICK d \in Seq(ToClient) : d = Append(down, e)
    BY <2>4
  <2>6. down' = Append(d, f)
    BY <1>1, <2>1, <2>2, <2>3, <2>5
  <2>7. AnswersAre(d, made, outcome[made]) => AnswersAre(Append(d, f), made, outcome[made])
    BY <2>2, SentMatches
  <2>8. /\ One(d, "marker") => Two(Append(d, f), "marker", "data")
        /\ Two(d, "data", "marker") => Three(Append(d, f), "data", "marker", "data")
    BY <2>2, Sent
  <2> QED BY <2>4, <2>5, <2>6, <2>7, <2>8
<1>8. ~Running' /\ WhenResetting'
  BY <1>2, <1>3, <1>4, <1>6, <1>7 DEF WhenResetting
<1>9. LiveWords' /\ DownWords'
  BY <1>1, <1>6, <1>7, <1>8 DEF LiveWords, DownWords
<1>10. ServingInv'
  BY <1>1, <1>2, <1>3, <1>5 DEF ServingInv
<1>11. AnswersAre(down', made', outcome'[made'])
  BY <1>1, <1>7
<1>12. Unanswered'
  <2>1. ~CallSent'
    BY <1>4, <1>6 DEF CallSent, Empty, One, Two
  <2> QED BY <1>1, <1>6, <1>8, <2>1 DEF StepInv, Unanswered
<1>13. AnswersItsOwnCall'
  BY <1>1 DEF StepInv, AnswersItsOwnCall, InStep
<1> QED BY <1>9, <1>10, <1>11, <1>12, <1>13 DEF StepInv

LEMMA ReadLogoffStep ==
  ASSUME FrameInv, StepInv, ReadLogoff
  PROVE  StepInv'
<1>1. /\ UNCHANGED <<down, client, patient, made, broke, breaks, answers, outcome>>
      /\ server = "reading" /\ server' = "closed"
  BY DEF ReadLogoff, Reads, driver
<1>2. ~Running /\ ~Running' /\ ~Live'
  BY <1>1 DEF Running, Live
<1>3. DownWords' /\ AnswersAre(down', made', outcome'[made']) /\ (Live' => LiveWords')
  BY <1>1, <1>2 DEF StepInv, DownWords
<1>4. ServingInv'
  BY <1>2 DEF ServingInv
<1>5. Unanswered'
  BY <1>1, <1>2 DEF StepInv, Unanswered
<1>6. AnswersItsOwnCall'
  BY <1>1 DEF StepInv, AnswersItsOwnCall, InStep
<1> QED BY <1>3, <1>4, <1>5, <1>6 DEF StepInv

-----------------------------------------------------------------------------
(* The steps of race_break.                                                *)

LEMMA RacePacketStep ==
  ASSUME FrameInv, StepInv, RacePacket
  PROVE  StepInv'
<1>1. /\ server = "racing" /\ ~torn /\ up # <<>> /\ up' = Tail(up)
      /\ Head(up).kind \in {"break", "reset"} => down' = Append(down, Marker)
      /\ UNCHANGED <<server, serving, torn, client, patient, made, broke, breaks, answers, outcome>>
  BY DEF RacePacket, handler, driver
<1>2. Running /\ Live /\ Running' /\ Live' /\ Stale' = Stale
  BY <1>1 DEF Running, Live, Stale
<1>3. LiveWords /\ CallsAre(up, made) /\ serving = made
  BY <1>2 DEF StepInv, ServingInv
<1>4. /\ ~Empty(up) /\ CallsAre(up', made)
      /\ One(up, "break") => Head(up).kind = "break" /\ Empty(up')
      /\ One(up, "reset") => Head(up).kind = "reset" /\ Empty(up')
  <2>1. up \in Seq(ToServer)
    BY FrameFields, Types
  <2> QED BY <1>1, <1>3, <2>1, Taken
<1>5. /\ Empty(down)
      /\ \/ client = "waiting" /\ broke /\ breaks > 0 /\ One(up, "break")
         \/ client = "resetting" /\ One(up, "reset")
  <2>1. client \notin {"idle", "left", "late", "reset"}
    BY <1>2, <1>3, <1>4 DEF LiveWords, WhenIdle, WhenLeft, WhenLate, WhenReset
  <2>2. CASE client = "waiting"
    <3>1. WhenWaiting
      BY <1>3, <2>2 DEF LiveWords
    <3> QED BY <1>2, <1>4, <2>2, <3>1 DEF WhenWaiting, Unbroken, Overtaken, Broken
  <2>3. CASE client = "resetting"
    BY <1>2, <1>3, <1>4, <2>3 DEF LiveWords, WhenResetting
  <2> QED BY <2>1, <2>2, <2>3, FrameFields DEF TypeOK
<1>6. Empty(up') /\ One(down', "marker")
  <2>1. PICK e \in ToClient : down' = Append(down, e) /\ e.kind = "marker"
    BY <1>1, <1>4, <1>5, Packets
  <2>2. down \in Seq(ToClient)
    BY FrameFields, Types
  <2>3. Empty(up')
    BY <1>4, <1>5
  <2> QED BY <1>5, <2>1, <2>2, <2>3, Sent
<1>7. LiveWords'
  <2>1. CASE client = "waiting"
    <3>1. WhenWaiting'
      BY <1>1, <1>2, <1>5, <1>6, <2>1 DEF WhenWaiting, Broken
    <3> QED BY <1>1, <2>1, <3>1 DEF LiveWords
  <2>2. CASE client = "resetting"
    BY <1>1, <1>2, <1>6, <2>2 DEF LiveWords, WhenResetting
  <2> QED BY <1>5, <2>1, <2>2
<1>8. DownWords'
  BY <1>1, <1>2, <1>5, <1>6 DEF DownWords
<1>9. ServingInv'
  BY <1>1, <1>3, <1>4 DEF ServingInv
<1>10. AnswersAre(down', made', outcome'[made'])
  BY <1>6, NoneOfThem
<1>11. Unanswered'
  BY <1>1, <1>2 DEF StepInv, Unanswered
<1>12. AnswersItsOwnCall'
  BY <1>1 DEF StepInv, AnswersItsOwnCall, InStep
<1> QED BY <1>7, <1>8, <1>9, <1>10, <1>11, <1>12 DEF StepInv

\* A call's work ends: its answer is added to what is on its way.
LEMMA CallEnds ==
  ASSUME FrameInv, StepInv, Running, server' = "reading", stmt \in Whats, Live' => Live,
         down' = Append(down, Data(serving, stmt)),
         outcome' = [outcome EXCEPT ![serving] = stmt],
         UNCHANGED <<up, serving, client, patient, made, broke, breaks, answers>>
  PROVE  StepInv'
<1>1. ~Running' /\ Stale' = Stale /\ serving = made /\ made \in Numbers
  <2>1. serving = made
    BY DEF StepInv, ServingInv
  <2> QED BY <2>1, FrameFields DEF Running, Stale
<1>2. /\ client \in {"waiting", "resetting", "reset"}
      /\ Empty(down) \/ (client # "reset" /\ One(down, "marker"))
  BY FrameFields DEF StepInv, DownWords, TypeOK
<1>3. /\ Empty(down) => One(down', "data")
      /\ One(down, "marker") => Two(down', "marker", "data")
      /\ AnswersAre(down', made, stmt)
  <2>1. PICK e \in ToClient : /\ down' = Append(down, e) /\ e.kind = "data"
                              /\ e.call = made /\ e.what = stmt
    BY <1>1, Packets
  <2>2. down \in Seq(ToClient)
    BY FrameFields, Types
  <2>3. AnswersAre(down, made, stmt)
    BY <1>2, NoneOfThem
  <2> QED BY <2>1, <2>2, <2>3, Sent, SentMatches
<1>4. outcome'[made] = stmt /\ \A n \in Numbers : n # made => outcome'[n] = outcome[n]
  BY <1>1, FrameFields DEF TypeOK
<1>5. DownWords'
  BY <1>1, <1>2, <1>3 DEF DownWords
<1>6. ASSUME Live PROVE LiveWords'
  <2>1. CASE client = "waiting"
    <3>1. WhenWaiting
      BY <1>6, <2>1 DEF StepInv, LiveWords
    <3>2. WhenWaiting'
      BY <1>1, <1>3, <3>1 DEF WhenWaiting, Unbroken, Overtaken, Broken
    <3> QED BY <2>1, <3>2 DEF LiveWords
  <2>2. CASE client = "resetting"
    <3>1. WhenResetting'
      BY <1>1, <1>3, <1>6, <2>2 DEF StepInv, LiveWords, WhenResetting
    <3> QED BY <2>2, <3>1 DEF LiveWords
  <2>3. CASE client = "reset"
    <3>1. WhenReset'
      BY <1>1, <1>3, <1>6, <2>3 DEF StepInv, LiveWords, WhenReset
    <3> QED BY <2>3, <3>1 DEF LiveWords
  <2> QED BY <1>2, <2>1, <2>2, <2>3
<1>7. ServingInv'
  BY <1>1 DEF StepInv, ServingInv
<1>8. AnswersAre(down', made', outcome'[made'])
  BY <1>3, <1>4
<1>9. answers[made] = NoAnswer
  BY DEF StepInv, Unanswered
<1>10. Unanswered'
  BY <1>9 DEF StepInv, Unanswered
<1>11. AnswersItsOwnCall'
  BY <1>4, <1>9 DEF StepInv, AnswersItsOwnCall, InStep
<1> QED BY <1>5, <1>6, <1>7, <1>8, <1>10, <1>11 DEF StepInv

\* A step of which neither side of the conversation sees anything.
LEMMA UnseenStep ==
  ASSUME FrameInv, StepInv, Live' => Live /\ up' = up, Running' => Running,
         server' # "closed" => Running' = Running,
         server' = "closed" => ~Live',
         UNCHANGED <<down, serving, client, patient, made, broke, breaks, answers, outcome>>
  PROVE  StepInv'
<1>1. ASSUME Live' PROVE Live /\ up' = up /\ Running' = Running
  BY <1>1
<1>2. DownWords'
  <2>1. CASE Running
    <3>1. client \in {"waiting", "resetting", "reset"}
      BY <2>1, FrameFields DEF StepInv, DownWords, TypeOK
    <3>2. Empty(down) \/ (client # "reset" /\ One(down, "marker"))
      BY <2>1, <3>1 DEF StepInv, DownWords
    <3> QED BY <3>1, <3>2 DEF DownWords
  <2>2. CASE ~Running
    BY <2>2 DEF StepInv, DownWords
  <2> QED BY <2>1, <2>2
<1>3. Live' => LiveWords'
  <2>1. SUFFICES ASSUME Live' PROVE LiveWords'
    OBVIOUS
  <2>2. LiveWords /\ Stale' = Stale /\ Running' = Running /\ up' = up
    BY <1>1, <2>1 DEF StepInv, Stale
  <2>3. client = "idle" => WhenIdle'
    BY <2>2 DEF LiveWords, WhenIdle
  <2>4. client = "left" => WhenLeft'
    BY <2>2 DEF LiveWords, WhenLeft
  <2>5. client = "waiting" => WhenWaiting'
    BY <2>2 DEF LiveWords, WhenWaiting, Unbroken, Overtaken, Broken
  <2>6. client = "late" => WhenLate'
    BY <2>2 DEF LiveWords, WhenLate
  <2>7. client = "resetting" => WhenResetting'
    BY <2>2 DEF LiveWords, WhenResetting
  <2>8. client = "reset" => WhenReset'
    BY <2>2 DEF LiveWords, WhenReset
  <2> QED BY <2>3, <2>4, <2>5, <2>6, <2>7, <2>8 DEF LiveWords
<1>4. Live' => CallsAre(up', made) /\ (CallSent' \/ serving = made) /\ (CallSent' => CallSent)
  BY <1>1 DEF StepInv, ServingInv, CallSent
<1>5. ServingInv'
  BY <1>4 DEF StepInv, ServingInv
<1>6. AnswersAre(down', made', outcome'[made'])
  BY DEF StepInv
<1>7. Unanswered'
  BY <1>1, <1>4 DEF StepInv, Unanswered
<1>8. AnswersItsOwnCall'
  BY DEF StepInv, AnswersItsOwnCall, InStep
<1> QED BY <1>2, <1>3, <1>5, <1>6, <1>7, <1>8 DEF StepInv

LEMMA RaceEndsStep ==
  ASSUME FrameInv, StepInv, RaceEnds \/ BusyEnds
  PROVE  StepInv'
<1>1. /\ UNCHANGED <<up, serving, client, patient, made, broke, breaks, answers>>
      /\ server \in {"racing", "busy"} /\ stmt \in Whats
      /\ \/ /\ server' = "reading" /\ outcome' = [outcome EXCEPT ![serving] = stmt]
            /\ down' = Append(down, Data(serving, stmt))
         \/ UNCHANGED <<down, server, outcome>>
  BY DEF RaceEnds, BusyEnds, Ended, driver
<1>2. ~torn' => ~torn
  BY DEF RaceEnds, BusyEnds
<1>3. Running /\ (Live' => Live)
  BY <1>1, <1>2 DEF Running, Live
<1>4. CASE server' = "reading" /\ outcome' = [outcome EXCEPT ![serving] = stmt]
           /\ down' = Append(down, Data(serving, stmt))
  BY <1>1, <1>3, <1>4, CallEnds
<1>5. CASE UNCHANGED <<down, server, outcome>>
  <2>1. Running' /\ server' # "closed"
    BY <1>1, <1>5 DEF Running
  <2> QED BY <1>1, <1>3, <1>5, <2>1, UnseenStep
<1> QED BY <1>1, <1>4, <1>5

LEMMA OtherStep ==
  ASSUME FrameInv, StepInv,
         PacketBegins \/ Misread \/ IdleDeadline \/ RaceReadFails \/ StatementEnds
         \/ CancelArrives \/ Over
  PROVE  StepInv'
<1>1. /\ UNCHANGED <<down, serving, torn, client, patient, made, broke, breaks, answers, outcome>>
      /\ up' = up \/ torn
      /\ server' = server \/ server' = "closed"
  BY DEF PacketBegins, Misread, IdleDeadline, RaceReadFails, StatementEnds, CancelArrives, Over,
         channel, handler, backend, driver, vars
<1>2. /\ Live' => Live /\ up' = up
      /\ Running' => Running
      /\ server' # "closed" => Running' = Running
      /\ server' = "closed" => ~Live'
  BY <1>1 DEF Live, Running
<1> QED BY <1>1, <1>2, UnseenStep

-----------------------------------------------------------------------------
(* The invariant and the theorems.                                         *)

LEMMA InvInit == Init => Inv
<1> SUFFICES ASSUME Init PROVE Inv
  OBVIOUS
<1>1. /\ up = <<>> /\ down = <<>> /\ server = "reading" /\ client = "idle" /\ made = 0
      /\ serving = 0 /\ ~torn
      /\ \A n \in Numbers : answers[n] = NoAnswer
  BY DEF Init
<1>2. Empty(up) /\ Empty(down) /\ ~Running
  BY <1>1, NothingSent DEF Running
<1>3. LiveWords /\ DownWords
  BY <1>1, <1>2 DEF LiveWords, DownWords, WhenIdle
<1>4. CallsAre(up, made) /\ AnswersAre(down, made, outcome[made])
  BY <1>2, NoneOfThem
<1>5. ~CallSent
  BY <1>2 DEF CallSent, Empty, One, Two
<1>6. ServingInv /\ Unanswered
  BY <1>1, <1>2, <1>4, <1>5 DEF ServingInv, Unanswered
<1>7. AnswersItsOwnCall
  BY <1>1 DEF AnswersItsOwnCall
<1> QED BY <1>3, <1>4, <1>6, <1>7, FrameInit DEF Inv, StepInv

LEMMA InvNext == Inv /\ [Next]_vars => Inv'
<1> SUFFICES ASSUME Inv, [Next]_vars PROVE Inv'
  OBVIOUS
<1>1. FrameInv /\ FrameInv'
  BY FrameNext DEF Inv
<1>2. SUFFICES ASSUME InStep' PROVE StepInv'
  BY <1>1 DEF Inv
<1>3. InStep
  <2>1. patient' = patient /\ (breaks' = breaks \/ breaks' = breaks + 1)
    BY DEF Next, Call, SendBreak, Leave, Receive, ReadCall, ReadMarker, ReadLogoff, RacePacket,
           PacketBegins, RaceEnds, BusyEnds, Misread, IdleDeadline, RaceReadFails, StatementEnds,
           CancelArrives, Over, driver, vars
  <2>2. breaks \in Nat
    BY <1>1, FrameFields, Types
  <2> QED BY <1>2, <2>1, <2>2 DEF InStep
<1>4. StepInv
  BY <1>3 DEF Inv
<1>5. CASE Call
  BY <1>1, <1>4, <1>5, CallStep
<1>6. CASE SendBreak
  BY <1>1, <1>2, <1>4, <1>6, SendBreakStep
<1>7. CASE Leave
  BY <1>1, <1>4, <1>7, LeaveStep
<1>8. CASE Receive
  BY <1>1, <1>4, <1>8, ReceiveStep
<1>9. CASE ReadCall
  BY <1>1, <1>4, <1>9, ReadCallStep
<1>10. CASE ReadMarker
  <2>1. Reads("break") \/ Reads("reset")
    BY <1>10 DEF ReadMarker
  <2> QED BY <1>1, <1>4, <1>10, <2>1, ReadBreakStep, ReadResetStep
<1>11. CASE ReadLogoff
  BY <1>1, <1>4, <1>11, ReadLogoffStep
<1>12. CASE RacePacket
  BY <1>1, <1>4, <1>12, RacePacketStep
<1>13. CASE RaceEnds \/ BusyEnds
  BY <1>1, <1>4, <1>13, RaceEndsStep
<1>14. CASE PacketBegins \/ Misread \/ IdleDeadline \/ RaceReadFails \/ StatementEnds
            \/ CancelArrives \/ Over
  BY <1>1, <1>4, <1>14, OtherStep
<1>15. CASE UNCHANGED vars
  <2>1. /\ UNCHANGED <<up, down, server, serving, torn, client, patient, made, broke, breaks,
                       answers, outcome>>
    BY <1>15 DEF vars, channel, handler, driver
  <2>2. Live' = Live /\ Running' = Running
    BY <2>1 DEF Live, Running
  <2>3. server' = "closed" => ~Live'
    BY DEF Live
  <2> QED BY <1>1, <1>4, <2>1, <2>2, <2>3, UnseenStep
<1> QED BY <1>5, <1>6, <1>7, <1>8, <1>9, <1>10, <1>11, <1>12, <1>13, <1>14, <1>15 DEF Next

\* What is on the wire between the calls of a client in step.
LEMMA Quiet ==
  ASSUME Inv
  PROVE  QuietBetweenCalls
<1>1. SUFFICES ASSUME InStep, client = "idle", server # "closed"
               PROVE  /\ \A i \in DOMAIN down : down[i] = Marker
                      /\ torn \/ \A i \in DOMAIN up : up[i] = Break
  BY DEF QuietBetweenCalls
<1>2. /\ up \in Seq(ToServer) /\ down \in Seq(ToClient)
      /\ DOMAIN up = 1..Len(up) /\ DOMAIN down = 1..Len(down)
  BY FrameFields, Types DEF Inv
<1>3. (Empty(down) \/ One(down, "marker")) /\ (Live => Empty(up) \/ One(up, "break"))
  BY <1>1 DEF Inv, StepInv, DownWords, LiveWords, WhenIdle
<1>4. ASSUME NEW i \in DOMAIN down PROVE down[i] = Marker
  <2>1. One(down, "marker") /\ i = 1
    BY <1>2, <1>3 DEF Empty, One
  <2>2. down[i] \in ToClient
    BY <1>2, ElementOfSeq
  <2>3. down[i].kind = "marker"
    BY <2>1 DEF One
  <2>4. \A q \in ToClient : q.kind = "marker" => q = Marker
    BY Packets
  <2> QED BY <2>2, <2>3, <2>4
<1>5. ASSUME ~torn, NEW i \in DOMAIN up PROVE up[i] = Break
  <2>1. One(up, "break") /\ i = 1
    BY <1>1, <1>2, <1>3, <1>5 DEF Empty, One, Live
  <2>2. up[i] \in ToServer
    BY <1>2, ElementOfSeq
  <2>3. up[i].kind = "break"
    BY <2>1 DEF One
  <2>4. \A q \in ToServer : q.kind = "break" => q = Break
    BY Packets
  <2> QED BY <2>2, <2>3, <2>4
<1> QED BY <1>4, <1>5

LEMMA Invariant == Spec => []Inv
BY InvInit, InvNext, PTL DEF Spec

\* Type correctness: rounds are left exactly while the command loop of server.rs is
\* inside race_break, and between statements nothing runs at the backend.
THEOREM BreakRaceType == Spec => []TypeOK
<1>1. Inv => TypeOK
  BY FrameFields DEF Inv
<1> QED BY <1>1, Invariant, PTL

\* However breaks, cancels and resets race the calls, the client takes as the
\* answer to a call the server's answer to that very call (race_break and the
\* command loop's reading of markers).
THEOREM BreakRaceAnswers == Spec => []AnswersItsOwnCall
<1>1. Inv => AnswersItsOwnCall
  BY DEF Inv, StepInv, AnswersItsOwnCall
<1> QED BY <1>1, Invariant, PTL

\* Between calls no answer and no RESET is left on the wire that the next call
\* would take for its own (the same code, whatever it left unread).
THEOREM BreakRaceQuiet == Spec => []QuietBetweenCalls
<1>1. Inv => QuietBetweenCalls
  BY Quiet
<1> QED BY <1>1, Invariant, PTL
=============================================================================
