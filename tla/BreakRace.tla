----------------------------- MODULE BreakRace -----------------------------
(***************************************************************************)
(* Cancelling a statement: how src/server.rs listens for a client's break  *)
(* while a statement runs (race_break), how its command loop answers the   *)
(* markers it reads between statements, and what reaches a client that     *)
(* breaks, resets and goes on.                                             *)
(*                                                                         *)
(* The client is a thin driver: its break is a marker; a marker it reads   *)
(* makes it send RESET, discard everything up to the next marker, and take *)
(* the error that follows.  A patient one that has broken a call waits for *)
(* the server's marker even when the answer comes first.  The OCI client,  *)
(* whose reaction the code leaves as a known gap, is not modelled.         *)
(***************************************************************************)
EXTENDS Naturals, Sequences

CONSTANTS
  Calls,       \* how many calls the client makes
  MaxRounds,   \* how many times one call awaits the backend under race_break
  MaxBreaks,   \* how many breaks the client sends
  NoAnswer

ASSUME BreakRaceAssumption ==
  /\ Calls \in Nat /\ MaxRounds \in Nat /\ MaxBreaks \in Nat

VARIABLES
  up,        \* packets on their way to the server
  half,      \* has the packet at the head of up arrived in part only?
  down,      \* packets on their way to the client
  server,    \* "reading", "racing", "busy" with a call it does not race, "closed"
  serving,   \* the number of the last call read
  rounds,    \* rounds of race_break left for it, the current one included
  torn,      \* a half-read packet was dropped: the next read starts inside it
  stmt,      \* at the backend: "none", "running", or how the statement ended
  cancels,   \* cancel requests on their way to the backend
  client,    \* "idle", "waiting", "late", "resetting", "reset", "left"
  patient,   \* does the client wait for the marker its break is answered with?
  made,      \* calls made so far
  broke,     \* has the client broken the current call?
  breaks,    \* breaks sent so far
  answers,   \* per call, what the client took as its answer
  outcome    \* per call, how its work at the backend ended

channel == <<up, half, down>>
handler == <<server, serving, rounds, torn>>
backend == <<stmt, cancels>>
driver == <<client, patient, made, broke, breaks, answers>>
vars == <<channel, handler, backend, driver, outcome>>

Numbers == 1..Calls
Whats == {"done", "failed", "cancelled"}

CallPacket(n, raced) == [kind |-> "call", call |-> n, raced |-> raced]
Break == [kind |-> "break"]
Reset == [kind |-> "reset"]
Logoff == [kind |-> "logoff"]
Marker == [kind |-> "marker"]
Data(n, what) == [kind |-> "data", call |-> n, what |-> what]

ToServer == {CallPacket(n, r) : n \in Numbers, r \in BOOLEAN}
              \cup {Break, Reset, Logoff}
Answer == {Data(n, w) : n \in Numbers, w \in Whats}
ToClient == Answer \cup {Marker}

TypeOK ==
  /\ up \in Seq(ToServer) /\ down \in Seq(ToClient) /\ half \in BOOLEAN
  /\ half => up # <<>>
  /\ server \in {"reading", "racing", "busy", "closed"}
  /\ serving \in 0..Calls /\ rounds \in 0..MaxRounds /\ torn \in BOOLEAN
  /\ stmt \in Whats \cup {"none", "running"}
  /\ cancels \in Nat
  /\ client \in {"idle", "waiting", "late", "resetting", "reset", "left"}
  /\ patient \in BOOLEAN /\ broke \in BOOLEAN
  /\ made \in 0..Calls /\ breaks \in 0..MaxBreaks
  /\ answers \in [Numbers -> Answer \cup {NoAnswer}]
  /\ outcome \in [Numbers -> Whats \cup {"none"}]
  \* The server awaits the backend exactly while a statement is its call's.
  /\ server = "racing" <=> rounds > 0
  /\ server = "reading" => stmt = "none"

Init ==
  /\ up = <<>> /\ half = FALSE /\ down = <<>>
  /\ server = "reading" /\ serving = 0 /\ rounds = 0 /\ torn = FALSE
  /\ stmt = "none" /\ cancels = 0
  /\ client = "idle" /\ patient \in BOOLEAN /\ made = 0 /\ broke = FALSE /\ breaks = 0
  /\ answers = [n \in Numbers |-> NoAnswer]
  /\ outcome = [n \in Numbers |-> "none"]

(***************************************************************************)
(* The client.                                                             *)
(***************************************************************************)
\* The next call: an Execute or a Fetch, which the server races against breaks,
\* or a COMMIT, a ROLLBACK or DDL, which it does not.
Call ==
  /\ client = "idle" /\ made < Calls
  /\ \E raced \in BOOLEAN : up' = Append(up, CallPacket(made + 1, raced))
  /\ client' = "waiting" /\ made' = made + 1 /\ broke' = FALSE
  /\ UNCHANGED <<half, down, handler, backend, patient, breaks, answers, outcome>>

SendBreak ==
  /\ client = "waiting" /\ ~broke /\ breaks < MaxBreaks
  /\ up' = Append(up, Break)
  /\ broke' = TRUE /\ breaks' = breaks + 1
  /\ UNCHANGED <<half, down, handler, backend, client, patient, made, answers, outcome>>

Leave ==
  /\ client = "idle"
  /\ up' = Append(up, Logoff)
  /\ client' = "left"
  /\ UNCHANGED <<half, down, handler, backend, patient, made, broke, breaks, answers,
                 outcome>>

TakesAnswer(next) ==
  /\ client' = next
  /\ answers' = [answers EXCEPT ![made] = Head(down)]
  /\ UNCHANGED up

\* A marker interrupts what the driver was reading: it resets.
StartsReset ==
  /\ client' = "resetting"
  /\ up' = Append(up, Reset)
  /\ UNCHANGED answers

Skips(next) == client' = next /\ UNCHANGED <<up, answers>>

Receive ==
  /\ down # <<>> /\ client \in {"waiting", "late", "resetting", "reset"}
  /\ down' = Tail(down)
  /\ LET marker == Head(down) = Marker IN
     \/ client = "waiting" /\ ~marker /\ TakesAnswer(IF broke /\ patient THEN "late" ELSE "idle")
     \/ client \in {"waiting", "late"} /\ marker /\ StartsReset
     \/ client = "resetting" /\ ~marker /\ Skips("resetting")
     \/ client \in {"resetting", "reset"} /\ marker /\ Skips("reset")
     \/ client = "reset" /\ ~marker /\ TakesAnswer("idle")
  /\ UNCHANGED <<half, handler, backend, patient, made, broke, breaks, outcome>>

(***************************************************************************)
(* The server between statements.                                          *)
(***************************************************************************)
Reads(packet) ==
  /\ server = "reading" /\ ~torn /\ up # <<>> /\ Head(up).kind = packet
  /\ up' = Tail(up) /\ half' = FALSE

ReadCall ==
  /\ Reads("call")
  /\ serving' = Head(up).call
  /\ stmt' = "running"
  /\ IF Head(up).raced
       THEN \E r \in 1..MaxRounds : rounds' = r /\ server' = "racing"
       ELSE server' = "busy" /\ UNCHANGED rounds
  /\ UNCHANGED <<down, torn, cancels, driver, outcome>>

\* A marker the command loop reads is answered with a marker; a RESET, besides,
\* with the error the driver's recovery waits for.
\* Mutant: without that error.
ReadMarkerBare ==
  /\ \/ Reads("break") \/ Reads("reset")
  /\ down' = Append(down, Marker)
  /\ UNCHANGED <<handler, backend, driver, outcome>>

ReadMarker ==
  /\ \/ Reads("break") /\ down' = Append(down, Marker)
     \/ Reads("reset") /\ down' = down \o <<Marker, Data(serving, "cancelled")>>
  /\ UNCHANGED <<handler, backend, driver, outcome>>

ReadLogoff ==
  /\ Reads("logoff")
  /\ server' = "closed"
  /\ UNCHANGED <<down, serving, rounds, torn, backend, driver, outcome>>

(***************************************************************************)
(* race_break.                                                             *)
(***************************************************************************)
\* The other branch of select: a marker cancels the statement and is answered
\* with a marker; any other packet is dropped.  cancel() is best effort.
\* Mutant: a RESET read here is answered as the command loop answers it.
RacePacketExplained ==
  /\ server = "racing" /\ ~torn /\ up # <<>>
  /\ up' = Tail(up) /\ half' = FALSE
  /\ down' = down \o (CASE Head(up).kind = "break" -> <<Marker>>
                        [] Head(up).kind = "reset" -> <<Marker, Data(serving, "cancelled")>>
                        [] OTHER -> <<>>)
  /\ UNCHANGED <<handler, backend, driver, outcome>>

\* Mutant: the bytes of a packet that has been handled count as half-read.
RacePacketKeepsHalf ==
  /\ server = "racing" /\ ~torn /\ up # <<>>
  /\ up' = Tail(up)
  /\ down' = IF Head(up).kind \in {"break", "reset"} THEN Append(down, Marker) ELSE down
  /\ UNCHANGED <<half, handler, backend, driver, outcome>>

RacePacket ==
  /\ server = "racing" /\ ~torn /\ up # <<>>
  /\ up' = Tail(up) /\ half' = FALSE
  /\ IF Head(up).kind \in {"break", "reset"}
       THEN /\ down' = Append(down, Marker)
            /\ \E sent \in {0, 1} : cancels' = cancels + sent
       ELSE UNCHANGED <<down, cancels>>
  /\ UNCHANGED <<handler, stmt, driver, outcome>>

\* The pending read has consumed a packet's first bytes.
PacketBegins ==
  /\ server = "racing" /\ ~torn /\ up # <<>> /\ ~half
  /\ half' = TRUE
  /\ UNCHANGED <<up, down, handler, backend, driver, outcome>>

Ended == stmt \in Whats

\* The statement's future completes, which drops the read along with the bytes
\* it has consumed.  A call that is not over starts its next round; one that is
\* gets its answer, an ORA-01013 when the statement was cancelled or timed out.
\* Mutant: every round of a call is answered.
RaceEndsEachRound ==
  /\ server = "racing" /\ Ended
  /\ torn' = (torn \/ half) /\ half' = FALSE
  /\ down' = Append(down, Data(serving, stmt))
  /\ outcome' = [outcome EXCEPT ![serving] = stmt]
  /\ IF stmt = "done" /\ rounds > 1
       THEN rounds' = rounds - 1 /\ stmt' = "running" /\ UNCHANGED server
       ELSE rounds' = 0 /\ server' = "reading" /\ stmt' = "none"
  /\ UNCHANGED <<up, serving, cancels, driver>>

RaceEnds ==
  /\ server = "racing" /\ Ended
  /\ torn' = (torn \/ half) /\ half' = FALSE
  /\ IF stmt = "done" /\ rounds > 1
       THEN /\ rounds' = rounds - 1 /\ stmt' = "running"
            /\ UNCHANGED <<down, server, outcome>>
       ELSE /\ rounds' = 0 /\ server' = "reading" /\ stmt' = "none"
            /\ outcome' = [outcome EXCEPT ![serving] = stmt]
            /\ down' = Append(down, Data(serving, stmt))
  /\ UNCHANGED <<up, serving, cancels, driver>>

BusyEnds ==
  /\ server = "busy" /\ Ended
  /\ server' = "reading" /\ stmt' = "none"
  /\ outcome' = [outcome EXCEPT ![serving] = stmt]
  /\ down' = Append(down, Data(serving, stmt))
  /\ UNCHANGED <<up, half, serving, rounds, torn, cancels, driver>>

\* A read that starts inside a packet: its bytes are no valid header and end the
\* session, mid-statement too, or are taken for the body of a longer packet.
Misread ==
  /\ torn /\ server \in {"reading", "racing"} /\ up # <<>>
  /\ \/ server' = "closed" /\ rounds' = 0 /\ UNCHANGED up
     \/ up' = Tail(up) /\ UNCHANGED <<server, rounds>>
  /\ UNCHANGED <<half, down, serving, torn, backend, driver, outcome>>

\* The idle deadline: nobody sends, and the server waits for a packet or for the
\* rest of one.
IdleDeadline ==
  /\ server = "reading" /\ up = <<>> /\ (torn \/ client = "idle")
  /\ server' = "closed"
  /\ UNCHANGED <<channel, serving, rounds, torn, backend, driver, outcome>>

\* The read beside a statement has the same deadline, and meets the end of the
\* stream of a client that is gone: the session ends in mid-statement.
RaceReadFails ==
  /\ server = "racing" /\ (up = <<>> \/ half)
  /\ server' = "closed" /\ rounds' = 0
  /\ UNCHANGED <<channel, serving, torn, backend, driver, outcome>>

(***************************************************************************)
(* The backend.                                                            *)
(***************************************************************************)
\* A statement ends by itself; as cancelled when its statement_timeout does it.
StatementEnds ==
  /\ stmt = "running" /\ server # "closed"
  /\ stmt' \in Whats
  /\ UNCHANGED <<channel, handler, cancels, driver, outcome>>

\* A cancel request hits whatever runs when it arrives, a later call included.
CancelArrives ==
  /\ cancels > 0
  /\ cancels' = cancels - 1
  /\ stmt' = IF stmt = "running" THEN "cancelled" ELSE stmt
  /\ UNCHANGED <<channel, handler, driver, outcome>>

Over == server = "closed" /\ UNCHANGED vars

Next ==
  \/ Call \/ SendBreak \/ Leave \/ Receive
  \/ ReadCall \/ ReadMarker \/ ReadLogoff
  \/ RacePacket \/ PacketBegins \/ RaceEnds \/ BusyEnds
  \/ Misread \/ IdleDeadline \/ RaceReadFails
  \/ StatementEnds \/ CancelArrives \/ Over

\* The runtime polls what is ready, packets arrive, statements end.  Nothing makes
\* the client call, break or leave, or a packet arrive in two pieces.
Fairness ==
  /\ WF_vars(Receive)
  /\ WF_vars(ReadCall \/ ReadMarker \/ ReadLogoff \/ Misread \/ IdleDeadline)
  /\ WF_vars(RaceEnds) /\ WF_vars(BusyEnds) /\ WF_vars(StatementEnds)

Spec == Init /\ [][Next]_vars /\ Fairness

(***************************************************************************)
(* Properties.                                                             *)
(***************************************************************************)
\* Whether answers and recoveries can still be out of step: a driver that does
\* not wait for the marker of its first break may meet it in a later call, and
\* with a second break there are then two recoveries under way at once.
InStep == patient \/ breaks < 2

\* However a break races the statement it aims at, the command loop or the next
\* call: what the client takes as the answer to a call is the server's answer to
\* that very call, and "done" and "failed" are how its work really ended.
\* (An ORA-01013 says nothing of the kind: the work may have been done.)
AnswersItsOwnCall ==
  InStep => \A n \in Numbers :
    answers[n] # NoAnswer =>
      /\ answers[n].call = n
      /\ answers[n].what \in {outcome[n], "cancelled"}

\* Between calls no answer and no RESET is left in either direction, which the
\* next call would take for its own: at most a break and its marker are.
QuietBetweenCalls ==
  InStep /\ client = "idle" /\ server # "closed" =>
    /\ \A i \in DOMAIN down : down[i] = Marker
    /\ torn \/ \A i \in DOMAIN up : up[i] = Break

\* A call is always answered, whatever is broken, cancelled or half-read: the
\* driver never waits for a marker or an error that does not come, unless the
\* session ends.
CallsAnswered ==
  client \in {"waiting", "late", "resetting", "reset"} ~>
    client \in {"idle", "left"} \/ server = "closed"
=============================================================================
