----------------------------- MODULE Handshake -----------------------------
(***************************************************************************)
(* From CONNECT to the command loop: how handle_connection in              *)
(* src/server.rs answers the five supported drivers, which differ in what  *)
(* they send and in what they can read, how the capabilities they announce *)
(* choose the shape of every reply (src/profile.rs), and how the password  *)
(* is proved (src/auth.rs) against the configured list                     *)
(* (src/credentials.rs).  The backend is connected only after the client   *)
(* has been told that it is logged in.                                     *)
(*                                                                         *)
(* Ciphers are symbolic: what is encrypted under a key is read with that   *)
(* key and is Garbage under any other.  A password is a sequence, so that  *)
(* one may begin with another.                                             *)
(***************************************************************************)
EXTENDS Naturals, Sequences, SequencesExt

CONSTANTS
  Drivers,     \* the drivers that connect, of those described below
  Names,       \* user names, in lower case
  Passwords,   \* the passwords in use, none of them empty
  Configured,  \* lists of user:password items an operator may have configured
  None

ASSUME HandshakeAssumption ==
  /\ Drivers \subseteq {"oci", "ojdbc", "odp", "thin", "oracle-rs"}
  /\ \A p \in Passwords : p \in Seq(Nat) /\ p # <<>>
  /\ Configured \subseteq Seq([name : Names, upper : BOOLEAN, password : Passwords])

VARIABLES
  driver, offers, inline,  \* the client: its kind, whom it claims to be, and whether
                           \* its CONNECT holds the descriptor
  config,                  \* items, fallback, version, idle: the server's settings
  up, down,                \* packets to the server and to the client
  server,                  \* where handle_connection stands
  did_na, accepted, caps,  \* what the client has negotiated so far
  oci_dialect,             \* the dialect in use
  stored,                  \* the password found for the user
  wants,                   \* the requests the client has still to send
  awaits,                  \* the request it waits on, or "nothing"
  told                     \* what it knows: "connecting", "in", "refused", "lost", "gone"

client == <<driver, offers, inline, config>>
profile == <<did_na, accepted, caps, oci_dialect>>
progress == <<wants, awaits, told>>
vars == <<client, up, down, server, profile, stored, progress>>

(***************************************************************************)
(* The drivers, as profile.rs and server.rs describe them.                 *)
(***************************************************************************)
RunsNa == {"oci", "ojdbc", "odp"}
VersionList(d) == CASE d = "oci" -> "5" [] d = "ojdbc" -> "54321" [] OTHER -> "none"
\* The registers the server looks at: OCI1, whether the field version is 20.1 or
\* newer, and whether FEATURE_BACKPORT2 is set.
Caps(d) == [oci1 |-> d = "oci", newer |-> d \in {"oci", "ojdbc", "odp"},
            backport |-> d # "oracle-rs"]
NoCaps == [oci1 |-> FALSE, newer |-> FALSE, backport |-> FALSE]

Requests(d, short) ==
  LET login     == <<"protocol", "datatypes", "auth1", "auth2", "call">>
      negotiate == IF d \in RunsNa THEN <<"na">> \o login ELSE login
  IN <<"connect">> \o (IF short THEN negotiate ELSE <<"descriptor">> \o negotiate)

\* The reply shapes a driver can read where it waits on a request, beside errors.
Reads(d, request) ==
  CASE request = "connect"   -> IF d = "oci" THEN {"resend", "accept"} ELSE {"accept"}
    [] request = "na"        -> {"null-adapters"}
    [] request = "protocol"  -> {IF d = "oci" THEN "oci-protocol" ELSE "thin-protocol"}
    [] request = "datatypes" -> CASE d = "oci" -> {"oci-types"}
                                  [] d = "odp" -> {"zone-types"}
                                  [] OTHER -> {"types"}
    [] request = "auth1"     -> CASE d = "oci" -> {"oci-12c"}
                                  [] d = "odp" -> {"end-of-call-12c"}
                                  [] d = "ojdbc" -> {"status-12c"}
                                  [] OTHER -> {"status-11g", "status-12c"}
    [] request = "auth2"     -> CASE d = "oci" -> {"oci-pairs"}
                                  [] d = "odp" -> {"end-of-call-pairs"}
                                  [] OTHER -> {"status-pairs"}
    [] OTHER -> {}
ReadsError(d) ==
  CASE d = "oci" -> "oci-error" [] d \in {"ojdbc", "odp"} -> "end-of-call-error"
    [] d = "thin" -> "completed-error" [] OTHER -> "plain-error"

(***************************************************************************)
(* src/profile.rs.                                                         *)
(***************************************************************************)
ProbablyOciAtProtocol(na, list) == na /\ list = "5"
OciDialect(c) == c.oci1
NewerDescribeFraming(c) == c.newer /\ ~OciDialect(c)
WantsResponseCompletion(c) == OciDialect(c) \/ c.newer \/ c.backport
NaWithoutVersionList(na, list) == na /\ list = "none"

NoVersionList == NaWithoutVersionList(did_na, accepted)

ErrorShape ==
  IF OciDialect(caps) THEN "oci-error"
  ELSE IF NewerDescribeFraming(caps) THEN "end-of-call-error"
  ELSE IF WantsResponseCompletion(caps) THEN "completed-error"
  ELSE "plain-error"

(***************************************************************************)
(* src/credentials.rs.  Names are compared in lower case; later items      *)
(* override earlier ones; the fallback, if any, serves everybody else.     *)
(***************************************************************************)
Lower(user) == user.name

Insert(users, item) ==
  [n \in DOMAIN users \cup {Lower(item)} |->
     IF n = Lower(item) THEN item.password ELSE users[n]]

Users(items) ==
  LET loaded[k \in 0..Len(items)] ==
        IF k = 0 THEN <<>> ELSE Insert(loaded[k - 1], items[k])
  IN loaded[Len(items)]

PasswordFor(user) ==
  LET users == Users(config.items) IN
  IF Lower(user) \in DOMAIN users THEN users[Lower(user)] ELSE config.fallback

(***************************************************************************)
(* src/auth.rs.                                                            *)
(***************************************************************************)
Garbage == "garbage"

\* What cannot be read is nobody's password.
ASSUME GarbageAssumption == Garbage \notin Passwords

Encrypt(key, text) == [key |-> key, text |-> text]
Decrypt(key, cipher) == IF cipher.key = key THEN cipher.text ELSE Garbage

PasswordHash(password, verifier) == <<password, verifier>>
ComboKey(client_b, server_a) == <<client_b, server_a>>

\* The salt and the server's half are fresh in each session.
PhaseOneSesskey(verifier) == Encrypt(PasswordHash(stored', verifier), "server-half")

\* What the client's proof decrypts to must begin with the password.
VerifyPassword(combo, proof) ==
  LET plaintext == Decrypt(combo, proof) IN
  plaintext # Garbage /\ IsPrefix(stored, plaintext)

VerifySpeedyKey(combo, speedy, verifier) ==
  verifier = "12c" => Decrypt(combo, speedy) = <<"password-key", stored>>

\* A mutation for Verifier: the impersonated release alone decides.
VerifierOfTheRelease == IF config.version = "11g" THEN "11g" ELSE "12c"

Verifier ==
  IF config.version = "11g" /\ ~NewerDescribeFraming(caps) /\ ~OciDialect(caps)
  THEN "11g" ELSE "12c"

(***************************************************************************)
(* The client.                                                             *)
(***************************************************************************)
Packet(kind, body) == [kind |-> kind, body |-> body]

\* Phase two: the client reads the challenge with its own password.  One that
\* authenticates by other means sends no AUTH_PASSWORD.
Proof(challenge) ==
  LET verifier == challenge.verifier
      key      == PasswordHash(offers.password, verifier)
      combo    == ComboKey("client-half", Decrypt(key, challenge.sesskey))
  IN [sesskey  |-> Encrypt(key, "client-half"),
      password |-> IF offers.password = None THEN None ELSE Encrypt(combo, offers.password),
      speedy   |-> IF verifier = "12c" /\ driver \in {"thin", "oracle-rs"}
                   THEN Encrypt(combo, <<"password-key", offers.password>>) ELSE None]

Body(request) ==
  CASE request = "protocol"  -> VersionList(driver)
    [] request = "datatypes" -> Caps(driver)
    [] request = "auth1"     -> offers.user
    [] OTHER                 -> None

Send ==
  /\ told \in {"connecting", "in"} /\ awaits = "nothing"
  /\ wants # <<>> /\ Head(wants) # "auth2"
  /\ up' = Append(up, Packet(Head(wants), Body(Head(wants))))
  /\ wants' = Tail(wants)
  /\ awaits' = IF Head(wants) = "descriptor" THEN "nothing" ELSE Head(wants)
  \* What the server wrote before it closed may be lost once more is sent to it.
  /\ \E lost \in BOOLEAN : down' = IF lost /\ server = "closed" THEN <<>> ELSE down
  /\ UNCHANGED <<client, server, profile, stored, told>>

Receive ==
  /\ told \in {"connecting", "in"} /\ awaits # "nothing" /\ down # <<>>
  /\ down' = Tail(down)
  /\ LET reply == Head(down) IN
     CASE reply.kind = "resend" ->
            /\ up' = Append(up, Packet("connect", None))
            /\ UNCHANGED progress
       [] reply.kind = "error" ->
            /\ awaits' = "nothing" /\ wants' = <<>>
            /\ told' = IF awaits = "call" THEN "lost" ELSE "refused"
            /\ UNCHANGED up
       [] reply.kind = "auth1" ->
            /\ up' = Append(up, Packet("auth2", Proof(reply.body)))
            /\ wants' = Tail(wants) /\ awaits' = "auth2"
            /\ UNCHANGED told
       [] OTHER ->
            /\ awaits' = "nothing"
            /\ told' = IF reply.kind = "auth2" THEN "in" ELSE told
            /\ UNCHANGED <<up, wants>>
  /\ UNCHANGED <<client, server, profile, stored>>

\* The user interrupts the login: the driver sends a marker.
Interrupt ==
  /\ told = "connecting" /\ awaits # "nothing"
  /\ \A i \in 1..Len(up) : up[i].kind # "marker"
  /\ up' = Append(up, Packet("marker", None))
  /\ UNCHANGED <<client, down, server, profile, stored, progress>>

\* The client goes away, or finds that the server has.
Vanish ==
  /\ told \in {"connecting", "in"}
  /\ told' = "gone" /\ awaits' = "nothing" /\ wants' = <<>>
  /\ UNCHANGED <<client, up, down, server, profile, stored>>

FindsClosed ==
  /\ told \in {"connecting", "in"} /\ server = "closed" /\ down = <<>> /\ awaits # "nothing"
  /\ told' = "lost" /\ awaits' = "nothing" /\ wants' = <<>>
  /\ UNCHANGED <<client, up, down, server, profile, stored>>

(***************************************************************************)
(* The server.                                                             *)
(***************************************************************************)
Reading == {"connect", "reconnect", "negotiate", "auth2"}

Takes(kind) ==
  /\ up # <<>> /\ Head(up).kind = kind
  /\ up' = Tail(up)

Replies(kind, shape, body) ==
  down' = Append(down, [kind |-> kind, shape |-> shape, body |-> body])

Refuse ==
  /\ Replies("error", ErrorShape, None)
  /\ server' = "closed"

Accept ==
  /\ Replies("accept", "accept", None)
  /\ server' = "negotiate"

\* Only the thick client, known by a service option, is asked to send CONNECT again.
ReadConnect ==
  /\ server = "connect" /\ Takes("connect")
  /\ IF driver = "oci"
       THEN Replies("resend", "resend", None) /\ server' = "reconnect"
       ELSE Accept
  /\ UNCHANGED <<client, profile, stored, progress>>

ReadReconnect ==
  /\ server = "reconnect" /\ Takes("connect") /\ Accept
  /\ UNCHANGED <<client, profile, stored, progress>>

ReadDescriptor ==
  /\ server = "negotiate" /\ Takes("descriptor")
  /\ UNCHANGED <<client, down, server, profile, stored, progress>>

NegotiateNa ==
  /\ server = "negotiate" /\ Takes("na")
  /\ did_na' = TRUE
  /\ Replies("na", "null-adapters", None)
  /\ UNCHANGED <<client, server, accepted, caps, oci_dialect, stored, progress>>

NegotiateProtocol ==
  /\ server = "negotiate" /\ Takes("protocol")
  /\ accepted' = Head(up).body
  /\ oci_dialect' = ProbablyOciAtProtocol(did_na, accepted')
  /\ Replies("protocol", IF oci_dialect' THEN "oci-protocol" ELSE "thin-protocol", None)
  /\ UNCHANGED <<client, server, did_na, caps, stored, progress>>

NegotiateDataTypes ==
  /\ server = "negotiate" /\ Takes("datatypes")
  /\ caps' = Head(up).body
  /\ oci_dialect' = OciDialect(caps')
  /\ Replies("datatypes",
             IF oci_dialect' THEN "oci-types" ELSE IF NoVersionList THEN "zone-types" ELSE "types",
             None)
  /\ UNCHANGED <<client, server, did_na, accepted, stored, progress>>

ChallengeShape ==
  CASE Verifier = "11g" -> "status-11g"
    [] OciDialect(caps) -> "oci-12c"
    [] NoVersionList    -> "end-of-call-12c"
    [] OTHER            -> "status-12c"

Challenge ==
  /\ Replies("auth1", ChallengeShape,
             [verifier |-> Verifier, sesskey |-> PhaseOneSesskey(Verifier)])
  /\ server' = "auth2"

\* A mutation for AuthPhaseOne: everybody is challenged.
AuthPhaseOneAnybody ==
  /\ server = "negotiate" /\ Takes("auth1")
  /\ stored' = PasswordFor(Head(up).body)
  /\ Challenge
  /\ UNCHANGED <<client, profile, progress>>

AuthPhaseOne ==
  /\ server = "negotiate" /\ Takes("auth1")
  /\ stored' = PasswordFor(Head(up).body)
  /\ IF stored' = None THEN Refuse ELSE Challenge
  /\ UNCHANGED <<client, profile, progress>>

ProofShape ==
  CASE OciDialect(caps) -> "oci-pairs"
    [] NoVersionList    -> "end-of-call-pairs"
    [] OTHER            -> "status-pairs"

\* A mutation for Proves: the client's half is taken as it was sent, and the proof
\* need not be readable.
ProvesUnread(pairs) == IsPrefix(stored, pairs.password.text)

Proves(pairs) ==
  LET client_b == Decrypt(PasswordHash(stored, Verifier), pairs.sesskey)
      combo    == ComboKey(client_b, "server-half")
  IN /\ VerifyPassword(combo, pairs.password)
     /\ pairs.speedy # None => VerifySpeedyKey(combo, pairs.speedy, Verifier)

\* A proof without a password is answered with silence.
AuthPhaseTwo ==
  /\ server = "auth2" /\ Takes("auth2")
  /\ LET pairs == Head(up).body IN
     \/ pairs.password = None /\ server' = "closed" /\ UNCHANGED down
     \/ pairs.password # None /\ ~Proves(pairs) /\ Refuse
     \/ /\ pairs.password # None /\ Proves(pairs)
        /\ Replies("auth2", ProofShape, None)
        /\ server' = "backend"
  /\ UNCHANGED <<client, profile, stored, progress>>

BackendConnects ==
  /\ server = "backend"
  /\ server' = "serving"
  /\ UNCHANGED <<client, up, down, profile, stored, progress>>

\* The error is nobody's answer yet: the client reads it after its next request.
BackendRefuses ==
  /\ server = "backend" /\ Refuse
  /\ UNCHANGED <<client, up, profile, stored, progress>>

Unexpected ==
  /\ server \in Reading /\ Takes("marker")
  /\ server' = "closed"
  /\ UNCHANGED <<client, down, profile, stored, progress>>

PeerClosed ==
  /\ server \in Reading /\ up = <<>> /\ told \in {"gone", "refused", "lost"}
  /\ server' = "closed"
  /\ UNCHANGED <<client, up, down, profile, stored, progress>>

\* A mutation for IdleDeadline: it is set with the ACCEPT.
IdleDeadlineAfterAccept ==
  /\ config.idle /\ server \in {"negotiate", "auth2"} /\ up = <<>>
  /\ server' = "closed"
  /\ UNCHANGED <<client, up, down, profile, stored, progress>>

\* The deadline is set before the first read and holds for every read.
IdleDeadline ==
  /\ config.idle /\ server \in Reading /\ up = <<>>
  /\ server' = "closed"
  /\ UNCHANGED <<client, up, down, profile, stored, progress>>

\* The rest of the session is the subject of other modules.
Finished ==
  /\ server \in {"serving", "closed"}
  /\ UNCHANGED vars

Init ==
  /\ driver \in Drivers
  /\ offers \in [user : [name : Names, upper : BOOLEAN], password : Passwords \cup {None}]
  /\ inline \in CASE driver \in {"thin", "ojdbc"} -> {FALSE}
                  [] driver = "oracle-rs" -> {TRUE}
                  [] OTHER -> BOOLEAN
  /\ config \in [items : Configured, fallback : Passwords \cup {None},
                 version : {"11g", "19c"}, idle : BOOLEAN]
  /\ up = <<>> /\ down = <<>> /\ server = "connect"
  /\ did_na = FALSE /\ accepted = "none" /\ caps = NoCaps /\ oci_dialect = FALSE
  /\ stored = None
  /\ wants = Requests(driver, inline) /\ awaits = "nothing" /\ told = "connecting"

Next ==
  \/ Send \/ Receive \/ Interrupt \/ Vanish \/ FindsClosed
  \/ ReadConnect \/ ReadReconnect \/ ReadDescriptor
  \/ NegotiateNa \/ NegotiateProtocol \/ NegotiateDataTypes
  \/ AuthPhaseOne \/ AuthPhaseTwo \/ BackendConnects \/ BackendRefuses
  \/ Unexpected \/ PeerClosed \/ IdleDeadline \/ Finished

Serves ==
  \/ ReadConnect \/ ReadReconnect \/ ReadDescriptor
  \/ NegotiateNa \/ NegotiateProtocol \/ NegotiateDataTypes
  \/ AuthPhaseOne \/ AuthPhaseTwo \/ BackendConnects \/ BackendRefuses
  \/ Unexpected \/ PeerClosed

Spec == Init /\ [][Next]_vars /\ WF_vars(Serves) /\ WF_vars(IdleDeadline)

(***************************************************************************)
(* Properties.                                                             *)
(***************************************************************************)
\* Type correctness; past phase one there is a password, and the dialect in use is
\* the one the capabilities name.
TypeOK ==
  /\ server \in Reading \cup {"backend", "serving", "closed"}
  /\ told \in {"connecting", "in", "refused", "lost", "gone"}
  /\ did_na \in BOOLEAN /\ oci_dialect \in BOOLEAN
  /\ accepted \in {"none", "5", "54321"} /\ caps \in {Caps(d) : d \in Drivers} \cup {NoCaps}
  /\ stored \in Passwords \cup {None}
  /\ server \in {"auth2", "backend", "serving"} =>
       stored # None /\ oci_dialect = (driver = "oci")
  /\ Len(up) <= 3 /\ Len(down) <= 2

\* Whichever driver connects and whichever release is impersonated, every reply and
\* every error, also the one that reports a backend that cannot be reached, has the
\* shape this driver reads where it waits (server.rs, negotiation loop; profile.rs).
RepliesFit ==
  down # <<>> /\ awaits # "nothing" =>
    \/ Head(down).kind = "error" /\ Head(down).shape = ReadsError(driver)
    \/ Head(down).kind # "error" /\ Head(down).shape \in Reads(driver, awaits)

\* The password a user should give: that of the last item that names it, in any case,
\* or the fallback.
Rightful ==
  LET mine == {i \in 1..Len(config.items) : config.items[i].name = offers.user.name} IN
  IF mine = {} THEN config.fallback
  ELSE config.items[CHOOSE i \in mine : \A j \in mine : j <= i].password

\* The verdict is about the password and nothing else: a client that is told it is
\* logged in, or for which a backend is opened, knows it, and one that is refused
\* does not (server.rs, steps 6 to 8; auth.rs; credentials.rs).
VerdictIsThePassword ==
  LET knows == offers.password # None /\ offers.password = Rightful IN
  /\ told = "in" \/ server \in {"backend", "serving"} => knows
  /\ told = "refused" => ~knows

\* A connection does not stay half-way: if there is an idle deadline, the login comes
\* to the command loop or to an end, whatever the client does or fails to do.
LoginEnds == config.idle => <>(server \in {"serving", "closed"})

=============================================================================
