--------------------------- MODULE FacadeInstall ---------------------------
(***************************************************************************)
(* PostgresBackend::connect in src/backend.rs: sessions that connect at    *)
(* the same time to one database, through proxies of possibly different    *)
(* releases, with roles that may create the compatibility objects or may   *)
(* not, and the once-only installation of those objects.                   *)
(*                                                                         *)
(* Each command batch is one implicit transaction of PostgreSQL, so it is  *)
(* applied whole or not at all.  Every one is best effort: its error is    *)
(* logged and dropped.  A connection may also be lost between any two.     *)
(***************************************************************************)
EXTENDS Naturals, FiniteSets

CONSTANTS
  Conns,      \* the connections
  Versions,   \* values of SYS_CATALOG_FACADE_VERSION about, numbers above 0
  MaxFaults   \* bound: batches that fail, or connections that die, half-way

Nobody == "nobody"

ASSUME FacadeAssumption ==
  /\ Versions \subseteq Nat \ {0}
  /\ IsFiniteSet(Conns) /\ Nobody \notin Conns
  /\ MaxFaults \in Nat

VARIABLES
  admin,    \* may the role of each connection create objects?
  version,  \* the release of the proxy each connection runs in
  pc,       \* where its connect() is
  db,       \* what is installed
  lock,     \* who holds the advisory lock
  faults    \* the steps that failed, each with the connection

vars == <<admin, version, pc, db, lock, faults>>

\* The steps of connect, in order.
Installing == {"catalog", "ide", "metadata", "marker", "grants"}
Locked == {"recheck", "unlock"} \cup Installing
Steps == {"start", "probe", "persistent", "context", "lob", "check", "lock", "session"}
           \cup Locked
Ended == {"ready", "refused", "dead"}

\* A version of a batch's objects; 0 when there are none.  helpers and granted
\* name the schemas and functions in place, and those opened to every role.
NothingInstalled ==
  [helpers |-> {}, catalog |-> 0, ide |-> 0, metadata |-> 0, marker |-> 0, granted |-> {}]

Init ==
  /\ admin \in [Conns -> BOOLEAN]
  /\ version \in [Conns -> Versions]
  /\ pc = [c \in Conns |-> "start"]
  /\ db = NothingInstalled
  /\ lock = Nobody
  /\ faults = {}

-----------------------------------------------------------------------------
(* The probes. *)

Reads(c, object) == admin[c] \/ object \in db.granted

\* facade_installed: four objects stand for all of them.
FacadeInstalled(c) ==
  /\ {"context", "dbsaci"} \subseteq db.helpers
  /\ db.catalog # 0
  /\ Reads(c, "dbsaci") /\ Reads(c, "sys")

\* facade_stale: a marker the role cannot read counts as stale.
FacadeStale(c) ==
  ~("dbsaci" \in db.helpers /\ Reads(c, "dbsaci") /\ db.marker = version[c])

-----------------------------------------------------------------------------
(* Steps. *)

Goto(c, step) == pc' = [pc EXCEPT ![c] = step]

Fault(c) ==
  /\ Cardinality(faults) < MaxFaults
  /\ faults' = faults \cup {[step |-> pc[c], conn |-> c]}

\* The role and its schema; search_path is the one setting that must succeed.
Start(c) ==
  /\ pc[c] = "start"
  /\ \/ Goto(c, "probe") /\ UNCHANGED faults
     \/ Goto(c, "refused") /\ Fault(c)
  /\ UNCHANGED <<admin, version, db, lock>>

Probe(c) ==
  /\ pc[c] = "probe"
  /\ Goto(c, IF FacadeInstalled(c) THEN "check" ELSE "persistent")
  /\ UNCHANGED <<admin, version, db, lock, faults>>

\* A batch: applied, or refused for want of privilege, or failed.
Batch(c, here, applied, next, otherwise) ==
  /\ pc[c] = here
  /\ \/ admin[c] /\ db' = applied /\ Goto(c, next) /\ UNCHANGED faults
     \/ admin[c] /\ Fault(c) /\ Goto(c, otherwise) /\ UNCHANGED db
     \/ ~admin[c] /\ Goto(c, otherwise) /\ UNCHANGED <<db, faults>>
  /\ UNCHANGED <<admin, version, lock>>

Adds(helper) == [db EXCEPT !.helpers = @ \cup {helper}]

\* PERSISTENT_SETUP, then GLOBAL_COMPAT_FACADE, its statements one by one: here
\* sys_context with the functions it calls, and the dbms_lob schema.
Persistent(c) == Batch(c, "persistent", Adds("dbsaci"), "context", "context")
Context(c) == Batch(c, "context", Adds("context"), "lob", "lob")
Lob(c) == Batch(c, "lob", Adds("lob"), "check", "check")

Check(c) ==
  /\ pc[c] = "check"
  /\ Goto(c, IF FacadeStale(c) THEN "lock" ELSE "session")
  /\ UNCHANGED <<admin, version, db, lock, faults>>

\* pg_advisory_lock waits; its error is dropped, and the installation goes on
\* without it.
TakeLock(c) ==
  /\ pc[c] = "lock"
  /\ \/ lock = Nobody /\ lock' = c /\ UNCHANGED faults
     \/ Fault(c) /\ UNCHANGED lock
  /\ Goto(c, "recheck")
  /\ UNCHANGED <<admin, version, db>>

\* Mutant: what was checked before the lock still counts.
RecheckSkipped(c) ==
  /\ pc[c] = "recheck"
  /\ Goto(c, "catalog")
  /\ UNCHANGED <<admin, version, db, lock, faults>>

Recheck(c) ==
  /\ pc[c] = "recheck"
  /\ Goto(c, IF FacadeStale(c) THEN "catalog" ELSE "unlock")
  /\ UNCHANGED <<admin, version, db, lock, faults>>

\* The three batches of the version, each only after the one before it.
Catalog(c) ==
  Batch(c, "catalog", [db EXCEPT !.catalog = version[c]], "ide", "unlock")
Ide(c) ==
  Batch(c, "ide", [db EXCEPT !.ide = version[c]], "metadata", "unlock")

\* Mutant: a batch that fails does not keep the marker back.
MetadataDropped(c) ==
  Batch(c, "metadata", [db EXCEPT !.metadata = version[c]], "marker", "marker")

Metadata(c) ==
  Batch(c, "metadata", [db EXCEPT !.metadata = version[c]], "marker", "unlock")

\* The marker needs its table, and its error is dropped too.
\* Mutant: the grants are left to the connection that finds the marker.
MarkerEnds(c) ==
  /\ "dbsaci" \in db.helpers
  /\ Batch(c, "marker", [db EXCEPT !.marker = version[c]], "unlock", "unlock")

Marker(c) ==
  Batch(c, "marker",
        IF "dbsaci" \in db.helpers THEN [db EXCEPT !.marker = version[c]] ELSE db,
        "grants", "grants")

\* FACADE_GRANTS opens the schemas that exist by now.
Grants(c) ==
  Batch(c, "grants",
        [db EXCEPT !.granted = @ \cup {"sys", "metadata"}
                                 \cup (db.helpers \cap {"dbsaci", "lob"})],
        "unlock", "unlock")

\* Mutant: the lock is left to the end of the session.
UnlockLater(c) ==
  /\ pc[c] = "unlock"
  /\ Goto(c, "session")
  /\ UNCHANGED <<admin, version, db, lock, faults>>

Unlock(c) ==
  /\ pc[c] = "unlock"
  /\ lock' = IF lock = c THEN Nobody ELSE lock
  /\ Goto(c, "session")
  /\ UNCHANGED <<admin, version, db, faults>>

\* The session's own views, in one batch or one by one, its time zone, BEGIN.
Session(c) ==
  /\ pc[c] = "session"
  /\ Goto(c, "ready")
  /\ UNCHANGED <<admin, version, db, lock, faults>>

\* The connection is lost; PostgreSQL drops its locks.
Die(c) ==
  /\ pc[c] \in Steps \ {"start"}
  /\ Fault(c)
  /\ Goto(c, "dead")
  /\ lock' = IF lock = c THEN Nobody ELSE lock
  /\ UNCHANGED <<admin, version, db>>

Advance(c) ==
  \/ Start(c) \/ Probe(c) \/ Persistent(c) \/ Context(c) \/ Lob(c)
  \/ Check(c) \/ TakeLock(c) \/ Recheck(c)
  \/ Catalog(c) \/ Ide(c) \/ Metadata(c) \/ Marker(c) \/ Grants(c)
  \/ Unlock(c) \/ Session(c)

Over == (\A c \in Conns : pc[c] \in Ended) /\ UNCHANGED vars

Next ==
  \/ \E c \in Conns : Advance(c) \/ Die(c)
  \/ Over

\* The runtime polls every connection, and the server answers every command.
Spec == Init /\ [][Next]_vars /\ \A c \in Conns : WF_vars(Advance(c))

-----------------------------------------------------------------------------
(* Properties. *)

Helpers == {"dbsaci", "context", "lob"}

\* Every variable has its type, and whoever holds the lock is at work under it.
TypeOK ==
  /\ admin \in [Conns -> BOOLEAN]
  /\ version \in [Conns -> Versions]
  /\ pc \in [Conns -> Steps \cup Ended]
  /\ db \in [helpers : SUBSET Helpers, catalog : Versions \cup {0},
             ide : Versions \cup {0}, metadata : Versions \cup {0},
             marker : Versions \cup {0},
             granted : SUBSET {"sys", "metadata", "dbsaci", "lob"}]
  /\ lock = Nobody \/ (lock \in Conns /\ pc[lock] \in Locked)
  /\ faults \subseteq [step : Steps, conn : Conns]

Failed(steps) == \E f \in faults : f.step \in steps

Quiet == \A c \in Conns : pc[c] \notin Installing

\* The marker vouches for what is installed: with one release about at all times,
\* also half-way through an installation or after one was cut short; with several,
\* once nobody installs, unless one was cut short: the marker of the release
\* before it is not taken back.  (The marker is written last.)
MarkerHonest ==
  /\ db.marker # 0
  /\ \/ \A c, d \in Conns : version[c] = version[d]
     \/ Quiet /\ ~Failed(Installing) /\ ~Failed({"lock"})
  => db.catalog = db.marker /\ db.ide = db.marker /\ db.metadata = db.marker

\* Whatever a marker vouches for is open to every role, so that a role without
\* rights connects without trying to install anything, unless the grants, or a
\* step whose object they would have covered, failed: no later connection tries
\* again.  (connect writes the marker before the grants.)
MarkedIsOpen ==
  db.marker # 0 /\ Quiet /\ ~Failed({"marker", "grants", "persistent", "lob"}) =>
    {"sys", "metadata", "dbsaci", "lob"} \subseteq db.granted

\* A wave of connections does not apply the views again, one after the other: who
\* starts on them finds another marker than its own.  A role without rights to
\* read the marker is refused at the first batch.  (The check under the lock.)
NoNeedlessInstall ==
  ~Failed({"lock"}) =>
    \A c \in Conns : pc[c] = "catalog" /\ admin[c] => db.marker # version[c]

\* Every connection ends up ready or refused: nobody waits for the lock for ever,
\* whoever fails or dies with it.
EveryoneConnects == \A c \in Conns : pc[c] # "start" ~> pc[c] \in Ended
=============================================================================
