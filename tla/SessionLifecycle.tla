-------------------------- MODULE SessionLifecycle --------------------------
(***************************************************************************)
(* The life of sessions in the proxy process: run_with_listener of         *)
(* src/server.rs accepts connections and spawns one task for each, the     *)
(* registry lists the tasks for GET /sessions, DELETE /sessions/<id>       *)
(* aborts one, and a shutdown signal drains them.                          *)
(*                                                                         *)
(* The accept loop and the tasks run on different threads.  A task creates *)
(* its SessionGuard and SessionRegistration when it is first polled; the   *)
(* accept loop enters it in the registry after tokio::spawn has returned.  *)
(* The PostgreSQL connection of a session is driven by a task of its own,  *)
(* which the abort does not reach: it says goodbye to the server once the  *)
(* client handle is gone and no answer is outstanding.                     *)
(***************************************************************************)
EXTENDS Naturals, FiniteSets

CONSTANT MaxSessions    \* bound: connections a behaviour accepts

ASSUME LifecycleAssumption == MaxSessions \in Nat

VARIABLES
  acceptor,   \* where run_with_listener is
  nextId,     \* NEXT_SESSION_ID
  task,       \* what each session's task has done
  aborted,    \* tasks whose AbortHandle has been used
  listed,     \* SESSIONS: "absent", or an entry with or without its user
  active,     \* ACTIVE_SESSIONS
  backend,    \* the session's PostgreSQL connection; "asked" once its user is known
  killed,     \* sessions a DELETE was answered "killed session" for
  expired,    \* the shutdown grace has elapsed
  verdict     \* what the drain logs: "none" yet, "drained" or "left"

vars == <<acceptor, nextId, task, aborted, listed, active, backend, killed,
          expired, verdict>>

Ids == 1..MaxSessions

TypeOK ==
  /\ acceptor \in {"accepting", "registering", "draining", "reporting", "stopped"}
  /\ nextId \in 1..(MaxSessions + 1)
  /\ task \in [Ids -> {"none", "spawned", "running", "unregistered", "ended"}]
  /\ aborted \subseteq Ids
  /\ listed \in [Ids -> {"absent", "unnamed", "named"}]
  /\ active \in Nat
  /\ backend \in [Ids -> {"none", "asked", "idle", "busy", "closed"}]
  /\ killed \subseteq Ids
  /\ expired \in BOOLEAN
  /\ verdict \in {"none", "drained", "left"}

Init ==
  /\ acceptor = "accepting"
  /\ nextId = 1
  /\ task = [i \in Ids |-> "none"]
  /\ aborted = {}
  /\ listed = [i \in Ids |-> "absent"]
  /\ active = 0
  /\ backend = [i \in Ids |-> "none"]
  /\ killed = {}
  /\ expired = FALSE
  /\ verdict = "none"

\* main returns once run_with_listener has, and every task goes with it.
Up == acceptor # "stopped"

(***************************************************************************)
(* The accept loop.                                                        *)
(***************************************************************************)
Accept ==
  /\ acceptor = "accepting"
  /\ nextId \in Ids
  /\ nextId' = nextId + 1
  /\ task' = [task EXCEPT ![nextId] = "spawned"]
  /\ acceptor' = "registering"
  /\ UNCHANGED <<aborted, listed, active, backend, killed, expired, verdict>>

Register ==
  /\ acceptor = "registering"
  /\ listed' = [listed EXCEPT ![nextId - 1] = "unnamed"]
  /\ acceptor' = "accepting"
  /\ UNCHANGED <<nextId, task, aborted, active, backend, killed, expired, verdict>>

\* `accepted?`: an error of accept leaves run_with_listener, with no drain.
AcceptFails ==
  /\ acceptor = "accepting"
  /\ acceptor' = "stopped"
  /\ UNCHANGED <<nextId, task, aborted, listed, active, backend, killed, expired,
                 verdict>>

ShutdownSignal ==
  /\ acceptor = "accepting"
  /\ acceptor' = "draining"
  /\ UNCHANGED <<nextId, task, aborted, listed, active, backend, killed, expired,
                 verdict>>

GraceElapses ==
  /\ acceptor = "draining" /\ ~expired
  /\ expired' = TRUE
  /\ UNCHANGED <<acceptor, nextId, task, aborted, listed, active, backend, killed,
                 verdict>>

\* Mutant: a drain that waits for the sessions however long they take.
DrainLoopIgnoresGrace ==
  /\ acceptor = "draining"
  /\ active = 0
  /\ acceptor' = "reporting"
  /\ UNCHANGED <<nextId, task, aborted, listed, active, backend, killed, expired,
                 verdict>>

\* The loop of the drain leaves once no session is counted or the deadline has
\* passed.
DrainLoopEnds ==
  /\ acceptor = "draining"
  /\ active = 0 \/ expired
  /\ acceptor' = "reporting"
  /\ UNCHANGED <<nextId, task, aborted, listed, active, backend, killed, expired,
                 verdict>>

\* The counter is read again for what is logged; it may have moved meanwhile.
DrainReports ==
  /\ acceptor = "reporting"
  /\ verdict' = IF active > 0 THEN "left" ELSE "drained"
  /\ acceptor' = "stopped"
  /\ UNCHANGED <<nextId, task, aborted, listed, active, backend, killed, expired>>

(***************************************************************************)
(* A session's task.  An abort that arrives while the task runs takes      *)
(* effect at its next await, so an aborted task may still move on; one     *)
(* that was never polled is dropped without running any of its code.       *)
(***************************************************************************)
\* Mutant: the guard, bound to `_`, would be dropped at the end of its own statement.
FirstPollDropsGuard(i) ==
  /\ Up /\ task[i] = "spawned" /\ i \notin aborted
  /\ task' = [task EXCEPT ![i] = "running"]
  /\ active' = active
  /\ UNCHANGED <<acceptor, nextId, aborted, listed, backend, killed, expired,
                 verdict>>

\* Mutant: the registration, bound to `_`, would be dropped at once, entry and all.
FirstPollDropsRegistration(i) ==
  /\ Up /\ task[i] = "spawned" /\ i \notin aborted
  /\ task' = [task EXCEPT ![i] = "running"]
  /\ active' = active + 1
  /\ listed' = [listed EXCEPT ![i] = "absent"]
  /\ UNCHANGED <<acceptor, nextId, aborted, backend, killed, expired, verdict>>

FirstPoll(i) ==
  /\ Up /\ task[i] = "spawned" /\ i \notin aborted
  /\ task' = [task EXCEPT ![i] = "running"]
  /\ active' = active + 1
  /\ UNCHANGED <<acceptor, nextId, aborted, listed, backend, killed, expired,
                 verdict>>

\* sessions_set_user, on the way to the backend: lost on a task the accept loop
\* has not registered yet.
SetUser(i) ==
  /\ Up /\ task[i] = "running" /\ backend[i] = "none"
  /\ backend' = [backend EXCEPT ![i] = "asked"]
  /\ listed' = [listed EXCEPT ![i] = IF @ = "absent" THEN @ ELSE "named"]
  /\ UNCHANGED <<acceptor, nextId, task, aborted, active, killed, expired, verdict>>

Connect(i) ==
  /\ Up /\ task[i] = "running" /\ backend[i] = "asked"
  /\ backend' = [backend EXCEPT ![i] = "idle"]
  /\ UNCHANGED <<acceptor, nextId, task, aborted, listed, active, killed, expired,
                 verdict>>

Execute(i) ==
  /\ Up /\ task[i] = "running" /\ backend[i] = "idle"
  /\ backend' = [backend EXCEPT ![i] = "busy"]
  /\ UNCHANGED <<acceptor, nextId, task, aborted, listed, active, killed, expired,
                 verdict>>

\* The task's future ends or is dropped: its client and backend handles go
\* first, then `_reg`, which removes the entry.
DropRegistration(i) ==
  /\ task' = [task EXCEPT ![i] = "unregistered"]
  /\ listed' = [listed EXCEPT ![i] = "absent"]

\* The client is gone, has logged off, was refused, or the handler panicked; a
\* client that goes away mid-statement ends the session mid-statement.
Finish(i) ==
  /\ Up /\ task[i] = "running"
  /\ DropRegistration(i)
  /\ UNCHANGED <<acceptor, nextId, aborted, active, backend, killed, expired,
                 verdict>>

AbortTakesEffect(i) ==
  /\ Up /\ i \in aborted
  /\ \/ task[i] = "running" /\ DropRegistration(i)
     \/ /\ task[i] = "spawned"
        /\ task' = [task EXCEPT ![i] = "ended"]
        /\ UNCHANGED listed
  /\ UNCHANGED <<acceptor, nextId, aborted, active, backend, killed, expired,
                 verdict>>

\* Then `_guard`.
DropGuard(i) ==
  /\ Up /\ task[i] = "unregistered"
  /\ task' = [task EXCEPT ![i] = "ended"]
  /\ active' = active - 1
  /\ UNCHANGED <<acceptor, nextId, aborted, listed, backend, killed, expired,
                 verdict>>

(***************************************************************************)
(* The task tokio-postgres drives the connection with.                     *)
(***************************************************************************)
Answer(i) ==
  /\ Up /\ backend[i] = "busy"
  /\ backend' = [backend EXCEPT ![i] = "idle"]
  /\ UNCHANGED <<acceptor, nextId, task, aborted, listed, active, killed, expired,
                 verdict>>

HandleDropped(i) == task[i] \in {"unregistered", "ended"}

Terminate(i) ==
  /\ Up /\ HandleDropped(i) /\ backend[i] = "idle"
  /\ backend' = [backend EXCEPT ![i] = "closed"]
  /\ UNCHANGED <<acceptor, nextId, task, aborted, listed, active, killed, expired,
                 verdict>>

(***************************************************************************)
(* DELETE /sessions/<id>.  An id that is not listed is answered 404 and    *)
(* changes nothing; aborting a task that has ended does nothing.           *)
(***************************************************************************)
\* Mutant: a session taken off the list would look killed, and go on.
KillByUnlisting(i) ==
  /\ Up /\ listed[i] # "absent"
  /\ listed' = [listed EXCEPT ![i] = "absent"]
  /\ killed' = killed \cup {i}
  /\ UNCHANGED <<acceptor, nextId, task, aborted, active, backend, expired, verdict>>

Kill(i) ==
  /\ Up /\ listed[i] # "absent"
  /\ aborted' = aborted \cup {i}
  /\ killed' = killed \cup {i}
  /\ UNCHANGED <<acceptor, nextId, task, listed, active, backend, expired, verdict>>

Next ==
  \/ Accept \/ Register \/ AcceptFails \/ ShutdownSignal
  \/ GraceElapses \/ DrainLoopEnds \/ DrainReports
  \/ \E i \in Ids :
       \/ FirstPoll(i) \/ SetUser(i) \/ Connect(i) \/ Execute(i) \/ Finish(i)
       \/ AbortTakesEffect(i) \/ DropGuard(i)
       \/ Answer(i) \/ Terminate(i) \/ Kill(i)

\* The runtime runs a task that can run, an abort included, and the clock moves;
\* nothing makes a client leave, a statement end or an operator act.
Fairness ==
  /\ WF_vars(Register) /\ WF_vars(GraceElapses)
  /\ WF_vars(DrainLoopEnds) /\ WF_vars(DrainReports)
  /\ \A i \in Ids :
       /\ WF_vars(FirstPoll(i)) /\ WF_vars(AbortTakesEffect(i))
       /\ WF_vars(DropGuard(i)) /\ WF_vars(Terminate(i))

Spec == Init /\ [][Next]_vars /\ Fairness

(***************************************************************************)
(* Properties.                                                             *)
(***************************************************************************)
Counted == {i \in Ids : task[i] \in {"running", "unregistered"}}

\* ACTIVE_SESSIONS, which /metrics reports and the drain trusts, is the number
\* of tasks between their first poll and the drop of their SessionGuard, however
\* they end.
ActiveCounts == active = Cardinality(Counted)

AwaitsRegistration(i) == acceptor = "registering" /\ i = nextId - 1

\* A session that can hold a backend connection can be found and killed: once the
\* accept loop has moved on, a running task is in the registry.
LiveListed ==
  \A i \in Ids :
    task[i] = "running" /\ ~AwaitsRegistration(i) => listed[i] # "absent"

\* "all sessions drained; shutting down cleanly" is only logged when no task that
\* has started is still alive.
DrainedMeansIdle ==
  [][verdict' = "drained" /\ verdict = "none" => Counted' = {}]_vars

\* An entry leaves the registry only with its own session: nothing another
\* session does, and no DELETE, takes away the operator's handle on a live one.
EntryLeavesWithItsSession ==
  [][\A i \in Ids : listed[i] # "absent" /\ listed'[i] = "absent"
        => task[i] = "running" /\ task'[i] = "unregistered"]_vars

\* A session DELETE /sessions/<id> was answered "killed session" for does end,
\* wherever its task was, and its connection closes unless a statement is still
\* running on it.
KillEnds ==
  \A i \in Ids :
    i \in killed ~> ~Up \/ (task[i] = "ended" /\ backend[i] # "idle")

\* A shutdown ends within the grace: sessions that will not leave, and tasks that
\* start during the drain, cannot hold the process up.
DrainEnds == acceptor = "draining" ~> ~Up

\* The doc of sessions_kill: aborting the session's task "drops its TNS stream and
\* backend PostgreSQL connection, releasing any locks it held".  A statement that
\* was running goes on, with its locks, on a connection nobody reads.
KillReleases == \A i \in killed : task[i] = "ended" => backend[i] # "busy"

\* The doc of SessionRegistration: "Removes on normal task exit; a Drop impl so it
\* fires on panic/abort too".  A task that ends before the accept loop registers
\* it, or is aborted before its first poll, stays listed for good.
EndedUnlisted ==
  \A i \in Ids : task[i] = "ended" => listed[i] = "absent"
=============================================================================
