----------------------- MODULE SessionLifecycleProofs -----------------------
(***************************************************************************)
(* Proofs about SessionLifecycle: for any number of sessions, the counter  *)
(* of live sessions is exact, a live session stays in the registry, and    *)
(* the verdict of the drain tells the truth.                               *)
(***************************************************************************)
EXTENDS SessionLifecycle, FiniteSetTheorems, TLAPS

\* A task that may still come to hold a backend connection.
Alive(i) == task[i] \in {"spawned", "running"}

\* What ActiveCounts and LiveListed need to be inductive: an id is used in order,
\* and the registry has the task from the moment the accept loop moves on.
Inv ==
  /\ TypeOK
  /\ ActiveCounts
  /\ acceptor = "registering" => nextId > 1
  /\ \A i \in Ids : i >= nextId => task[i] = "none"
  /\ \A i \in Ids : Alive(i) /\ ~AwaitsRegistration(i) => listed[i] # "absent"

\* Counting tasks makes sense: there are finitely many.
LEMMA CountedFinite ==
  ASSUME TypeOK
  PROVE  IsFiniteSet(Counted) /\ Cardinality(Counted) \in Nat
<1>1. IsFiniteSet(Ids)
  BY LifecycleAssumption, FS_Interval DEF Ids
<1>2. Counted \subseteq Ids
  BY DEF Counted
<1>. QED BY <1>1, <1>2, FS_Subset, FS_CardinalityType

\* The first poll of a task adds one to the counted tasks.
LEMMA PollCounts ==
  ASSUME TypeOK, ActiveCounts, NEW i \in Ids, FirstPoll(i)
  PROVE  ActiveCounts' /\ active' \in Nat
<1>1. Counted' = Counted \cup {i} /\ i \notin Counted
  BY DEF TypeOK, FirstPoll, Counted
<1>2. Cardinality(Counted \cup {i}) = Cardinality(Counted) + 1
  BY <1>1, CountedFinite, FS_AddElement
<1>. QED BY <1>1, <1>2, CountedFinite DEF ActiveCounts, FirstPoll, TypeOK

\* The drop of a SessionGuard takes one away.
LEMMA DropCounts ==
  ASSUME TypeOK, ActiveCounts, NEW i \in Ids, DropGuard(i)
  PROVE  ActiveCounts' /\ active' \in Nat
<1>1. Counted' = Counted \ {i} /\ i \in Counted
  BY DEF TypeOK, DropGuard, Counted
<1>2. Cardinality(Counted \ {i}) = Cardinality(Counted) - 1 /\ Cardinality(Counted \ {i}) \in Nat
  BY <1>1, CountedFinite, FS_RemoveElement, FS_CardinalityType
<1>. QED BY <1>1, <1>2 DEF ActiveCounts, DropGuard, TypeOK

\* No other step changes which tasks are counted.
LEMMA OthersCount ==
  ASSUME TypeOK, ActiveCounts, active' = active, Counted' = Counted
  PROVE  ActiveCounts' /\ active' \in Nat
BY DEF ActiveCounts, TypeOK

\* The invariant holds when the process starts.
LEMMA InitInv == ASSUME Init PROVE Inv
<1>1. Counted = {}
  BY DEF Init, Counted
<1>2. Cardinality({}) = 0
  BY FS_EmptySet
<1>3. ActiveCounts
  BY <1>1, <1>2 DEF ActiveCounts, Init
<1>4. TypeOK
  <2>1. nextId \in 1..(MaxSessions + 1)
    BY LifecycleAssumption DEF Init
  <2>. QED BY <2>1 DEF Init, TypeOK
<1>. QED BY <1>3, <1>4 DEF Inv, Init, Alive, AwaitsRegistration

\* The accept loop and the drain keep the invariant.
LEMMA LoopInv ==
  ASSUME Inv,
         \/ Accept \/ Register \/ AcceptFails \/ ShutdownSignal
         \/ GraceElapses \/ DrainLoopEnds \/ DrainReports
  PROVE  Inv'
<1>1. CASE Accept
  <2>1. Counted' = Counted
    BY <1>1 DEF Accept, Counted, Inv, TypeOK
  <2>2. ActiveCounts' /\ active' \in Nat
    BY <1>1, <2>1, OthersCount DEF Accept, Inv
  <2>3. TypeOK'
    BY <1>1, <2>2, LifecycleAssumption DEF Accept, Inv, TypeOK, Ids
  <2>4. \A i \in Ids : i >= nextId' => task'[i] = "none"
    BY <1>1 DEF Accept, Inv, TypeOK, Ids
  <2>5. \A i \in Ids : Alive(i)' /\ ~AwaitsRegistration(i)' => listed'[i] # "absent"
    BY <1>1 DEF Accept, Inv, TypeOK, Ids, Alive, AwaitsRegistration
  <2>. QED BY <1>1, <2>2, <2>3, <2>4, <2>5 DEF Accept, Inv, TypeOK, Ids
<1>2. CASE Register
  <2>1. Counted' = Counted /\ nextId - 1 \in Ids
    BY <1>2, LifecycleAssumption DEF Register, Counted, Inv, TypeOK, Ids
  <2>2. ActiveCounts' /\ active' \in Nat
    BY <1>2, <2>1, OthersCount DEF Register, Inv
  <2>3. TypeOK'
    BY <1>2, <2>1, <2>2 DEF Register, Inv, TypeOK
  <2>4. \A i \in Ids : Alive(i)' /\ ~AwaitsRegistration(i)' => listed'[i] # "absent"
    BY <1>2, <2>1 DEF Register, Inv, TypeOK, Alive, AwaitsRegistration
  <2>. QED BY <1>2, <2>2, <2>3, <2>4 DEF Register, Inv
<1>3. CASE AcceptFails \/ ShutdownSignal \/ GraceElapses \/ DrainLoopEnds \/ DrainReports
  <2>1. /\ UNCHANGED <<nextId, task, aborted, listed, active, backend, killed>>
        /\ acceptor # "registering" /\ acceptor' # "registering"
        /\ acceptor' \in {"draining", "reporting", "stopped"}
        /\ expired' \in BOOLEAN /\ verdict' \in {"none", "drained", "left"}
    BY <1>3 DEF AcceptFails, ShutdownSignal, GraceElapses, DrainLoopEnds, DrainReports,
                Inv, TypeOK
  <2>2. Counted' = Counted
    BY <2>1 DEF Counted
  <2>3. ActiveCounts' /\ active' \in Nat
    BY <2>1, <2>2, OthersCount DEF Inv
  <2>4. TypeOK'
    BY <2>1, <2>3 DEF Inv, TypeOK
  <2>. QED BY <2>1, <2>3, <2>4 DEF Inv, Alive, AwaitsRegistration
<1>. QED BY <1>1, <1>2, <1>3

\* Every step of one session keeps the invariant.
LEMMA SessionInv ==
  ASSUME Inv, NEW i \in Ids,
         \/ FirstPoll(i) \/ SetUser(i) \/ Connect(i) \/ Execute(i) \/ Finish(i)
         \/ AbortTakesEffect(i) \/ DropGuard(i)
         \/ Answer(i) \/ Terminate(i) \/ Kill(i)
  PROVE  Inv'
<1>1. UNCHANGED <<acceptor, nextId>>
  BY DEF FirstPoll, SetUser, Connect, Execute, Finish, AbortTakesEffect, DropGuard,
         Answer, Terminate, Kill
<1>2. CASE FirstPoll(i)
  <2>1. ActiveCounts' /\ active' \in Nat
    BY <1>2, PollCounts DEF Inv
  <2>. QED BY <1>1, <1>2, <2>1
           DEF FirstPoll, Inv, TypeOK, Alive, AwaitsRegistration
<1>3. CASE DropGuard(i)
  <2>1. ActiveCounts' /\ active' \in Nat
    BY <1>3, DropCounts DEF Inv
  <2>. QED BY <1>1, <1>3, <2>1
           DEF DropGuard, Inv, TypeOK, Alive, AwaitsRegistration
<1>4. CASE Finish(i) \/ AbortTakesEffect(i)
  <2>1. Counted' = Counted /\ active' = active
    BY <1>4 DEF Finish, AbortTakesEffect, DropRegistration, Counted, Inv, TypeOK
  <2>2. ActiveCounts' /\ active' \in Nat
    BY <2>1, OthersCount DEF Inv
  <2>3. TypeOK'
    BY <1>4, <1>1, <2>2 DEF Finish, AbortTakesEffect, DropRegistration, Inv, TypeOK
  <2>4. \A j \in Ids : j >= nextId' => task'[j] = "none"
    BY <1>4, <1>1 DEF Finish, AbortTakesEffect, DropRegistration, Inv, TypeOK
  <2>5. \A j \in Ids : Alive(j)' /\ ~AwaitsRegistration(j)' => listed'[j] # "absent"
    BY <1>4, <1>1 DEF Finish, AbortTakesEffect, DropRegistration, Inv, TypeOK, Alive,
                      AwaitsRegistration
  <2>. QED BY <1>1, <2>2, <2>3, <2>4, <2>5 DEF Inv
<1>5. CASE SetUser(i) \/ Connect(i) \/ Execute(i) \/ Answer(i) \/ Terminate(i) \/ Kill(i)
  <2>1. /\ UNCHANGED <<task, active>>
        /\ \A j \in Ids : listed'[j] = "absent" <=> listed[j] = "absent"
    BY <1>5 DEF SetUser, Connect, Execute, Answer, Terminate, Kill, Inv, TypeOK
  <2>2. Counted' = Counted
    BY <2>1 DEF Counted
  <2>3. ActiveCounts' /\ active' \in Nat
    BY <2>1, <2>2, OthersCount DEF Inv
  <2>4. TypeOK'
    BY <1>5, <2>3 DEF SetUser, Connect, Execute, Answer, Terminate, Kill, Inv, TypeOK
  <2>. QED BY <1>1, <2>1, <2>3, <2>4 DEF Inv, Alive, AwaitsRegistration
<1>. QED BY <1>2, <1>3, <1>4, <1>5

\* Inv is an invariant of the specification.
THEOREM LifecycleInvariant == Spec => []Inv
<1>1. Init => Inv
  BY InitInv
<1>2. Inv /\ [Next]_vars => Inv'
  <2>. SUFFICES ASSUME Inv, [Next]_vars PROVE Inv'
    OBVIOUS
  <2>1. CASE Next
    BY <2>1, LoopInv, SessionInv DEF Next
  <2>2. CASE UNCHANGED vars
    BY <2>2 DEF vars, Inv, TypeOK, ActiveCounts, Counted, Alive, AwaitsRegistration
  <2>. QED BY <2>1, <2>2
<1>. QED BY <1>1, <1>2, PTL DEF Spec

\* Type correctness, for any number of sessions.
THEOREM LifecycleType == Spec => []TypeOK
<1>1. Inv => TypeOK
  BY DEF Inv
<1>. QED BY <1>1, LifecycleInvariant, PTL

\* The gauge of live sessions is exact whatever way sessions end.
THEOREM LifecycleCounts == Spec => []ActiveCounts
<1>1. Inv => ActiveCounts
  BY DEF Inv
<1>. QED BY <1>1, LifecycleInvariant, PTL

\* No session runs out of the operator's reach.
THEOREM LifecycleListed == Spec => []LiveListed
<1>1. Inv => LiveListed
  BY DEF Inv, LiveListed, Alive
<1>. QED BY <1>1, LifecycleInvariant, PTL

\* "drained" is only logged when no started session is left.
THEOREM LifecycleDrained == Spec => DrainedMeansIdle
<1>1. Inv /\ [Next]_vars =>
        [verdict' = "drained" /\ verdict = "none" => Counted' = {}]_vars
  <2>. SUFFICES ASSUME Inv, Next, verdict' = "drained", verdict = "none"
                PROVE  Counted' = {}
    OBVIOUS
  <2>1. DrainReports
    BY DEF Next, Accept, Register, AcceptFails, ShutdownSignal, GraceElapses,
           DrainLoopEnds, FirstPoll, SetUser, Connect, Execute, Finish,
           AbortTakesEffect, DropGuard, Answer, Terminate, Kill
  <2>2. active = 0
    BY <2>1 DEF DrainReports, Inv, TypeOK
  <2>3. Counted = {}
    BY <2>2, CountedFinite, FS_EmptySet DEF Inv, ActiveCounts
  <2>. QED BY <2>1, <2>3 DEF DrainReports, Counted
<1>. QED BY <1>1, LifecycleInvariant, PTL DEF Spec, DrainedMeansIdle

\* An entry leaves the registry only when its own task drops its registration.
THEOREM LifecycleEntries == Spec => EntryLeavesWithItsSession
<1>1. Inv /\ [Next]_vars =>
        [\A i \in Ids : listed[i] # "absent" /\ listed'[i] = "absent"
           => task[i] = "running" /\ task'[i] = "unregistered"]_vars
  <2>. SUFFICES ASSUME Inv, Next, NEW i \in Ids,
                       listed[i] # "absent", listed'[i] = "absent"
                PROVE  task[i] = "running" /\ task'[i] = "unregistered"
    OBVIOUS
  <2>1. PICK j \in Ids : Finish(j) \/ AbortTakesEffect(j)
    BY DEF Next, Accept, Register, AcceptFails, ShutdownSignal, GraceElapses,
           DrainLoopEnds, DrainReports, FirstPoll, SetUser, Connect, Execute,
           DropGuard, Answer, Terminate, Kill, Inv, TypeOK
  <2>. QED BY <2>1 DEF Finish, AbortTakesEffect, DropRegistration, Inv, TypeOK
<1>. QED BY <1>1, LifecycleInvariant, PTL DEF Spec, EntryLeavesWithItsSession
=============================================================================
