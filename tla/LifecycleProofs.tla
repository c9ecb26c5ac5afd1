--------------------------- MODULE LifecycleProofs ---------------------------
(***************************************************************************)
(* What holds of Lifecycle for any number of projects, agents, requests    *)
(* and starts of the process, and any limit on running projects.           *)
(***************************************************************************)
EXTENDS Lifecycle, FiniteSetTheorems, TLAPS

-----------------------------------------------------------------------------
(* The invariant *)

Inside == {"setup", "start", "mark", "select", "view"}

\* A call is about a project, an engine or an agent that it may be about, and
\* engines that are referred to have been made.
Referred ==
  /\ Len(engine) <= MaxEngines
  /\ \A p \in Projects : running[p] # None => running[p] \in DOMAIN engine
  /\ served # None => served \in DOMAIN engine
  /\ \A r \in Callers :
       /\ Busy(r) => call[r].project \in Projects
       /\ call[r].at \in {"start", "stop", "create", "dismiss"} => call[r].engine \in DOMAIN engine
       /\ call[r].at \in Recruitment => call[r].name \in Recruits

\* Who is inside `async with self._activate_lock` has the lock, who waits for it
\* is in its queue, and before the start there is nobody.
Held ==
  /\ \A r \in Callers :
       /\ At(r, "lock") => \E i \in 1..Len(lock) : lock[i] = r
       /\ call[r].at \in Inside => lock # <<>> /\ Head(lock) = r
  /\ process = "down" => call = Idle /\ lock = <<>> /\ engine = <<>>

\* Until its entry is made, a set-up has the room that it found, for a project
\* that does not run, by an engine that is nobody else's.
Kept ==
  \A r \in Callers : call[r].at \in {"setup", "start"} =>
    /\ running[call[r].project] = None /\ Room
    /\ At(r, "start") => \A p \in Projects : running[p] # call[r].engine

Inv == TypeOK /\ Referred /\ Held /\ Kept

-----------------------------------------------------------------------------
(* Types *)

Calls == [at: Stages, project: Projects \cup {None},
          engine: Engines \cup {None}, name: Names \cup {None}, left: SUBSET Loops]

Made == [project: Projects, staff: [Names -> 0..2], broker: BOOLEAN]

\* A call that goes on, ends or begins is a call.
LEMMA GoTyped ==
  ASSUME call \in [Callers -> Calls], NEW r \in Callers, NEW s \in Stages, Go(r, s)
  PROVE  call' \in [Callers -> Calls]
BY DEF Calls, Go

LEMMA NoCallTyped == NoCall \in Calls
BY DEF NoCall, Calls, Stages, None

LEMMA EndTyped ==
  ASSUME call \in [Callers -> Calls], NEW r \in Callers, call' = [call EXCEPT ![r] = NoCall]
  PROVE  call' \in [Callers -> Calls]
BY NoCallTyped

LEMMA BeginTyped ==
  ASSUME TypeOK, NEW r \in Callers, NEW s \in Stages, NEW p \in Projects,
         NEW e \in Engines \cup {None}, NEW n \in Names \cup {None}, NEW left \in SUBSET Loops,
         Begin(r, s, p, e, n, left)
  PROVE  /\ call' \in [Callers -> Calls] /\ crossed' \in BOOLEAN /\ joined' \in BOOLEAN
         /\ call'[r] = [at |-> s, project |-> p, engine |-> e, name |-> n, left |-> left]
         /\ \A q \in Callers : q # r => call'[q] = call[q]
<1>1. [at |-> s, project |-> p, engine |-> e, name |-> n, left |-> left] \in Calls
  BY DEF Calls
<1>2. call' = [call EXCEPT ![r] = [at |-> s, project |-> p, engine |-> e, name |-> n, left |-> left]]
  BY DEF Begin
<1>3. call \in [Callers -> Calls]
  BY DEF TypeOK, Calls
<1>4. crossed' \in BOOLEAN /\ joined' \in BOOLEAN
  BY DEF Begin
<1> QED
  BY <1>1, <1>2, <1>3, <1>4

\* The lock is passed on to the next in the queue.
LEMMA ReleaseTyped ==
  ASSUME TypeOK, NEW r \in Callers, Release(r), lock # <<>>
  PROVE  call' \in [Callers -> Calls] /\ lock' \in Seq(Callers)
<1>1. call' \in [Callers -> Calls]
  BY EndTyped DEF Release, TypeOK, Calls
<1> QED
  BY <1>1 DEF Release, TypeOK

\* An engine that changes is an engine still.
LEMMA EngineTyped ==
  ASSUME engine \in Seq(Made), NEW e \in DOMAIN engine, NEW x \in Made,
         engine' = [engine EXCEPT ![e] = x]
  PROVE  engine' \in Seq(Made) /\ Len(engine') = Len(engine)
OBVIOUS

LEMMA BrokerTyped ==
  ASSUME engine \in Seq(Made), NEW e \in DOMAIN engine, NEW b \in BOOLEAN,
         engine' = [engine EXCEPT ![e].broker = b]
  PROVE  engine' \in Seq(Made) /\ Len(engine') = Len(engine)
<1> DEFINE x == [engine[e] EXCEPT !.broker = b]
<1>1. engine[e] \in Made
  OBVIOUS
<1>2. x \in Made
  BY <1>1 DEF Made
<1>3. engine' = [engine EXCEPT ![e] = x]
  OBVIOUS
<1> QED
  BY <1>2, <1>3, EngineTyped

LEMMA StaffTyped ==
  ASSUME engine \in Seq(Made), NEW e \in DOMAIN engine, NEW n, NEW k \in 0..2,
         engine' = [engine EXCEPT ![e].staff[n] = k]
  PROVE  engine' \in Seq(Made) /\ Len(engine') = Len(engine)
<1> DEFINE x == [engine[e] EXCEPT !.staff[n] = k]
<1>1. engine[e] \in Made
  OBVIOUS
<1>2. x \in Made
  BY <1>1 DEF Made
<1>3. engine' = [engine EXCEPT ![e] = x]
  OBVIOUS
<1> QED
  BY <1>2, <1>3, EngineTyped

LEMMA StaffIsLoops ==
  ASSUME engine \in Seq(Made), NEW e \in DOMAIN engine, Len(engine) <= MaxEngines
  PROVE  Staff(e) \subseteq Loops
<1>1. engine[e] \in Made
  OBVIOUS
<1>2. engine[e].staff \in [Names -> 0..2]
  BY <1>1 DEF Made
<1>3. e \in Engines
  BY LifecycleAssumption DEF Engines
<1> QED
  BY <1>2, <1>3 DEF Staff, Loops

\* Whatever ends the process leaves nothing of it.
LEMMA DeadIsFresh ==
  ASSUME Dead, rows' \subseteq Projects, dirs' \subseteq Projects, active' \subseteq Projects,
         marked' \subseteq Projects, custom' \subseteq Projects \X Recruits,
         events' \in 0..MaxEvents, hires' \in 0..MaxHires
  PROVE  Inv'
<1>1. call' \in [Callers -> Calls] /\ \A r \in Callers : call'[r] = NoCall
  BY NoCallTyped DEF Dead, Idle
<1>2. \A r \in Callers : call'[r].at = "none"
  BY <1>1 DEF NoCall
<1>3. TypeOK'
  <2>1. running' \in [Projects -> Engines \cup {None}]
    BY DEF Dead
  <2>2. lock' \in Seq(Callers) /\ engine' \in Seq(Made) /\ loops' \subseteq Loops
    BY DEF Dead
  <2>3. cached' \subseteq Projects /\ activeId' \in Projects \cup {None}
    BY DEF Dead
  <2>4. viewed' \in Projects \cup {None} /\ served' \in Engines \cup {None}
    BY DEF Dead
  <2>5. process' \in {"down", "boot", "up", "closing"} /\ crossed' \in BOOLEAN /\ joined' \in BOOLEAN
    BY DEF Dead
  <2> QED
    BY <1>1, <2>1, <2>2, <2>3, <2>4, <2>5 DEF TypeOK, Calls, Made
<1>4. Referred'
  BY <1>2, LifecycleAssumption DEF Dead, Referred, Busy, Recruitment
<1>5. Held' /\ Kept'
  BY <1>2 DEF Dead, Held, Kept, At, Inside
<1> QED
  BY <1>3, <1>4, <1>5 DEF Inv

-----------------------------------------------------------------------------
(* The steps keep the types *)

LEMMA ActivationTypes ==
  ASSUME Inv, NEW r \in Callers,
         \/ Acquire(r) \/ SetUp(r) \/ StartAgent(r) \/ Launch(r) \/ MarkRunning(r)
         \/ Select(r) \/ View(r)
  PROVE  TypeOK'
<1> USE DEF Inv
<1>0. /\ call \in [Callers -> Calls] /\ engine \in Seq(Made)
      /\ {"lock", "setup", "start", "mark", "select", "view"} \subseteq Stages
  BY DEF TypeOK, Calls, Made, Stages, Activation
<1>1. CASE Acquire(r)
  <2>1. lock # <<>>
    BY <1>1, <1>0 DEF Acquire, At, Held, TypeOK
  <2>2. call' \in [Callers -> Calls] /\ lock' \in Seq(Callers)
    BY <1>0, <1>1, <2>1, GoTyped, ReleaseTyped DEF Acquire, TypeOK
  <2> QED
    BY <1>1, <2>2 DEF Acquire, TypeOK, Calls, database, store, agents, bounds, history
<1>2. CASE SetUp(r)
  <2> DEFINE p == call[r].project
             e == Len(engine) + 1
             x == [project |-> p, broker |-> FALSE,
                   staff |-> [n \in Names |-> IF n \in Hired(p) THEN 1 ELSE 0]]
             left == {<<e, n, 1>> : n \in Hired(p)}
  <2>1. p \in Projects /\ e \in Engines
    BY <1>0, <1>2, LifecycleAssumption DEF SetUp, Referred, Busy, At, Engines
  <2>2. x \in Made
    BY <2>1 DEF Made
  <2>3. left \in SUBSET Loops
    <3>1. Hired(p) \subseteq Names /\ 1 \in {1, 2}
      BY DEF Hired, Names
    <3> HIDE DEF e, p
    <3> QED
      BY <2>1, <3>1 DEF Loops
  <2>4. call' = [call EXCEPT ![r].at = "start", ![r].engine = e, ![r].left = left]
    BY <1>2 DEF SetUp
  <2>5. call' \in [Callers -> Calls]
    <3> DEFINE c == [call[r] EXCEPT !.at = "start", !.engine = e, !.left = left]
    <3>1. call' = [call EXCEPT ![r] = c]
      BY <2>4
    <3>2. c \in Calls
      <4> HIDE DEF e, left
      <4> QED
        BY <1>0, <2>1, <2>3 DEF Calls
    <3> QED
      BY <1>0, <3>1, <3>2
  <2>6. engine' \in Seq(Made)
    <3>1. engine' = Append(engine, x)
      BY <1>2 DEF SetUp
    <3> QED
      BY <1>0, <2>2, <3>1
  <2> QED
    BY <1>2, <2>5, <2>6 DEF SetUp, TypeOK, Calls, Made, database, store, manager, bounds, history
<1>3. CASE StartAgent(r)
  <2>1. PICK o \in call[r].left : /\ loops' = loops \cup {o}
                                  /\ call' = [call EXCEPT ![r].left = @ \ {o}]
    BY <1>3 DEF StartAgent
  <2>2. call' \in [Callers -> Calls] /\ o \in Loops
    BY <1>0, <2>1 DEF Calls
  <2> QED
    BY <1>3, <2>1, <2>2 DEF StartAgent, TypeOK, Calls, database, store, manager, bounds, history
<1>4. CASE Launch(r)
  <2>1. call' \in [Callers -> Calls]
    BY <1>0, <1>4, GoTyped DEF Launch
  <2>2. call[r].engine \in DOMAIN engine /\ call[r].engine \in Engines \cup {None}
    BY <1>0, <1>4 DEF Launch, Referred, At, Calls
  <2>3. engine' \in Seq(Made)
    BY <1>0, <1>4, <2>2, BrokerTyped DEF Launch
  <2>4. running' \in [Projects -> Engines \cup {None}]
    BY <1>4, <2>2 DEF Launch, TypeOK
  <2> QED
    BY <1>4, <2>1, <2>3, <2>4 DEF Launch, TypeOK, Calls, Made, database, store, bounds, history
<1>5. CASE MarkRunning(r)
  <2>1. call' \in [Callers -> Calls]
    BY <1>0, <1>5, GoTyped DEF MarkRunning
  <2>2. call[r].project \in Projects
    BY <1>5 DEF MarkRunning, Referred, Busy, At
  <2> QED
    BY <1>5, <2>1, <2>2 DEF MarkRunning, TypeOK, Calls, store, manager, agents, bounds, history
<1>6. CASE Select(r)
  <2>1. call' \in [Callers -> Calls]
    BY <1>0, <1>6, GoTyped DEF Select
  <2>2. call[r].project \in Projects
    BY <1>6 DEF Select, Referred, Busy, At
  <2> QED
    BY <1>6, <2>1, <2>2 DEF Select, TypeOK, Calls, store, manager, agents, bounds, history
<1>7. CASE View(r)
  <2>1. lock # <<>>
    BY <1>7 DEF View, At, Held, Inside
  <2>2. call' \in [Callers -> Calls] /\ lock' \in Seq(Callers)
    BY <1>7, <2>1, ReleaseTyped DEF View
  <2>3. call[r].project \in Projects
    BY <1>7 DEF View, Referred, Busy, At
  <2>4. Applied(call[r].project) \in Engines \cup {None}
    BY <2>3 DEF Applied, TypeOK
  <2> QED
    BY <1>7, <2>2, <2>3, <2>4 DEF View, TypeOK, Calls, database, agents, bounds, history
<1> QED
  BY <1>1, <1>2, <1>3, <1>4, <1>5, <1>6, <1>7

LEMMA StopTypes ==
  ASSUME Inv, NEW r \in Callers,
         StopAgent(r) \/ RemoveEntry(r) \/ UnmarkRunning(r) \/ Unview(r)
  PROVE  TypeOK'
<1> USE DEF Inv
<1>0. /\ call \in [Callers -> Calls] /\ engine \in Seq(Made)
      /\ {"unmark", "unview"} \subseteq Stages
  BY DEF TypeOK, Calls, Made, Stages, Stopping
<1>1. CASE StopAgent(r)
  <2> DEFINE c(o) == [call EXCEPT ![r].left = @ \ {o}]
  <2>1. PICK o \in call[r].left : /\ loops' = loops \ {o}
                                  /\ call' \in {c(o), [c(o) EXCEPT ![Hirer] = NoCall]}
    BY <1>1 DEF StopAgent
  <2>2. call' \in [Callers -> Calls]
    <3>1. c(o) \in [Callers -> Calls]
      BY <1>0 DEF Calls
    <3> HIDE DEF c
    <3> QED
      BY <2>1, <3>1, NoCallTyped
  <2> QED
    BY <1>1, <2>1, <2>2 DEF StopAgent, TypeOK, Calls, database, store, manager, bounds, history
<1>2. CASE RemoveEntry(r)
  <2>1. engine' \in Seq(Made)
    BY <1>0, <1>2, BrokerTyped DEF RemoveEntry, Referred, At
  <2>2. call' \in [Callers -> Calls]
    <3> DEFINE c == [call[r] EXCEPT !.at = "unmark"]
    <3>1. c \in Calls
      BY <1>0 DEF Calls
    <3>2. call' = [call EXCEPT ![r] = IF running[call[r].project] = None THEN NoCall ELSE c]
      BY <1>2 DEF RemoveEntry
    <3> QED
      BY <1>0, <3>1, <3>2, NoCallTyped
  <2> QED
    BY <1>2, <2>1, <2>2 DEF RemoveEntry, TypeOK, Calls, Made, database, store, bounds, history
<1>3. CASE UnmarkRunning(r)
  <2>1. call' \in [Callers -> Calls]
    BY <1>0, <1>3, GoTyped DEF UnmarkRunning
  <2> QED
    BY <1>3, <2>1 DEF UnmarkRunning, TypeOK, Calls, store, manager, agents, bounds, history
<1>4. CASE Unview(r)
  <2>1. call' \in [Callers -> Calls]
    BY <1>0, <1>4, EndTyped DEF Unview
  <2> QED
    BY <1>4, <2>1 DEF Unview, TypeOK, Calls, database, store, agents, bounds, history
<1> QED
  BY <1>1, <1>2, <1>3, <1>4

LEMMA CreationTypes ==
  ASSUME Inv, NEW r \in Callers, Clone(r) \/ Insert(r) \/ List(r)
  PROVE  TypeOK'
<1> USE DEF Inv
<1>0. call \in [Callers -> Calls] /\ {"insert", "list", "lock"} \subseteq Stages
  BY DEF TypeOK, Calls, Stages, Creation, Activation
<1>1. CASE Clone(r)
  <2>1. call' \in [Callers -> Calls]
    BY <1>0, <1>1, GoTyped, EndTyped DEF Clone
  <2> QED
    BY <1>1, <2>1 DEF Clone, TypeOK, Calls, store, manager, agents, bounds, history
<1>2. CASE Insert(r)
  <2>1. call' \in [Callers -> Calls] /\ call[r].project \in Projects
    BY <1>0, <1>2, GoTyped, EndTyped DEF Insert, Referred, Busy, At
  <2> QED
    BY <1>2, <2>1 DEF Insert, TypeOK, Calls, store, manager, agents, bounds, history
<1>3. CASE List(r)
  <2>1. call' \in [Callers -> Calls] /\ call[r].project \in Projects
    BY <1>0, <1>3, GoTyped, EndTyped DEF List, Referred, Busy, At
  <2>2. lock' \in Seq(Callers)
    <3>1. lock \in Seq(Callers)
      BY DEF TypeOK
    <3> QED
      BY <1>3, <3>1 DEF List
  <2> QED
    BY <1>3, <2>1, <2>2 DEF List, TypeOK, Calls, database, agents, bounds, history
<1> QED
  BY <1>1, <1>2, <1>3

LEMMA TeamTypes ==
  ASSUME Inv, NEW r \in Callers,
         Register(r) \/ LaunchRecruit(r) \/ Persist(r) \/ Dismiss(r) \/ Forget(r)
  PROVE  TypeOK'
<1> USE DEF Inv
<1>0. /\ call \in [Callers -> Calls] /\ engine \in Seq(Made)
      /\ {"launch", "persist", "forget"} \subseteq Stages
  BY DEF TypeOK, Calls, Made, Stages, Recruitment, Removal
<1>1. CASE Register(r)
  <2> DEFINE e == call[r].engine
             n == call[r].name
             k == IF <<e, n, 1>> \in loops \cup Staff(e) THEN 2 ELSE 1
             left == {<<e, n, k>>}
  <2>1. /\ e \in DOMAIN engine /\ n \in Names
        /\ engine' = [engine EXCEPT ![e].staff[n] = k]
        /\ call' = [call EXCEPT ![r].at = "launch", ![r].left = left]
    BY <1>1 DEF Register, Referred, At, Recruitment, Names
  <2>2. e \in Engines
    BY <1>0, <2>1, LifecycleAssumption DEF Referred, Engines
  <2>3. left \in SUBSET Loops
    BY <2>1, <2>2 DEF Loops
  <2>4. call' \in [Callers -> Calls]
    <3> HIDE DEF left
    <3> QED
      BY <1>0, <2>1, <2>3 DEF Calls
  <2>5. engine' \in Seq(Made)
    <3>1. k \in 0..2
      OBVIOUS
    <3> HIDE DEF k, e, n
    <3> QED
      BY <1>0, <2>1, <3>1, StaffTyped
  <2> QED
    BY <1>1, <2>4, <2>5 DEF Register, TypeOK, Calls, Made, database, store, manager, bounds, history
<1>2. CASE LaunchRecruit(r)
  <2>1. call' \in [Callers -> Calls] /\ call[r].left \subseteq Loops
    BY <1>0, <1>2, GoTyped DEF LaunchRecruit, Calls
  <2> QED
    BY <1>2, <2>1 DEF LaunchRecruit, TypeOK, Calls, database, store, manager, bounds, history
<1>3. CASE Persist(r)
  <2>1. call' \in [Callers -> Calls] /\ call[r].name \in Recruits
    BY <1>0, <1>3, EndTyped DEF Persist, Referred, At, Recruitment
  <2> QED
    BY <1>3, <2>1 DEF Persist, TypeOK, Calls, store, manager, agents, bounds, history
<1>4. CASE Dismiss(r)
  <2>1. call' \in [Callers -> Calls]
    BY <1>0, <1>4, GoTyped DEF Dismiss
  <2>2. engine' \in Seq(Made)
    <3>1. call[r].engine \in DOMAIN engine /\ 0 \in 0..2
      BY <1>4 DEF Dismiss, Referred, At
    <3>2. engine' = [engine EXCEPT ![call[r].engine].staff[call[r].name] = 0]
      BY <1>4 DEF Dismiss
    <3> QED
      BY <1>0, <3>1, <3>2, StaffTyped
  <2> QED
    BY <1>4, <2>1, <2>2 DEF Dismiss, TypeOK, Calls, Made, database, store, manager, bounds, history
<1>5. CASE Forget(r)
  <2>1. call' \in [Callers -> Calls]
    BY <1>0, <1>5, EndTyped DEF Forget
  <2> QED
    BY <1>5, <2>1 DEF Forget, TypeOK, Calls, store, manager, agents, bounds, history
<1> QED
  BY <1>1, <1>2, <1>3, <1>4, <1>5

LEMMA RequestTypes ==
  ASSUME Inv, NEW r \in Requests,
         \/ \E p \in Projects : Activate(r, p) \/ Stop(r, p)
         \/ Create(r)
         \/ \E n \in Recruits : AddAgent(r, n) \/ RemoveAgent(r, n)
  PROVE  TypeOK'
<1> USE DEF Inv
<1>0. /\ call \in [Callers -> Calls] /\ engine \in Seq(Made) /\ r \in Callers
      /\ {"lock", "stop", "clone", "insert", "create", "dismiss"} \subseteq Stages
      /\ None \in Engines \cup {None} /\ None \in Names \cup {None}
      /\ Recruits \subseteq Names \cup {None} /\ {} \in SUBSET Loops
  BY DEF TypeOK, Calls, Made, Stages, Activation, Stopping, Creation, Recruitment, Removal,
         Callers, Names
<1>1. Request(r) => events' \in 0..MaxEvents /\ hires' \in 0..MaxHires
  BY LifecycleAssumption DEF Request, TypeOK
<1>2. ASSUME NEW p \in Projects, Activate(r, p) PROVE TypeOK'
  <2>1. call' \in [Callers -> Calls] /\ crossed' \in BOOLEAN /\ joined' \in BOOLEAN
    BY <1>0, <1>2, BeginTyped DEF Activate
  <2>2. lock' \in Seq(Callers)
    <3>1. lock \in Seq(Callers)
      BY DEF TypeOK
    <3> QED
      BY <1>0, <1>2, <3>1 DEF Activate
  <2> QED
    BY <1>1, <1>2, <2>1, <2>2 DEF Activate, TypeOK, Calls, database, store, agents
<1>3. ASSUME NEW p \in Projects, Stop(r, p) PROVE TypeOK'
  <2>1. running[p] \in DOMAIN engine /\ running[p] \in Engines
    BY <1>3 DEF Stop, Referred, TypeOK
  <2>2. Staff(running[p]) \in SUBSET Loops
    BY <1>0, <2>1, StaffIsLoops DEF Referred
  <2>3. call' \in [Callers -> Calls] /\ crossed' \in BOOLEAN /\ joined' \in BOOLEAN
    BY <1>0, <1>3, <2>1, <2>2, BeginTyped DEF Stop
  <2> QED
    BY <1>1, <1>3, <2>3 DEF Stop, TypeOK, Calls, database, store, manager, agents
<1>4. CASE Create(r)
  <2>1. PICK q \in Projects, stage \in {"clone", "insert"} : StartCreation(r, stage, q)
    BY <1>4 DEF Create
  <2>2. call' \in [Callers -> Calls] /\ crossed' \in BOOLEAN /\ joined' \in BOOLEAN
    BY <1>0, <2>1, BeginTyped DEF StartCreation
  <2>3. dirs' \subseteq Projects
    BY <2>1 DEF StartCreation, TypeOK
  <2> QED
    BY <1>1, <1>4, <2>2, <2>3 DEF Create, TypeOK, Calls, store, manager, agents
<1>5. ASSUME NEW n \in Recruits, AddAgent(r, n) PROVE TypeOK'
  <2>1. /\ served \in Engines \cup {None} /\ engine[served] \in Made
        /\ Begin(r, "create", engine[served].project, served, n, {})
    BY <1>0, <1>5 DEF AddAgent, StartHiring, Referred, TypeOK
  <2>3. engine[served].project \in Projects
    BY <2>1 DEF Made
  <2>2. call' \in [Callers -> Calls] /\ crossed' \in BOOLEAN /\ joined' \in BOOLEAN
    BY <1>0, <2>1, <2>3, BeginTyped
  <2> QED
    BY <1>1, <1>5, <2>2 DEF AddAgent, TypeOK, Calls, database, store, manager, agents
<1>6. ASSUME NEW n \in Recruits, RemoveAgent(r, n) PROVE TypeOK'
  <2> DEFINE left == {<<served, n, engine[served].staff[n]>>}
  <2>1. /\ served \in Engines /\ served \in DOMAIN engine /\ engine[served] \in Made
        /\ Begin(r, "dismiss", engine[served].project, served, n, left)
    BY <1>0, <1>6 DEF RemoveAgent, Referred, TypeOK
  <2>2. engine[served].staff[n] \in 0..2 /\ engine[served].staff[n] # 0 /\ n \in Names
    BY <1>6, <2>1 DEF RemoveAgent, Made, Names
  <2>3. left \in SUBSET Loops /\ engine[served].project \in Projects
    BY <2>1, <2>2 DEF Loops, Made
  <2>4. call' \in [Callers -> Calls] /\ crossed' \in BOOLEAN /\ joined' \in BOOLEAN
    BY <1>0, <2>1, <2>3, BeginTyped
  <2> QED
    BY <1>1, <1>6, <2>4 DEF RemoveAgent, TypeOK, Calls, database, store, manager, agents
<1> QED
  BY <1>2, <1>3, <1>4, <1>5, <1>6

LEMMA RecruitTypes ==
  ASSUME Inv, NEW e \in DOMAIN engine, NEW n \in Recruits, Recruit(e, n)
  PROVE  TypeOK'
<1> USE DEF Inv
<1>1. /\ engine \in Seq(Made) /\ Hirer \in Callers /\ "create" \in Stages
      /\ n \in Names \cup {None} /\ {} \in SUBSET Loops
  BY DEF TypeOK, Made, Stages, Recruitment, Callers, Names
<1>2. engine[e].project \in Projects /\ e \in Engines
  <2>1. engine[e] \in Made /\ e \in 1..MaxEngines
    BY <1>1, LifecycleAssumption DEF Referred
  <2> QED
    BY <2>1 DEF Made, Engines
<1>3. call' \in [Callers -> Calls] /\ crossed' \in BOOLEAN /\ joined' \in BOOLEAN
  BY <1>1, <1>2, BeginTyped DEF Recruit, StartHiring
<1>4. hires' \in 0..MaxHires
  BY LifecycleAssumption DEF Recruit, TypeOK
<1> QED
  BY <1>3, <1>4 DEF Recruit, TypeOK, Calls, database, store, manager, agents

LEMMA ProcessTypes ==
  ASSUME Inv, Boot \/ Shutdown \/ StopNext
  PROVE  TypeOK'
<1> USE DEF Inv
<1>0. /\ engine \in Seq(Made) /\ Main \in Callers
      /\ {"lock", "insert", "stop"} \subseteq Stages
      /\ None \in Engines \cup {None} /\ None \in Names \cup {None} /\ {} \in SUBSET Loops
  BY DEF TypeOK, Made, Stages, Activation, Stopping, Creation, Callers
<1>1. CASE Boot
  <2>1. cached' \subseteq Projects /\ marked' \subseteq Projects
    BY <1>1 DEF Boot, TypeOK
  <2>2. CASE active = {}
    <3>1. PICK p \in Projects : StartCreation(Main, "insert", p)
      BY <1>1, <2>2 DEF Boot
    <3>2. /\ call' \in [Callers -> Calls] /\ crossed' \in BOOLEAN /\ joined' \in BOOLEAN
          /\ dirs' \subseteq Projects
      BY <1>0, <3>1, BeginTyped DEF StartCreation, TypeOK
    <3>3. activeId' = None /\ UNCHANGED lock
      BY <1>1, <2>2 DEF Boot
    <3> QED
      BY <1>1, <2>1, <3>2, <3>3 DEF Boot, TypeOK, Calls, agents, bounds
  <2>3. CASE active # {}
    <3>1. /\ activeId' \in Projects /\ lock' = <<Main>> /\ UNCHANGED dirs
          /\ Begin(Main, "lock", activeId', None, None, {})
      BY <1>1, <2>3 DEF Boot, TypeOK
    <3>2. call' \in [Callers -> Calls] /\ crossed' \in BOOLEAN /\ joined' \in BOOLEAN
      BY <1>0, <3>1, BeginTyped
    <3>3. lock' \in Seq(Callers)
      BY <1>0, <3>1
    <3> QED
      BY <1>1, <2>1, <3>1, <3>2, <3>3 DEF Boot, TypeOK, Calls, agents, bounds
  <2> QED
    BY <2>2, <2>3
<1>2. CASE Shutdown
  <2>1. events' \in 0..MaxEvents
    BY <1>2, LifecycleAssumption DEF Shutdown, TypeOK
  <2> QED
    BY <1>2, <2>1 DEF Shutdown, TypeOK, database, store, manager, agents, history
<1>3. CASE StopNext
  <2>1. PICK p \in Running : Begin(Main, "stop", p, running[p], None, Staff(running[p]))
    BY <1>3 DEF StopNext
  <2>2. p \in Projects /\ running[p] \in DOMAIN engine /\ running[p] \in Engines
    BY DEF Running, Referred, TypeOK
  <2>3. Staff(running[p]) \in SUBSET Loops
    BY <1>0, <2>2, StaffIsLoops DEF Referred
  <2>4. call' \in [Callers -> Calls] /\ crossed' \in BOOLEAN /\ joined' \in BOOLEAN
    BY <1>0, <2>1, <2>2, <2>3, BeginTyped
  <2> QED
    BY <1>3, <2>4 DEF StopNext, TypeOK, Calls, database, store, manager, agents, bounds
<1> QED
  BY <1>1, <1>2, <1>3

\* The steps that end the process.
LEMMA EndsAreFresh ==
  ASSUME Inv, Exit \/ Crash \/ Fail(Main)
  PROVE  Inv' /\ Dead
<1> QED
  BY LifecycleAssumption, DeadIsFresh DEF Exit, Crash, Fail, Inv, TypeOK, database, bounds

LEMMA FailTypes ==
  ASSUME Inv, NEW r \in Callers, r # Main, Fail(r)
  PROVE  TypeOK'
<1> USE DEF Inv
<1>1. lock # <<>> /\ Release(r)
  BY DEF Fail, Held, Inside
<1>2. call' \in [Callers -> Calls] /\ lock' \in Seq(Callers)
  BY <1>1, ReleaseTyped
<1>3. crossed' \in BOOLEAN
  BY DEF Fail, At, TypeOK
<1> QED
  BY <1>2, <1>3 DEF Fail, TypeOK, Calls, database, store, agents, bounds

-----------------------------------------------------------------------------
(* The steps keep the rest of the invariant *)

LEMMA BusyIsUp ==
  ASSUME Held, NEW r \in Callers, Busy(r)
  PROVE  process # "down"
BY DEF Held, Busy, Idle, NoCall

\* A step from r that nobody inside or at the lock notices.
Quiet(r) ==
  /\ Busy(r) /\ lock' = lock /\ process' = process
  /\ \A q \in Callers : call'[q] = call[q] \/ call'[q].at \notin Inside \cup {"lock"}
  /\ \A p \in Projects : running'[p] \in {running[p], None}

\* Where a call outside the lock goes on to.
Continues(r) ==
  /\ <<call[r].at, call'[r].at>> \in
       {<<"stop", "unmark">>, <<"unmark", "unview">>, <<"clone", "insert">>, <<"insert", "list">>,
        <<"create", "launch">>, <<"launch", "persist">>, <<"dismiss", "forget">>}
  /\ call'[r].project = call[r].project /\ call'[r].engine = call[r].engine
  /\ call'[r].name = call[r].name

LEMMA QuietCalls ==
  ASSUME TypeOK, NEW r \in Callers,
         \/ RemoveEntry(r) \/ UnmarkRunning(r) \/ Unview(r)
         \/ Clone(r) \/ Insert(r) \/ (List(r) /\ r # Main)
         \/ Register(r) \/ LaunchRecruit(r) \/ Persist(r) \/ Dismiss(r) \/ Forget(r)
  PROVE  /\ \A q \in Callers : q # r => call'[q] = call[q]
         /\ call'[r].at = "none" \/ Continues(r)
<1>0. call \in [Callers -> Calls]
  BY DEF TypeOK, Calls
<1> USE <1>0 DEF Continues, At, Go, NoCall
<1>1. CASE RemoveEntry(r)
  BY <1>1 DEF RemoveEntry, Calls
<1>2. CASE UnmarkRunning(r)
  BY <1>2 DEF UnmarkRunning, Calls
<1>3. CASE Unview(r)
  BY <1>3 DEF Unview
<1>4. CASE Clone(r)
  BY <1>4 DEF Clone, Calls
<1>5. CASE Insert(r)
  BY <1>5 DEF Insert, Calls
<1>6. CASE List(r) /\ r # Main
  BY <1>6 DEF List
<1>7. CASE Register(r)
  BY <1>7 DEF Register, Calls
<1>8. CASE LaunchRecruit(r)
  BY <1>8 DEF LaunchRecruit, Calls
<1>9. CASE Persist(r)
  BY <1>9 DEF Persist
<1>10. CASE Dismiss(r)
  BY <1>10 DEF Dismiss, Calls
<1>11. CASE Forget(r)
  BY <1>11 DEF Forget
<1> QED
  BY <1>1, <1>2, <1>3, <1>4, <1>5, <1>6, <1>7, <1>8, <1>9, <1>10, <1>11

LEMMA QuietSteps ==
  ASSUME TypeOK, NEW r \in Callers,
         \/ StopAgent(r) \/ RemoveEntry(r) \/ UnmarkRunning(r) \/ Unview(r)
         \/ Clone(r) \/ Insert(r) \/ (List(r) /\ r # Main)
         \/ Register(r) \/ LaunchRecruit(r) \/ Persist(r) \/ Dismiss(r) \/ Forget(r)
  PROVE  Quiet(r)
<1>0. /\ call \in [Callers -> Calls] /\ running \in [Projects -> Engines \cup {None}]
      /\ Hirer \in Callers
  BY DEF TypeOK, Calls, Callers
<1> USE <1>0 DEF Quiet, Inside, Busy, At, Go, NoCall, manager, store
<1>1. CASE StopAgent(r)
  <2> DEFINE c(o) == [call EXCEPT ![r].left = @ \ {o}]
  <2>1. PICK o \in call[r].left : call' \in {c(o), [c(o) EXCEPT ![Hirer] = NoCall]}
    BY <1>1 DEF StopAgent
  <2>2. c(o)[r].at = "stop" /\ \A q \in Callers : q # r => c(o)[q] = call[q]
    BY <1>1 DEF StopAgent, Calls
  <2>3. c(o) \in [Callers -> Calls]
    BY DEF Calls
  <2> HIDE DEF c
  <2>4. \A q \in Callers : call'[q] = call[q] \/ call'[q].at \notin Inside \cup {"lock"}
    BY <2>1, <2>2, <2>3
  <2> QED
    BY <1>1, <2>4 DEF StopAgent
<1>2. CASE ~StopAgent(r)
  <2>1. \A q \in Callers : call'[q] = call[q] \/ call'[q].at \notin Inside \cup {"lock"}
    BY <1>2, QuietCalls DEF Continues
  <2>2. \A p \in Projects : running'[p] \in {running[p], None}
    BY <1>2 DEF RemoveEntry, UnmarkRunning, Unview, Clone, Insert, List, Register, LaunchRecruit,
       Persist, Dismiss, Forget
  <2>3. Busy(r) /\ lock' = lock /\ process' = process
    BY <1>2 DEF RemoveEntry, UnmarkRunning, Unview, Clone, Insert, List, Register, LaunchRecruit,
       Persist, Dismiss, Forget
  <2> QED
    BY <2>1, <2>2, <2>3
<1> QED
  BY <1>1, <1>2

LEMMA QuietHolds ==
  ASSUME Held, NEW r \in Callers, Quiet(r)
  PROVE  Held'
<1>1. process' # "down"
  BY BusyIsUp DEF Quiet
<1> QED
  BY <1>1 DEF Quiet, Held, At, Inside

\* Where fewer projects run, there is room still.
LEMMA RoomStays ==
  ASSUME Room, \A p \in Projects : running'[p] \in {running[p], None}
  PROVE  Room'
<1>1. Running' \subseteq Running
  BY DEF Running
<1>2. IsFiniteSet(Running)
  <2>1. IsFiniteSet(Projects)
    BY FS_Interval, LifecycleAssumption DEF Projects
  <2> QED
    BY <2>1, FS_Subset DEF Running
<1>3. Cardinality(Running') <= Cardinality(Running)
  BY <1>1, <1>2, FS_Subset
<1>4. Cardinality(Running) \in Nat /\ Cardinality(Running') \in Nat
  BY <1>1, <1>2, FS_Subset, FS_CardinalityType
<1> QED
  BY <1>3, <1>4, LifecycleAssumption DEF Room

LEMMA QuietKeeps ==
  ASSUME TypeOK, Referred, Kept, NEW r \in Callers, Quiet(r)
  PROVE  Kept'
<1> SUFFICES ASSUME NEW q \in Callers, call'[q].at \in {"setup", "start"}
             PROVE  /\ running'[call'[q].project] = None /\ Room'
                    /\ call'[q].at = "start" => \A p \in Projects : running'[p] # call'[q].engine
  BY DEF Kept, At
<1>1. call'[q] = call[q]
  BY DEF Quiet, Inside
<1>2. call[q].project \in Projects /\ (At(q, "start") => call[q].engine # None)
  BY <1>1 DEF Referred, Busy, At, None
<1>3. Room'
  BY <1>1, RoomStays DEF Kept, Quiet
<1> QED
  BY <1>1, <1>2, <1>3 DEF Kept, Quiet, At

LEMMA QuietRefers ==
  ASSUME Inv, TypeOK', NEW r \in Callers,
         \/ StopAgent(r) \/ RemoveEntry(r) \/ UnmarkRunning(r) \/ Unview(r)
         \/ Clone(r) \/ Insert(r) \/ (List(r) /\ r # Main)
         \/ Register(r) \/ LaunchRecruit(r) \/ Persist(r) \/ Dismiss(r) \/ Forget(r)
  PROVE  Referred'
<1>0. /\ call \in [Callers -> Calls] /\ Hirer \in Callers /\ engine \in Seq(Made)
      /\ running \in [Projects -> Engines \cup {None}]
  BY DEF Inv, TypeOK, Calls, Callers, Made
<1> DEFINE sound(q) ==
      /\ Busy(q) => call[q].project \in Projects
      /\ call[q].at \in {"start", "stop", "create", "dismiss"} => call[q].engine \in DOMAIN engine
      /\ call[q].at \in Recruitment => call[q].name \in Recruits
<1>1. Len(engine') = Len(engine) /\ DOMAIN engine' = DOMAIN engine
  <2>1. CASE RemoveEntry(r)
    BY <1>0, <2>1, BrokerTyped DEF RemoveEntry, Inv, Referred, At
  <2>2. CASE Register(r)
    BY <1>0, <2>2, StaffTyped DEF Register, Inv, Referred, At
  <2>3. CASE Dismiss(r)
    BY <1>0, <2>3, StaffTyped DEF Dismiss, Inv, Referred, At
  <2> QED
    BY <2>1, <2>2, <2>3 DEF StopAgent, UnmarkRunning, Unview, Clone, Insert, List, LaunchRecruit,
         Persist, Forget, agents
<1>2. /\ \A p \in Projects : running'[p] \in {running[p], None}
      /\ served' = served
  BY QuietSteps DEF Inv, Quiet, StopAgent, RemoveEntry, UnmarkRunning, Unview, Clone, Insert, List,
     Register, LaunchRecruit, Persist, Dismiss, Forget, manager
<1>3. \A q \in Callers :
        \/ call'[q].at = "none"
        \/ /\ call'[q].project = call[q].project /\ call'[q].engine = call[q].engine
           /\ call'[q].name = call[q].name /\ Busy(q)
           /\ \/ call'[q].at = call[q].at
              \/ /\ call'[q].at \notin {"start", "stop", "create", "dismiss"}
                 /\ call'[q].at \in Recruitment => call[q].at \in Recruitment
  <2> USE <1>0 DEF At, Go, Busy, Recruitment, NoCall
  <2>1. CASE StopAgent(r)
    <3> DEFINE c(o) == [call EXCEPT ![r].left = @ \ {o}]
    <3>1. PICK o \in call[r].left : call' \in {c(o), [c(o) EXCEPT ![Hirer] = NoCall]}
      BY <2>1 DEF StopAgent
    <3>2. \A q \in Callers :
            /\ c(o)[q].at = call[q].at /\ c(o)[q].project = call[q].project
            /\ c(o)[q].engine = call[q].engine /\ c(o)[q].name = call[q].name
      BY DEF Calls
    <3>3. c(o) \in [Callers -> Calls]
      BY DEF Calls
    <3> HIDE DEF c
    <3> QED
      BY <3>1, <3>2, <3>3
  <2>2. CASE ~StopAgent(r)
    <3>1. /\ \A q \in Callers : q # r => call'[q] = call[q]
          /\ call'[r].at = "none" \/ Continues(r)
      BY <2>2, QuietCalls DEF Inv
    <3> QED
      BY <3>1 DEF Continues
  <2> QED
    BY <2>1, <2>2
<1>4. \A q \in Callers : sound(q)
  BY DEF Inv, Referred
<1> QED
  BY <1>1, <1>2, <1>3, <1>4 DEF Inv, Referred, Busy, Recruitment

-----------------------------------------------------------------------------
(* Activation, inside the lock *)

\* One caller is inside at a time, and nobody is while another has the lock.
LEMMA OneInside ==
  ASSUME Held, NEW r \in Callers, NEW q \in Callers,
         call[r].at \in Inside \/ (At(r, "lock") /\ Head(lock) = r), call[q].at \in Inside
  PROVE  q = r
BY DEF Held

LEMMA ActivationHolds ==
  ASSUME Inv, NEW r \in Callers,
         SetUp(r) \/ StartAgent(r) \/ Launch(r) \/ MarkRunning(r) \/ Select(r)
  PROVE  Held'
<1>1. call \in [Callers -> Calls] /\ Held
  BY DEF Inv, TypeOK, Calls
<1>2. call[r].at \in Inside /\ call'[r].at \in Inside /\ \A q \in Callers : q # r => call'[q] = call[q]
  BY <1>1 DEF SetUp, StartAgent, Launch, MarkRunning, Select, At, Go, Inside, Calls
<1>3. process' # "down"
  BY <1>1, <1>2, BusyIsUp DEF SetUp, StartAgent, Launch, MarkRunning, Select, Busy, Inside
<1>4. lock' = lock
  BY DEF SetUp, StartAgent, Launch, MarkRunning, Select, manager
<1> QED
  BY <1>1, <1>2, <1>3, <1>4 DEF Held, At, Inside

\* Leaving, with or without success: the queue moves up, and nobody is inside.
LEMMA LeavingHolds ==
  ASSUME Inv, NEW r \in Callers, Release(r), process' # "down",
         call[r].at \in Inside \/ (At(r, "lock") /\ Head(lock) = r)
  PROVE  /\ Held' /\ \A q \in Callers : call'[q].at \notin Inside
<1>1. /\ call \in [Callers -> Calls] /\ Held /\ lock \in Seq(Callers)
  BY DEF Inv, TypeOK, Calls
<1>2. /\ call'[r].at = "none" /\ \A q \in Callers : q # r => call'[q] = call[q]
  BY <1>1 DEF Release, NoCall
<1>3. \A q \in Callers : call'[q].at \notin Inside
  BY <1>1, <1>2, OneInside DEF Inside
<1>4. lock # <<>> /\ Head(lock) = r
  BY <1>1 DEF Held, At
<1>5. ASSUME NEW q \in Callers, call'[q].at = "lock"
      PROVE  \E i \in 1..Len(lock') : lock'[i] = q
  <2>1. q # r /\ At(q, "lock")
    BY <1>2, <1>5 DEF At
  <2>2. PICK i \in 1..Len(lock) : lock[i] = q
    BY <1>1, <2>1 DEF Held
  <2>3. i # 1
    BY <1>1, <1>4, <2>1, <2>2
  <2>4. lock' = Tail(lock) /\ i - 1 \in 1..Len(lock') /\ lock'[i - 1] = lock[i]
    BY <1>1, <1>4, <2>3 DEF Release
  <2> QED
    BY <2>2, <2>4
<1> QED
  BY <1>3, <1>5 DEF Held, At

LEMMA ActivationRest ==
  ASSUME Inv, TypeOK', NEW r \in Callers,
         \/ Acquire(r) \/ SetUp(r) \/ StartAgent(r) \/ Launch(r) \/ MarkRunning(r)
         \/ Select(r) \/ View(r) \/ (Fail(r) /\ r # Main)
  PROVE  Held' /\ Kept' /\ Referred'
<1>0. /\ call \in [Callers -> Calls] /\ Held /\ Kept /\ Referred /\ lock \in Seq(Callers)
      /\ engine \in Seq(Made) /\ running \in [Projects -> Engines \cup {None}]
  BY DEF Inv, TypeOK, Calls, Made
<1>1. process # "down" /\ call[r].project \in Projects
  BY <1>0, BusyIsUp DEF Acquire, SetUp, StartAgent, Launch, MarkRunning, Select, View, Fail, At, Busy,
                        Referred
<1>2. \A q \in Callers : q # r => call'[q] = call[q]
  BY <1>0 DEF Acquire, SetUp, StartAgent, Launch, MarkRunning, Select, View, Fail, Release, Go
<1>3. \A q \in Callers : q # r => call[q].at \notin Inside
  BY <1>0, OneInside DEF Acquire, SetUp, StartAgent, Launch, MarkRunning, Select, View, Fail, At, Inside
<1>4. \A q \in Callers : q # r => call'[q].at \notin {"setup", "start"}
  BY <1>2, <1>3 DEF Inside
<1> USE <1>0 DEF At, Busy, Go, manager, store, agents
<1>5. CASE Acquire(r)
  <2>1. CASE Release(r)
    <3>1. Held' /\ \A q \in Callers : call'[q].at \notin Inside
      BY <1>1, <1>5, <2>1, LeavingHolds DEF Acquire
    <3>2. Referred'
      BY <1>2, <1>5, <2>1 DEF Acquire, Referred, Release, NoCall, Recruitment
    <3> QED
      BY <3>1, <3>2 DEF Kept, Inside
  <2>2. CASE ~Release(r)
    <3>1. /\ lock' = lock /\ process' = process /\ running' = running /\ served' = served
          /\ engine' = engine /\ call'[r].at \in {"select", "setup"}
          /\ call'[r].project = call[r].project
          /\ call'[r].at = "setup" => running[call[r].project] = None /\ Room
      BY <1>5, <2>2 DEF Acquire, Calls
    <3>2. lock # <<>> /\ Head(lock) = r
      BY <1>5 DEF Acquire, Held
    <3>3. Held'
      BY <1>1, <1>2, <3>1, <3>2 DEF Held, Inside
    <3>4. Kept'
      BY <1>4, <3>1 DEF Kept, Room, Running
    <3>5. Referred'
      BY <1>1, <1>2, <3>1 DEF Referred, Recruitment
    <3> QED
      BY <3>3, <3>4, <3>5
  <2> QED
    BY <2>1, <2>2
<1>6. CASE SetUp(r)
  <2>1. Held'
    BY <1>6, ActivationHolds
  <2>2. /\ running' = running /\ served' = served /\ Len(engine') = Len(engine) + 1
        /\ Len(engine) < MaxEngines
        /\ call'[r].at = "start" /\ call'[r].project = call[r].project
        /\ call'[r].engine = Len(engine) + 1
    BY <1>6 DEF SetUp, Calls
  <2>3. running[call[r].project] = None /\ Room
    BY <1>6 DEF SetUp, Kept
  <2>4. Kept'
    BY <1>4, <2>2, <2>3 DEF Kept, Room, Running, Referred, None
  <2>5. DOMAIN engine \subseteq DOMAIN engine' /\ Len(engine) + 1 \in DOMAIN engine'
    BY <1>6 DEF SetUp
  <2>6. Len(engine') <= MaxEngines
    BY <2>2, LifecycleAssumption
  <2>7. Referred'
    BY <1>1, <1>2, <2>2, <2>5, <2>6 DEF Referred, Recruitment
  <2> QED
    BY <2>1, <2>4, <2>7
<1>7. CASE StartAgent(r)
  <2>1. Held'
    BY <1>7, ActivationHolds
  <2>2. /\ running' = running /\ served' = served /\ engine' = engine
        /\ call'[r].at = call[r].at /\ call'[r].project = call[r].project
        /\ call'[r].engine = call[r].engine /\ call'[r].name = call[r].name
    BY <1>7 DEF StartAgent, Calls
  <2>3. Kept'
    BY <1>4, <2>2 DEF Kept, Room, Running
  <2>4. Referred'
    BY <1>2, <2>2 DEF Referred, Recruitment
  <2> QED
    BY <2>1, <2>3, <2>4
<1>8. CASE Launch(r)
  <2>1. Held'
    BY <1>8, ActivationHolds
  <2>2. call[r].engine \in DOMAIN engine
    BY <1>8 DEF Launch, Referred
  <2>3. /\ running' = [running EXCEPT ![call[r].project] = call[r].engine] /\ served' = served
        /\ Len(engine') = Len(engine) /\ DOMAIN engine' = DOMAIN engine
        /\ call'[r].at = "mark" /\ call'[r].project = call[r].project
    BY <1>8, <2>2, BrokerTyped DEF Launch, Calls
  <2>4. Kept'
    BY <1>4, <2>3 DEF Kept
  <2>5. Referred'
    BY <1>1, <1>2, <2>2, <2>3 DEF Referred, Recruitment
  <2> QED
    BY <2>1, <2>4, <2>5
<1>9. CASE MarkRunning(r) \/ Select(r)
  <2>1. Held'
    BY <1>9, ActivationHolds
  <2>2. /\ running' = running /\ served' = served /\ engine' = engine
        /\ call'[r].at \in {"select", "view"} /\ call'[r].project = call[r].project
    BY <1>9 DEF MarkRunning, Select, Calls
  <2>3. Kept'
    BY <1>4, <2>2 DEF Kept
  <2>4. Referred'
    BY <1>1, <1>2, <2>2 DEF Referred, Recruitment
  <2> QED
    BY <2>1, <2>3, <2>4
<1>10. CASE View(r) \/ (Fail(r) /\ r # Main)
  <2>1. Release(r) /\ process' # "down"
    BY <1>1, <1>10 DEF View, Fail
  <2>2. Held' /\ \A q \in Callers : call'[q].at \notin Inside
    BY <1>10, <2>1, LeavingHolds DEF View, Fail, Inside
  <2>3. /\ running' = running /\ engine' = engine
        /\ served' \in {served, running[call[r].project]}
    BY <1>10 DEF View, Fail, Applied
  <2>4. call'[r].at = "none"
    BY <2>1 DEF Release, NoCall
  <2>5. Referred'
    BY <1>1, <1>2, <2>3, <2>4 DEF Referred, Recruitment
  <2> QED
    BY <2>2, <2>5 DEF Kept, Inside
<1> QED
  BY <1>5, <1>6, <1>7, <1>8, <1>9, <1>10

-----------------------------------------------------------------------------
(* Requests, recruitment, boot and shutdown *)

\* A call that begins outside the lock.
LEMMA BeginKeeps ==
  ASSUME Inv, TypeOK', process # "down", NEW r \in Callers, NEW p \in Projects,
         NEW s \in {"stop", "clone", "insert", "create", "dismiss"},
         NEW e, NEW n, NEW left, Begin(r, s, p, e, n, left),
         s \in {"stop", "create", "dismiss"} => e \in DOMAIN engine,
         s \in Recruitment => n \in Recruits,
         process' # "down",
         UNCHANGED <<running, served, lock, engine>>
  PROVE  Inv'
<1>1. /\ call \in [Callers -> Calls] /\ Held /\ Kept /\ Referred
      /\ call' = [call EXCEPT ![r] =
                    [at |-> s, project |-> p, engine |-> e, name |-> n, left |-> left]]
  BY DEF Inv, TypeOK, Calls, Begin
<1>2. /\ call'[r].at = s /\ call'[r].project = p /\ call'[r].engine = e /\ call'[r].name = n
      /\ \A q \in Callers : q # r => call'[q] = call[q]
  BY <1>1
<1>3. Held'
  BY <1>1, <1>2 DEF Held, At, Inside
<1>4. Kept'
  BY <1>1, <1>2 DEF Kept, At, Room, Running
<1>5. Referred'
  BY <1>1, <1>2 DEF Referred, Busy, Recruitment
<1> QED
  BY <1>3, <1>4, <1>5 DEF Inv

\* A call that takes its place in the queue.
LEMMA QueueKeeps ==
  ASSUME Inv, TypeOK', process' # "down", NEW r \in Callers,
         call[r].at \notin Inside, lock' = Append(lock, r),
         At(r, "lock")', call'[r].project \in Projects,
         \A q \in Callers : q # r => call'[q] = call[q],
         UNCHANGED <<running, served, engine>>
  PROVE  Inv'
<1>1. Held /\ Kept /\ Referred /\ lock \in Seq(Callers) /\ call \in [Callers -> Calls]
  BY DEF Inv, TypeOK, Calls
<1>2. /\ Len(lock') = Len(lock) + 1 /\ lock'[Len(lock) + 1] = r
      /\ \A i \in 1..Len(lock) : lock'[i] = lock[i]
      /\ lock # <<>> => lock' # <<>> /\ Head(lock') = Head(lock)
  BY <1>1
<1>3. Held'
  <2>1. ASSUME NEW q \in Callers, At(q, "lock")'
        PROVE  \E i \in 1..Len(lock') : lock'[i] = q
    BY <1>1, <1>2, <2>1 DEF Held, At
  <2>2. ASSUME NEW q \in Callers, call'[q].at \in Inside
        PROVE  lock' # <<>> /\ Head(lock') = q
    BY <1>1, <1>2, <2>2 DEF Held, At, Inside
  <2> QED
    BY <2>1, <2>2 DEF Held
<1>4. Kept'
  BY <1>1 DEF Kept, At, Room, Running
<1>5. Referred'
  BY <1>1 DEF Referred, Busy, At, Recruitment
<1> QED
  BY <1>3, <1>4, <1>5 DEF Inv

LEMMA RequestKeeps ==
  ASSUME Inv, NEW r \in Requests,
         \/ \E p \in Projects : Activate(r, p) \/ Stop(r, p)
         \/ Create(r)
         \/ \E n \in Recruits : AddAgent(r, n) \/ RemoveAgent(r, n)
  PROVE  Inv'
<1>0. /\ r \in Callers /\ TypeOK' /\ engine \in Seq(Made) /\ Referred
      /\ call \in [Callers -> Calls] /\ running \in [Projects -> Engines \cup {None}]
  BY RequestTypes DEF Callers, Inv, TypeOK, Made, Calls
<1>1. process = "up" /\ ~Busy(r) /\ process' = "up"
  BY DEF Activate, Stop, Create, AddAgent, RemoveAgent, Request
<1>2. ASSUME NEW p \in Projects, Activate(r, p) PROVE Inv'
  <2>1. At(r, "lock")' /\ call'[r].project = p /\ \A q \in Callers : q # r => call'[q] = call[q]
    BY <1>0, <1>2 DEF Activate, Begin, At
  <2> QED
    BY <1>0, <1>1, <1>2, <2>1, QueueKeeps DEF Activate, Busy, Inside, agents
<1>3. ASSUME NEW p \in Projects, Stop(r, p) PROVE Inv'
  <2>1. running[p] \in DOMAIN engine
    BY <1>0, <1>3 DEF Stop, Referred
  <2> QED
    BY <1>0, <1>1, <1>3, <2>1, BeginKeeps DEF Stop, manager, agents, Recruitment
<1>4. CASE Create(r)
  <2>1. PICK q \in Projects, stage \in {"clone", "insert"} : StartCreation(r, stage, q)
    BY <1>4 DEF Create
  <2> QED
    BY <1>0, <1>1, <1>4, <2>1, BeginKeeps DEF Create, StartCreation, manager, agents, Recruitment
<1>5. ASSUME NEW n \in Recruits, AddAgent(r, n) PROVE Inv'
  <2>1. served \in DOMAIN engine /\ engine[served] \in Made
    BY <1>0, <1>5 DEF AddAgent, Referred
  <2>2. engine[served].project \in Projects
    BY <2>1 DEF Made
  <2> QED
    BY <1>0, <1>1, <1>5, <2>1, <2>2, BeginKeeps DEF AddAgent, StartHiring, manager, agents
<1>6. ASSUME NEW n \in Recruits, RemoveAgent(r, n) PROVE Inv'
  <2>1. served \in DOMAIN engine /\ engine[served] \in Made
    BY <1>0, <1>6 DEF RemoveAgent, Referred
  <2>2. engine[served].project \in Projects
    BY <2>1 DEF Made
  <2> QED
    BY <1>0, <1>1, <1>6, <2>1, <2>2, BeginKeeps DEF RemoveAgent, manager, agents, Recruitment
<1> QED
  BY <1>2, <1>3, <1>4, <1>5, <1>6

LEMMA RecruitKeeps ==
  ASSUME Inv, NEW e \in DOMAIN engine, NEW n \in Recruits, Recruit(e, n)
  PROVE  Inv'
<1>1. TypeOK' /\ engine \in Seq(Made) /\ Hirer \in Callers
  BY RecruitTypes DEF Inv, TypeOK, Made, Callers
<1>2. process # "down" /\ process' = process
  BY <1>1 DEF Inv, Held, Recruit
<1>3. engine[e] \in Made
  BY <1>1
<1>4. engine[e].project \in Projects
  BY <1>3 DEF Made
<1> QED
  BY <1>1, <1>2, <1>4, BeginKeeps DEF Recruit, StartHiring, manager, agents

LEMMA ProcessKeeps ==
  ASSUME Inv, Boot \/ Shutdown \/ StopNext
  PROVE  Inv'
<1>0. TypeOK' /\ Main \in Callers /\ Held /\ Referred /\ Kept
  BY ProcessTypes DEF Inv, Callers
<1>1. CASE Boot
  <2>1. call = Idle /\ lock = <<>>
    BY <1>0, <1>1 DEF Boot, Held
  <2>2. PICK s \in {"lock", "insert"}, p \in Projects :
          /\ Begin(Main, s, p, None, None, {})
          /\ lock' = IF s = "lock" THEN <<Main>> ELSE <<>>
    BY <1>0, <1>1, <2>1 DEF Boot, StartCreation, TypeOK
  <2>3. /\ call'[Main].at = s /\ call'[Main].project = p
        /\ \A q \in Callers : q # Main => call'[q].at = "none"
    BY <1>0, <2>1, <2>2 DEF Begin, Idle, NoCall
  <2>4. UNCHANGED <<running, served, engine>> /\ process' = "boot"
    BY <1>1 DEF Boot, agents
  <2>5. Held'
    BY <2>2, <2>3, <2>4 DEF Held, At, Inside
  <2>6. Kept'
    BY <2>3 DEF Kept
  <2>7. Referred'
    BY <1>0, <2>3, <2>4 DEF Referred, Busy, Recruitment
  <2> QED
    BY <1>0, <2>5, <2>6, <2>7 DEF Inv
<1>2. CASE Shutdown
  <2>1. UNCHANGED <<running, served, lock, engine, call>> /\ process' # "down"
    BY <1>2 DEF Shutdown, manager, agents
  <2> QED
    BY <1>0, <2>1 DEF Inv, Held, Referred, Kept, Room, Running, At, Busy
<1>3. CASE StopNext
  <2>1. PICK p \in Running : Begin(Main, "stop", p, running[p], None, Staff(running[p]))
    BY <1>3 DEF StopNext
  <2>2. p \in Projects /\ running[p] \in DOMAIN engine
    BY <1>0 DEF Running, Referred
  <2>3. process = "closing" /\ UNCHANGED <<running, served, lock, engine, process>>
    BY <1>3 DEF StopNext, manager, agents
  <2> QED
    BY <1>0, <2>1, <2>2, <2>3, BeginKeeps DEF Recruitment
<1> QED
  BY <1>1, <1>2, <1>3

LEMMA StepKeeps ==
  ASSUME Inv, NEW r \in Callers, Step(r)
  PROVE  Inv'
<1>0. TypeOK /\ Held /\ Referred /\ Kept
  BY DEF Inv
<1>1. CASE \/ Acquire(r) \/ SetUp(r) \/ StartAgent(r) \/ Launch(r) \/ MarkRunning(r)
           \/ Select(r) \/ View(r)
  <2>1. TypeOK'
    BY <1>1, ActivationTypes
  <2> QED
    BY <1>1, <2>1, ActivationRest DEF Inv
<1>2. CASE Fail(r)
  <2>1. CASE r = Main
    BY <1>2, <2>1, EndsAreFresh
  <2>2. CASE r # Main
    <3>1. TypeOK'
      BY <1>2, <2>2, FailTypes
    <3> QED
      BY <1>2, <2>2, <3>1, ActivationRest DEF Inv
  <2> QED
    BY <2>1, <2>2
<1>3. CASE List(r) /\ r = Main
  <2>1. TypeOK' /\ call \in [Callers -> Calls]
    BY <1>0, <1>3, CreationTypes DEF TypeOK, Calls
  <2>2. /\ process # "down" /\ process' = process /\ call[r].project \in Projects
        /\ call[r].at \notin Inside
    BY <1>0, <1>3, BusyIsUp DEF List, Busy, At, Referred, Inside
  <2>3. /\ lock' = Append(lock, r) /\ UNCHANGED <<running, served, engine>>
        /\ At(r, "lock")' /\ call'[r].project = call[r].project
        /\ \A q \in Callers : q # r => call'[q] = call[q]
    BY <1>3, <2>1 DEF List, Go, At, agents, Calls
  <2> QED
    BY <2>1, <2>2, <2>3, QueueKeeps
<1>4. CASE \/ StopAgent(r) \/ RemoveEntry(r) \/ UnmarkRunning(r) \/ Unview(r)
           \/ Clone(r) \/ Insert(r) \/ (List(r) /\ r # Main)
           \/ Register(r) \/ LaunchRecruit(r) \/ Persist(r) \/ Dismiss(r) \/ Forget(r)
  <2>1. TypeOK'
    BY <1>4, StopTypes, CreationTypes, TeamTypes
  <2>2. Quiet(r)
    BY <1>0, <1>4, QuietSteps
  <2>3. Held' /\ Kept'
    BY <1>0, <2>2, QuietHolds, QuietKeeps
  <2>4. Referred'
    BY <1>4, <2>1, QuietRefers
  <2> QED
    BY <2>1, <2>3, <2>4 DEF Inv
<1> QED
  BY <1>1, <1>2, <1>3, <1>4 DEF Step

-----------------------------------------------------------------------------
(* Theorems *)

LEMMA InvHolds == Spec => []Inv
<1>1. Init => Inv
  <2> SUFFICES ASSUME Init PROVE Inv
    OBVIOUS
  <2>1. call \in [Callers -> Calls] /\ \A r \in Callers : call[r].at = "none"
    BY NoCallTyped DEF Init, Idle, NoCall
  <2>2. running \in [Projects -> Engines \cup {None}] /\ lock \in Seq(Callers) /\ engine \in Seq(Made)
    BY DEF Init
  <2>3. /\ rows \subseteq Projects /\ dirs \subseteq Projects /\ active \subseteq Projects
        /\ marked \subseteq Projects
    <3>1. 1..Existing \subseteq Projects
      BY LifecycleAssumption DEF Projects
    <3> QED
      BY <3>1 DEF Init
  <2>4. TypeOK
    <3>1. events \in 0..MaxEvents /\ hires \in 0..MaxHires
      BY LifecycleAssumption DEF Init
    <3>2. custom \subseteq Projects \X Recruits /\ loops \subseteq Loops /\ cached \subseteq Projects
      BY DEF Init
    <3>3. /\ activeId = None /\ viewed = None /\ served = None /\ process = "down"
          /\ crossed \in BOOLEAN /\ joined \in BOOLEAN
      BY DEF Init
    <3> QED
      BY <2>1, <2>2, <2>3, <3>1, <3>2, <3>3 DEF TypeOK, Calls, Made
  <2>5. Referred /\ Held /\ Kept
    BY <2>1, LifecycleAssumption DEF Init, Referred, Held, Kept, Busy, At, Inside, Recruitment
  <2> QED
    BY <2>4, <2>5 DEF Inv
<1>2. Inv /\ [Next]_vars => Inv'
  <2> SUFFICES ASSUME Inv, [Next]_vars PROVE Inv'
    OBVIOUS
  <2>1. CASE Boot \/ Shutdown \/ StopNext
    BY <2>1, ProcessKeeps
  <2>2. CASE Exit \/ Crash
    BY <2>2, EndsAreFresh
  <2>3. ASSUME NEW r \in Callers, Step(r) PROVE Inv'
    BY <2>3, StepKeeps
  <2>4. ASSUME NEW r \in Requests,
               \/ \E p \in Projects : Activate(r, p) \/ Stop(r, p)
               \/ Create(r)
               \/ \E n \in Recruits : AddAgent(r, n) \/ RemoveAgent(r, n)
        PROVE  Inv'
    BY <2>4, RequestKeeps
  <2>5. ASSUME NEW e \in DOMAIN engine, NEW n \in Recruits, Recruit(e, n) PROVE Inv'
    BY <2>5, RecruitKeeps
  <2>6. CASE UNCHANGED vars
    <3>1. UNCHANGED <<rows, active, marked, custom, dirs, cached, activeId, running, viewed, served,
                      lock, engine, loops, call, process, events, hires, crossed, joined>>
      BY <2>6 DEF vars, database, store, manager, agents, bounds, history
    <3>2. TypeOK'
      BY <3>1 DEF Inv, TypeOK
    <3>3. Referred' /\ Held' /\ Kept'
      BY <3>1 DEF Inv, Referred, Held, Kept, Busy, At, Room, Running
    <3> QED
      BY <3>2, <3>3 DEF Inv
  <2> QED
    BY <2>1, <2>2, <2>3, <2>4, <2>5, <2>6 DEF Next
<1> QED
  BY <1>1, <1>2, PTL DEF Spec

\* Every variable keeps to its type.
THEOREM TypeCorrect == Spec => []TypeOK
<1>1. Inv => TypeOK
  BY DEF Inv
<1> QED
  BY <1>1, InvHolds, PTL

\* What a step of the program does to the running projects is a step of what is
\* promised of them, or none.
LEMMA StepIsPromised ==
  ASSUME Inv, [Next]_vars
  PROVE  [Promise!Next]_running
<1>0. /\ TypeOK /\ Referred /\ Held /\ Kept
      /\ running \in [Projects -> Engines \cup {None}] /\ call \in [Callers -> Calls]
  BY DEF Inv, TypeOK, Calls
<1> USE <1>0 DEF Promise!Next
<1>1. ASSUME NEW r \in Callers, Launch(r)
      PROVE  \E p \in Projects, e \in Engines : Promise!Start(p, e)
  <2> DEFINE p == call[r].project
             e == call[r].engine
  <2>1. p \in Projects /\ e \in DOMAIN engine /\ e \in Engines \cup {None}
    BY <1>1 DEF Launch, Referred, At, Busy, Calls
  <2>2. e \in Engines
    <3>1. engine \in Seq(Made)
      BY DEF TypeOK, Made
    <3> QED
      BY <2>1, <3>1 DEF None
  <2>3. running[p] = None /\ Room /\ \A q \in Projects : running[q] # e
    BY <1>1 DEF Launch, Kept, At
  <2>4. running' = [running EXCEPT ![p] = e]
    BY <1>1 DEF Launch
  <2>5. Promise!Start(p, e)
    <3>1. Promise!Up = Running
      BY DEF Promise!Up, Running
    <3>2. p \notin Promise!Up /\ Cardinality(Promise!Up) < MaxRunning
      BY <2>3, <3>1 DEF Room, Running
    <3>4. Promise!Cardinality(Promise!Up) = Cardinality(Promise!Up)
      BY DEF Promise!Cardinality, Cardinality
    <3>3. \A q \in Promise!Up : running[q] # e
      BY <2>3, <3>1 DEF Running
    <3> QED
      BY <2>4, <3>2, <3>3, <3>4 DEF Promise!Start
  <2> QED
    BY <2>1, <2>2, <2>5
<1>2. ASSUME NEW r \in Callers, RemoveEntry(r)
      PROVE  running' = running \/ \E p \in Projects : Promise!Stop(p)
  <2>1. call[r].project \in Projects /\ running' = [running EXCEPT ![call[r].project] = None]
    BY <1>2 DEF RemoveEntry, Referred, At, Busy
  <2> QED
    BY <2>1 DEF Promise!Stop, Promise!Up
<1>3. Dead => Promise!Down
  BY DEF Dead, Promise!Down
<1>4. CASE Exit \/ Crash \/ \E r \in Callers : Fail(r) /\ r = Main
  BY <1>3, <1>4 DEF Exit, Crash, Fail
<1>5. CASE Boot \/ Shutdown \/ StopNext \/ UNCHANGED vars
  BY <1>5 DEF Boot, Shutdown, StopNext, vars, manager
<1>6. ASSUME NEW r \in Callers, Step(r), ~Launch(r), ~RemoveEntry(r), ~(Fail(r) /\ r = Main)
      PROVE  running' = running
  BY <1>6 DEF Step, Acquire, SetUp, StartAgent, MarkRunning, Select, View, Fail, StopAgent,
     UnmarkRunning, Unview, Clone, Insert, List, Register, LaunchRecruit, Persist, Dismiss, Forget,
     manager
<1>7. ASSUME NEW r \in Requests,
             \/ \E p \in Projects : Activate(r, p) \/ Stop(r, p)
             \/ Create(r)
             \/ \E n \in Recruits : AddAgent(r, n) \/ RemoveAgent(r, n)
      PROVE  running' = running
  BY <1>7 DEF Activate, Stop, Create, AddAgent, RemoveAgent, manager
<1>8. ASSUME NEW e \in DOMAIN engine, NEW n \in Recruits, Recruit(e, n)
      PROVE  running' = running
  BY <1>8 DEF Recruit, manager
<1>9. ASSUME NEW r \in Callers, Step(r)
      PROVE  [Promise!Next]_running
  BY <1>1, <1>2, <1>4, <1>6, <1>9
<1> QED
  BY <1>4, <1>5, <1>7, <1>8, <1>9 DEF Next

\* The lifecycle manager keeps its promise: whatever requests, recruitments,
\* failures, stops without the lock and crashes come in between, a project
\* becomes running only where there is room, by an engine that no other has.
THEOREM PromiseIsKept == Spec => KeepsPromise
<1>1. Init => Promise!Init
  BY DEF Init, Promise!Init
<1> QED
  BY <1>1, InvHolds, StepIsPromised, PTL DEF Spec, KeepsPromise, Promise!Spec

-----------------------------------------------------------------------------
(* One message loop for each agent *)

\* The stages at which a call has an engine.
Handling == {"start", "stop", "create", "launch", "dismiss"}

\* An engine is its project's, whoever refers to it. One that is being set up is
\* not yet shown, so that no agent is removed from it. Agents at work only recruit.
Ours ==
  /\ \A p \in Projects : running[p] # None => engine[running[p]].project = p
  /\ \A r \in Callers : call[r].at \in Handling =>
       call[r].engine \in DOMAIN engine /\ engine[call[r].engine].project = call[r].project
  /\ \A r \in Callers : At(r, "start") =>
       /\ call[r].engine # served
       /\ \A q \in Callers : At(q, "dismiss") => call[q].engine # call[r].engine
  /\ call[Hirer].at \in {"none"} \cup Recruitment

\* As long as nothing crossed: a project that is being stopped has no other call
\* to its agents, and an agent has one call at a time.
Apart ==
  ~crossed => \A r, q \in Callers :
    r # q /\ Busy(r) /\ Busy(q) /\ call[r].project = call[q].project =>
      /\ call[r].at \in Stopping => call[q].at \notin Stopping \cup Recruitment \cup Removal
      /\ call[r].name # None => call[q].name # call[r].name

\* A message loop is that of the agent registered under its name, in an engine
\* that has not been stopped.
Sound(o) ==
  /\ o[1] \in DOMAIN engine /\ Live(o[1])
  /\ engine[o[1]].staff[o[2]] = o[3]

\* What the stages rely on: a set-up starts the agents it registered, a stop has
\* every loop of its engine still before it, and an agent that joins is not there
\* until it is registered.
Does(r) ==
  LET e == call[r].engine
      n == call[r].name
  IN
    /\ At(r, "start") => \A o \in call[r].left : o[1] = e /\ engine[e].staff[o[2]] = o[3]
    /\ At(r, "stop") => /\ running[call[r].project] = e
                        /\ \A o \in loops : o[1] = e => o \in call[r].left
    /\ At(r, "create") => Live(e) /\ engine[e].staff[n] = 0
    /\ At(r, "launch") => Live(e) /\ engine[e].staff[n] = 1 /\ call[r].left = {<<e, n, 1>>}
    /\ At(r, "dismiss") => n \in Recruits /\ call[r].left = {<<e, n, engine[e].staff[n]>>}

Single == ~crossed => (\A o \in loops : Sound(o)) /\ (\A r \in Callers : Does(r))

Registered == Ours /\ Apart /\ Single

\* An engine stays live whose entry and whose set-up stay.
LEMMA LiveKept ==
  ASSUME NEW e, Live(e), engine'[e].project = engine[e].project,
         running'[engine[e].project] = running[engine[e].project],
         \A q \in Callers : At(q, "start") /\ call[q].engine = e =>
           call'[q].at = "start" /\ call'[q].engine = e
  PROVE  Live(e)'
BY DEF Live, At

\* The calls go on, or end: none is to another project, or of another kind.
LEMMA ApartContinues ==
  ASSUME Apart, crossed => crossed',
         \A q \in Callers : Busy(q)' =>
           /\ Busy(q) /\ call'[q].project = call[q].project /\ call'[q].name = call[q].name
           /\ call'[q].at \in Stopping => call[q].at \in Stopping
           /\ call'[q].at \in Recruitment \cup Removal => call[q].at \in Recruitment \cup Removal
  PROVE  Apart'
BY DEF Apart

\* A call begins that crosses none.
LEMMA ApartBegins ==
  ASSUME Inv, Apart, NEW r \in Callers, ~Busy(r),
         NEW s \in {"lock", "stop", "clone", "insert", "create", "dismiss"},
         NEW p, NEW e, NEW n, NEW left, Begin(r, s, p, e, n, left),
         s \in {"create", "dismiss"} => n # None
  PROVE  Apart'
<1> SUFFICES ASSUME ~crossed', NEW a \in Callers, NEW b \in Callers,
                    a # b, Busy(a)', Busy(b)', call'[a].project = call'[b].project
             PROVE  /\ call'[a].at \in Stopping =>
                         call'[b].at \notin Stopping \cup Recruitment \cup Removal
                    /\ call'[a].name # None => call'[b].name # call'[a].name
  BY DEF Apart
<1>1. /\ ~crossed /\ ~Crosses(s, p, e, n) /\ call \in [Callers -> Calls]
      /\ call' = [call EXCEPT ![r] =
                    [at |-> s, project |-> p, engine |-> e, name |-> n, left |-> left]]
  BY DEF Begin, Inv, TypeOK, Calls
<1>2. /\ call'[r].at = s /\ call'[r].project = p /\ call'[r].name = n
      /\ \A q \in Callers : q # r => call'[q] = call[q]
  BY <1>1
<1>3. /\ s \in Stopping => s = "stop"
      /\ s \in Stopping \cup Recruitment \cup Removal => s \in {"stop", "create", "dismiss"}
  BY DEF Stopping, Recruitment, Removal
<1>4. CASE a # r /\ b # r
  BY <1>1, <1>2, <1>4 DEF Apart, Busy
<1>5. CASE a = r
  <2>1. b \in Others(p)
    BY <1>2, <1>5 DEF Others, Busy
  <2> QED
    BY <1>1, <1>2, <1>3, <1>5, <2>1 DEF Crosses
<1>6. CASE b = r
  <2>1. a \in Others(p)
    BY <1>2, <1>6 DEF Others, Busy
  <2> QED
    BY <1>1, <1>2, <1>3, <1>6, <2>1 DEF Crosses
<1> QED
  BY <1>4, <1>5, <1>6

\* A step of a call that has no engine, to where it has none.
LEMMA DistantKeeps ==
  ASSUME Inv, Inv', Ours, Single, NEW r \in Callers, crossed => crossed',
         UNCHANGED <<running, engine, loops>>,
         \A q \in Callers : q # r => call'[q] = call[q],
         call[r].at \notin Handling, call'[r].at \notin Handling,
         \A q \in Callers : At(q, "start") => call[q].engine # served',
         r = Hirer => call'[r].at \in {"none"} \cup Recruitment
  PROVE  Ours' /\ Single'
<1>1. /\ call[r].at \notin {"start", "stop", "create", "launch", "dismiss"}
      /\ call'[r].at \notin {"start", "stop", "create", "launch", "dismiss"}
  BY DEF Handling
<1>2. Ours'
  <2>1. \A q \in Callers : call'[q].at \in Handling => call'[q] = call[q]
    OBVIOUS
  <2>2. \A q \in Callers : call'[q].at \in Handling =>
          call'[q].engine \in DOMAIN engine' /\ engine'[call'[q].engine].project = call'[q].project
    BY <2>1 DEF Ours
  <2>3. \A q \in Callers : At(q, "start")' =>
          /\ call'[q].engine # served'
          /\ \A u \in Callers : At(u, "dismiss")' => call'[u].engine # call'[q].engine
    BY <2>1 DEF Ours, At, Handling
  <2>4. call'[Hirer].at \in {"none"} \cup Recruitment
    BY DEF Ours, Callers
  <2> QED
    BY <2>2, <2>3, <2>4 DEF Ours
<1>3. \A e : Live(e) => Live(e)'
  BY <1>1 DEF Live, At
<1>4. ASSUME ~crossed, NEW o \in loops, Sound(o) PROVE Sound(o)'
  BY <1>3, <1>4 DEF Sound
<1>5. ASSUME NEW q \in Callers, Does(q) PROVE Does(q)'
  <2>1. CASE q = r
    BY <1>1, <2>1 DEF Does, At
  <2>2. CASE q # r
    <3>1. call'[q] = call[q]
      BY <2>2
    <3> QED
      BY <1>3, <1>5, <3>1 DEF Does, At
  <2> QED
    BY <2>1, <2>2
<1> QED
  BY <1>2, <1>4, <1>5 DEF Single

\* The loops and the calls of others, where r makes, starts or enters an engine.
LEMMA ActivationRegisters ==
  ASSUME Inv, Inv', Ours, Single, NEW r \in Callers, SetUp(r) \/ StartAgent(r) \/ Launch(r)
  PROVE  Ours' /\ Single'
<1>0. /\ TypeOK /\ Referred /\ Held /\ Kept /\ call \in [Callers -> Calls] /\ engine \in Seq(Made)
      /\ running \in [Projects -> Engines \cup {None}] /\ served \in Engines \cup {None}
      /\ loops \subseteq Loops /\ r \in Callers /\ Hirer \in Callers
  BY DEF Inv, TypeOK, Calls, Made, Callers
<1>1. /\ \A q \in Callers : q # r => call'[q] = call[q] /\ call[q].at \notin {"setup", "start"}
      /\ call[r].project \in Projects /\ crossed' = crossed /\ served' = served /\ r # Hirer
  <2>1. \A q \in Callers : q # r => call[q].at \notin {"setup", "start"}
    BY <1>0, OneInside DEF SetUp, StartAgent, Launch, At, Inside
  <2>2. call[r].at # "none" /\ call[r].at \notin Recruitment
    BY DEF SetUp, StartAgent, Launch, At, Recruitment
  <2> QED
    BY <1>0, <2>1, <2>2 DEF SetUp, StartAgent, Launch, At, Ours, Referred, Busy, Go, manager, history
<1> DEFINE p == call[r].project
<1>2. CASE SetUp(r)
  <2> DEFINE e == Len(engine) + 1
             x == [project |-> p, broker |-> FALSE,
                   staff |-> [n \in Names |-> IF n \in Hired(p) THEN 1 ELSE 0]]
             left == {<<e, n, 1>> : n \in Hired(p)}
  <2>1. /\ engine' = Append(engine, x) /\ loops' = loops /\ running' = running
        /\ call'[r].at = "start" /\ call'[r].project = p /\ call'[r].engine = e
        /\ call'[r].left = left /\ At(r, "setup")
    BY <1>0, <1>2 DEF SetUp, manager, Calls
  <2>2. /\ \A d \in DOMAIN engine : d \in DOMAIN engine' /\ engine'[d] = engine[d] /\ d # e
        /\ e \in DOMAIN engine' /\ engine'[e] = x /\ e # None
    BY <1>0, <2>1 DEF None
  <2> HIDE DEF e, x
  <2>3. Ours'
    <3>1. \A q \in Projects : running'[q] # None => engine'[running'[q]].project = q
      BY <1>0, <2>1, <2>2 DEF Ours, Referred
    <3>2. \A q \in Callers : call'[q].at \in Handling =>
            call'[q].engine \in DOMAIN engine' /\ engine'[call'[q].engine].project = call'[q].project
      BY <1>1, <2>1, <2>2 DEF Ours, x
    <3>3. \A q \in Callers : At(q, "start")' =>
            /\ call'[q].engine # served'
            /\ \A u \in Callers : At(u, "dismiss")' => call'[u].engine # call'[q].engine
      BY <1>0, <1>1, <2>1, <2>2 DEF Ours, At, Handling, Referred
    <3> QED
      BY <1>0, <1>1, <3>1, <3>2, <3>3 DEF Ours
  <2>4. \A d \in DOMAIN engine : Live(d) => Live(d)'
    BY <1>0, <1>1, <2>1, <2>2, LiveKept DEF At
  <2>5. ASSUME NEW o \in loops, Sound(o) PROVE Sound(o)'
    BY <2>1, <2>2, <2>4, <2>5 DEF Sound
  <2>6. ASSUME NEW q \in Callers, q # r, Does(q) PROVE Does(q)'
    <3>1. call[q].at \in Handling => call[q].engine \in DOMAIN engine
      BY DEF Ours
    <3> QED
      BY <1>1, <2>1, <2>2, <2>4, <2>6, <3>1 DEF Does, At, Handling
  <2>7. Does(r)'
    <3>1. \A n \in Hired(p) : x.staff[n] = 1
      BY DEF x, Hired, Names
    <3>2. \A o \in left : o[1] = e /\ engine'[e].staff[o[2]] = o[3]
      BY <2>2, <3>1
    <3> QED
      BY <2>1, <3>2 DEF Does, At
  <2> QED
    BY <1>1, <2>1, <2>3, <2>5, <2>6, <2>7 DEF Single
<1>3. CASE StartAgent(r)
  <2> DEFINE e == call[r].engine
  <2>1. PICK o \in call[r].left : /\ loops' = loops \cup {o}
                                  /\ call' = [call EXCEPT ![r].left = @ \ {o}]
    BY <1>3 DEF StartAgent
  <2>2. /\ call'[r].at = "start" /\ call'[r].project = p /\ call'[r].engine = e
        /\ call'[r].left \subseteq call[r].left
        /\ engine' = engine /\ running' = running /\ At(r, "start") /\ e \in DOMAIN engine
    BY <1>0, <1>3, <2>1 DEF StartAgent, manager, Calls, Referred, At
  <2>3. Ours'
    BY <1>0, <1>1, <2>2 DEF Ours, At, Handling
  <2>4. \A d : Live(d) => Live(d)'
    BY <1>1, <2>2 DEF Live, At
  <2> SUFFICES ASSUME ~crossed PROVE (\A u \in loops' : Sound(u)') /\ (\A q \in Callers : Does(q)')
    BY <1>1, <2>3 DEF Single
  <2>5. o[1] = e /\ engine[e].staff[o[2]] = o[3]
    BY <2>1, <2>2 DEF Single, Does
  <2>6. Sound(o)'
    BY <2>2, <2>4, <2>5 DEF Sound, Live
  <2>7. ASSUME NEW u \in loops PROVE Sound(u)'
    BY <2>2, <2>4 DEF Sound, Single
  <2>8. ASSUME NEW q \in Callers, q # r, At(q, "stop") PROVE call[q].engine # e
    <3>1. running[call[q].project] = call[q].engine /\ call[q].project \in Projects
      BY <1>0, <2>8 DEF Single, Does, Referred, Busy, At
    <3> QED
      BY <1>0, <2>2, <3>1 DEF Kept, At
  <2>9. ASSUME NEW q \in Callers, q # r PROVE Does(q)'
    BY <1>1, <2>1, <2>2, <2>4, <2>5, <2>8, <2>9 DEF Does, At, Single
  <2>10. Does(r)'
    BY <2>2 DEF Does, At, Single
  <2> QED
    BY <2>1, <2>6, <2>7, <2>9, <2>10
<1>4. CASE Launch(r)
  <2> DEFINE e == call[r].engine
  <2>1. /\ running' = [running EXCEPT ![p] = e] /\ loops' = loops /\ call'[r].at = "mark"
        /\ At(r, "start") /\ e \in DOMAIN engine /\ engine[e].project = p
        /\ running[p] = None
    BY <1>0, <1>4 DEF Launch, Go, Calls, Kept, At, Ours, Handling
  <2>2. /\ DOMAIN engine' = DOMAIN engine
        /\ \A d \in DOMAIN engine : /\ engine'[d].project = engine[d].project
                                    /\ engine'[d].staff = engine[d].staff
    BY <1>0, <1>4 DEF Launch, Made
  <2>3. \A d \in DOMAIN engine : d # None /\ engine[d].project \in Projects
    <3>1. \A d \in DOMAIN engine : d \in Nat \ {0} /\ engine[d] \in Made
      BY <1>0
    <3> QED
      BY <3>1 DEF Made, None
  <2>4. Ours'
    <3>1. \A q \in Projects : running'[q] # None => engine'[running'[q]].project = q
      BY <1>0, <1>1, <2>1, <2>2 DEF Ours, Referred
    <3>2. \A q \in Callers : call'[q].at \in Handling => q # r /\ call'[q] = call[q]
      BY <1>1, <2>1 DEF Handling
    <3>3. \A q \in Callers : call'[q].at \in Handling =>
            call'[q].engine \in DOMAIN engine' /\ engine'[call'[q].engine].project = call'[q].project
      BY <2>2, <3>2 DEF Ours
    <3>4. \A q \in Callers : call'[q].at # "start"
      BY <1>1, <2>1
    <3> QED
      BY <1>0, <1>1, <3>1, <3>3, <3>4 DEF Ours, At
  <2>5. ASSUME NEW d \in DOMAIN engine, Live(d) PROVE Live(d)'
    <3>1. CASE running[engine[d].project] = d
      BY <1>0, <2>1, <2>2, <2>3, <3>1 DEF Live
    <3>2. CASE d = e
      BY <1>0, <1>1, <2>1, <2>2, <3>2 DEF Live
    <3> QED
      BY <1>1, <2>5, <3>1, <3>2 DEF Live, At
  <2>6. ASSUME NEW o \in loops, Sound(o) PROVE Sound(o)'
    BY <2>1, <2>2, <2>5, <2>6 DEF Sound
  <2>7. ASSUME NEW q \in Callers, q # r, Does(q) PROVE Does(q)'
    <3>1. call[q].at \in Handling => call[q].engine \in DOMAIN engine
      BY DEF Ours
    <3>2. At(q, "stop") => call[q].project \in Projects /\ running'[call[q].project] = call[q].engine
      BY <1>0, <1>1, <2>1, <2>3, <2>7, <3>1 DEF Referred, Busy, At, Does, Handling
    <3>3. call'[q] = call[q] /\ call[q].at # "start"
      BY <1>1, <2>7
    <3> QED
      BY <2>1, <2>2, <2>5, <2>7, <3>1, <3>2, <3>3 DEF Does, At, Handling
  <2>8. Does(r)'
    BY <2>1 DEF Does, At
  <2> QED
    BY <1>1, <2>1, <2>4, <2>6, <2>7, <2>8 DEF Single
<1> QED
  BY <1>2, <1>3, <1>4

\* A stop: its engine has no loop any more when its entry goes.
LEMMA StopRegisters ==
  ASSUME Inv, Inv', Ours, Apart, Single, NEW r \in Callers, StopAgent(r) \/ RemoveEntry(r)
  PROVE  Ours' /\ Apart' /\ Single'
<1>0. /\ TypeOK /\ Referred /\ call \in [Callers -> Calls] /\ engine \in Seq(Made)
      /\ running \in [Projects -> Engines \cup {None}] /\ loops \subseteq Loops /\ Hirer \in Callers
  BY DEF Inv, TypeOK, Calls, Made, Callers
<1>1. /\ crossed' = crossed /\ served' = served /\ At(r, "stop") /\ call[r].project \in Projects
      /\ r # Hirer /\ call[r].engine \in DOMAIN engine /\ engine[call[r].engine].project = call[r].project
  BY <1>0 DEF StopAgent, RemoveEntry, At, Ours, Recruitment, Handling, Referred, Busy, manager, history
<1> DEFINE p == call[r].project
           e == call[r].engine
<1>2. CASE StopAgent(r)
  <2> DEFINE c(o) == [call EXCEPT ![r].left = @ \ {o}]
  <2>1. PICK o \in call[r].left : /\ loops' = loops \ {o}
                                  /\ call' \in {c(o), [c(o) EXCEPT ![Hirer] = NoCall]}
    BY <1>2 DEF StopAgent
  <2>2. /\ c(o)[r].at = "stop" /\ c(o)[r].project = p /\ c(o)[r].engine = e
        /\ c(o)[r].name = call[r].name /\ c(o)[r].left = call[r].left \ {o}
        /\ \A q \in Callers : q # r => c(o)[q] = call[q]
        /\ c(o) \in [Callers -> Calls]
    BY <1>0, <1>1 DEF Calls, At
  <2> HIDE DEF c
  <2>3. /\ call'[r].at = "stop" /\ call'[r].project = p /\ call'[r].engine = e
        /\ call'[r].name = call[r].name /\ call'[r].left = call[r].left \ {o}
        /\ \A q \in Callers : q # r => \/ call'[q] = call[q]
                                       \/ q = Hirer /\ call'[q].at = "none"
    BY <1>1, <2>1, <2>2 DEF NoCall
  <2>4. engine' = engine /\ running' = running
    BY <1>2 DEF StopAgent, manager
  <2>5. Ours'
    <3>1. \A q \in Callers : call'[q].at \in Handling =>
            call'[q].engine \in DOMAIN engine' /\ engine'[call'[q].engine].project = call'[q].project
      BY <1>1, <2>3, <2>4 DEF Ours, Handling
    <3>2. \A q \in Callers : call'[q].at \in {"start", "dismiss"} => call'[q] = call[q]
      BY <2>3
    <3>3. \A q \in Callers : At(q, "start")' =>
            /\ call'[q].engine # served'
            /\ \A u \in Callers : At(u, "dismiss")' => call'[u].engine # call'[q].engine
      BY <1>1, <3>2 DEF Ours, At
    <3> QED
      BY <1>0, <1>1, <2>3, <2>4, <3>1, <3>3 DEF Ours
  <2>6. Apart'
    BY <1>1, <2>3, ApartContinues DEF Busy, At
  <2>7. \A d : Live(d) => Live(d)'
    BY <1>1, <2>3, <2>4 DEF Live, At, Ours, Recruitment
  <2>8. ASSUME NEW u \in loops, Sound(u) PROVE Sound(u)'
    BY <2>4, <2>7, <2>8 DEF Sound
  <2>9. ASSUME NEW q \in Callers, Does(q) PROVE Does(q)'
    <3>1. CASE q = r
      BY <1>1, <2>1, <2>3, <2>4, <2>9, <3>1 DEF Does, At
    <3>2. CASE q # r /\ call'[q] = call[q]
      BY <2>1, <2>4, <2>7, <2>9, <3>2 DEF Does, At
    <3>3. CASE call'[q].at = "none"
      BY <3>3 DEF Does, At
    <3> QED
      BY <2>3, <3>1, <3>2, <3>3
  <2> QED
    BY <1>1, <2>1, <2>5, <2>6, <2>8, <2>9 DEF Single
<1>3. CASE RemoveEntry(r)
  <2>1. /\ running' = [running EXCEPT ![p] = None] /\ loops' = loops /\ call[r].left = {}
        /\ \A q \in Callers : q # r => call'[q] = call[q]
        /\ \/ call'[r].at = "none"
           \/ /\ call'[r].at = "unmark" /\ call'[r].project = p /\ call'[r].engine = e
              /\ call'[r].name = call[r].name
    BY <1>0, <1>3 DEF RemoveEntry, NoCall, Calls
  <2>2. /\ DOMAIN engine' = DOMAIN engine
        /\ \A d \in DOMAIN engine : /\ engine'[d].project = engine[d].project
                                    /\ engine'[d].staff = engine[d].staff
    BY <1>0, <1>3 DEF RemoveEntry, Made
  <2>3. \A d \in DOMAIN engine : engine[d].project \in Projects
    <3>1. \A d \in DOMAIN engine : engine[d] \in Made
      BY <1>0
    <3> QED
      BY <3>1 DEF Made
  <2>4. Ours'
    <3>1. \A q \in Projects : running'[q] # None => engine'[running'[q]].project = q
      BY <1>0, <2>1, <2>2 DEF Ours, Referred
    <3>2. \A q \in Callers : call'[q].at \in Handling => call'[q] = call[q]
      BY <2>1 DEF Handling
    <3>3. \A q \in Callers : call'[q].at \in Handling =>
            call'[q].engine \in DOMAIN engine' /\ engine'[call'[q].engine].project = call'[q].project
      BY <2>2, <3>2 DEF Ours
    <3>4. \A q \in Callers : At(q, "start")' =>
            /\ call'[q].engine # served'
            /\ \A u \in Callers : At(u, "dismiss")' => call'[u].engine # call'[q].engine
      BY <1>1, <3>2 DEF Ours, At, Handling
    <3> QED
      BY <1>0, <1>1, <2>1, <3>1, <3>3, <3>4 DEF Ours
  <2>5. Apart'
    BY <1>1, <2>1, ApartContinues DEF Busy, At, Stopping, Recruitment, Removal
  <2> SUFFICES ASSUME ~crossed
               PROVE  (\A o \in loops' : Sound(o)') /\ (\A q \in Callers : Does(q)')
    BY <1>1, <2>4, <2>5 DEF Single
  <2>6. \A o \in loops : o[1] # e
    BY <1>1, <2>1 DEF Single, Does
  <2>7. \A d \in DOMAIN engine : Live(d) => Live(d)' \/ (engine[d].project = p /\ d = running[p])
    BY <1>0, <1>1, <2>1, <2>2, <2>3 DEF Live, At
  <2>8. e = running[p]
    BY <1>1 DEF Single, Does
  <2>9. ASSUME NEW o \in loops PROVE Sound(o)'
    BY <2>2, <2>6, <2>7, <2>8 DEF Single, Sound
  <2>10. ASSUME NEW q \in Callers, q # r PROVE Does(q)'
    <3>1. /\ call'[q] = call[q] /\ Does(q)
          /\ call[q].at \in Handling =>
               call[q].engine \in DOMAIN engine /\ engine[call[q].engine].project = call[q].project
      BY <2>1, <2>10 DEF Single, Ours
    <3>2. call[q].at \in {"stop", "create", "launch"} => call[q].project # p
      BY <1>1, <2>10 DEF Apart, Busy, At, Stopping, Recruitment
    <3>3. call[q].at \in {"create", "launch"} => Live(call[q].engine)'
      BY <2>7, <3>1, <3>2 DEF Does, At, Handling
    <3>4. At(q, "stop") => running'[call[q].project] = call[q].engine
      BY <1>0, <2>1, <3>1, <3>2 DEF Does, At, Referred, Busy
    <3> QED
      BY <2>1, <2>2, <3>1, <3>3, <3>4 DEF Does, At, Handling
  <2>11. Does(r)'
    BY <2>1 DEF Does, At
  <2> QED
    BY <2>1, <2>9, <2>10, <2>11
<1> QED
  BY <1>2, <1>3

\* One agent of an engine is registered, or none any more.
LEMMA StaffSet ==
  ASSUME engine \in Seq(Made), NEW e \in DOMAIN engine, NEW n \in Names, NEW k \in 0..2,
         engine' = [engine EXCEPT ![e].staff[n] = k]
  PROVE  /\ \A d \in DOMAIN engine : d # e => engine'[d] = engine[d]
         /\ \A m \in Names : engine'[e].staff[m] = IF m = n THEN k ELSE engine[e].staff[m]
<1>1. engine[e] \in Made
  OBVIOUS
<1>2. engine[e].staff \in [Names -> 0..2] /\ DOMAIN engine[e].staff = Names
  BY <1>1 DEF Made
<1>3. engine'[e] = [engine[e] EXCEPT !.staff = [engine[e].staff EXCEPT ![n] = k]]
  BY <1>1 DEF Made
<1>4. engine'[e].staff = [engine[e].staff EXCEPT ![n] = k]
  BY <1>1, <1>3 DEF Made
<1> QED
  BY <1>2, <1>4

\* An agent joins or leaves an engine: no other call is about it.
LEMMA TeamRegisters ==
  ASSUME Inv, Inv', Ours, Apart, Single, NEW r \in Callers,
         Register(r) \/ LaunchRecruit(r) \/ Dismiss(r)
  PROVE  Ours' /\ Apart' /\ Single'
<1>0. /\ TypeOK /\ Referred /\ call \in [Callers -> Calls] /\ engine \in Seq(Made)
      /\ loops \subseteq Loops /\ Hirer \in Callers
      /\ \A q \in Callers : call[q].left \subseteq Loops
  BY DEF Inv, TypeOK, Calls, Made, Callers
<1> DEFINE p == call[r].project
           e == call[r].engine
           n == call[r].name
<1>1. /\ crossed' = crossed /\ served' = served /\ running' = running
      /\ call[r].at \in Handling \ {"start", "stop"} /\ p \in Projects
      /\ e \in DOMAIN engine /\ engine[e].project = p
      /\ \A q \in Callers : q # r => call'[q] = call[q]
      /\ call'[r].project = p /\ call'[r].engine = e /\ call'[r].name = n
      /\ call'[r].at \in {"launch", "persist", "forget"}
      /\ call[r].at \in Recruitment => call'[r].at \in Recruitment
      /\ call[r].at \in Recruitment \cup Removal
  BY <1>0 DEF Register, LaunchRecruit, Dismiss, At, Ours, Handling, Recruitment, Removal, Referred,
              Busy, manager, history, Go, Calls
<1>2. Apart'
  <2>1. call'[r].at \notin Stopping /\ call[r].at # "none"
    BY <1>1 DEF Stopping, Handling
  <2> QED
    BY <1>1, <2>1, ApartContinues DEF Busy
<1>3. /\ DOMAIN engine' = DOMAIN engine
      /\ \A d \in DOMAIN engine : engine'[d].project = engine[d].project
  <2>1. \A d \in DOMAIN engine : engine[d] \in Made
    BY <1>0
  <2> QED
    BY <1>1, <2>1 DEF Register, LaunchRecruit, Dismiss, agents, Made
<1>4. Ours'
  <2>1. \A q \in Callers : call'[q].at \in {"start", "stop", "create", "dismiss"} => call'[q] = call[q]
    BY <1>1
  <2>2. \A q \in Callers : call'[q].at \in Handling =>
          call'[q].engine \in DOMAIN engine' /\ engine'[call'[q].engine].project = call'[q].project
    BY <1>1, <1>3 DEF Ours
  <2>3. \A q \in Callers : At(q, "start")' =>
          /\ call'[q].engine # served'
          /\ \A u \in Callers : At(u, "dismiss")' => call'[u].engine # call'[q].engine
    BY <1>1, <2>1 DEF Ours, At
  <2>4. \A q \in Projects : running'[q] # None => engine'[running'[q]].project = q
    BY <1>0, <1>1, <1>3 DEF Ours, Referred
  <2>5. call'[Hirer].at \in {"none"} \cup Recruitment
    BY <1>0, <1>1 DEF Ours, Recruitment, Handling
  <2> QED
    BY <2>2, <2>3, <2>4, <2>5 DEF Ours
<1> SUFFICES ASSUME ~crossed
             PROVE  (\A o \in loops' : Sound(o)') /\ (\A q \in Callers : Does(q)')
  BY <1>1, <1>2, <1>4 DEF Single
<1>5. \A d \in DOMAIN engine : Live(d) => Live(d)'
  BY <1>1, <1>3 DEF Live, At, Handling
\* Another call with the engine is a start, or about another agent.
<1>6. ASSUME NEW q \in Callers, q # r, call[q].at \in Handling
      PROVE  /\ call[q].engine \in DOMAIN engine /\ call'[q] = call[q] /\ Does(q)
             /\ At(q, "stop") => call[q].engine # e
             /\ call[q].at \in {"create", "launch", "dismiss"} =>
                  call[q].name \in Names /\ (call[q].engine = e => call[q].name # n)
  <2>1. Busy(q) /\ Busy(r)
    BY <1>1, <1>6 DEF Busy, Handling
  <2>2. call[q].engine \in DOMAIN engine /\ engine[call[q].engine].project = call[q].project
    BY <1>6 DEF Ours
  <2>3. call[q].project = p => call[q].at \notin Stopping /\ (n # None => call[q].name # n)
    BY <1>1, <1>6, <2>1 DEF Apart
  <2>4. At(q, "stop") => call[q].engine # e
    BY <1>1, <2>2, <2>3 DEF At, Stopping
  <2>5. call[q].at \in {"create", "launch", "dismiss"} /\ call[q].engine = e => call[q].name # n
    <3>1. n \in Recruits
      BY <1>0, <1>1 DEF Single, Does, Referred, At, Recruitment, Removal, Handling
    <3> QED
      BY <1>1, <2>2, <2>3, <3>1, LifecycleAssumption
  <2>6. call[q].at \in {"create", "launch", "dismiss"} => call[q].name \in Names
    BY <1>0 DEF Single, Does, Referred, At, Recruitment, Names
  <2> QED
    BY <1>1, <1>6, <2>2, <2>4, <2>5, <2>6 DEF Single
<1>7. CASE Register(r)
  <2>1. At(r, "create") /\ Live(e) /\ engine[e].staff[n] = 0 /\ n \in Names
    BY <1>0, <1>7 DEF Register, Single, Does, Referred, At, Recruitment, Names
  <2>2. <<e, n, 1>> \notin loops \cup Staff(e)
    BY <2>1 DEF Single, Sound, Staff
  <2>3. /\ engine' = [engine EXCEPT ![e].staff[n] = 1] /\ loops' = loops
        /\ call'[r].at = "launch" /\ call'[r].left = {<<e, n, 1>>}
    BY <1>0, <1>7, <2>2 DEF Register, Calls
  <2>4. /\ \A d \in DOMAIN engine : d # e => engine'[d] = engine[d]
        /\ \A m \in Names : engine'[e].staff[m] = IF m = n THEN 1 ELSE engine[e].staff[m]
    <3>1. /\ engine \in Seq(Made) /\ e \in DOMAIN engine /\ n \in Names /\ 1 \in 0..2
          /\ engine' = [engine EXCEPT ![e].staff[n] = 1]
      BY <1>0, <1>1, <2>1, <2>3
    <3> HIDE DEF e, n
    <3> QED
      BY <3>1, StaffSet
  <2>5. \A o \in Loops : o[2] \in Names /\ o[3] # 0
    BY DEF Loops
  <2>6. ASSUME NEW o \in loops PROVE Sound(o)'
    BY <1>0, <1>3, <1>5, <2>1, <2>4, <2>5, <2>6 DEF Single, Sound
  <2>7. ASSUME NEW q \in Callers, q # r PROVE Does(q)'
    BY <1>0, <1>1, <1>5, <1>6, <2>1, <2>3, <2>4, <2>5, <2>7 DEF Does, At, Handling
  <2>8. Does(r)'
    BY <1>1, <1>5, <2>1, <2>3, <2>4 DEF Does, At
  <2> QED
    BY <2>3, <2>6, <2>7, <2>8
<1>8. CASE LaunchRecruit(r)
  <2>1. /\ loops' = loops \cup {<<e, n, 1>>} /\ engine' = engine
        /\ Live(e) /\ engine[e].staff[n] = 1 /\ call'[r].at = "persist"
    BY <1>0, <1>8 DEF LaunchRecruit, Single, Does, At, Go, Calls
  <2>2. ASSUME NEW o \in loops' PROVE Sound(o)'
    BY <1>1, <1>5, <2>1, <2>2 DEF Single, Sound
  <2>3. ASSUME NEW q \in Callers, q # r PROVE Does(q)'
    BY <1>1, <1>5, <1>6, <2>1, <2>3 DEF Does, At, Handling
  <2>4. Does(r)'
    BY <2>1 DEF Does, At
  <2> QED
    BY <2>2, <2>3, <2>4
<1>9. CASE Dismiss(r)
  <2>1. /\ loops' = loops \ {<<e, n, engine[e].staff[n]>>} /\ At(r, "dismiss")
        /\ engine' = [engine EXCEPT ![e].staff[n] = 0] /\ call'[r].at = "forget"
    BY <1>0, <1>9 DEF Dismiss, Single, Does, At, Go, Calls
  <2>2. /\ \A d \in DOMAIN engine : d # e => engine'[d] = engine[d]
        /\ \A m \in Names : engine'[e].staff[m] = IF m = n THEN 0 ELSE engine[e].staff[m]
    <3>1. /\ engine \in Seq(Made) /\ e \in DOMAIN engine /\ n \in Names /\ 0 \in 0..2
          /\ engine' = [engine EXCEPT ![e].staff[n] = 0]
      BY <1>0, <1>1, <2>1 DEF Single, Does, Names
    <3> HIDE DEF e, n
    <3> QED
      BY <3>1, StaffSet
  <2>3. ASSUME NEW o \in loops' PROVE Sound(o)'
    <3>1. o \in Loops /\ Sound(o) /\ o # <<e, n, engine[e].staff[n]>>
      BY <1>0, <2>1, <2>3 DEF Single
    <3>2. o[2] \in Names /\ (o[1] # e \/ o[2] # n)
      BY <3>1 DEF Sound, Loops
    <3> QED
      BY <1>3, <1>5, <2>2, <3>1, <3>2 DEF Sound
  <2>4. ASSUME NEW q \in Callers, q # r PROVE Does(q)'
    <3>1. At(q, "start") => call[q].engine # e
      BY <2>1 DEF Ours
    <3>2. \A o \in Loops : o[2] \in Names
      BY DEF Loops
    <3> QED
      BY <1>1, <1>5, <1>6, <2>1, <2>2, <2>4, <3>1 DEF Does, At, Handling
  <2>5. Does(r)'
    BY <2>1 DEF Does, At
  <2> QED
    BY <2>3, <2>4, <2>5
<1> QED
  BY <1>7, <1>8, <1>9

\* A call begins that has an engine.
LEMMA BeginRegisters ==
  ASSUME Inv, Inv', Ours, Apart, Single, NEW r \in Callers, ~Busy(r),
         NEW s \in {"stop", "create", "dismiss"}, NEW p, NEW e, NEW n, NEW left,
         Begin(r, s, p, e, n, left), e \in DOMAIN engine, engine[e].project = p,
         UNCHANGED <<running, served, engine, loops>>,
         s = "stop" => running[p] = e /\ left = Staff(e),
         s = "create" => engine[e].staff[n] = 0,
         s = "dismiss" => e = served /\ left = {<<e, n, engine[e].staff[n]>>},
         s # "stop" => n \in Recruits,
         r = Hirer => s = "create"
  PROVE  Ours' /\ Apart' /\ Single'
<1>0. /\ call \in [Callers -> Calls] /\ loops \subseteq Loops /\ Hirer \in Callers
      /\ (crossed' = (crossed \/ Crosses(s, p, e, n)))
      /\ call' = [call EXCEPT ![r] =
                    [at |-> s, project |-> p, engine |-> e, name |-> n, left |-> left]]
  BY DEF Begin, Inv, TypeOK, Calls, Callers
<1>1. /\ call'[r].at = s /\ call'[r].project = p /\ call'[r].engine = e /\ call'[r].name = n
      /\ call'[r].left = left /\ \A q \in Callers : q # r => call'[q] = call[q]
  BY <1>0
<1>2. Ours'
  <2>1. \A q \in Callers : call'[q].at \in Handling =>
          call'[q].engine \in DOMAIN engine' /\ engine'[call'[q].engine].project = call'[q].project
    BY <1>1 DEF Ours
  <2>2. \A q \in Callers : At(q, "start")' =>
          /\ call'[q].engine # served'
          /\ \A u \in Callers : At(u, "dismiss")' => call'[u].engine # call'[q].engine
    BY <1>1 DEF Ours, At
  <2>3. call'[Hirer].at \in {"none"} \cup Recruitment
    BY <1>0, <1>1 DEF Ours, Recruitment
  <2> QED
    BY <2>1, <2>2, <2>3 DEF Ours
<1>3. Apart'
  <2>1. s \in {"create", "dismiss"} => n # None
    BY LifecycleAssumption
  <2> QED
    BY <2>1, ApartBegins
<1> SUFFICES ASSUME ~crossed, ~Crosses(s, p, e, n)
             PROVE  (\A o \in loops' : Sound(o)') /\ (\A q \in Callers : Does(q)')
  BY <1>0, <1>2, <1>3 DEF Single
<1>4. \A d : Live(d) => Live(d)'
  BY <1>1 DEF Live, At, Busy
<1>5. ASSUME NEW o \in loops PROVE Sound(o)'
  BY <1>4 DEF Single, Sound
<1>6. ASSUME NEW q \in Callers, q # r PROVE Does(q)'
  BY <1>1, <1>4, <1>6 DEF Single, Does, At
<1>7. Does(r)'
  <2>1. CASE s = "stop"
    <3>1. \A o \in loops : o[1] = e => o \in Staff(e)
      BY <1>0 DEF Single, Sound, Staff, Loops
    <3> QED
      BY <1>1, <2>1, <3>1 DEF Does, At
  <2>2. CASE s = "create"
    <3>1. Live(e)
      BY <2>2 DEF Crosses
    <3> QED
      BY <1>1, <1>4, <2>2, <3>1 DEF Does, At
  <2>3. CASE s = "dismiss"
    BY <1>1, <2>3 DEF Does, At
  <2> QED
    BY <2>1, <2>2, <2>3
<1> QED
  BY <1>5, <1>6, <1>7

LEMMA DeadRegisters ==
  ASSUME Dead
  PROVE  Registered'
<1>1. \A r \in Callers : call'[r].at = "none"
  BY DEF Dead, Idle, NoCall
<1>2. Ours'
  BY <1>1 DEF Dead, Ours, Handling, At, Callers
<1>3. Apart' /\ Single'
  BY <1>1 DEF Dead, Apart, Busy, Single, Does, At
<1> QED
  BY <1>2, <1>3 DEF Registered

LEMMA RequestRegisters ==
  ASSUME Inv, Inv', Registered, NEW r \in Requests,
         \/ \E p \in Projects : Activate(r, p) \/ Stop(r, p)
         \/ Create(r)
         \/ \E n \in Recruits : AddAgent(r, n) \/ RemoveAgent(r, n)
  PROVE  Registered'
<1>0. /\ Ours /\ Apart /\ Single /\ Referred /\ r \in Callers /\ r # Hirer /\ ~Busy(r)
      /\ call \in [Callers -> Calls]
  BY LifecycleAssumption DEF Registered, Inv, TypeOK, Calls, Callers, Activate, Stop, Create, AddAgent,
     RemoveAgent, Request
<1>1. CASE Create(r) \/ \E p \in Projects : Activate(r, p)
  <2>1. PICK p \in Projects, s \in {"lock", "clone", "insert"} : Begin(r, s, p, None, None, {})
    BY <1>1 DEF Create, StartCreation, Activate
  <2>2. UNCHANGED <<running, served, engine, loops>>
    BY <1>1 DEF Create, Activate, agents, manager
  <2>3. /\ call'[r].at = s /\ \A q \in Callers : q # r => call'[q] = call[q]
        /\ crossed => crossed'
    BY <1>0, <2>1 DEF Begin
  <2>4. call[r].at \notin Handling /\ s \notin Handling
    BY <1>0 DEF Busy, Handling
  <2>5. \A q \in Callers : At(q, "start") => call[q].engine # served'
    BY <1>0, <2>2 DEF Ours
  <2>6. Ours' /\ Single'
    BY <1>0, <2>2, <2>3, <2>4, <2>5, DistantKeeps
  <2>7. Apart'
    BY <1>0, <2>1, ApartBegins
  <2> QED
    BY <2>6, <2>7 DEF Registered
<1>2. ASSUME NEW p \in Projects, Stop(r, p) PROVE Registered'
  <2>1. /\ running[p] \in DOMAIN engine /\ engine[running[p]].project = p
        /\ UNCHANGED <<running, served, engine, loops>>
        /\ Begin(r, "stop", p, running[p], None, Staff(running[p]))
    BY <1>0, <1>2 DEF Stop, Referred, Ours, agents, manager
  <2> QED
    BY <1>0, <2>1, BeginRegisters DEF Registered
<1>3. ASSUME NEW n \in Recruits, AddAgent(r, n) PROVE Registered'
  <2>1. /\ served \in DOMAIN engine /\ engine[served].staff[n] = 0
        /\ UNCHANGED <<running, served, engine, loops>>
        /\ Begin(r, "create", engine[served].project, served, n, {})
    BY <1>0, <1>3 DEF AddAgent, StartHiring, Referred, agents, manager
  <2> QED
    BY <1>0, <2>1, BeginRegisters DEF Registered
<1>4. ASSUME NEW n \in Recruits, RemoveAgent(r, n) PROVE Registered'
  <2>1. /\ served \in DOMAIN engine
        /\ UNCHANGED <<running, served, engine, loops>>
        /\ Begin(r, "dismiss", engine[served].project, served, n,
                 {<<served, n, engine[served].staff[n]>>})
    BY <1>0, <1>4 DEF RemoveAgent, Referred, agents, manager
  <2> QED
    BY <1>0, <2>1, BeginRegisters DEF Registered
<1> QED
  BY <1>1, <1>2, <1>3, <1>4

LEMMA StepRegisters ==
  ASSUME Inv, Inv', Registered, NEW r \in Callers, Step(r)
  PROVE  Registered'
<1>0. /\ Ours /\ Apart /\ Single /\ Held /\ call \in [Callers -> Calls]
  BY DEF Registered, Inv, TypeOK, Calls
<1>1. CASE SetUp(r) \/ StartAgent(r) \/ Launch(r)
  <2>1. Apart'
    <3>1. /\ \A q \in Callers : q # r => call'[q] = call[q]
          /\ Busy(r) /\ call'[r].project = call[r].project /\ call'[r].name = call[r].name
          /\ call'[r].at \in {"start", "mark"} /\ crossed' = crossed
      BY <1>0, <1>1 DEF SetUp, StartAgent, Launch, Busy, At, Go, Calls, history
    <3> QED
      BY <1>0, <3>1, ApartContinues DEF Busy, Stopping, Recruitment, Removal
  <2> QED
    BY <1>0, <1>1, <2>1, ActivationRegisters DEF Registered
<1>2. CASE StopAgent(r) \/ RemoveEntry(r)
  BY <1>0, <1>2, StopRegisters DEF Registered
<1>3. CASE Register(r) \/ LaunchRecruit(r) \/ Dismiss(r)
  BY <1>0, <1>3, TeamRegisters DEF Registered
<1>4. CASE Fail(r) /\ r = Main
  BY <1>4, DeadRegisters DEF Fail
<1>5. CASE Fail(r) /\ r # Main /\ At(r, "start")
  <2>1. /\ crossed' /\ UNCHANGED <<running, served, engine>> /\ call'[r].at = "none"
        /\ \A q \in Callers : q # r => call'[q] = call[q]
    <3>1. Release(r) /\ crossed' = (crossed \/ At(r, "start")) /\ UNCHANGED <<running, served, agents>>
      BY <1>5 DEF Fail
    <3> QED
      BY <1>0, <1>5, <3>1 DEF Release, NoCall, agents
  <2>2. \A q \in Callers : call'[q].at \in Handling => call'[q] = call[q]
    BY <2>1 DEF Handling
  <2>3. \A q \in Callers : call'[q].at \in Handling =>
          call'[q].engine \in DOMAIN engine' /\ engine'[call'[q].engine].project = call'[q].project
    BY <1>0, <2>1, <2>2 DEF Ours
  <2>4. \A q \in Callers : At(q, "start")' =>
          /\ call'[q].engine # served'
          /\ \A u \in Callers : At(u, "dismiss")' => call'[u].engine # call'[q].engine
    BY <1>0, <2>1, <2>2 DEF Ours, At, Handling
  <2>5. call'[Hirer].at \in {"none"} \cup Recruitment
    BY <1>0, <2>1 DEF Ours, Callers
  <2>6. Ours'
    BY <1>0, <2>1, <2>3, <2>4, <2>5 DEF Ours
  <2> QED
    BY <2>1, <2>6 DEF Registered, Apart, Single
<1>6. CASE \/ Acquire(r) \/ MarkRunning(r) \/ Select(r) \/ View(r)
           \/ Fail(r) /\ r # Main /\ ~At(r, "start")
           \/ UnmarkRunning(r) \/ Unview(r) \/ Clone(r) \/ Insert(r) \/ List(r)
           \/ Persist(r) \/ Forget(r)
  <2>1. /\ UNCHANGED <<running, engine, loops>> /\ (crossed => crossed')
        /\ \A q \in Callers : q # r => call'[q] = call[q]
        /\ call[r].at \notin Handling /\ call[r].at # "none"
    <3>1. UNCHANGED <<running, engine, loops>>
      BY <1>6 DEF Acquire, MarkRunning, Select, View, Fail, UnmarkRunning, Unview, Clone, Insert,
         List, Persist, Forget, agents, manager
    <3>2. crossed => crossed'
      BY <1>6 DEF Acquire, MarkRunning, Select, View, Fail, UnmarkRunning, Unview, Clone, Insert,
         List, Persist, Forget, history
    <3>3. \A q \in Callers : q # r => call'[q] = call[q]
      BY <1>0, <1>6 DEF Acquire, MarkRunning, Select, View, Fail, UnmarkRunning, Unview, Clone, Insert,
         List, Persist, Forget, Release, Go
    <3>4. call[r].at \notin Handling /\ call[r].at # "none"
      BY <1>6 DEF Acquire, MarkRunning, Select, View, Fail, UnmarkRunning, Unview, Clone, Insert,
         List, Persist, Forget, At, Handling
    <3> QED
      BY <3>1, <3>2, <3>3, <3>4
  <2>2. \/ call'[r].at = "none"
        \/ /\ call'[r].project = call[r].project /\ call'[r].name = call[r].name
           /\ <<call[r].at, call'[r].at>> \in
                {<<"lock", "select">>, <<"lock", "setup">>, <<"mark", "select">>,
                 <<"select", "view">>, <<"unmark", "unview">>, <<"clone", "insert">>,
                 <<"insert", "list">>, <<"list", "lock">>}
    BY <1>0, <1>6 DEF Acquire, MarkRunning, Select, View, Fail, UnmarkRunning, Unview, Clone, Insert,
       List, Persist, Forget, Release, Go, At, NoCall, Calls
  <2>3. \A q \in Callers : At(q, "start") => call[q].engine # served'
    <3>1. CASE View(r)
      BY <1>0, <3>1, OneInside DEF View, Inside, At
    <3>2. CASE ~View(r)
      BY <1>0, <1>6, <3>2 DEF Ours, Acquire, MarkRunning, Select, Fail, UnmarkRunning, Unview, Clone,
         Insert, List, Persist, Forget, manager
    <3> QED
      BY <3>1, <3>2
  <2>4. Apart'
    BY <1>0, <2>1, <2>2, ApartContinues DEF Busy, Stopping, Recruitment, Removal
  <2>5. call'[r].at \notin Handling
    BY <2>2 DEF Handling
  <2>6. r = Hirer => call'[r].at \in {"none"} \cup Recruitment
    BY <1>0, <2>2 DEF Ours, Recruitment
  <2>7. Ours' /\ Single'
    BY <1>0, <2>1, <2>3, <2>5, <2>6, DistantKeeps
  <2> QED
    BY <2>4, <2>7 DEF Registered
<1> QED
  BY <1>1, <1>2, <1>3, <1>4, <1>5, <1>6 DEF Step

LEMMA ProcessRegisters ==
  ASSUME Inv, Inv', Registered, Boot \/ Shutdown \/ StopNext \/ Exit \/ Crash
  PROVE  Registered'
<1>0. /\ Ours /\ Apart /\ Single /\ Held /\ Referred /\ Main \in Callers /\ Main # Hirer
      /\ call \in [Callers -> Calls]
  BY LifecycleAssumption DEF Registered, Inv, TypeOK, Calls, Callers
<1>1. CASE Boot
  <2>1. PICK s \in {"lock", "insert"} : \E q : Begin(Main, s, q, None, None, {})
    BY <1>1 DEF Boot, StartCreation
  <2>0. PICK p : Begin(Main, s, p, None, None, {})
    BY <2>1
  <2>2. UNCHANGED <<running, served, engine, loops>> /\ ~Busy(Main)
    BY <1>0, <1>1 DEF Boot, agents, Held, Idle, NoCall, Busy
  <2>3. /\ call'[Main].at = s /\ \A q \in Callers : q # Main => call'[q] = call[q]
        /\ crossed => crossed'
    BY <1>0, <2>0 DEF Begin
  <2>4. call[Main].at \notin Handling /\ s \notin Handling
    BY <2>2 DEF Busy, Handling
  <2>5. \A q \in Callers : At(q, "start") => call[q].engine # served'
    BY <1>0, <2>2 DEF Ours
  <2>6. Ours' /\ Single'
    BY <1>0, <2>2, <2>3, <2>4, <2>5, DistantKeeps
  <2>7. Apart'
    BY <1>0, <2>0, <2>2, ApartBegins
  <2> QED
    BY <2>6, <2>7 DEF Registered
<1>2. CASE Shutdown
  <2>1. UNCHANGED <<running, served, engine, loops, call, crossed>>
    BY <1>2 DEF Shutdown, manager, agents, history
  <2> QED
    BY <2>1 DEF Registered, Ours, Apart, Single, Sound, Does, Live, At, Busy
<1>3. CASE StopNext
  <2>1. PICK p \in Running : Begin(Main, "stop", p, running[p], None, Staff(running[p]))
    BY <1>3 DEF StopNext
  <2>2. /\ running[p] \in DOMAIN engine /\ engine[running[p]].project = p /\ ~Busy(Main)
        /\ UNCHANGED <<running, served, engine, loops>>
    BY <1>0, <1>3 DEF StopNext, Running, Referred, Ours, agents, manager
  <2> QED
    BY <1>0, <2>1, <2>2, BeginRegisters DEF Registered
<1>4. CASE Exit \/ Crash
  BY <1>4, DeadRegisters DEF Exit, Crash
<1> QED
  BY <1>1, <1>2, <1>3, <1>4

LEMMA RegisteredHolds == Spec => [](Inv /\ Registered)
<1>1. Init => Registered
  <2> SUFFICES ASSUME Init PROVE Registered
    OBVIOUS
  <2>1. \A r \in Callers : call[r].at = "none"
    BY DEF Init, Idle, NoCall
  <2>2. Ours
    BY <2>1 DEF Init, Ours, Handling, At, Callers
  <2>3. Apart /\ Single
    BY <2>1 DEF Init, Apart, Busy, Single, Does, At
  <2> QED
    BY <2>2, <2>3 DEF Registered
<1>2. Inv /\ Inv' /\ Registered /\ [Next]_vars => Registered'
  <2> SUFFICES ASSUME Inv, Inv', Registered, [Next]_vars PROVE Registered'
    OBVIOUS
  <2>1. CASE Boot \/ Shutdown \/ StopNext \/ Exit \/ Crash
    BY <2>1, ProcessRegisters
  <2>2. ASSUME NEW r \in Callers, Step(r) PROVE Registered'
    BY <2>2, StepRegisters
  <2>3. ASSUME NEW r \in Requests,
               \/ \E p \in Projects : Activate(r, p) \/ Stop(r, p)
               \/ Create(r)
               \/ \E n \in Recruits : AddAgent(r, n) \/ RemoveAgent(r, n)
        PROVE  Registered'
    BY <2>3, RequestRegisters
  <2>4. ASSUME NEW e \in DOMAIN engine, NEW n \in Recruits, Recruit(e, n) PROVE Registered'
    <3>1. /\ ~Busy(Hirer) /\ engine[e].staff[n] = 0 /\ Hirer \in Callers
          /\ Begin(Hirer, "create", engine[e].project, e, n, {})
          /\ UNCHANGED <<running, served, engine, loops>>
      BY <2>4 DEF Recruit, StartHiring, agents, manager, Callers
    <3> QED
      BY <3>1, BeginRegisters DEF Registered
  <2>5. CASE UNCHANGED vars
    <3>1. UNCHANGED <<running, served, engine, loops, call, crossed>>
      BY <2>5 DEF vars, manager, agents, history
    <3> QED
      BY <3>1 DEF Registered, Ours, Apart, Single, Sound, Does, Live, At, Busy
  <2> QED
    BY <2>1, <2>2, <2>3, <2>4, <2>5 DEF Next
<1> QED
  BY <1>1, <1>2, InvHolds, PTL DEF Spec

\* A project has one engine at most that is live.
LEMMA OneLiveEngine ==
  ASSUME Inv, Ours, NEW d \in DOMAIN engine, NEW e \in DOMAIN engine, Live(d), Live(e),
         engine[d].project = engine[e].project
  PROVE  d = e
<1>1. /\ Held /\ Kept /\ engine \in Seq(Made)
  BY DEF Inv, TypeOK, Made
<1>2. d # None /\ e # None
  BY <1>1 DEF None
<1>3. \A q \in Callers : At(q, "start") =>
        engine[call[q].engine].project = call[q].project /\ running[call[q].project] = None
  BY <1>1 DEF Ours, Handling, Kept, At
<1>4. \A q, u \in Callers : At(q, "start") /\ At(u, "start") => q = u
  BY <1>1, OneInside DEF At, Inside
<1> QED
  BY <1>2, <1>3, <1>4 DEF Live

\* No agent has two message loops over its one inbox: not two of one engine, nor
\* one of the engine that was stopped and one of the engine that was set up since.
THEOREM LoopIsAlone == Spec => []OneLoop
<1>1. Inv /\ Registered => OneLoop
  <2> SUFFICES ASSUME Inv, Registered, ~crossed, NEW o \in loops, NEW u \in loops,
                      engine[o[1]].project = engine[u[1]].project, o[2] = u[2]
               PROVE  o = u
    BY DEF OneLoop
  <2>1. Sound(o) /\ Sound(u) /\ o \in Loops /\ u \in Loops
    BY DEF Registered, Single, Inv, TypeOK
  <2>2. o[1] = u[1]
    BY <2>1, OneLiveEngine DEF Sound, Registered
  <2> QED
    BY <2>1, <2>2 DEF Sound, Loops
<1> QED
  BY <1>1, RegisteredHolds, PTL

-----------------------------------------------------------------------------
(* What agrees when nobody calls *)

\* run() activates before there are requests, and stops the projects after them.
Placed ==
  /\ process # "up" => \A r \in Requests : ~Busy(r)
  /\ Busy(Main) => \/ process = "boot" /\ call[Main].at \in Activation \cup Creation
                   \/ process = "closing" /\ call[Main].at \in Stopping

\* As long as nothing joined, no project is stopped while it is activated, so that
\* an activation finds the entry that it made.
Parted ==
  ~joined =>
    /\ \A r, q \in Callers : call[r].at \in Activation /\ call[q].at \in Stopping =>
         call[r].project # call[q].project
    /\ \A r \in Callers : call[r].at \in {"mark", "select", "view"} =>
         running[call[r].project] # None

\* Of set_active and set_viewed, one is done before the other.
Selected == \A r \in Callers : At(r, "view") => active = {call[r].project}

\* The project that is viewed is the one shown, and it is not being stopped.
Shown ==
  process = "up" /\ ~joined =>
    /\ viewed # None /\ activeId = viewed /\ served # None /\ running[viewed] = served
    /\ (\A r \in Callers : ~At(r, "view")) => active = {viewed}
    /\ \A r \in Callers : call[r].at \in Stopping => call[r].project # viewed

\* The rows are listed but for those that are about to be.
Listed == process # "down" => rows = cached \cup {call[r].project : r \in {q \in Callers : At(q, "list")}}

\* Only what runs is flagged, but for what has just been stopped.
Flagged ==
  process # "down" /\ ~crossed /\ ~joined =>
    marked \subseteq Running \cup {call[r].project : r \in {q \in Callers : At(q, "unmark")}}

Agreed == Placed /\ Parted /\ Selected /\ Shown /\ Listed /\ Flagged

\* Where a call goes on to.
Onward ==
  {<<"lock", "select">>, <<"lock", "setup">>, <<"setup", "start">>, <<"start", "start">>,
   <<"start", "mark">>, <<"mark", "select">>, <<"select", "view">>,
   <<"stop", "stop">>, <<"stop", "unmark">>, <<"unmark", "unview">>,
   <<"clone", "insert">>, <<"insert", "list">>, <<"list", "lock">>,
   <<"create", "launch">>, <<"launch", "persist">>, <<"dismiss", "forget">>}

\* A step of r: the others stay, but for the recruitment that a stop ends.
Moves(r) ==
  /\ Busy(r) /\ joined' = joined /\ (crossed => crossed')
  /\ \A q \in Callers : q # r => call'[q] = call[q] \/ (q = Hirer /\ call'[q].at = "none")
  /\ \/ call'[r].at = "none"
     \/ /\ <<call[r].at, call'[r].at>> \in Onward
        /\ call'[r].project = call[r].project
        /\ call'[r].at = "lock" => r = Main

LEMMA StepMoves ==
  ASSUME Inv, NEW r \in Callers, Step(r), ~(Fail(r) /\ r = Main)
  PROVE  Moves(r)
<1>0. TypeOK /\ call \in [Callers -> Calls]
  BY DEF Inv, TypeOK, Calls
<1> USE <1>0
<1>1. CASE Acquire(r)
  BY <1>1 DEF Acquire, Release, Go, At, NoCall, Calls, Moves, Onward, Busy, history
<1>2. CASE SetUp(r)
  BY <1>2 DEF SetUp, At, Calls, Moves, Onward, Busy, history
<1>3. CASE StartAgent(r)
  BY <1>3 DEF StartAgent, At, Calls, Moves, Onward, Busy, history
<1>4. CASE Launch(r) \/ MarkRunning(r) \/ Select(r)
  BY <1>4 DEF Launch, MarkRunning, Select, Go, At, Calls, Moves, Onward, Busy, history
<1>5. CASE View(r)
  <2>1. /\ call' = [call EXCEPT ![r] = NoCall] /\ call[r].at = "view"
        /\ (crossed => crossed') /\ joined' = joined
    BY <1>5 DEF View, Release, At, history
  <2>2. call'[r].at = "none" /\ \A q \in Callers : q # r => call'[q] = call[q]
    BY <2>1 DEF NoCall
  <2> QED
    BY <2>1, <2>2 DEF Moves, Busy
<1>6. CASE Fail(r) /\ r # Main
  <2>1. /\ call' = [call EXCEPT ![r] = NoCall] /\ call[r].at # "none"
        /\ (crossed => crossed') /\ joined' = joined
    BY <1>6 DEF Fail, Release
  <2>2. call'[r].at = "none" /\ \A q \in Callers : q # r => call'[q] = call[q]
    BY <2>1 DEF NoCall
  <2> QED
    BY <2>1, <2>2 DEF Moves, Busy
<1>7. CASE StopAgent(r)
  <2> DEFINE c(o) == [call EXCEPT ![r].left = @ \ {o}]
  <2>1. PICK o \in call[r].left : call' \in {c(o), [c(o) EXCEPT ![Hirer] = NoCall]}
    BY <1>7 DEF StopAgent
  <2>2. /\ c(o)[r].at = "stop" /\ c(o)[r].project = call[r].project
        /\ \A q \in Callers : q # r => c(o)[q] = call[q]
        /\ c(o) \in [Callers -> Calls]
    BY <1>7 DEF StopAgent, At, Calls
  <2> HIDE DEF c
  <2>3. /\ \A q \in Callers : q # r => call'[q] = call[q] \/ (q = Hirer /\ call'[q].at = "none")
        /\ \/ call'[r].at = "none"
           \/ call'[r].at = "stop" /\ call'[r].project = call[r].project
    BY <2>1, <2>2 DEF NoCall
  <2> QED
    BY <1>7, <2>3 DEF StopAgent, At, Moves, Onward, Busy, history
<1>8. CASE List(r) /\ r = Main
  BY <1>8 DEF List, Go, At, Calls, Moves, Onward, Busy, history
<1>9. CASE \/ RemoveEntry(r) \/ UnmarkRunning(r) \/ Unview(r)
           \/ Clone(r) \/ Insert(r) \/ (List(r) /\ r # Main)
           \/ Register(r) \/ LaunchRecruit(r) \/ Persist(r) \/ Dismiss(r) \/ Forget(r)
  <2>1. /\ \A q \in Callers : q # r => call'[q] = call[q]
        /\ call'[r].at = "none" \/ Continues(r)
    BY <1>9, QuietCalls
  <2>2. Continues(r) => /\ <<call[r].at, call'[r].at>> \in Onward /\ call'[r].at # "lock"
                        /\ call'[r].project = call[r].project
    BY DEF Continues, Onward
  <2>3. Busy(r) /\ joined' = joined /\ crossed' = crossed
    BY <1>9 DEF RemoveEntry, UnmarkRunning, Unview, Clone, Insert, List, Register, LaunchRecruit,
       Persist, Dismiss, Forget, At, Busy, history
  <2> QED
    BY <2>1, <2>2, <2>3 DEF Moves
<1> QED
  BY <1>1, <1>2, <1>3, <1>4, <1>5, <1>6, <1>7, <1>8, <1>9 DEF Step

\* What a stage goes on to is of the same kind.
LEMMA OnwardKinds ==
  ASSUME NEW s, NEW t, <<s, t>> \in Onward
  PROVE  /\ t # "none" /\ s # "none" /\ s # "view" /\ (t = "list" => s = "insert")
         /\ t \in Stopping => s \in Stopping
         /\ t \in Activation => s \in Activation \/ (s = "list" /\ t = "lock")
         /\ s \in Activation => t \in Activation
         /\ s \in Stopping => t \in Stopping
         /\ s \in Creation => t \in Creation \/ t = "lock"
         /\ t \in {"mark", "select", "view"} => s \in {"lock", "start", "mark", "select"}
         /\ (t = "view" => s = "select") /\ (t = "unmark" => s = "stop")
BY DEF Onward, Stopping, Activation, Creation

\* Nobody else stops a project while run() activates one.
LEMMA NoneStopsAtBoot ==
  ASSUME Ours, Placed, process = "boot", NEW q \in Callers
  PROVE  call[q].at \notin Stopping
<1>1. q = Main \/ q = Hirer \/ q \in Requests
  BY DEF Callers
<1>2. {"none"} \cup Recruitment \cup Activation \cup Creation \subseteq Stages \ Stopping
  BY DEF Stages, Recruitment, Activation, Creation, Stopping
<1>3. "none" \notin Stopping
  BY DEF Stopping
<1> QED
  BY <1>1, <1>2, <1>3 DEF Ours, Placed, Busy

LEMMA PlacedStep ==
  ASSUME Inv, Placed, NEW r \in Callers, Step(r), ~(Fail(r) /\ r = Main), Moves(r)
  PROVE  Placed'
<1>1. process' = process \/ (r = Main /\ process' = "up" /\ call'[Main].at = "none")
  <2>1. CASE View(r)
    <3>1. /\ call' = [call EXCEPT ![r] = NoCall] /\ process' = IF r = Main THEN "up" ELSE process
      BY <2>1 DEF View, Release
    <3> QED
      BY <3>1 DEF NoCall, Inv, TypeOK
  <2>2. CASE ~View(r)
    BY <2>2 DEF Step, Acquire, SetUp, StartAgent, Launch, MarkRunning, Select, Fail, StopAgent,
       RemoveEntry, UnmarkRunning, Unview, Clone, Insert, List, Register, LaunchRecruit, Persist,
       Dismiss, Forget
  <2> QED
    BY <2>1, <2>2
<1>2. \A q \in Callers : call'[q].at # "none" => Busy(q)
  BY DEF Moves, Busy
<1>3. call'[Main].at # "none" =>
        /\ call[Main].at \in Activation \cup Creation => call'[Main].at \in Activation \cup Creation
        /\ call[Main].at \in Stopping => call'[Main].at \in Stopping
  <2>1. Main # Hirer /\ Main \in Callers /\ "lock" \in Activation
    BY LifecycleAssumption DEF Callers, Activation
  <2> QED
    BY <2>1, OnwardKinds DEF Moves
<1> QED
  BY <1>1, <1>2, <1>3 DEF Placed, Busy, Callers

LEMMA PartedStep ==
  ASSUME Inv, Ours, Placed, Parted, NEW r \in Callers, Step(r), ~(Fail(r) /\ r = Main), Moves(r)
  PROVE  Parted'
<1>0. /\ Referred /\ running \in [Projects -> Engines \cup {None}]
      /\ \A q \in Callers : Busy(q) => call[q].project \in Projects
      /\ Main # Hirer
  BY LifecycleAssumption DEF Inv, TypeOK, Referred
<1> SUFFICES ASSUME ~joined PROVE Parted'
  BY DEF Parted, Moves
<1>1. \A q \in Callers : call'[q].at # "none" =>
        Busy(q) /\ call'[q].project = call[q].project /\ (q # r => call'[q] = call[q])
  BY DEF Moves, Busy
<1>2. \A q \in Callers : call'[q].at \in Stopping => call[q].at \in Stopping
  BY OnwardKinds DEF Moves, Stopping
<1>3. "none" \notin Activation /\ "none" \notin Stopping
  BY DEF Activation, Stopping
<1>4. ASSUME NEW a \in Callers, NEW b \in Callers,
             call'[a].at \in Activation, call'[b].at \in Stopping
      PROVE  call'[a].project # call'[b].project
  <2>1. call[b].at \in Stopping
    BY <1>2, <1>4
  <2>2. call[a].at \in Activation
    <3>1. call[a].at \in Activation \/ (a = r /\ r = Main /\ call[a].at = "list")
      BY <1>3, <1>4, OnwardKinds DEF Moves
    <3>2. At(Main, "list") => process = "boot"
      BY DEF Placed, Busy, At, Stopping
    <3> QED
      BY <2>1, <3>1, <3>2, NoneStopsAtBoot DEF At
  <2> QED
    BY <1>1, <1>3, <1>4, <2>1, <2>2 DEF Parted
<1>5. ASSUME NEW a \in Callers, call'[a].at \in {"mark", "select", "view"}
      PROVE  running'[call'[a].project] # None
  <2>1. Busy(a) /\ call'[a].project = call[a].project /\ call[a].project \in Projects
    BY <1>0, <1>1, <1>5
  <2>2. CASE Launch(r)
    <3>1. /\ running' = [running EXCEPT ![call[r].project] = call[r].engine]
          /\ call[r].engine \in DOMAIN engine /\ engine \in Seq(Made)
      BY <1>0, <2>2 DEF Launch, Referred, At, Inv, TypeOK, Made
    <3>2. call[r].engine # None
      BY <3>1 DEF None
    <3>3. a # r => running[call[a].project] # None
      BY <1>1, <1>5 DEF Parted
    <3> QED
      BY <1>0, <2>1, <3>1, <3>2, <3>3
  <2>3. CASE RemoveEntry(r)
    <3>1. call[r].at = "stop" /\ a # r
      BY <1>2, <1>5, <2>3 DEF RemoveEntry, At, Moves, Onward
    <3>2. call[a] = call'[a] /\ call[a].project # call[r].project /\ running[call[a].project] # None
      BY <1>1, <1>5, <3>1 DEF Parted, Stopping, Activation
    <3> QED
      BY <1>0, <2>1, <2>3, <3>2 DEF RemoveEntry
  <2>4. CASE Acquire(r)
    <3>1. running' = running /\ (a = r => running[call[r].project] # None)
      BY <1>5, <2>4 DEF Acquire, Go, Release, NoCall, Inv, TypeOK
    <3> QED
      BY <1>1, <1>5, <3>1 DEF Parted
  <2>5. CASE ~Launch(r) /\ ~RemoveEntry(r) /\ ~Acquire(r)
    <3>1. running' = running
      BY <2>5 DEF Step, SetUp, StartAgent, MarkRunning, Select, View, Fail, StopAgent,
         UnmarkRunning, Unview, Clone, Insert, List, Register, LaunchRecruit, Persist, Dismiss,
         Forget, manager
    <3>2. call[r].at \notin {"lock", "start"} \/ call'[r].at \in {"none", "start"}
      BY <2>5 DEF Step, SetUp, StartAgent, MarkRunning, Select, View, Fail, StopAgent, Release, At,
         UnmarkRunning, Unview, Clone, Insert, List, Register, LaunchRecruit, Persist, Dismiss,
         Forget, NoCall, Inv, TypeOK
    <3>3. call[a].at \in {"mark", "select", "view"}
      BY <1>1, <1>5, <3>2, OnwardKinds DEF Moves
    <3> QED
      BY <2>1, <3>1, <3>3 DEF Parted
  <2> QED
    BY <2>2, <2>3, <2>4, <2>5
<1> QED
  BY <1>4, <1>5 DEF Parted

LEMMA SelectedStep ==
  ASSUME Inv, Selected, NEW r \in Callers, Step(r), ~(Fail(r) /\ r = Main), Moves(r)
  PROVE  Selected'
<1>1. \A q \in Callers : call'[q].at = "view" =>
        \/ q = r /\ call[r].at = "select" /\ call'[r].project = call[r].project
        \/ q # r /\ call'[q] = call[q] /\ At(q, "view")
  BY OnwardKinds DEF Moves, At
<1>2. CASE Select(r)
  <2>1. \A q \in Callers : At(q, "view") => q = r
    BY <1>2, OneInside DEF Select, At, Inside, Inv
  <2> QED
    BY <1>1, <1>2, <2>1 DEF Selected, Select, At
<1>3. CASE ~Select(r)
  <2>1. active' = active
    BY <1>3 DEF Step, Acquire, SetUp, StartAgent, Launch, MarkRunning, View, Fail, StopAgent,
       RemoveEntry, UnmarkRunning, Unview, Clone, Insert, List, Register, LaunchRecruit, Persist,
       Dismiss, Forget, database
  <2>2. call[r].at # "select" \/ call'[r].at = "none"
    BY <1>3 DEF Step, Acquire, SetUp, StartAgent, Launch, MarkRunning, View, Fail, StopAgent,
       RemoveEntry, UnmarkRunning, Unview, Clone, Insert, List, Register, LaunchRecruit, Persist,
       Dismiss, Forget, At, Release, NoCall, Inv, TypeOK
  <2> QED
    BY <1>1, <2>1, <2>2 DEF Selected, At
<1> QED
  BY <1>2, <1>3

LEMMA ShownStep ==
  ASSUME Inv, Ours, Placed, Parted, Selected, Shown,
         NEW r \in Callers, Step(r), ~(Fail(r) /\ r = Main), Moves(r), Parted', Selected'
  PROVE  Shown'
<1> SUFFICES ASSUME process' = "up", ~joined PROVE Shown'
  BY DEF Shown, Moves
<1>0. /\ running \in [Projects -> Engines \cup {None}] /\ viewed \in Projects \cup {None}
      /\ call \in [Callers -> Calls] /\ call[r].project \in Projects
  BY DEF Inv, TypeOK, Calls, Referred, Moves
<1>1. \A q \in Callers : call'[q].at \in Stopping =>
        call[q].at \in Stopping /\ call'[q].project = call[q].project
  BY OnwardKinds DEF Moves, Stopping
<1>2. \A q \in Callers : q # r => (call'[q].at = "view" <=> At(q, "view"))
  BY DEF Moves, At, Ours, Recruitment
<1>3. CASE View(r)
  <2> DEFINE p == call[r].project
  <2>1. /\ activeId' = p /\ viewed' = p /\ running' = running /\ active' = active
        /\ served' = Applied(p) /\ At(r, "view")
    BY <1>3 DEF View, database
  <2>2. running[p] # None /\ served' = running[p]
    BY <2>1 DEF Parted, At, Applied
  <2>3. active = {p}
    BY <2>1 DEF Selected
  <2>4. \A q \in Callers : call'[q].at \in Stopping => call'[q].project # p
    BY <1>1, <2>1 DEF Parted, At, Activation
  <2>5. p # None
    BY <1>0, LifecycleAssumption DEF Projects, None
  <2> QED
    BY <2>1, <2>2, <2>3, <2>4, <2>5 DEF Shown
<1>4. CASE ~View(r)
  <2>1. process = "up"
    BY <1>4 DEF Step, Acquire, SetUp, StartAgent, Launch, MarkRunning, Select, Fail, StopAgent,
       RemoveEntry, UnmarkRunning, Unview, Clone, Insert, List, Register, LaunchRecruit, Persist,
       Dismiss, Forget
  <2>2. /\ viewed # None /\ activeId = viewed /\ served # None /\ running[viewed] = served
        /\ (\A q \in Callers : ~At(q, "view")) => active = {viewed}
        /\ \A q \in Callers : call[q].at \in Stopping => call[q].project # viewed
        /\ viewed \in Projects
    BY <1>0, <2>1 DEF Shown
  <2>3. activeId' = activeId /\ served' = served
    BY <1>4 DEF Step, Acquire, SetUp, StartAgent, Launch, MarkRunning, Select, Fail, StopAgent,
       RemoveEntry, UnmarkRunning, Unview, Clone, Insert, List, Register, LaunchRecruit, Persist,
       Dismiss, Forget, store, manager
  <2>4. viewed' = viewed
    <3>1. CASE Unview(r)
      BY <2>2, <3>1 DEF Unview, At, Stopping
    <3> QED
      BY <1>4, <3>1 DEF Step, Acquire, SetUp, StartAgent, Launch, MarkRunning, Select, Fail, StopAgent,
       RemoveEntry, UnmarkRunning, Clone, Insert, List, Register, LaunchRecruit, Persist,
       Dismiss, Forget, manager
  <2>5. running'[viewed] = running[viewed]
    <3>1. CASE Launch(r)
      <4>1. running[call[r].project] = None
        BY <3>1 DEF Launch, At, Inv, Kept
      <4> QED
        BY <1>0, <2>2, <3>1, <4>1 DEF Launch
    <3>2. CASE RemoveEntry(r)
      BY <1>0, <2>2, <3>2 DEF RemoveEntry, At, Stopping
    <3> QED
      BY <1>4, <3>1, <3>2 DEF Step, Acquire, SetUp, StartAgent, MarkRunning, Select, Fail, StopAgent,
       UnmarkRunning, Unview, Clone, Insert, List, Register, LaunchRecruit, Persist,
       Dismiss, Forget, manager
  <2>6. (\A q \in Callers : ~At(q, "view")') => active' = {viewed}
    <3>1. CASE Select(r)
      BY <1>0, <3>1 DEF Select, Go, At, Calls
    <3>2. CASE ~Select(r)
      <4>1. active' = active /\ ~At(r, "view")
        BY <1>4, <3>2 DEF Step, Acquire, SetUp, StartAgent, Launch, MarkRunning, Fail, StopAgent,
           RemoveEntry, UnmarkRunning, Unview, Clone, Insert, List, Register, LaunchRecruit, Persist,
           Dismiss, Forget, database, At
      <4> QED
        BY <1>2, <2>2, <4>1 DEF At
    <3> QED
      BY <3>1, <3>2
  <2> QED
    BY <1>1, <2>2, <2>3, <2>4, <2>5, <2>6 DEF Shown
<1> QED
  BY <1>3, <1>4

LEMMA ListedStep ==
  ASSUME Inv, Ours, Listed, NEW r \in Callers, Step(r), ~(Fail(r) /\ r = Main), Moves(r)
  PROVE  Listed'
<1>0. process # "down" /\ call \in [Callers -> Calls]
  BY BusyIsUp DEF Moves, Inv, TypeOK, Calls
<1>1. rows = cached \cup {call[q].project : q \in {u \in Callers : At(u, "list")}}
  BY <1>0 DEF Listed
<1>2. \A q \in Callers : q # r /\ (At(q, "list") \/ At(q, "list")') => call'[q] = call[q]
  BY DEF Moves, At, Ours, Recruitment
<1>3. CASE Insert(r)
  <2>1. /\ rows' = rows \cup {call[r].project} /\ cached' = cached /\ At(r, "insert")
        /\ \/ call[r].project \in rows /\ call'[r].at = "none"
           \/ call'[r].at = "list" /\ call'[r].project = call[r].project
    BY <1>0, <1>3 DEF Insert, Go, NoCall, Calls, store
  <2> QED
    BY <1>1, <1>2, <2>1 DEF Listed, At
<1>4. CASE List(r)
  <2>1. /\ rows' = rows /\ cached' = cached \cup {call[r].project} /\ At(r, "list")
        /\ call'[r].at # "list"
    BY <1>0, <1>4 DEF List, Go, NoCall, Calls, database
  <2> QED
    BY <1>1, <1>2, <2>1 DEF Listed, At
<1>5. CASE ~Insert(r) /\ ~List(r)
  <2>1. rows' = rows /\ cached' = cached
    BY <1>5 DEF Step, Acquire, SetUp, StartAgent, Launch, MarkRunning, Select, View, Fail, StopAgent,
       RemoveEntry, UnmarkRunning, Unview, Clone, Register, LaunchRecruit, Persist,
       Dismiss, Forget, database, store
  <2>2. call[r].at \notin {"insert", "list"}
    BY <1>5 DEF Step, Acquire, SetUp, StartAgent, Launch, MarkRunning, Select, View, Fail, StopAgent,
       RemoveEntry, UnmarkRunning, Unview, Clone, Register, LaunchRecruit, Persist,
       Dismiss, Forget, At
  <2>3. call'[r].at # "list"
    BY <2>2, OnwardKinds DEF Moves
  <2> QED
    BY <1>1, <1>2, <2>1, <2>2, <2>3 DEF Listed, At
<1> QED
  BY <1>3, <1>4, <1>5

LEMMA FlaggedStep ==
  ASSUME Inv, Ours, Single, Parted, Flagged,
         NEW r \in Callers, Step(r), ~(Fail(r) /\ r = Main), Moves(r)
  PROVE  Flagged'
<1> SUFFICES ASSUME ~crossed, ~joined PROVE Flagged'
  BY DEF Flagged, Moves
<1>0. /\ process # "down" /\ call \in [Callers -> Calls] /\ call[r].project \in Projects
      /\ running \in [Projects -> Engines \cup {None}]
  BY BusyIsUp DEF Moves, Inv, TypeOK, Calls, Referred
<1>1. marked \subseteq Running \cup {call[q].project : q \in {u \in Callers : At(u, "unmark")}}
  BY <1>0 DEF Flagged
<1>2. \A q \in Callers : q # r /\ At(q, "unmark") => call'[q] = call[q]
  BY DEF Moves, At, Ours, Recruitment
<1>3. CASE MarkRunning(r)
  <2>1. /\ marked' = marked \cup {call[r].project} /\ Running' = Running /\ ~At(r, "unmark")
        /\ running[call[r].project] # None
    BY <1>3 DEF MarkRunning, Running, manager, At, Parted
  <2> QED
    BY <1>0, <1>1, <1>2, <2>1 DEF Flagged, At, Running
<1>4. CASE UnmarkRunning(r)
  <2>1. marked' = marked \ {call[r].project} /\ Running' = Running
    BY <1>4 DEF UnmarkRunning, Running, manager
  <2> QED
    BY <1>1, <1>2, <2>1 DEF Flagged, At
<1>5. CASE RemoveEntry(r)
  <2>1. running[call[r].project] # None
    <3>1. running[call[r].project] = call[r].engine /\ call[r].engine \in DOMAIN engine
      BY <1>5 DEF RemoveEntry, Single, Does, At, Inv, Referred
    <3>2. engine \in Seq(Made)
      BY DEF Inv, TypeOK, Made
    <3> QED
      BY <3>1, <3>2 DEF None
  <2>2. /\ marked' = marked /\ running' = [running EXCEPT ![call[r].project] = None]
        /\ call'[r].at = "unmark" /\ call'[r].project = call[r].project /\ ~At(r, "unmark")
    BY <1>0, <1>5, <2>1 DEF RemoveEntry, database, At, Calls
  <2>3. Running \subseteq Running' \cup {call[r].project}
    BY <1>0, <2>2 DEF Running
  <2> QED
    BY <1>1, <1>2, <2>2, <2>3 DEF Flagged, At
<1>6. CASE ~MarkRunning(r) /\ ~UnmarkRunning(r) /\ ~RemoveEntry(r)
  <2>1. marked' = marked /\ ~At(r, "unmark")
    BY <1>6 DEF Step, Acquire, SetUp, StartAgent, Launch, Select, View, Fail, StopAgent,
       Unview, Clone, Insert, List, Register, LaunchRecruit, Persist, Dismiss, Forget, database, At
  <2>2. Running \subseteq Running'
    <3>1. CASE Launch(r)
      <4>1. engine \in Seq(Made) /\ call[r].engine \in DOMAIN engine
        BY <3>1 DEF Inv, TypeOK, Made, Launch, Referred, At
      <4>2. call[r].engine # None
        BY <4>1 DEF None
      <4> QED
        BY <1>0, <3>1, <4>2 DEF Launch, Running
    <3>2. CASE ~Launch(r)
      BY <1>6, <3>2 DEF Step, Acquire, SetUp, StartAgent, Select, View, Fail, StopAgent,
         Unview, Clone, Insert, List, Register, LaunchRecruit, Persist, Dismiss, Forget, manager, Running
    <3> QED
      BY <3>1, <3>2
  <2> QED
    BY <1>1, <1>2, <2>1, <2>2 DEF Flagged, At
<1> QED
  BY <1>3, <1>4, <1>5, <1>6

\* A call begins, that joins none.
LEMMA BeginAgrees ==
  ASSUME Inv, Ours, Agreed, NEW r \in Callers, ~Busy(r),
         NEW s \in {"lock", "stop", "clone", "insert", "create", "dismiss"},
         NEW p, NEW e, NEW n, NEW left, Begin(r, s, p, e, n, left),
         UNCHANGED <<rows, active, marked, store, running, viewed, served, process>>,
         process # "down",
         r \in Requests => process = "up",
         r = Main => process = "closing" /\ s = "stop",
         s = "stop" /\ process = "up" => p # viewed
  PROVE  Agreed'
<1>0. /\ call \in [Callers -> Calls] /\ joined' = (joined \/ Joins(s, p)) /\ (crossed => crossed')
      /\ call' = [call EXCEPT ![r] =
                    [at |-> s, project |-> p, engine |-> e, name |-> n, left |-> left]]
      /\ Placed /\ Parted /\ Selected /\ Shown /\ Listed /\ Flagged
  BY DEF Begin, Inv, TypeOK, Calls, Agreed
<1>1. /\ call'[r].at = s /\ call'[r].project = p
      /\ \A q \in Callers : q # r => call'[q] = call[q]
      /\ call[r].at = "none"
  BY <1>0 DEF Busy
<1>2. /\ s \in Stopping => s = "stop"
      /\ s \in Activation => s = "lock"
      /\ "stop" \in Stopping /\ "lock" \in Activation
      /\ "none" \notin Stopping \cup Activation
  BY DEF Stopping, Activation
<1>3. Placed'
  <2>1. Main \in Callers /\ Requests \subseteq Callers /\ Main \notin Requests
    BY LifecycleAssumption DEF Callers
  <2> QED
    BY <1>0, <1>1, <1>2, <2>1 DEF Placed, Busy
<1>4. Parted'
  <2> SUFFICES ASSUME ~joined, ~Joins(s, p) PROVE Parted'
    BY <1>0 DEF Parted
  <2>1. ASSUME NEW a \in Callers, NEW b \in Callers,
               call'[a].at \in Activation, call'[b].at \in Stopping
        PROVE  call'[a].project # call'[b].project
    <3>1. CASE a # r /\ b # r
      BY <1>0, <1>1, <2>1, <3>1 DEF Parted
    <3>2. CASE a = r /\ b # r
      <4>1. call[b].project = p => b \in Others(p)
        BY <1>1, <1>2, <2>1, <3>2 DEF Others, Busy
      <4> QED
        BY <1>1, <1>2, <2>1, <3>2, <4>1 DEF Joins
    <3>3. CASE a # r /\ b = r
      <4>1. call[a].project = p => a \in Others(p)
        BY <1>1, <1>2, <2>1, <3>3 DEF Others, Busy
      <4> QED
        BY <1>1, <1>2, <2>1, <3>3, <4>1 DEF Joins
    <3>4. CASE a = r /\ b = r
      BY <1>1, <1>2, <2>1, <3>4
    <3> QED
      BY <3>1, <3>2, <3>3, <3>4
  <2> QED
    BY <1>0, <1>1, <2>1 DEF Parted
<1>5. Selected'
  BY <1>0, <1>1 DEF Selected, At
<1>6. Shown'
  BY <1>0, <1>1, <1>2 DEF Shown, At, store
<1>7. {q \in Callers : At(q, "list")}' = {q \in Callers : At(q, "list")}
  BY <1>1 DEF At
<1>8. {q \in Callers : At(q, "unmark")}' = {q \in Callers : At(q, "unmark")}
  BY <1>1 DEF At
<1>9. Listed'
  <2>1. \A q \in Callers : At(q, "list") => call'[q] = call[q]
    BY <1>1 DEF At
  <2> QED
    BY <1>0, <1>7, <2>1 DEF Listed, store
<1>10. Flagged'
  <2>1. \A q \in Callers : At(q, "unmark") => call'[q] = call[q]
    BY <1>1 DEF At
  <2>2. joined => joined'
    BY <1>0
  <2> QED
    BY <1>0, <1>8, <2>1, <2>2 DEF Flagged, Running
<1> QED
  BY <1>3, <1>4, <1>5, <1>6, <1>9, <1>10 DEF Agreed

LEMMA DeadAgrees ==
  ASSUME Dead
  PROVE  Agreed'
<1>1. \A r \in Callers : call'[r].at = "none"
  BY DEF Dead, Idle, NoCall
<1>2. process' = "down"
  BY DEF Dead
<1>3. Placed'
  BY <1>1 DEF Placed, Busy, Callers
<1>4. Parted' /\ Selected'
  BY <1>1 DEF Parted, Selected, At, Activation
<1>5. Shown' /\ Listed' /\ Flagged'
  BY <1>2 DEF Shown, Listed, Flagged
<1> QED
  BY <1>3, <1>4, <1>5 DEF Agreed

LEMMA RequestAgrees ==
  ASSUME Inv, Ours, Agreed, NEW r \in Requests,
         \/ \E p \in Projects : Activate(r, p) \/ Stop(r, p)
         \/ Create(r)
         \/ \E n \in Recruits : AddAgent(r, n) \/ RemoveAgent(r, n)
  PROVE  Agreed'
<1>0. r \in Callers /\ ~Busy(r) /\ process = "up" /\ r # Main
  BY LifecycleAssumption DEF Callers, Activate, Stop, Create, AddAgent, RemoveAgent, Request
<1>1. PICK s \in {"lock", "stop", "clone", "insert", "create", "dismiss"} : \E p, e, n, left :
        Begin(r, s, p, e, n, left) /\ (s = "stop" => p # viewed)
  BY DEF Activate, Stop, Create, StartCreation, AddAgent, StartHiring, RemoveAgent
<1>2. PICK p, e, n, left : Begin(r, s, p, e, n, left) /\ (s = "stop" => p # viewed)
  BY <1>1
<1>3. UNCHANGED <<rows, active, marked, store, running, viewed, served, process>>
  BY DEF Activate, Stop, Create, AddAgent, RemoveAgent, database, manager
<1> QED
  BY <1>0, <1>2, <1>3, BeginAgrees

LEMMA StepAgrees ==
  ASSUME Inv, Registered, Agreed, NEW r \in Callers, Step(r)
  PROVE  Agreed'
<1>1. CASE Fail(r) /\ r = Main
  BY <1>1, DeadAgrees DEF Fail
<1>2. CASE ~(Fail(r) /\ r = Main)
  <2>1. Moves(r)
    BY <1>2, StepMoves
  <2>2. Placed' /\ Parted' /\ Selected'
    BY <1>2, <2>1, PlacedStep, PartedStep, SelectedStep DEF Agreed, Registered
  <2>3. Shown' /\ Listed' /\ Flagged'
    BY <1>2, <2>1, <2>2, ShownStep, ListedStep, FlaggedStep DEF Agreed, Registered
  <2> QED
    BY <2>2, <2>3 DEF Agreed
<1> QED
  BY <1>1, <1>2

LEMMA ProcessAgrees ==
  ASSUME Inv, Ours, Agreed, Boot \/ Shutdown \/ StopNext \/ Exit \/ Crash
  PROVE  Agreed'
<1>0. /\ Held /\ call \in [Callers -> Calls] /\ Main \in Callers /\ Main \notin Requests
      /\ Requests \subseteq Callers
      /\ Placed /\ Parted /\ Selected /\ Shown /\ Listed /\ Flagged
  BY LifecycleAssumption DEF Inv, TypeOK, Calls, Callers, Agreed
<1>1. CASE Boot
  <2>1. PICK s \in {"lock", "insert"} : \E q : Begin(Main, s, q, None, None, {})
    BY <1>1 DEF Boot, StartCreation
  <2>2. PICK p : Begin(Main, s, p, None, None, {})
    BY <2>1
  <2>3. /\ call'[Main].at = s /\ \A q \in Callers : q # Main => call'[q].at = "none"
    BY <1>0, <1>1, <2>2 DEF Begin, Boot, Held, Idle, NoCall
  <2>4. process' = "boot" /\ cached' = rows /\ rows' = rows /\ marked' = {}
    BY <1>1 DEF Boot
  <2>5. Placed'
    BY <1>0, <2>3, <2>4 DEF Placed, Busy, Activation, Creation
  <2>6. Parted' /\ Selected' /\ Shown'
    BY <2>3, <2>4 DEF Parted, Selected, Shown, At, Stopping
  <2>7. Listed' /\ Flagged'
    BY <2>3, <2>4 DEF Listed, Flagged, At
  <2> QED
    BY <2>5, <2>6, <2>7 DEF Agreed
<1>2. CASE Shutdown
  <2>1. /\ UNCHANGED <<rows, active, marked, cached, running, call, crossed, joined>>
        /\ process = "up" /\ process' = "closing" /\ \A r \in Requests : ~Busy(r)
    BY <1>2 DEF Shutdown, database, store, manager, history
  <2>2. Placed'
    BY <1>0, <2>1 DEF Placed, Busy
  <2>3. Parted' /\ Selected' /\ Shown'
    BY <1>0, <2>1 DEF Parted, Selected, Shown, At
  <2>4. Listed' /\ Flagged'
    BY <1>0, <2>1 DEF Listed, Flagged, At, Running
  <2> QED
    BY <2>2, <2>3, <2>4 DEF Agreed
<1>3. CASE StopNext
  <2>1. PICK p \in Running : Begin(Main, "stop", p, running[p], None, Staff(running[p]))
    BY <1>3 DEF StopNext
  <2>2. /\ ~Busy(Main) /\ process = "closing"
        /\ UNCHANGED <<rows, active, marked, store, running, viewed, served, process>>
    BY <1>3 DEF StopNext, database, manager
  <2> QED
    BY <1>0, <2>1, <2>2, BeginAgrees
<1>4. CASE Exit \/ Crash
  BY <1>4, DeadAgrees DEF Exit, Crash
<1> QED
  BY <1>1, <1>2, <1>3, <1>4

LEMMA AgreedHolds == Spec => [](Inv /\ Registered /\ Agreed)
<1>1. Init => Agreed
  <2> SUFFICES ASSUME Init PROVE Agreed
    OBVIOUS
  <2>1. process = "down" /\ \A r \in Callers : call[r].at = "none"
    BY DEF Init, Idle, NoCall
  <2>2. Placed
    BY <2>1 DEF Placed, Busy, Callers
  <2>3. Parted /\ Selected /\ Shown /\ Listed /\ Flagged
    BY <2>1 DEF Parted, Selected, Shown, Listed, Flagged, At, Activation
  <2> QED
    BY <2>2, <2>3 DEF Agreed
<1>2. Inv /\ Registered /\ Agreed /\ [Next]_vars => Agreed'
  <2> SUFFICES ASSUME Inv, Registered, Agreed, [Next]_vars PROVE Agreed'
    OBVIOUS
  <2>0. Ours
    BY DEF Registered
  <2>1. CASE Boot \/ Shutdown \/ StopNext \/ Exit \/ Crash
    BY <2>0, <2>1, ProcessAgrees
  <2>2. ASSUME NEW r \in Callers, Step(r) PROVE Agreed'
    BY <2>2, StepAgrees
  <2>3. ASSUME NEW r \in Requests,
               \/ \E p \in Projects : Activate(r, p) \/ Stop(r, p)
               \/ Create(r)
               \/ \E n \in Recruits : AddAgent(r, n) \/ RemoveAgent(r, n)
        PROVE  Agreed'
    BY <2>0, <2>3, RequestAgrees
  <2>4. ASSUME NEW e \in DOMAIN engine, NEW n \in Recruits, Recruit(e, n) PROVE Agreed'
    <3>1. /\ ~Busy(Hirer) /\ Hirer \in Callers /\ Hirer # Main /\ Hirer \notin Requests
          /\ Begin(Hirer, "create", engine[e].project, e, n, {})
          /\ UNCHANGED <<rows, active, marked, store, running, viewed, served, process>>
      BY <2>4, LifecycleAssumption DEF Recruit, StartHiring, database, manager, Callers
    <3>2. process # "down"
      BY <2>4 DEF Inv, Held
    <3> QED
      BY <2>0, <3>1, <3>2, BeginAgrees
  <2>5. CASE UNCHANGED vars
    <3>1. /\ UNCHANGED <<rows, active, marked, cached, activeId, running, viewed, served, call, process,
                         crossed, joined>>
      BY <2>5 DEF vars, database, store, manager, history
    <3>2. Placed' /\ Parted' /\ Selected'
      BY <3>1 DEF Agreed, Placed, Parted, Selected, Busy, At
    <3>3. Shown' /\ Listed' /\ Flagged'
      BY <3>1 DEF Agreed, Shown, Listed, Flagged, At, Running
    <3> QED
      BY <3>2, <3>3 DEF Agreed
  <2> QED
    BY <2>1, <2>2, <2>3, <2>4, <2>5 DEF Next
<1> QED
  BY <1>1, <1>2, RegisteredHolds, PTL DEF Spec

\* Whenever nobody calls, the project viewed is the one shown, running, active and
\* to be resumed; only what runs is flagged; and the cache lists what exists.
THEOREM RestIsCoherent == Spec => []RestAgrees
<1>1. Agreed => RestAgrees
  <2> SUFFICES ASSUME Agreed, AtRest, ~crossed, ~joined PROVE ViewIsServed /\ FlagsAgree
    BY DEF RestAgrees
  <2>1. process = "up" /\ \A r \in Callers : call[r].at = "none"
    BY DEF AtRest, Busy
  <2>2. ViewIsServed
    BY <2>1 DEF Agreed, Shown, ViewIsServed, At
  <2>3. FlagsAgree
    BY <2>1 DEF Agreed, Listed, Flagged, FlagsAgree, At
  <2> QED
    BY <2>2, <2>3
<1> QED
  BY <1>1, AgreedHolds, PTL

=============================================================================
