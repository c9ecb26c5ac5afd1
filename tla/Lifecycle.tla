------------------------------ MODULE Lifecycle ------------------------------
(***************************************************************************)
(* main.py (ProjectLifecycleManager, run) over core/project_store.py, with *)
(* its callers in web/routes/projects.py, and the agents that join or leave*)
(* a running project (web/services/agent_service.py).                      *)
(*                                                                         *)
(* _setup makes an engine: a registry of agents, whose message loops it    *)
(* starts, and a broker. An engine is the position at which it was made. A *)
(* loop is <<e, n, k>>: that of the k-th agent of name n made in engine e. *)
(* `call[r]` is the stage that coroutine r has reached; the awaits between *)
(* two stages let the others run. Activations take their turns under a     *)
(* lock, stops do not.                                                     *)
(***************************************************************************)
EXTENDS Naturals, Sequences, FiniteSets

CONSTANTS
  MaxProjects, \* bound on the ids
  Team,        \* names of the agents of every project
  Recruits,    \* names of agents that may be recruited
  Recruiter,   \* the one of the team who recruits
  MaxRunning,  \* MAX_RUNNING_PROJECTS
  Requests,    \* requests to the routes that may run at once
  Main,        \* run(): boot and shutdown
  Hirer,       \* the loop of a recruiter
  MaxEngines,  \* bound on the set-ups of one process
  MaxEvents,   \* bound on the requests and the ends of the process
  MaxHires,    \* bound on the recruitments that agents begin
  Existing     \* bound on the projects that exist at first

\* No project, no engine, no name.
None == 0

ASSUME LifecycleAssumption ==
  /\ None \notin Team \cup Recruits
  /\ MaxProjects \in Nat \ {0}
  /\ Team \cap Recruits = {} /\ Recruiter \in Team
  /\ Main \notin Requests /\ Hirer \notin Requests /\ Main # Hirer
  /\ MaxRunning \in Nat \ {0} /\ MaxEngines \in Nat
  /\ MaxEvents \in Nat /\ MaxHires \in Nat /\ Existing \in 0..MaxProjects

VARIABLES
  rows,      \* the projects in the database
  active,    \* those with is_active
  marked,    \* those with is_running
  custom,    \* <<p, n>>: custom agent n of project p, in the database
  dirs,      \* projects that have a directory
  cached,    \* ProjectStore._cache
  activeId,  \* ProjectStore._active_project_id
  running,   \* _running_projects: the engine of each project
  viewed,    \* _viewed_project_id
  served,    \* the engine that app.state refers to
  lock,      \* _activate_lock: the holder, then those who wait
  engine,    \* the engines made so far
  loops,     \* the message loops under way
  call,      \* call[r]: where coroutine r is
  process,   \* whether the process runs
  events, hires, \* so far, for the bounds
  crossed,   \* history: a set-up failed midway, calls about one agent overlapped,
             \* or one joined what had been stopped
  joined     \* history: an activation and a stop of one project overlapped

database == <<rows, active, marked, custom, dirs>>
store == <<cached, activeId>>
manager == <<running, viewed, served, lock>>
agents == <<engine, loops>>
bounds == <<events, hires>>
history == <<crossed, joined>>
vars == <<database, store, manager, agents, call, process, bounds, history>>

\* The ids that a name gives, in the order they are tried.
Projects == 1..MaxProjects

Callers == Requests \cup {Main, Hirer}
Names == Team \cup Recruits
Engines == 1..MaxEngines
Loops == Engines \X Names \X {1, 2}

Activation == {"lock", "setup", "start", "mark", "select", "view"}
Stopping == {"stop", "unmark", "unview"}
Creation == {"clone", "insert", "list"}
Recruitment == {"create", "launch", "persist"}
Removal == {"dismiss", "forget"}
Stages == {"none"} \cup Activation \cup Stopping \cup Creation \cup Recruitment \cup Removal

\* left: the loops that are still to be started, or stopped.
NoCall == [at |-> "none", project |-> None, engine |-> None, name |-> None, left |-> {}]

TypeOK ==
  /\ rows \subseteq Projects /\ dirs \subseteq Projects /\ cached \subseteq Projects
  /\ active \subseteq Projects /\ marked \subseteq Projects
  /\ custom \subseteq Projects \X Recruits
  /\ activeId \in Projects \cup {None} /\ viewed \in Projects \cup {None}
  /\ running \in [Projects -> Engines \cup {None}] /\ served \in Engines \cup {None}
  /\ lock \in Seq(Callers)
  /\ engine \in Seq([project: Projects, staff: [Names -> 0..2], broker: BOOLEAN])
  /\ loops \subseteq Loops
  /\ call \in [Callers -> [at: Stages, project: Projects \cup {None},
                           engine: Engines \cup {None}, name: Names \cup {None},
                           left: SUBSET Loops]]
  /\ process \in {"down", "boot", "up", "closing"}
  /\ events \in 0..MaxEvents /\ hires \in 0..MaxHires
  /\ crossed \in BOOLEAN /\ joined \in BOOLEAN

Idle == [r \in Callers |-> NoCall]

\* The first start, or one with projects from before.
Init ==
  /\ rows \in {{}, 1..Existing}
  /\ active \in {{}} \cup {{p} : p \in rows}
  /\ marked = active /\ custom = {} /\ dirs = rows
  /\ cached = {} /\ activeId = None
  /\ running = [p \in Projects |-> None]
  /\ viewed = None /\ served = None /\ lock = <<>>
  /\ engine = <<>> /\ loops = {} /\ call = Idle
  /\ process = "down"
  /\ events = 0 /\ hires = 0 /\ crossed = FALSE /\ joined = FALSE

-----------------------------------------------------------------------------
(* Callers *)

Busy(r) == call[r].at # "none"
At(r, stage) == call[r].at = stage
Go(r, stage) == call' = [call EXCEPT ![r].at = stage]
Running == {p \in Projects : running[p] # None}

Others(p) == {q \in Callers : Busy(q) /\ call[q].project = p}

\* Engine e runs its project, or is being set up to.
Live(e) ==
  \/ running[engine[e].project] = e
  \/ \E r \in Callers : At(r, "start") /\ call[r].engine = e

\* A second stop, a stop of a project while an agent joins or leaves it, two
\* calls that make or remove one agent, or an agent that joins an engine that has
\* been stopped.
Crosses(stage, p, e, n) ==
  \/ stage = "create" /\ ~Live(e)
  \/ \E q \in Others(p) :
       \/ stage = "stop" /\ call[q].at \in Stopping \cup Recruitment \cup Removal
       \/ n # None /\ (call[q].at \in Stopping \/ call[q].name = n)

Joins(stage, p) ==
  \E q \in Others(p) :
    \/ stage = "stop" /\ call[q].at \in Activation
    \/ stage = "lock" /\ call[q].at \in Stopping

Begin(r, stage, p, e, n, left) ==
  /\ call' = [call EXCEPT ![r] = [at |-> stage, project |-> p, engine |-> e,
                                  name |-> n, left |-> left]]
  /\ crossed' = (crossed \/ Crosses(stage, p, e, n))
  /\ joined' = (joined \/ Joins(stage, p))

Request(r) ==
  /\ r \in Requests /\ process = "up" /\ ~Busy(r)
  /\ events < MaxEvents /\ events' = events + 1
  /\ UNCHANGED hires

\* Mutant: the ids, for the agents.
StaffIds(e) == {n \in Names : engine[e].staff[n] # 0}

\* The agents registered in engine e.
Staff(e) == {<<e, n, engine[e].staff[n]>> : n \in {m \in Names : engine[e].staff[m] # 0}}

-----------------------------------------------------------------------------
(* activate_project *)

Activate(r, p) ==
  /\ Request(r)
  /\ p \in cached
  /\ Begin(r, "lock", p, None, None, {})
  /\ lock' = Append(lock, r)
  /\ UNCHANGED <<database, store, running, viewed, served, agents, process>>

\* Leaving `async with self._activate_lock`, by return or by exception.
Release(r) ==
  /\ call' = [call EXCEPT ![r] = NoCall]
  /\ lock' = Tail(lock)

\* Mutant: the limit is looked at as if the new project were counted.
RoomOffByOne == Cardinality(Running) <= MaxRunning

Room == Cardinality(Running) < MaxRunning

Acquire(r) ==
  /\ At(r, "lock") /\ Head(lock) = r
  /\ \/ running[call[r].project] # None /\ Go(r, "select") /\ UNCHANGED lock
     \/ running[call[r].project] = None /\ Room /\ Go(r, "setup") /\ UNCHANGED lock
     \/ running[call[r].project] = None /\ ~Room /\ Release(r)
  /\ UNCHANGED <<database, store, running, viewed, served, agents, process, bounds, history>>

\* The agents of the team structure, and the project's own.
Hired(p) == Team \cup {n \in Recruits : <<p, n>> \in custom}

\* The stores are loaded and the agents made.
SetUp(r) ==
  /\ At(r, "setup") /\ Len(engine) < MaxEngines
  /\ LET p == call[r].project
         e == Len(engine) + 1
     IN
       /\ engine' = Append(engine, [project |-> p, broker |-> FALSE,
            staff |-> [n \in Names |-> IF n \in Hired(p) THEN 1 ELSE 0]])
       /\ call' = [call EXCEPT ![r].at = "start", ![r].engine = e,
                               ![r].left = {<<e, n, 1>> : n \in Hired(p)}]
  /\ UNCHANGED <<database, store, manager, loops, process, bounds, history>>

\* agent.start(), one agent after the other.
StartAgent(r) ==
  /\ At(r, "start")
  /\ \E o \in call[r].left :
       /\ loops' = loops \cup {o}
       /\ call' = [call EXCEPT ![r].left = @ \ {o}]
  /\ UNCHANGED <<database, store, manager, engine, process, bounds, history>>

\* The welcome is delivered; the project runs.
Launch(r) ==
  /\ At(r, "start") /\ call[r].left = {}
  /\ running' = [running EXCEPT ![call[r].project] = call[r].engine]
  /\ engine' = [engine EXCEPT ![call[r].engine].broker = TRUE]
  /\ Go(r, "mark")
  /\ UNCHANGED <<database, store, viewed, served, lock, loops, process, bounds, history>>

MarkRunning(r) ==
  /\ At(r, "mark")
  /\ marked' = marked \cup {call[r].project}
  /\ Go(r, "select")
  /\ UNCHANGED <<rows, active, custom, dirs, store, manager, agents, process, bounds, history>>

\* Mutant: the others stay active.
SelectAnother(r) ==
  /\ At(r, "select")
  /\ active' = active \cup {call[r].project}
  /\ Go(r, "view")
  /\ UNCHANGED <<rows, marked, custom, dirs, store, manager, agents, process, bounds, history>>

\* set_active: deactivate all, activate this one, commit.
Select(r) ==
  /\ At(r, "select")
  /\ active' = {call[r].project}
  /\ Go(r, "view")
  /\ UNCHANGED <<rows, marked, custom, dirs, store, manager, agents, process, bounds, history>>

\* apply_project_state: all of app.state at once.
Applied(p) == IF running[p] = None THEN served ELSE running[p]

\* The project is viewed, and the caller applies its state to the application.
\* If a stop has removed the entry meanwhile, the lookup raises after that.
View(r) ==
  /\ At(r, "view")
  /\ LET p == call[r].project IN
       /\ activeId' = p /\ viewed' = p
       /\ served' = Applied(p)
  /\ Release(r)
  /\ process' = IF r = Main THEN "up" ELSE process
  /\ UNCHANGED <<database, cached, running, agents, bounds, history>>

\* The process is gone, and with it what was in memory.
Dead ==
  /\ cached' = {} /\ activeId' = None
  /\ running' = [p \in Projects |-> None]
  /\ viewed' = None /\ served' = None /\ lock' = <<>>
  /\ engine' = <<>> /\ loops' = {} /\ call' = Idle
  /\ process' = "down" /\ crossed' = FALSE /\ joined' = FALSE

\* Mutant: the lock is released on success only.
FailKeepingLock(r) ==
  /\ r # Main /\ call[r].at \in {"setup", "start", "mark", "select"}
  /\ call' = [call EXCEPT ![r] = NoCall]
  /\ UNCHANGED <<database, store, manager, agents, process, bounds, history>>

\* An await of the activation raises; at the start, that ends the process. The
\* agents that a set-up had started are left to themselves.
Fail(r) ==
  /\ call[r].at \in {"setup", "start", "mark", "select"}
  /\ IF r = Main THEN Dead
     ELSE /\ Release(r)
          /\ crossed' = (crossed \/ At(r, "start"))
          /\ UNCHANGED <<store, running, viewed, served, agents, process, joined>>
  /\ UNCHANGED <<database, bounds>>

-----------------------------------------------------------------------------
(* stop_project *)

\* Mutant: the entry is deleted before its agents have stopped.
StopEntryFirst(r, p) ==
  /\ Request(r)
  /\ running[p] # None /\ viewed # p
  /\ Begin(r, "stop", p, running[p], None, Staff(running[p]))
  /\ running' = [running EXCEPT ![p] = None]
  /\ UNCHANGED <<database, store, viewed, served, lock, agents, process>>

\* The route refuses a project that is viewed now.
Stop(r, p) ==
  /\ Request(r)
  /\ running[p] # None /\ viewed # p
  /\ Begin(r, "stop", p, running[p], None, Staff(running[p]))
  /\ UNCHANGED <<database, store, manager, agents, process>>

\* agent.stop(), one after the other. With the loop of the agent that recruits,
\* its recruitment ends where it is.
StopAgent(r) ==
  /\ At(r, "stop")
  /\ \E o \in call[r].left :
       /\ loops' = loops \ {o}
       /\ LET c == [call EXCEPT ![r].left = @ \ {o}] IN
            call' = IF call[Hirer].engine = o[1] /\ o[2] = Recruiter
                      THEN [c EXCEPT ![Hirer] = NoCall] ELSE c
  /\ UNCHANGED <<database, store, manager, engine, process, bounds, history>>

\* The containers and the broker stop, and the entry is deleted, whichever it is
\* by now; if there is none, that raises.
RemoveEntry(r) ==
  /\ At(r, "stop") /\ call[r].left = {}
  /\ LET p == call[r].project IN
       /\ engine' = [engine EXCEPT ![call[r].engine].broker = FALSE]
       /\ running' = [running EXCEPT ![p] = None]
       /\ call' = [call EXCEPT ![r] = IF running[p] = None THEN NoCall
                                      ELSE [@ EXCEPT !.at = "unmark"]]
  /\ UNCHANGED <<database, store, viewed, served, lock, loops, process, bounds, history>>

UnmarkRunning(r) ==
  /\ At(r, "unmark")
  /\ marked' = marked \ {call[r].project}
  /\ Go(r, "unview")
  /\ UNCHANGED <<rows, active, custom, dirs, store, manager, agents, process, bounds, history>>

Unview(r) ==
  /\ At(r, "unview")
  /\ viewed' = IF viewed = call[r].project THEN None ELSE viewed
  /\ call' = [call EXCEPT ![r] = NoCall]
  /\ UNCHANGED <<database, store, running, served, lock, agents, process, bounds, history>>

-----------------------------------------------------------------------------
(* create_project, always of the same name *)

\* The name gives p, the first id that is not taken.
IsNewId(p, taken) == p \notin taken /\ 1..(p - 1) \subseteq taken

\* A creation that names a repository clones it before the row is written.
StartCreation(r, stage, p) ==
  /\ dirs' = dirs \cup {p}
  /\ Begin(r, stage, p, None, None, {})

Create(r) ==
  /\ Request(r)
  /\ \E p \in Projects, stage \in {"clone", "insert"} :
       IsNewId(p, cached) /\ StartCreation(r, stage, p)
  /\ UNCHANGED <<rows, active, marked, custom, store, manager, agents, process>>

Clone(r) ==
  /\ At(r, "clone")
  /\ \/ Go(r, "insert") /\ UNCHANGED dirs
     \/ /\ dirs' = dirs \ {call[r].project}
        /\ call' = [call EXCEPT ![r] = NoCall]
  /\ UNCHANGED <<rows, active, marked, custom, store, manager, agents, process, bounds, history>>

\* The id is the primary key: a row that is there already is refused.
Insert(r) ==
  /\ At(r, "insert")
  /\ rows' = rows \cup {call[r].project}
  /\ IF call[r].project \in rows THEN call' = [call EXCEPT ![r] = NoCall]
                                ELSE Go(r, "list")
  /\ UNCHANGED <<active, marked, custom, dirs, store, manager, agents, process, bounds, history>>

\* run() goes on to activate the project it made.
List(r) ==
  /\ At(r, "list")
  /\ cached' = cached \cup {call[r].project}
  /\ IF r = Main THEN Go(r, "lock") /\ lock' = Append(lock, r)
     ELSE call' = [call EXCEPT ![r] = NoCall] /\ UNCHANGED lock
  /\ UNCHANGED <<database, activeId, running, viewed, served, agents, process, bounds, history>>

-----------------------------------------------------------------------------
(* create_and_register_agent and remove_agent *)

\* A name that is registered is refused.
StartHiring(r, e, n) ==
  /\ n \in Recruits /\ engine[e].staff[n] = 0
  /\ Begin(r, "create", engine[e].project, e, n, {})

\* The route recruits for the project that app.state shows.
AddAgent(r, n) ==
  /\ Request(r) /\ served # None
  /\ StartHiring(r, served, n)
  /\ UNCHANGED <<database, store, manager, agents, process>>

\* recruit_agent, create_agent: by an agent at work, in any running project.
Recruit(e, n) ==
  /\ ~Busy(Hirer) /\ hires < MaxHires /\ hires' = hires + 1
  /\ \E o \in loops : o[1] = e /\ o[2] = Recruiter
  /\ StartHiring(Hirer, e, n)
  /\ UNCHANGED <<database, store, manager, agents, process, events>>

\* The container is ready and the agent made: it is registered, in place of any
\* that another call has registered meanwhile.
Register(r) ==
  /\ At(r, "create")
  /\ LET e == call[r].engine
         n == call[r].name
         k == IF <<e, n, 1>> \in loops \cup Staff(e) THEN 2 ELSE 1
     IN
       /\ engine' = [engine EXCEPT ![e].staff[n] = k]
       /\ call' = [call EXCEPT ![r].at = "launch", ![r].left = {<<e, n, k>>}]
  /\ UNCHANGED <<database, store, manager, loops, process, bounds, history>>

LaunchRecruit(r) ==
  /\ At(r, "launch")
  /\ loops' = loops \cup call[r].left
  /\ Go(r, "persist")
  /\ UNCHANGED <<database, store, manager, engine, process, bounds, history>>

\* "Persist to project-scoped storage": to the project that is active now.
Persist(r) ==
  /\ At(r, "persist")
  /\ custom' = IF activeId = None THEN custom ELSE custom \cup {<<activeId, call[r].name>>}
  /\ call' = [call EXCEPT ![r] = NoCall]
  /\ UNCHANGED <<rows, active, marked, dirs, store, manager, agents, process, bounds, history>>

RemoveAgent(r, n) ==
  /\ Request(r) /\ served # None
  /\ n \in Recruits /\ engine[served].staff[n] # 0
  /\ Begin(r, "dismiss", engine[served].project, served, n,
           {<<served, n, engine[served].staff[n]>>})
  /\ UNCHANGED <<database, store, manager, agents, process>>

\* Its loop has stopped, and the agent leaves the registry.
Dismiss(r) ==
  /\ At(r, "dismiss")
  /\ loops' = loops \ call[r].left
  /\ engine' = [engine EXCEPT ![call[r].engine].staff[call[r].name] = 0]
  /\ Go(r, "forget")
  /\ UNCHANGED <<database, store, manager, process, bounds, history>>

Forget(r) ==
  /\ At(r, "forget")
  /\ custom' = custom \ {<<activeId, call[r].name>>}
  /\ call' = [call EXCEPT ![r] = NoCall]
  /\ UNCHANGED <<rows, active, marked, dirs, store, manager, agents, process, bounds, history>>

-----------------------------------------------------------------------------
(* run() *)

\* The flags are cleared and the active project is activated; without one, a
\* project is created first.
Boot ==
  /\ process = "down"
  /\ process' = "boot"
  /\ cached' = rows
  /\ marked' = {}
  /\ activeId' = IF active = {} THEN None ELSE CHOOSE p \in active : TRUE
  /\ IF active = {}
       THEN /\ \E p \in Projects : IsNewId(p, rows) /\ StartCreation(Main, "insert", p)
            /\ UNCHANGED lock
       ELSE /\ Begin(Main, "lock", activeId', None, None, {})
            /\ lock' = <<Main>>
            /\ UNCHANGED dirs
  /\ UNCHANGED <<rows, active, custom, running, viewed, served, agents, bounds>>

\* The server stops serving once the requests are answered.
Shutdown ==
  /\ process = "up" /\ \A r \in Requests : ~Busy(r)
  /\ events < MaxEvents /\ events' = events + 1
  /\ process' = "closing"
  /\ UNCHANGED <<database, store, manager, agents, call, hires, history>>

\* stop_all: the projects one after the other, the viewed one too.
StopNext ==
  /\ process = "closing" /\ ~Busy(Main)
  /\ \E p \in Running : Begin(Main, "stop", p, running[p], None, Staff(running[p]))
  /\ UNCHANGED <<database, store, manager, agents, process, bounds>>

Exit ==
  /\ process = "closing" /\ ~Busy(Main) /\ Running = {}
  /\ Dead
  /\ UNCHANGED <<database, bounds>>

Crash ==
  /\ process # "down" /\ events < MaxEvents /\ events' = events + 1
  /\ Dead
  /\ UNCHANGED <<database, hires>>

-----------------------------------------------------------------------------

Step(r) ==
  \/ Acquire(r) \/ SetUp(r) \/ StartAgent(r) \/ Launch(r) \/ MarkRunning(r)
  \/ Select(r) \/ View(r) \/ Fail(r)
  \/ StopAgent(r) \/ RemoveEntry(r) \/ UnmarkRunning(r) \/ Unview(r)
  \/ Clone(r) \/ Insert(r) \/ List(r)
  \/ Register(r) \/ LaunchRecruit(r) \/ Persist(r) \/ Dismiss(r) \/ Forget(r)

Next ==
  \/ Boot \/ Shutdown \/ StopNext \/ Exit \/ Crash
  \/ \E r \in Callers : Step(r)
  \/ \E r \in Requests :
       \/ \E p \in Projects : Activate(r, p) \/ Stop(r, p)
       \/ Create(r)
       \/ \E n \in Recruits : AddAgent(r, n) \/ RemoveAgent(r, n)
  \/ \E e \in DOMAIN engine, n \in Recruits : Recruit(e, n)

Spec == Init /\ [][Next]_vars

\* What a request waits for comes, or fails. Nobody has to make a request, nor to
\* end the process.
FairSpec == Spec /\ \A r \in Requests : WF_vars(Step(r))

-----------------------------------------------------------------------------
(* Properties *)

\* No agent has two message loops over its one inbox, were it in two engines of
\* the project: a stopped project is not set up again before its agents have
\* stopped. Calls that stop a project under another, or make one agent twice,
\* agents that join a stopped engine, and set-ups that fail after the first agent,
\* are the exception.
OneLoop ==
  ~crossed => \A o, u \in loops :
    engine[o[1]].project = engine[u[1]].project /\ o[2] = u[2] => o = u

\* The same without the exceptions, as the refusal of an agent that "already exists" and
\* "Start project if not running" have it. False of the code: of two requests for one
\* agent both pass the check, and a failed set-up leaves the loops it has started.
LoopIsSingle ==
  \A o, u \in loops :
    engine[o[1]].project = engine[u[1]].project /\ o[2] = u[2] => o = u

\* The projects that run are those of RunningProjects: one becomes running only
\* where the limit has room, by an engine that no other has, and none changes its
\* engine without a stop, whatever stops and activations come in between.
Promise == INSTANCE RunningProjects WITH up <- running

KeepsPromise == Promise!Spec

\* With no call under way, the project that is viewed is the one that app.state
\* shows, the one that runs, the one that is active, and the one that a restart
\* would resume; no project is flagged that does not run, and the cache lists what
\* exists.
ViewIsServed ==
  /\ viewed # None
  /\ running[viewed] = served /\ served # None
  /\ active = {viewed} /\ activeId = viewed

FlagsAgree == marked \subseteq Running /\ cached = rows

AtRest == process = "up" /\ \A r \in Callers : ~Busy(r)

RestAgrees == AtRest /\ ~crossed /\ ~joined => ViewIsServed /\ FlagsAgree

\* "Cannot stop the currently viewed project": what is viewed is not stopped. False of
\* the code: it may become the viewed one while it is being stopped.
ViewedRuns == AtRest /\ viewed # None => running[viewed] # None

\* Every request is answered: the lock is passed on, whatever becomes of the
\* activation that holds it.
RequestsEnd == \A r \in Requests : Busy(r) ~> ~Busy(r)

=============================================================================
