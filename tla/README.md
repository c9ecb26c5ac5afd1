# Polyagentic in TLA+

Polyagentic runs a team of LLM agents on a software project: a user talks to a
planner, the planner makes tasks, agents take tasks as messages, work on them
through a model's command line or API, and report back. It is one Python
process on one asyncio loop, over a database (async SQLAlchemy, SQLite by
default) and a directory of message files. Paths below are relative to `src/`.

The code has no tests. What is hard about it is what a single-threaded but
asynchronous program makes hard: a coroutine reads something, awaits the
database or a model, and acts on what it read; most components keep an
in-memory cache in front of their table and differ in which of the two they
write first; the process may be restarted at any await; and a message may reach
its agent twice, late, or not at all. This project models those steps, checks
them with TLC on small instances, and proves the most important results with
TLAPS for all instances.

## 1. The system

### Components, their state and their operations

| Component | State | Operations | What makes it correct |
|---|---|---|---|
| **Task board** `core/task_board.py`, `db/repositories/task_repo.py` | cache of tasks, subtask lists, progress notes; rows of `tasks` and of notes | `create_task`, `update_task` (transition table, privilege, review gate, defaults), `delete_task`, `load` | fields fit the status; cache and row agree; a project task is reviewed before it is done; deletion is final |
| **Session store** `core/session_store.py`, `db/repositories/session_repo.py`, `web/routes/sessions.py` | cached record per agent; row of `agent_sessions` | `set`, `set_state`, `record_request`, `invalidate_session`, `clear_session`; pause, resume, kill, reset routes | a pause or kill, once answered, holds against an agent in the middle of a message; repeated failures stop the agent |
| **Message broker** `core/message_broker.py` | inbox files, activity logs, nudge counts | `deliver`, the poll, nudging, reconciliation, ping-pong filter | a delivered message is taken up; an idle agent with work is helped |
| **Agent loop** `core/agent.py` | queue, remembered ids, status, current task, workingbox | recovery, claim, preparation, work, error and re-authentication paths, `cancel_current_task` | one task at a time per agent, one agent at a time per task |
| **Conversations** `core/conversation_manager.py`, `conversation_repo.py`, routes | cache of active conversations with messages; rows | `start`, `record_message`, `close`, `close_by_agent`, `load` | one conversation per agent; nothing open is hidden; nothing closed stays |
| **Phase board** `core/phase_board.py`, `web/routes/phases.py` | cached phases; rows | `create_phase`, `update_phase`, approve and reject routes | transitions obey the table; cache and row agree; the end of the project is announced |
| **Project lifecycle** `main.py`, `core/project_store.py`, `web/services/agent_service.py` | running projects and their engines, viewed project, activation lock; rows and flags of `projects` | boot, activate, stop, create, clone, shut down; add, recruit, remove an agent | at most N running, each by one engine; one message loop per agent; what is viewed is what is served and resumed |
| **Action registry and actions** `core/actions/` | none of its own | parse, alias, permission, execute | one failing action does not take the rest with it |
| **Providers** `core/providers/` | transcript rows; queued action blocks | `invoke`, tool loop, fallback, change of provider | a resumed transcript is one the API accepts; each queued action is handled once |
| **Subprocess manager** `core/subprocess_manager.py` | current process; shared lock and times of the login check; flags of the hold | `invoke`, `_refresh_auth`, `cancel`, `/sessions/reauth` | one check for all; a cancelled task is not run again; a held agent has the user asked |
| **MCP manager** `core/mcp_manager.py` | rows of servers; agents' configuration files and paths | request, deploy, remove, set-up at start | no file lists a removed server; a deployment that reports success is served |
| **Knowledge base** `core/knowledge_base.py` | index of documents; rows of documents and comments | add, update, delete, comment, dispatch, resolve | the index is the table; a closed review leaves none of its comments open |
| **Memory, prompts** `core/memory_manager.py`, `core/prompt_builder.py` | memory rows and cache, rosters, rendered prompt, prompt hash | save memory, build prompt, resume or re-tell, refresh the roster | a resumed session knows the prompt of now; a saved memory is told |
| **Git manager** `core/git_manager.py` | the shared workspace, worktrees, a lock | checkout, merge, worktrees | a merge goes into its target (git's behaviour) |
| **Configuration, templates, histories, uploads, auth, front end** | settings, logs, files | read and overwrite | no protocol of their own; see `PROJECT.json` for each |

### How they interact

* The **broker** polls each agent's inbox directory and puts what it finds on
  the agent's queue; the **loop** takes it from there. The two share
  `_queued_message_ids`, the agent's status, and the files.
* The loop changes the **task board** before, during and after the work. The
  board answers with a callback (`main.py:288-308`): a task that comes to a
  terminal status cancels the agent whose current task it is, in a scheduled
  coroutine of its own, that is, later.
* **Actions** in a model's answer (`core/actions/`) are calls of the board,
  the broker, the conversation manager and others from inside the loop.
* **Web routes** call the same objects from other coroutines, at any await.
* The loop reads the **session store** before a message (pause gate) and writes
  it after one; routes write it meanwhile.
* **Agents share class attributes**: the lock and the times of the login check
  (`subprocess_manager.py:45-49`), the flag that the user has been asked.
* A **route that changes an agent** (provider, session, login, team, memory)
  does not stop the invocation under way; the loop stores its result afterwards.
* A **project** is a set of such objects, an engine; `app.state` points at the
  viewed one's, so that routes speak to it and agents of the others run on.
* On **start** every cache is loaded from its table, and an agent's recovery
  puts together what files and board say (`core/agent.py:260-350`).

### What is hard

1. *Check, await, act*: the claim of a task (`agent.py:404-436`), the start of
   a conversation (`conversation_manager.py:63-80`), the phase transition.
2. *Cache before row or row before cache*, with two calls overlapping.
3. *Restarts* between two commits, or between a commit and a file.
4. *Duplicates and losses*: poll, nudge, reconciliation, recovery and the hold
   for re-authentication may each queue the same message, and the ping-pong
   filter may drop one.
5. *Early exits* that leave in-memory bookkeeping behind (`continue` outside a
   `try/finally`).
6. *Fairness between an agent's tasks*: does a message get its turn?
7. *State behind a wait*: an installation of two minutes, a model's answer, the
   user's login. What was read before may have changed when they return.
8. *Two actors without a common lock*: activation takes one, stop does not.

`PROJECT.json` lists 40 hazards with their lines; 36 have a property that would
show them going wrong, and say so where it makes an exception; the other four say
why not.

## 2. The modules

| Module | Models | State and actions |
|---|---|---|
| `TaskLifecycle` | the status machine: `TaskStatus`, `VALID_TRANSITIONS`, the review gate | operators only, shared by `TaskBoard` and `Mailbox` |
| `TaskBoard` | the board over its repository | `cache`, `db`, and `call[c]`, the stage of coroutine `c`: `CreateTask`/`CreateRow`/`InsertInCache`, `UpdateTask`/`LoadRow`/`CommitRow`, `DeleteTask`/`DeleteRow`/`DropFromCache`, `WriteFails`, `Restart` |
| `SessionStore` | the store over its repository, the loop's use of it, the routes | `cache`, `row`, `call[p]`, `loop`; history `wish`, `lapsed` (columns whose cached value was late), `mixed` (requests of the user that overlapped): `LoadRow`/`CommitRow`/`ReadBack`/`UpdateCache`; `TakeMessage`, `PassGate`, `BuildPrompt`, `Invoke`, `TimeOut`, `FindStale`, `RecordRequest`, ...; `ChangeState`, `ResetSession`, `Invalidate`; `Restart` |
| `Mailbox` | loop and broker around TASK messages; implements `TaskWork` | files, queue, remembered ids, loop position, agent status, paused sessions: `CreateTask`, `UpdateTask`, `StartTask`, `Deliver`, `Lose`, `Poll`, `Nudge`, `Reconcile`, `Take`, `PassGate`, `ShowPause`, `Pause`, `Resume`, `Guard`, `Reset`, `Prepare`, `Decompose`, `Respond`, `Fail`, `Hold`, `Reauthenticate`, `Finish`, `Cancel`, `Restart` |
| `TaskWork` | abstract: who works on which task, and how tasks move | `Create`, `Move`, `Begin`, `End`, `Down` on `status`, `holder`, `work`, `disputed` |
| `Conversations` | the manager over its repository, agents and routes | `cache`, `log`, `row`, `stored`, `call[c]`: `StartCall`/`FindRow`/`InsertRow`/`Enter`, `CloseByUser`/`CloseByAgent`/`CommitClose`/`Drop`, `Record`/`Store`, `Restart` |
| `PhaseBoard` | the board over its repository, the four gate routes, the agents' two actions | `cache`, `row`, `call[c]`, `told`: `CreatePhase`/`CreateRow`, `Decide`, `AgentUpdate`, `LoadRow`/`CommitRow`, `UpdateCache` (with the message the route writes), `Restart` |
| `RunningProjects` | abstract: the limit on running projects, one engine each | `Start`, `Stop`, `Down` on `up` |
| `Lifecycle` | `main.py`'s lifecycle manager with its routes, and agents that join or leave; implements `RunningProjects` | rows and flags, store, manager, engines and loops, `call[r]`: `Activate`/`Acquire`/`SetUp`/`StartAgent`/`Launch`/`MarkRunning`/`Select`/`View`, `Fail`, `Stop`/`StopAgent`/`RemoveEntry`/`UnmarkRunning`/`Unview`, `Create`/`Clone`/`Insert`/`List`, `AddAgent`/`Recruit`/`Register`/`LaunchRecruit`/`Persist`, `RemoveAgent`/`Dismiss`/`Forget`, `Boot`, `Shutdown`, `StopNext`, `Exit`, `Crash` |
| `Subprocess` | the CLI's invocations, the shared check of its login, the hold and the login route | `call[a]`, `proc`, the lock's queue, the two times, hold and dialog: `Invoke`, `Spawn`, `Exit`, `Timeout`, `Read`, `Lock`, `Check`, `Lapse`, `Cancel`, `Suspend`, `Announce`, `Resume`, `Reauth`, `Login`, `ResumeNext` |
| `Transcript` | the API providers' tool loop over the stored transcript, queued actions, the fallback, a change of provider | rows of each session, the invocation `run`: `Begin`, `Load`, `PersistPrompt`, `Ask`, `CarryOut`, `Conclude`, `CallFails`, `RowFails`, `CliAnswers`, `FallBack`, `Return`, `Switch`, `Invalidate`, `Cut` |
| `McpServers` | the MCP manager over rows and files | one deployment, a request and removals at their awaits: `DeployMcp` ... `DeployDone`, `RequestCapability`/`CreateRequest`, `RemoveServer`/`RemoveRecord`/`RemoveBuild`/`RemoveWrite`, `Recruit`, `Stop`, `Start` |
| `Documents` | the knowledge base, comments and the review tasks | index, rows, comments, tasks, `job[j]`: `Write`, `Remove`, `AddComment`, `DispatchAll`, `TakeUp`, `Respond`, `Execute`, `ResolveComments`/`Settle`/`Review`/`Close`, `Stop`, `Start` |
| `Prompts` | what an agent is told: memory, roster, prompt, hash, session; a command line keeps what a session was told, an API (`ApiAgents`) does not | `job[a]`: `Take`/`Recall`/`Build`/`Drop`/`Reply`/`Store`/`Rehash`/`Mark`, `LookUp`/`Commit` of a memory, `Team`, `Reset`, `RestartProject` |
| `TaskBoardProofs`, `MailboxProofs`, `ConversationsProofs`, `PhaseBoardProofs`, `LifecycleProofs`, `DocumentsProofs` | theorems about the module of that name | |
| `AgentProofs` | theorems about `SessionStore`, `Prompts` and `McpServers`: what an agent leans on | |
| `ProviderProofs` | theorems about `Subprocess` and `Transcript`: what is between an agent and its model | |
| `MC*` | the instances TLC checks | |

One convention runs through them. A coroutine's step ends at an `await` that
really waits (database, model, message, sleep); an `await` of a coroutine that
does not suspend (writing a message file) does not split a step. What a call
still has to do is a record (`call[c]`, `loop[a]`), so that every interleaving
the event loop may choose is one of `Next`. A restart forgets everything in
memory, at any point. Variables called *history* in their declaration are not
in the code: they remember what happened for the properties (two calls
overlapped, a write failed, what the user last asked for) and no action's guard
reads them.

Modules whose theorems share a proof module carry their name in those of their
predicates (`PromptsSpec`, `McpTypeOK`, `TranscriptNext`), so that two of them can
be read in one module; the others have `Spec`, `TypeOK` and `Next`.

The components are joined where they share decisions: `Mailbox` uses
`TaskLifecycle` for every status it sets, the same operators `TaskBoard` sets
its own with, and treats the board as its cache, because every reader in the
loop and the broker reads the cache. The interleavings of a single board call
with its database are `TaskBoard`'s. `Mailbox` has the pause gate, over a set of
paused sessions that the user or a run of errors may change at any time; when the
cache says "paused" is `SessionStore`'s question. `Mailbox` allows any outcome of an
invocation. How an
invocation comes to that outcome is `Subprocess` for the command line and
`Transcript` for the APIs, and what it is told is `Prompts`; each takes from the
others only what an invocation can return. `Lifecycle` makes and ends the engines
in which all of them live: its `Crash` and `Stop` are their restarts.

## 3. What TLC checks

Every run explores its whole state space and passes.

| Run | Instance | Checks |
|---|---|---|
| `task_board` | 1.6M states: 2 tasks, 2 coroutines, 2 updates out of 5 requests | `CacheMatchesRow`, `DeletedStaysDeleted`, `DurableReviewGate` |
| `session_store` | 3.3M: 1 agent, 1 route at a time, 3 messages, 2 requests, 1 restart, threshold 2 | `PauseHolds`, `AutoPauseHolds`, `KillHolds` |
| `mailbox` | 0.66M: 1 agent whose session is paused and resumed at any time, 2 tasks, 2 message ids | `OneInWorkingbox`, `DeliveredIsTakenUp` (liveness) |
| `mailbox_pair` | 1.6M, symmetry: 2 agents of one role, 1 project task, 2 ids, 1 request for a status, an outcome, an assignee or a start, 1 message held for authentication, 1 restart | `WorksAsPromised` (refinement) |
| `conversations` | 0.13M: 1 agent, 2 routes, 2 conversations, 1 message, 1 restart | `StoredIsOpen`, `ClosedLeaves` (liveness) |
| `phase_board` | 0.9M, symmetry: 2 phases, 2 requests and 1 agent at once, 8 updates, 1 restart | `FollowsTable`, `LastCompletionIsTold` |
| `lifecycle` | 0.4M: 3 projects of which 2 may run and 2 exist at first, 2 requests at once, 3 requests or crashes, 3 engines, 1 recruitment by an agent | `OneLoop`, `KeepsPromise` (refinement), `RestAgrees`, `RequestsEnd` (liveness) |
| `subprocess` | 0.33M: 2 agents, one of them with the troubles of its own | `HeldIsAsked`, `CheckIsShared`, `CancelHolds`, `InvocationsEnd` (liveness) |
| `transcript` | 3.0M: 1 agent, 2 messages, 4 sessions, 2 rounds, 1 change of provider, 1 cut | `SentIsAnswered`, `QueuedIsHandled` |
| `mcp` | 2.0M, symmetry: 2 agents, 2 servers, 2 removals at once, 2 deployments, 1 request, 1 stop or crash | `RemovedIsGone`, `DeployedIsServed` |
| `documents` | 1.4M, symmetry: 2 agents, 1 request at a time, 2 documents, 2 comments, 2 tasks, 2 responses, 1 stop or crash | `IndexIsTable`, `ClosedIsAddressed` |
| `prompts` | 4.7M, symmetry: 1 agent id in 2 projects, with a command line in one and an API in the other, 2 saves, 4 saves or events | `ResumedKnowsPrompt`, `MemoryIsTold` |

Each of the modules with a state of its own has its `TypeOK` (`McpTypeOK`,
`PromptsTypeOK`, `TranscriptTypeOK`) checked as well.

### The properties

* **Task board.** `CacheMatchesRow`: once the writes of a task are through, the
  cached task is the row. The repository writes the *difference* to the row it
  loaded, so this says that `setattr`, the keyword filter and the difference
  fit together. `DurableReviewGate` speaks of committed rows, not of requests.
  Both, and `FieldsFitStatus`, set aside tasks with overlapping or failed
  writes: without that proviso they fail (findings 2, 3).
* **Sessions.** `PauseHolds` and `KillHolds` are about the user's view: once
  the route has returned, no message passes the gate (no session from before is
  resumed), whatever `record_request`, `invalidate_session` and the agent's retries
  commit meanwhile. There is one way in which they do not hold, and the properties
  say that it is the only one: a call puts in the cache what the row no longer says.
  `record_request` and `clear_session` do so with a row they read before the pause or
  the kill was committed (findings 6, 7); a `set` or `set_state` that another
  overtook between its commit and its cache does so with its argument. `lapsed` has
  the columns so set, until they are set again; the commit alone, or an overlap that
  ends with the cache at the row, is no excuse. Of two requests of the user
  that overlap (`mixed`) neither is what he asked for last. `AutoPauseHolds` says the
  same of failures in a row: sessions renewed in between do not restart the count.
* **Mailbox.** `OneInWorkingbox` is what the code calls the single-task
  invariant, through decomposition, errors and duplicates; through holds, requests
  and restarts it is proved.
  `WorksAsPromised` is the refinement: `TaskWork` with `holder <- owner` and `work`
  read off the loops. Messages, queues and mood are gone from it; what is left is
  that an agent begins a task nobody else has, works on one at a time, and moves it
  as the table allows when it ends. It excludes two workers of one task (`Alone`,
  hence `OneWorker`; both proved). Its exception, `disputed`, lasts as long as
  somebody works on the task: it was claimed after an await from the agent that had
  it (finding 14), given to another by a request while one worked on it (15), or is
  worked on without any claim (16).
  `DeliveredIsTakenUp` is the liveness of the queue and of the gate: no nudge,
  reconciliation, former pause or other task of the agent keeps a delivered message
  waiting for ever. It stops at an agent whose session is paused, by the user or by
  repeated errors, or that lacks authentication: both are for the user to end.
* **Conversations.** `StoredIsOpen`: whatever overlapped, an active row is
  active in the cache when the agent's calls are over, and no stored message is
  missing that the cache has. `ClosedLeaves`: a marked entry does not stay.
* **Phases.** `FollowsTable` speaks of cache, row, and the step a restart makes
  from one to the other: the check is made against the cache only, and the row
  is ahead of it between commit and return. It sets aside a column two updates of
  which overlapped (`raced`, finding 8). `LastCompletionIsTold`: when two
  completions are under way together, one of them finds no phase left and says so.
* **Lifecycle.** `KeepsPromise` is the refinement: `RunningProjects` with
  `up <- running`. A step of any coroutine, a failure and a crash included, starts
  one project where there is room, on an engine no other has, stops one, or ends
  all. It is the lock that carries it, since the limit is looked at several awaits
  before the entry is made, and stops in between, which take no lock, only make
  room. `OneLoop` relates loops of different engines: an agent of a project that
  stops and starts again never has two loops over one inbox. `RestAgrees`: once
  the calls are over, viewed, served, active and resumed are one project.
  `RequestsEnd`: the lock is passed on, whatever becomes of its holder. `crossed`
  and `joined` name the overlaps under which `OneLoop` and `RestAgrees` fail
  (findings 20, 21, 22).
* **Subprocess.** `CheckIsShared`: those who waited for the lock make use of the
  holder's result. `CancelHolds` lists where a cancellation does not stop the next
  run; every other stage is covered (findings 26, 27 have the rest).
  `HeldIsAsked`: the flag that keeps agents from all asking never keeps the last
  one from asking, but for the window of finding 23 (`muted`).
* **Transcript.** `SentIsAnswered` is what the APIs require of a request, over
  resumption, failures of a call, exhausted rounds and a fallback to another API;
  it does not hold of Gemini's rows (finding 29) and of cut tool loops (33).
  `QueuedIsHandled` relates the list the handler gets with the rows: none twice,
  none of a failed attempt, none missing.
* **MCP servers.** `RemovedIsGone` and `DeployedIsServed` relate table and files
  across overlapping rebuilds; `stale` names three windows in which a file is
  written from rows read before (finding 39), `lost` the deployments of finding 38.
* **Documents.** `IndexIsTable` after any overlap but two updates of one document
  (finding 47). Ids are random, so agents name documents that an index has listed
  (`Heard`); without that guard an update could precede its document's entry. `ClosedIsAddressed` is what completing the task promises.
* **Prompts.** `ResumedKnowsPrompt`: sending a reminder in place of the prompt is
  an optimisation that must not be seen. That is true of the command line, which keeps
  the system prompt with the session; `slipped` marks the two ways it is seen there
  (findings 49, 51). An API is given the system prompt with each call and stores only
  the user's messages, so that its resumed session knows the reminder alone
  (finding 50): `Used` says what a session was told for each kind. `MemoryIsTold`
  holds of both, without exception.

### The exceptions are real

A property with an exception stands in its module beside its form without one. TLC
refutes each of these within half a minute in the instance of the component's run
(put it in the `.cfg` in place of the properties there). They are not runs of the
project: what they show is the finding.

| Component | Form without exception | Says | Finding |
|---|---|---|---|
| Task board | `OverlapsAgree` | overlapping updates leave cache and row alike | 2 |
| | `FailuresAgree` | a failed write leaves them alike | 3 |
| Sessions | `PauseIsObeyed`, `KillIsObeyed` | a pause, or a kill, that has returned is obeyed | 6, 7 |
| Mailbox (`MCMailboxPair`) | `ClaimIsExclusive` | no two agents work on one task | 14, 15 |
| Phases | `TransitionsAreValid` | every change of status is in the table | 8 |
| | `DoneIsTold` | when all phases are done, somebody has been told | 9, 10 |
| Conversations | `OpenHasRow` | what the cache shows open is open in the database | 13 |
| Lifecycle | `ViewedRuns` | at rest, the viewed project runs | 20 |
| | `LoopIsSingle` | no agent has two loops | 20, 21, 22 |
| Subprocess | `HeldAgainIsAsked` | while an agent is held, the user is asked | 23 |
| | `CancelEndsRetries` | a cancelled task is not retried, after a check of the login either | 26 |
| Transcript | `ResumedIsAnswered` | what is sent answers its calls, after a cut as well | 33 |
| MCP servers | `AffectedAreRebuilt` | at rest, no file lists a removed server | 39 |
| Documents | `ClosedIsResolved` | a review task is completed with nothing open | 48 |
| Prompts | `ChangesAreDetected` | a command line's session that is reminded knows the prompt of now | 49, 51 |
| | `ReminderSuffices` | so does an API's | 50 |

Each property that is checked has a mutant in its module, next to the definition it replaces:
a plausible bug of the code (a forgotten key, a dropped guard, an entry marked
and not deleted) under which TLC finds the property violated in the same run.

### Bounds, and why they are enough

Two coroutines are the smallest number that overlap, and overlap is pairwise
here: a call interferes with another through one row and one cache entry. A
third matters only where an outcome needs a bystander: the `MultipleResultsFound`
of a conversation is met by a third caller, so `MCConversations` has three (one
agent, two routes). Two updates of one task suffice for every order of two
loads and two commits. One restart is enough, since all state after it comes from
the database and files, which any history before it could have produced.
Two message ids per mailbox give a duplicate or a competitor; ids are reused
when nothing mentions them, so the number of messages over a run is not
bounded. `MaxQueue` bounds only the copies made by the hold for
re-authentication, which the code does not bound. The two instances of `Mailbox`
divide the work: liveness takes one agent, a second task that competes with the
first, and pauses without limit, but no requests, restart or hold; exclusion takes
two agents and one task, with one of each of those. What only two agents with two
tasks each meet, the late claim, is in the proofs. Sessions of different agents
are independent, so one agent stands for all; two requests of the user at once are
in the proofs alone. A phase takes four updates from
its creation to its completion, so eight let both be completed, in every order
and at once; the planner's requests are a submission with its document, a
document alone, a request for review, and a completion past the user.

`lifecycle`: three projects are one more than may run; two requests at once are a
stop beside an activation, or two of either; three events allow activating,
stopping and activating again, or a crash in between, and a third engine is the
first that reuses a project's inboxes. `subprocess`: two agents are a holder of
the lock and one who waits; `Troubled` confines hanging processes, lost sessions,
corrections and closed tasks to one of them, which halves the square of the
stages; one login at a time. `transcript`: two messages make one resumed
session, four ids let both be opened anew by first and fallback; two rounds are one
with tools and the last. `mcp`: three ids let a removed row's id be given again;
two removals may be of one server or two. `documents`: two comments are
one left open and one resolved; the responses are a creation, an update of what was
created, an update with a resolution, each comment alone, and a resolution on the
other document. `prompts`:
four events are two saves by both projects with a change of team and a restart,
which is what both slips need; an agent of each kind of provider; only the shared kind of memory is in the instance,
as the other has a key of its own for each agent. Each was chosen as the smallest
at which the module's mutants are found and its exceptions are needed.

### Fairness

`Mailbox!Fairness` is weak fairness of the broker's poll of each message, of
reconciliation, of scheduled cancellations and of each agent's loop: the broker
is a loop over all agents with a sleep (`message_broker.py:84-108`), the agent's
loop waits on its queue, and asyncio runs every ready task. It includes that a
model's invocation returns, which its timeout ensures (`agent.py:1060`). Nothing is
assumed of users, senders, nudges, restarts or errors, nor of a re-authentication or
a resumed session, which is why `DeliveredIsTakenUp` stops at an agent that waits
for one of these.
`Conversations!Fairness` is that a call waiting for the database goes on.
Nobody has to start, speak or close. `Lifecycle!FairSpec` is weak fairness of each
request's next step: what it awaits comes or raises, and `asyncio.Lock` is
first come, first served, as the queue `lock` is. Neither the boot nor an agent's
recruitment is fair. `Subprocess!FairSpec` is the same for each agent's coroutine:
`communicate()` has a timeout (`subprocess_manager.py:240`), the check has its own,
and nobody has to log in.

## 4. What is proved

TLAPS proves the following for all values of the constants: any number of
agents, tasks, messages, callers, requests and restarts. It assumes only the
named `ASSUME`s (the special values are distinct from ordinary ones, bounds are
natural numbers, requests are well-formed), and TLC evaluates these in every
run.

**`TaskBoardProofs`**

* `TypeCorrect`: `Spec => []TypeOK`.
* `FieldsFit`, `CacheAgrees`, `ReviewGateIsDurable`: `FieldsFitStatus` (the
  reviewer, outcome and summary a status requires; proved only, not run),
  `CacheMatchesRow` and `DurableReviewGate`. None is inductive alone. The
  invariant `Agreement` says for each task whose writes neither overlapped nor
  failed where its one writer is: between `setattr` and commit, the row plus the
  keywords that are still on their way is the cache, and a loaded row is still
  the row. The lemma that carries it is `ChangedSuffices` (writing only the
  columns that differ has the effect of writing all of them), and `OneTaskSteps`
  says that a step of one caller leaves the other tasks alone.
* `SubtasksAreThere` (`SubtasksExist`, proved only), `DeletionIsFinal`: from the invariant `Registry`, which
  relates for each task whether it has a row, is cached, was deleted, and which
  calls on it are at which stage. No proviso on overlap: these hold throughout.

**`MailboxProofs`**

* `TypeCorrect`, `WorkingboxIsSingle`: `TypeOK` and `OneInWorkingbox`, from `Inv`,
  which adds `Addressed` (a message anywhere is for a task that exists, and lies with
  the agent it is for).
* `WorkIsPromised`: `WorksAsPromised`, that is, `Spec` implements `TaskWork!Spec`.
  Each action is shown to be one of `TaskWork`'s or to leave its variables alone
  (`StepIsWork`): a request, whatever it asks for and whomever it gives the task to,
  is a `Move` (`RequestMoves`), a claim, at once or late, a `Begin` (`ClaimBegins`),
  the reset of a stale task a `Move`, an answer, a rejection, an error, a hold, a
  decomposition or a cancellation an `End` (`WorkEnds`, `UpdateEnds`). It takes
  `Addressed`: only because ids in a loop are in use does a delivery, a nudge or a
  reconciliation not change whose task an agent works on. `AllowedIsOpen` is what the
  table says of a claim.
* `PromiseExcludes`: `TaskWork` alone has no two workers of an undisputed task
  (`Alone`), from `HasIt`: whoever works on one has it, and it has one holder.
* `TaskHasOneWorker`: `OneWorker`, from these two. So it does not depend on how the
  loop is written, only on its being a `TaskWork`; and it says no more than that: the
  three ways in which a task becomes disputed are ways in which two agents do come to
  work on it (findings 14 to 16).

**`ConversationsProofs`**

* `TypeCorrect`, `NothingOpenIsHidden`: `TypeOK` and `StoredIsOpen`, from `Base`,
  which holds whatever overlaps: a call past the insert is about a row of its
  agent, a row without an entry is in the hands of a start that will enter it or
  of a close that will close it (`OpenSomewhere`), and a message that is only in
  the log is about to be stored (`LogIsWritten`). The point is that every
  "neither here nor there" has a call that is responsible for it.
* `CacheAgrees`: `OpenIsStored` (proved only), from `Orderly`, kept for an agent as long as its
  starts overlap nothing: a start is then alone (`StartsAlone`), so the lookup
  in the database finds nothing (`NothingFound`) and what it inserts is the only
  active row. This is exactly the assumption `start` makes and does not ensure
  (finding 11).

**`PhaseBoardProofs`**

* `TypeCorrect`, `CacheAgrees`, `TableIsFollowed`: `TypeOK`, `CacheMatchesRow`
  (per column; proved only) and `FollowsTable`, from `Inv`. Agreement at rest is not inductive; `Orderly`
  says, of a column whose updates never overlapped, that at most one call sets it
  and how far that call has come (`Progress`): until its commit cache and row
  agree and what it will write is the difference, after it the row has the
  keyword, and all the while the keyword is one the table allows from the cached
  status. `WritesOwn` (a commit leaves alone what its call does not set) is why
  updates of different columns may overlap, and a restart in `Progress`'s last
  stage is the one step by which the cache moves without a call.
* `CompletionIsTold`: `LastCompletionIsTold`. Added to `Inv` is `ByUser`: as long as
  nobody passed the gates, a call that completes a phase is the review route's. The
  route that puts the last completion into the cache then looks for the current
  phase and finds none (`CurrentIs`); that the phase with the least number exists
  while any is left (`LeastNumber`) is the well-foundedness of the numbers.

**`LifecycleProofs`**

* `TypeCorrect`: `TypeOK` of `Lifecycle`, from `Referred` (calls are about projects,
  engines and agents there are) and `Held` (a caller inside `async with
  self._activate_lock` is the head of the queue, one that waits is in it).
* `PromiseIsKept`: `KeepsPromise`, that is, `Spec` implements
  `RunningProjects!Spec` under `up <- running`. A step maps to a start, a stop, the
  end of all, or a stutter (`StepIsPromised`); the start needs `Kept`, that the room
  found under the lock and the fresh engine are there when the entry is made. `Kept`
  rests on `Held`: only the holder adds an entry, and whoever has no lock (`Quiet`)
  can only take entries away (`RoomStays`).
* `LoopIsAlone`: `OneLoop`. A property of pairs of loops becomes inductive as one of
  single loops: every loop belongs to an engine that is live, and is the loop that
  engine's registry names for its agent (`Sound`, in `Single`). A live engine is in
  `running` or is being set up by the holder of the lock, and `Ours` and `Kept` leave
  each project one such. `Does` says what a call that starts, stops or joins agents
  still has in hand, and `Apart` that no two such calls are about one agent.
* `RestIsCoherent`: `RestAgrees`, from `Agreed`, which says for each pair of the
  state's copies which call explains a difference: a row not listed is a creation's
  (`Listed`), a flag without an entry a stop's (`Flagged`), an active row that is not
  viewed an activation's between its two awaits (`Selected`, `Shown`).

**`AgentProofs`: `SessionStore`**

* `TypeCorrect`: `TypeOK`, with `Placed`, the store's methods the loop can be in at
  each of its points.
* `PauseIsKept`, `AutoPauseIsKept`, `KillIsKept`: `PauseHolds`, `AutoPauseHolds` and
  `KillHolds`, from `AsAsked`. Calls of the loop and of the routes may overlap in any
  way; what carries the proof is that only the user's calls set a state that is not
  the row's or a pause at the threshold, and that they either follow each other
  (`UserApart`) or are `mixed`. `WishReaches` follows the last request from its load
  to the cache. `PauseGranted` and `KillGranted` say that what the user asked for is
  in the row, and that the cache has it as well unless it is `lapsed`: a row read
  before another's commit was put there. Those are the only steps that can take a
  pause or a kill from the loop, and the theorems say so (findings 6 and 7 say that
  they do). `Counted` says that the failures in the row are at least those in a row,
  and that an agent with too many is paused, `CachedPause` that this reaches the cache
  with the request that is being recorded. `Emptied` is the point where the loop drops
  a killed session, `CachedKill` what the cache has of it until then.

**`AgentProofs`: `Prompts`**

* `PromptsTypeCorrect`: `PromptsTypeOK`, with `JobsOK`, what the record of a message
  has at each of its stages.
* `MemoriesAreTold`: `MemoryIsTold`, from `Carried`: the memory there was when a message
  was taken up is at most the one in the row, and, from the read on, at most the one
  that is carried into the message or the prompt. It needs `Numbered`, that saves grow
  (a save never brings an older number back, and two rows stay two), and that
  nobody but the agent itself moves its job (`OthersUntouched`).
* `RemindersSuffice`: `ResumedKnowsPrompt`, for the agents with a command line (of an
  API it is false, finding 50), from `Consistent`, which says at each
  stage which prompts agree: at rest both copies of the hash are that of the prompt
  the session was told; between the storing of a session and of its hash, that the
  session was told the prompt that was sent; while a prompt is built, that the text it
  was built from is the agent's, or the job is marked as moved. Without the stages in
  between, a `Team` change or a save between two awaits is not an inductive step.

**`AgentProofs`: `McpServers`**

* `McpTypeCorrect`: `McpTypeOK`. That a new row's id is no other's (`NewIdIsNew`) rests
  on a finite set of numbers having a greatest (`GreatestNumber`), by well-foundedness.
* `RemovalsReachFiles`: `RemovedIsGone`, which is inductive per agent (`Settled`) with
  `Listed`: a removal that is writing an agent's file still has the agent on its list.
  Whoever writes a file from the rows of now settles it, and whoever does not marks it
  (`WriteSettles`).
* `DeploymentsAreServed`: `DeployedIsServed`, from `Kept`: what each stage of
  `deploy_to_container` has achieved stays achieved. From the installation on the row
  serves the agent, from the build on the read contains the server, from the write on
  the file does; every other actor is shown to leave that, or to set `lost` or `stale`
  (`KeptStays`, `Rewritten`). `Directed` says that the deployment's agent is there.

**`ProviderProofs`: `Subprocess`**

* `TypeCorrect`: `TypeOK`. `ChecksAreShared`: `CheckIsShared`, from `Checker`: only
  the head of the lock's queue is at the check (`TailIs` is what its release does to
  the queue). `CancelsHold`: `CancelHolds`, with `Awake`: the flag of a cancelled task
  does not outlive its message.
* `HeldAreAsked`: `HeldIsAsked`, from `Noticed`: while the flag stands the user is
  asked, and nobody is held without it; while a login is handed out there is no flag,
  and whoever is held is still to be looked at. It stops being true in the step of
  finding 23, and only there, which is `muted`.

**`ProviderProofs`: `Transcript`**

* `TranscriptTypeCorrect`: `TranscriptTypeOK`, from `TranscriptTyped` (rows and loop
  have their types) and `Room`: an invocation that may still open a session has an id
  left for it, and one that is in the loop has a round left.
* `TranscriptsAnswer`: `SentIsAnswered`. What is sent is the list in memory, so the
  invariant first says that it is the stored transcript (`Recorded`), then that every
  stored transcript answers its calls (`Transcribed`): all of them outside a tool loop,
  all but those of the last batch, of which the first `done` have a result in order,
  inside (`AnsweredSoFar`). An answer must follow at its own distance from its call
  (`AnsweredAt`), so that a row appended later cannot disturb it (`AnsweredAtStays`).
* `QueuedActionsAreHandled`: `QueuedIsHandled`, from `PutAside`: while the loop runs, the
  blocks are the actions queued since the last prompt, one position of the transcript
  each. It is stated by positions (`Lists`) rather than as the selection of a
  sequence, since the latter is defined by recursion, about which nothing can be
  proved here; the two agree, as the order and the coverage of the positions fix
  the list.

**`DocumentsProofs`**

* `TypeCorrect`: `TypeOK`, from `Typed`, its parts and what refers to what.
* `IndexAgrees`: `IndexIsTable`. The invariant `Index` accounts for each difference
  between index and table: a row without an entry is in the hands of the addition
  that will append it (`Entered`, and `Entering`: nobody else is upon it yet), an entry
  without a row in those of a deletion that will strike it out (`Struck`, `Gone`), and
  an entry older than its row in those of an update that will replace it by the row
  as it is (`Replaced`, `Fetched`).
* `ReviewsAreComplete`: `ClosedIsAddressed`, from `Closing`: between the look at what
  is left and the end of the task, the comments it was dispatched with are closed but
  for those reopened since. It needs `Gathered`, that what is about to be dispatched
  lies on the task's document, for every response and overlap.

Only model-checked: liveness (`DeliveredIsTakenUp`, `ClosedLeaves`, `RequestsEnd`,
`InvocationsEnd`), which is out of the provers' reach under fairness. Every invariant,
action property and refinement that a run checks is a theorem. A theorem about a
property with an exception is as strong as the property: it says that nothing but
the exception undoes it, and section 3 that the exception does.
The invariants of the proofs were checked with TLC, or found by it to be needed,
before they were proved.

Three attempts failed for a reason and changed a module. `OneLoop` is not true of an
agent added to a project that is viewed though it has been stopped: finding 20 has
it, `crossed` now includes it. The index is not the table if an update may name a
document that is still to be entered: `Documents` has `Heard`. And its versions
had been given a range that holds on small instances only: they are natural numbers.

## 5. Findings

Where the code and what it says of itself disagree, or what it does cannot be
meant. They were met while the modules were written; each is in `PROJECT.json`
with its lines and quotations, in this order. A named exception of a property is one
of these, but for two, which are no faults: `mixed` of `SessionStore` (of two requests
that overlap, nobody can say which the user meant) and `crossed` of `Documents` (a
request that goes on over a restart of its project speaks to the index of before).

1. The board's page calls itself a privileged caller and is not
   (`TaskBoard!WebUpdate` is refused like any other).
2. Overlapping updates of a task may leave the older status in the database,
   which a restart brings back (`overlapped` in `CacheMatchesRow`).
3. An update whose write fails stays in the cache (`failed` in `CacheMatchesRow`).
4. A kill stays in the row and repeats itself.
5. An invocation that ends after a reset undoes it.
6. A pause that has returned is wiped from the cache by a row read before it, and the
   agent takes the next message (`lapsed` in `PauseHolds`, `AutoPauseHolds`).
7. So is a kill, and the killed session is resumed (`lapsed` in `KillHolds`).
8. An approval and a rejection of one plan that overlap both pass the check
   (`raced` in `FollowsTable`).
9. An agent's `update_phase` may pass the user's gates, and then nobody is told
   (`silent` in `LastCompletionIsTold`).
10. A stop between the commit of a decision and its message: nobody is told
    (`silent` in `LastCompletionIsTold`).
11. Two starts make two conversations, after which the lookup raises.
12. The summary that the user's close asks for finds no conversation to belong to,
    or closes the next one.
13. A start that overlaps a close shows the closed conversation as open.
14. A late claim takes a task from the agent that has it (`disputed` in `TaskWork`).
15. A task given to another agent is worked on by both (`disputed`).
16. A task cancelled while its message is queued is worked on (`disputed`).
17. An agent that skips a claimed task stays WORKING with a remembered id, and no
    helper looks at it.
18. A recruit is stored with the project that is viewed, not the one it joined.
19. The start clears the flags it says it resumes from.
20. A project that is activated while it is being stopped is viewed and then torn
    down (`joined` in `RestAgrees`). An agent added to it joins a dead engine, and its
    loop outlives the next activation (`crossed` in `OneLoop`).
21. Two stops, or a set-up that fails midway, leave loops nobody ends (`crossed`).
22. Two requests for an agent of one name start two loops (`crossed`).
23. A login clears the flag before it hides the dialog, and hides a new one
    (`muted` in `HeldIsAsked`).
24. A login resumes the agents of the viewed project only.
25. An answer that mentions a failed login is taken for one.
26. A cancellation during the check or the spawn of a process has no effect
    (`CancelHolds`).
27. A process that timed out runs on, and can no longer be cancelled.
28. Within 30 minutes of a success an expired login is not noticed by the check.
29. Gemini's results carry no id, and a resumed transcript has calls without answers
    (`Untagged` in `SentIsAnswered`).
30. The sum of the costs of both attempts raises when one has none.
31. Actions the model was told are queued are dropped when the API fails later.
32. An answer that returns after a change of provider stores the other's session.
33. A stop, or a failed write, in the middle of a tool loop leaves a session no API
    accepts (`torn` in `SentIsAnswered`).
34. The configuration written for a container is read by nobody.
35. A server may have several rows, of which any is taken.
36. A path stays on the agent when its file is deleted.
37. A failed installation for one agent takes the server from another.
38. A deployment whose row was removed reports success, or updates another server
    (`lost` in `DeployedIsServed`).
39. A file may be written from rows read before a removal, or not rebuilt after it
    (`stale` in `RemovedIsGone` and `DeployedIsServed`).
40. An unverified edit is flagged nowhere.
41. An edit counts as made before it is.
42. Resolving comments completes whatever task is current.
43. Two dispatches make two tasks for the same comments.
44. Two resolutions of one comment: the later text wins.
45. Comments of a deleted document stay.
46. Edits of a document mirrored from a repository are never seen.
47. Two updates of one document may leave the older entry (`overlap` in `IndexIsTable`).
48. A review task is completed over a comment reopened meanwhile (`reopened` in
    `ClosedIsAddressed`).
49. The hash that is stored is not that of the prompt that was sent (`slipped` in
    `ResumedKnowsPrompt`).
50. A resumed session of an API provider has the reminder and no system prompt
    (`ApiAgents` in `ResumedKnowsPrompt`).
51. A stale hash survives a reset and a crash (`slipped`).
52. Two first saves of a shared memory make two rows, after which every read raises.
53. Only some agents' personality reaches its template.

## 6. What is left out, and why

* *Data no decision reads*: titles, descriptions, notes' text, labels, costs,
  timestamps other than "set or not", prompt hashes, messages' wording.
* *In `Mailbox`*: messages of other types than TASK, the memory nudge, review
  messages, changes of a task's category and role, the deletion of tasks (a message
  about a task the board does not know is not modelled), demo pause, the count of
  nudges and the escalation after three. The ping-pong
  filter appears as the possibility that a message is dropped. A scheduled
  cancellation may run arbitrarily late. A session's state is
  paused or not; what a kill does to it is `SessionStore`'s.
* *In `SessionStore`*: failures of the database; in the checked instance, more than
  one route at a time. What of a user's requests that overlap is the later is not
  asked.
* *In `Conversations`*: failures of the database, titles and goals, the storing
  of a summary as a document. Delivering a message to an agent is atomic, as it
  is in the code.
* *In `PhaseBoard`*: failures of the database; phases of one ordering number are
  taken in any order; the planning and the review document are one column.
  `Restart` cuts a request off before its message, which `silent` remembers.
* *In `Lifecycle`*: the directory's content, renaming, the stores a set-up loads
  (their modules do), the demo. Ids stand for the names they are made from.
* *In `Subprocess`*: arguments, output formats, `docker exec` (only the command
  differs). Text-only invocations of memory nudges and summaries are not agents'
  messages and are left out; one login request at a time, and the front end's cancel
  of the dialog (`web/static/js/app.js:360`), after which the flag stands and nobody
  is asked until the next login.
* *In `Transcript`*: what a file tool does, wire formats beyond the ids of calls
  and results, costs (finding 30 is about them). Sessions opened by text-only
  invocations are never resumed and are left out.
* *In `McpServers`*: values of environment variables, sessions of the agents that
  a deployment invalidates, the copy of a file in a container (finding 34), the
  registry search.
* *In `Documents`*: whether an edit is verified (findings 40, 41), the text of a
  resolution, documents mirrored from a repository (46).
* *In `Prompts`*: the sections on tasks, documents and servers, read without an
  await; truncation; the sync of a personality to its template (53).
* *Whole components*: `git` (what a command does is git's own behaviour, which the
  source does not show), docker's start and stop, configuration, authentication,
  uploads, logs, the migration from files (sequential, at most once), the
  extraction of actions from text, the front end. They are I/O, parsing,
  presentation, or records overwritten by one user; `components` in `PROJECT.json`
  has each.
* *Coverage*: the map covers 31% of the source's lines. A third of the rest is
  routes that only read, schemas, and the front door; another is the text of prompts
  and the formatting of messages.

## 7. Plan

Done: every module of section 2 is checked, and what its runs check is proved, but
for liveness.

Left, in this order:

1. `Mailbox`: the agents' review requests and replies, which are messages of their
   own, so that finding 16's sibling, responses dropped after a cancellation, gets a
   property; the ping-pong filter as a count.
2. `TaskWork` over the task board's calls: `TaskBoard` splits an update at its awaits,
   `Mailbox` takes it as one step. A refinement of both would say when that is sound.
3. `Documents`: documents mirrored from a repository; `McpServers`: the copy of a
   configuration in a container.

Runs and properties stay few: a new one replaces the one that says least.

## 8. Running

    tlc -workers 2 -config MCTaskBoard.cfg MCTaskBoard.tla
    tlc -workers 2 -config MCMailboxPair.cfg MCMailbox.tla
    tlapm TaskBoardProofs.tla

`PROJECT.json` lists every run with its module and configuration, every mutant,
and for each definition the lines of the source it models.
