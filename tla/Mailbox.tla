------------------------------ MODULE Mailbox ------------------------------
(***************************************************************************)
(* How a task reaches an agent and comes back: core/agent.py (message loop *)
(* and recovery) and core/message_broker.py (delivery, polling, nudging,   *)
(* reconciliation) around the statuses of the task board.                  *)
(*                                                                         *)
(* A TASK message is a file in the agent's inbox, later in its workingbox. *)
(* The broker's poll puts the message on the agent's in-memory queue and   *)
(* remembers its id, so as not to queue it twice; the loop takes it from   *)
(* there. A step below is what a coroutine does between two awaits at      *)
(* which it really waits: for the database, for the model, for a message.  *)
(* The board is taken as its cache, which every reader here reads.         *)
(* Whether a session is paused is taken as the cache of SessionStore says  *)
(* it, which the loop asks; here it is paused and resumed at any time.     *)
(***************************************************************************)
EXTENDS TaskLifecycle, Naturals, Sequences, FiniteSets, SequencesExt, Functions

CONSTANTS
  Agents,      \* agents, all of one role
  Sessions,    \* those that keep a session, which can be paused (use_session)
  Tasks,       \* task ids
  Messages,    \* message ids; one that nothing mentions any more is used again
  Assignments, \* whom a new task may be assigned to, None for the whole role
  ProjectTasks,\* tasks of category "project"; the others are operational
  Requested,   \* statuses that users and agents ask for, beside the one the task has
  MaxRequests, \* bound on those requests
  MaxRestarts, \* bound on the restarts of the process
  MaxQueue,    \* bound on the queue that a message held for authentication joins
  None         \* Python's None

ASSUME MailboxAssumption ==
  /\ IsFiniteSet(Messages)
  /\ None \notin Agents \cup Tasks \cup Messages
  /\ Sessions \subseteq Agents
  /\ Assignments \subseteq Agents \cup {None}
  /\ ProjectTasks \subseteq Tasks
  /\ Requested \subseteq Status
  /\ MaxRequests \in Nat /\ MaxRestarts \in Nat /\ MaxQueue \in Nat

VARIABLES
  status,    \* status[t]: on the board, or "absent"
  owner,     \* owner[t]: task.assignee
  approved,  \* tasks with scope_approved
  outgoing,  \* <<a, t>>: a message for a about t that its sender holds
  body,      \* body[m]: the recipient and the task of message m
  file,      \* file[m]: the directory m is in; "none" once in the outbox
  queue,     \* queue[a]: message_queue
  queued,    \* queued[a]: _queued_message_ids
  loop,      \* loop[a]: where the message loop is, and with which message
  mood,      \* mood[a]: agent.status
  current,   \* current[a]: current_task_id
  cancelled, \* agents with _task_cancelled
  calls,     \* agents a scheduled cancel_current_task is about to run for
  paused,    \* agents whose session is paused
  requests, restarts, \* so far, for the bounds
  disputed   \* history: tasks claimed late from another agent, worked on unclaimed,
             \* or given to another agent while one worked on them, until nobody does

board == <<status, owner, approved>>
files == <<body, file>>
inMemory == <<queue, queued>>
agent == <<loop, mood, current, cancelled>>
bounds == <<requests, restarts>>
vars == <<board, outgoing, files, inMemory, agent, calls, paused, bounds, disputed>>

Terminal == {"done", "cancelled"}

Points == {"idle", "gate", "revive", "guard", "reset", "prepare", "decompose", "work",
           "hold", "finish"}
Moods == {"idle", "working", "error", "pending_reauth", "session_paused"}
Idle == [at |-> "idle", msg |-> None]

TypeOK ==
  /\ status \in [Tasks -> Status \cup {"absent"}]
  /\ owner \in [Tasks -> Agents \cup {None}]
  /\ approved \subseteq Tasks
  /\ outgoing \subseteq Agents \X Tasks
  /\ body \in [Messages -> [to: Agents, task: Tasks] \cup {None}]
  /\ file \in [Messages -> {"none", "inbox", "workingbox"}]
  /\ queue \in [Agents -> Seq(Messages)]
  /\ queued \in [Agents -> SUBSET Messages]
  /\ loop \in [Agents -> [at: Points, msg: Messages \cup {None}]]
  /\ mood \in [Agents -> Moods]
  /\ current \in [Agents -> Tasks \cup {None}]
  /\ cancelled \subseteq Agents /\ calls \subseteq Agents /\ paused \subseteq Sessions
  /\ requests \in 0..MaxRequests /\ restarts \in 0..MaxRestarts
  /\ disputed \subseteq Tasks

Init ==
  /\ status = [t \in Tasks |-> "absent"]
  /\ owner = [t \in Tasks |-> None]
  /\ approved = {} /\ outgoing = {}
  /\ body = [m \in Messages |-> None]
  /\ file = [m \in Messages |-> "none"]
  /\ queue = [a \in Agents |-> <<>>]
  /\ queued = [a \in Agents |-> {}]
  /\ loop = [a \in Agents |-> Idle]
  /\ mood = [a \in Agents |-> "idle"]
  /\ current = [a \in Agents |-> None]
  /\ cancelled = {} /\ calls = {} /\ paused = {}
  /\ requests = 0 /\ restarts = 0
  /\ disputed = {}

-----------------------------------------------------------------------------
(* The board                                                               *)

\* The status that update_task leaves a task in when it grants s: a project task
\* that is in progress is reviewed before it is done.
Granted(t, s, outcome) ==
  StatusAfter(status[t], s,
              IF t \in ProjectTasks THEN "project" ELSE "operational", outcome)

\* The agents whose current task is t, which comes to r: the callback that ends
\* update_task has them cancelled if that is a terminal status.
Stopped(t, r) == {a \in Agents : current[a] = t /\ r \in Terminal}

\* A granted update.
Grant(t, s, outcome) ==
  /\ status' = [status EXCEPT ![t] = Granted(t, s, outcome)]
  /\ calls' = calls \cup Stopped(t, Granted(t, s, outcome))

\* update_task(t, status=s) by an agent without privilege, which the table binds.
Update(t, s, outcome) ==
  IF Allowed(status[t], s) THEN Grant(t, s, outcome) ELSE UNCHANGED <<status, calls>>

\* get_workable_tasks
Workable(a, t) == \/ status[t] \in {"pending", "in_progress"} /\ owner[t] = a
                  \/ status[t] = "pending" /\ owner[t] = None

-----------------------------------------------------------------------------
(* Messages                                                                *)

\* An id nothing mentions; new ids are drawn at random.
Unused == {m \in Messages :
  /\ file[m] = "none"
  /\ \A a \in Agents : m \notin queued[a] /\ m \notin Range(queue[a])
                       /\ loop[a].msg # m}

FilesOf(a) == {m \in Messages : file[m] # "none" /\ body[m].to = a}
Working(a) == {m \in FilesOf(a) : file[m] = "workingbox"}
Inbox(a)   == {m \in FilesOf(a) : file[m] = "inbox"}

\* A task of which the agent has a message in its directories.
HasFile(a, t) == \E m \in FilesOf(a) : body[m].task = t

WriteInbox(m, a, t) ==
  /\ body' = [body EXCEPT ![m] = [to |-> a, task |-> t]]
  /\ file' = [file EXCEPT ![m] = "inbox"]

Put(q, m) == Append(q, m)

\* Mutant: the id remembered is that of the parent message, and there is none.
EnqueueByParent(a, m) ==
  /\ queue' = [queue EXCEPT ![a] = Put(@, m)]
  /\ queued' = [queued EXCEPT ![a] = @ \cup {None}]

Enqueue(a, m) ==
  /\ queue' = [queue EXCEPT ![a] = Put(@, m)]
  /\ queued' = [queued EXCEPT ![a] = @ \cup {m}]

-----------------------------------------------------------------------------
(* Creating and assigning tasks: delegate and assign_ticket, or a route.   *)

\* The task is on the board; its message is with the sender still.
CreateTask(t, o, a) ==
  /\ status[t] = "absent"
  /\ o \in {a, None}
  /\ status' = [status EXCEPT ![t] = "pending"]
  /\ owner' = [owner EXCEPT ![t] = o]
  /\ outgoing' = outgoing \cup {<<a, t>>}
  /\ UNCHANGED <<approved, files, inMemory, agent, calls, paused, bounds, disputed>>

Deliver(a, t) ==
  /\ <<a, t>> \in outgoing
  /\ outgoing' = outgoing \ {<<a, t>>}
  /\ \E m \in Unused : WriteInbox(m, a, t)
  /\ UNCHANGED <<board, inMemory, agent, calls, paused, bounds, disputed>>

\* The sender was cancelled before it delivered, the ping-pong filter drops
\* the message, or writing the file fails.
Lose(a, t) ==
  /\ <<a, t>> \in outgoing
  /\ outgoing' = outgoing \ {<<a, t>>}
  /\ UNCHANGED <<board, files, inMemory, agent, calls, paused, bounds, disputed>>

\* What an agent works on, after a message about it.
Task(a) == body[loop[a].msg].task
Work(a) == IF loop[a].at \in {"prepare", "decompose", "work"} THEN Task(a) ELSE None

\* The task becomes o's, whoever works on it: the board's callback stops nobody.
Assign(t, o) ==
  /\ owner' = [owner EXCEPT ![t] = o]
  /\ disputed' = IF o # owner[t] /\ \E a \in Agents \ {o} : Work(a) = t
                   THEN disputed \cup {t} ELSE disputed

\* What is disputed still when a stops working.
Disputed(a) == {t \in disputed : \E b \in Agents \ {a} : Work(b) = t}

Request == requests < MaxRequests /\ requests' = requests + 1

\* A user (the route) or an agent at work (the action) asks for a status, an
\* assignee, an outcome or the approval of the scope. The table does not bind the
\* callers with privilege; a request that it refuses changes nothing. An agent
\* that is sent a pause_task asks for "paused" in the same way.
UpdateTask(t, s, o, outcome) ==
  /\ status[t] # "absent" /\ Request
  /\ Grant(t, s, outcome)
  /\ Assign(t, o)
  /\ approved' \in {approved, approved \cup {t}, approved \ {t}}
  /\ UNCHANGED <<outgoing, files, inMemory, agent, paused, restarts>>

\* start_task: whatever its status, the task is a's, and a is sent a message about
\* it; a revision that the reviewer asks for is sent to the assignee alike.
StartTask(t, a) ==
  /\ status[t] # "absent" /\ Request
  /\ Grant(t, status[t], None)
  /\ Assign(t, a)
  /\ outgoing' = outgoing \cup {<<a, t>>}
  /\ UNCHANGED <<approved, files, inMemory, agent, paused, restarts>>

\* cancel_current_task, which the board's callback scheduled.
Cancel(a) ==
  /\ a \in calls
  /\ calls' = calls \ {a}
  /\ cancelled' = IF current[a] # None THEN cancelled \cup {a} ELSE cancelled
  /\ UNCHANGED <<board, outgoing, files, inMemory, loop, mood, current, paused, bounds, disputed>>

-----------------------------------------------------------------------------
(* The broker                                                              *)

\* _poll_directory, for one file.
Poll(m) ==
  /\ file[m] # "none"
  /\ LET a == body[m].to IN
       /\ m \notin queued[a]
       /\ IF status[body[m].task] \in Terminal
            THEN file' = [file EXCEPT ![m] = "none"] /\ UNCHANGED inMemory
            ELSE Enqueue(a, m) /\ UNCHANGED file
  /\ UNCHANGED <<board, outgoing, body, agent, calls, paused, bounds, disputed>>

\* New messages for the given tasks of a, all into the inbox.
Synthesize(a, ids) ==
  /\ body' = [m \in Messages |-> IF m \in DOMAIN ids THEN [to |-> a, task |-> ids[m]]
                                 ELSE body[m]]
  /\ file' = [m \in Messages |-> IF m \in DOMAIN ids THEN "inbox" ELSE file[m]]

Orphans(a) == {t \in Tasks : status[t] = "pending" /\ Workable(a, t) /\ ~HasFile(a, t)}

\* _reconcile_orphaned_tasks, for one agent.
Reconcile(a) ==
  /\ queued[a] = {} /\ Orphans(a) # {}
  /\ \E M \in SUBSET Unused : \E ids \in Bijection(M, Orphans(a)) :
       Synthesize(a, ids)
  /\ UNCHANGED <<board, outgoing, inMemory, agent, calls, paused, bounds, disputed>>

Active(a) == {t \in Tasks : Workable(a, t)}

\* _nudge_idle_agents, for one agent: the workingbox again, or one task of the
\* inbox again, or a new message for an active task. Its count of nudges, and
\* the escalation after three, only say when it stops.
Nudge(a) ==
  /\ mood[a] = "idle" /\ queue[a] = <<>> /\ Active(a) # {}
  /\ \/ \E m \in Working(a) : Enqueue(a, m) /\ UNCHANGED files
     \/ /\ Working(a) = {}
        /\ \E m \in Inbox(a) : Enqueue(a, m) /\ UNCHANGED files
     \/ /\ FilesOf(a) = {}
        /\ \E t \in Active(a), m \in Unused : WriteInbox(m, a, t) /\ Enqueue(a, m)
  /\ UNCHANGED <<board, outgoing, agent, calls, paused, bounds, disputed>>

-----------------------------------------------------------------------------
(* The agent's message loop                                                *)

At(a, point) == loop[a].at = point
Go(a, point) == loop' = [loop EXCEPT ![a].at = point]

\* `continue` outside the try: none of the clean-up in `finally`.
Skip(a) == loop' = [loop EXCEPT ![a] = Idle]

\* The agent sets to work on message m.
Start(a, m) ==
  /\ loop' = [loop EXCEPT ![a] = [at |-> "guard", msg |-> m]]
  /\ current' = [current EXCEPT ![a] = body[m].task]
  /\ mood' = [mood EXCEPT ![a] = "working"]

\* The agent has taken m off its queue, and waits with it.
Wait(a, m, point, shown) ==
  /\ loop' = [loop EXCEPT ![a] = [at |-> point, msg |-> m]]
  /\ mood' = [mood EXCEPT ![a] = shown]
  /\ UNCHANGED current

\* The next message is started, unless the session is paused: then it is held at
\* the gate. A session that was killed is invalidated first.
Take(a) ==
  /\ At(a, "idle") /\ queue[a] # <<>>
  /\ LET m == Head(queue[a]) IN
       \/ a \notin paused /\ Start(a, m)
       \/ a \in paused /\ Wait(a, m, "gate", "session_paused")
       \/ a \in Sessions \ paused /\ Wait(a, m, "revive", mood[a])
  /\ queue' = [queue EXCEPT ![a] = Tail(@)]
  /\ UNCHANGED <<board, outgoing, files, queued, cancelled, calls, paused, bounds, disputed>>

\* Mutant: what the agent shows is asked, not the session.
PassGateShown(a) ==
  /\ \/ At(a, "gate") /\ mood[a] # "session_paused"
     \/ At(a, "revive")
  /\ Start(a, loop[a].msg)
  /\ UNCHANGED <<board, outgoing, files, inMemory, cancelled, calls, paused, bounds, disputed>>

\* The session is not paused, or no longer; once past the gate it is not asked again.
PassGate(a) ==
  /\ \/ /\ At(a, "gate") /\ a \notin paused
        /\ Start(a, loop[a].msg) \/ (Go(a, "revive") /\ UNCHANGED <<current, mood>>)
     \/ At(a, "revive") /\ Start(a, loop[a].msg)
  /\ UNCHANGED <<board, outgoing, files, inMemory, cancelled, calls, paused, bounds, disputed>>

\* Without a message for a second, the agent shows whether its session is paused.
ShowPause(a) ==
  /\ At(a, "idle") /\ queue[a] = <<>>
  /\ (a \in paused) # (mood[a] = "session_paused")
  /\ mood' = [mood EXCEPT ![a] = IF a \in paused THEN "session_paused" ELSE "idle"]
  /\ UNCHANGED <<board, outgoing, files, inMemory, loop, current, cancelled, calls, paused,
                 bounds, disputed>>

\* By the user, or by record_request at the threshold of errors in a row.
Pause(a) ==
  /\ a \in Sessions \ paused
  /\ paused' = paused \cup {a}
  /\ UNCHANGED <<board, outgoing, files, inMemory, agent, calls, bounds, disputed>>

\* By the user, who has to.
Resume(a) ==
  /\ a \in paused
  /\ paused' = paused \ {a}
  /\ UNCHANGED <<board, outgoing, files, inMemory, agent, calls, bounds, disputed>>

\* Mutant: the message joins what is in the workingbox.
ToWorkingboxBeside(a, m) == file' = [file EXCEPT ![m] = "workingbox"]

\* _move_task_to_workingbox: unless it is there, the message replaces whatever
\* is; it is written anew if the inbox has lost it.
ToWorkingbox(a, m) ==
  file' = [n \in Messages |-> IF n = m THEN "workingbox"
                              ELSE IF file[m] # "workingbox" /\ n \in Working(a)
                                THEN "none" ELSE file[n]]

\* The agent's other tasks in progress: it picked up a different one.
Stale(a) == {t \in Tasks \ {Task(a)} : owner[t] = a /\ status[t] = "in_progress"}

\* The task is the agent's now, whosever it was.
ClaimTask(a) ==
  LET t == Task(a)
      granted == Allowed(status[t], "in_progress")
  IN
    /\ status' = [status EXCEPT ![t] = IF granted THEN "in_progress" ELSE @]
    /\ owner' = [owner EXCEPT ![t] = IF granted THEN a ELSE @]
    /\ Go(a, "prepare")
    /\ UNCHANGED calls

\* After an await, the guard is not looked at again: the task may have become
\* another agent's, or closed, since.
ClaimLate(a) ==
  /\ ClaimTask(a)
  /\ disputed' = IF owner[Task(a)] \in {a, None} /\ owner'[Task(a)] = a
                   THEN disputed ELSE disputed \cup {Task(a)}

\* One of the stale tasks goes back to pending, and the database is awaited.
ResetStale(a) ==
  /\ \E t \in Stale(a) : Update(t, "pending", None)
  /\ Go(a, "reset")
  /\ UNCHANGED <<owner, disputed>>

\* In progress already, or closed: nothing to claim.
WorkUnclaimed(a) ==
  /\ ToWorkingbox(a, loop[a].msg)
  /\ Go(a, "work")
  /\ disputed' = IF owner[Task(a)] = None THEN disputed \cup {Task(a)} ELSE disputed
  /\ UNCHANGED <<status, owner, calls>>

\* Mutant: whoever takes the message works on the task.
GuardUnowned(a) ==
  /\ At(a, "guard")
  /\ IF status[Task(a)] \in {"draft", "pending", "paused", "in_progress"}
       THEN ClaimTask(a) /\ UNCHANGED <<file, disputed>>
       ELSE WorkUnclaimed(a)
  /\ UNCHANGED <<approved, outgoing, body, inMemory, mood, current, cancelled, paused, bounds>>

\* "skip if task was already claimed by another agent", else claim the task,
\* unless there is nothing to claim.
Guard(a) ==
  /\ At(a, "guard")
  /\ LET t == Task(a)
         m == loop[a].msg
     IN
       \/ /\ owner[t] \notin {a, None}
          /\ file' = [file EXCEPT ![m] = "none"]
          /\ Skip(a)
          /\ UNCHANGED <<status, owner, calls, disputed>>
       \/ /\ owner[t] \in {a, None}
          /\ status[t] \in {"draft", "pending", "paused"}
          /\ IF Stale(a) = {} THEN ClaimTask(a) /\ UNCHANGED disputed ELSE ResetStale(a)
          /\ UNCHANGED file
       \/ /\ owner[t] \in {a, None}
          /\ status[t] \notin {"draft", "pending", "paused"}
          /\ WorkUnclaimed(a)
  /\ UNCHANGED <<approved, outgoing, body, inMemory, mood, current, cancelled, paused, bounds>>

\* The next stale task is reset, or the task is claimed.
Reset(a) ==
  /\ At(a, "reset")
  /\ IF Stale(a) = {} THEN ClaimLate(a) ELSE ResetStale(a)
  /\ UNCHANGED <<approved, outgoing, files, inMemory, mood, current, cancelled, paused, bounds>>

\* A model invocation lets a scheduled cancellation run before it returns.
Invoked(a) == a \notin calls

\* Cancelled or decomposed while preparing: idle again, and `continue`.
GiveUp(a) ==
  /\ Skip(a)
  /\ mood' = [mood EXCEPT ![a] = "idle"]
  /\ current' = [current EXCEPT ![a] = None]
  /\ cancelled' = cancelled \ {a}
  /\ disputed' = Disputed(a)

\* _run_scope_analysis and _run_planning_phase.
Prepare(a) ==
  /\ At(a, "prepare") /\ Invoked(a)
  /\ \/ /\ a \in cancelled
        /\ GiveUp(a)
        /\ UNCHANGED <<board, outgoing, file, calls>>
     \/ /\ a \notin cancelled
        /\ ToWorkingbox(a, loop[a].msg)
        /\ Go(a, "work")
        /\ approved' \in {approved, approved \cup {Task(a)}}
        /\ UNCHANGED <<status, owner, outgoing, mood, current, cancelled, calls, disputed>>
     \/ \E s \in Tasks :
        /\ Task(a) \notin approved /\ status[s] = "absent"
        /\ status' = [status EXCEPT ![s] = "pending"]
        /\ owner' = [owner EXCEPT ![s] = a]
        /\ approved' = approved \cup {s}
        /\ outgoing' = outgoing \cup {<<a, s>>}
        /\ Go(a, "decompose")
        /\ UNCHANGED <<file, mood, current, cancelled, calls, disputed>>
  /\ UNCHANGED <<body, inMemory, paused, bounds>>

\* The decomposed task is rejected; its subtasks' messages are sent, and by then the
\* cancellation of the agent itself, if it was called for, has run.
Decompose(a) ==
  /\ At(a, "decompose")
  /\ LET t == Task(a)
         granted == Allowed(status[t], "done")
     IN
       /\ status' = [status EXCEPT ![t] = IF granted THEN "done" ELSE @]
       /\ calls' = calls \cup IF granted THEN Stopped(t, "done") \ {a} ELSE {}
  /\ GiveUp(a)
  /\ UNCHANGED <<owner, approved, outgoing, files, inMemory, paused, bounds>>

\* The model has answered and the actions in its answer are done. What is left
\* to do about the task: return it to pending after an error or for want of
\* actions, leave it in progress while a conversation is active, or close it.
\* After two time-outs the task is too large: it is rejected, whatever its status.
Respond(a) ==
  /\ At(a, "work") /\ Invoked(a)
  /\ \/ UNCHANGED <<status, calls>>
     \/ /\ a \notin cancelled /\ status[Task(a)] = "in_progress"
        /\ \E s \in {"pending", "done"} : Update(Task(a), s, None)
     \/ a \notin cancelled /\ Update(Task(a), "done", "rejected")
  /\ Go(a, "finish")
  /\ disputed' = Disputed(a)
  /\ UNCHANGED <<owner, approved, outgoing, files, inMemory, mood, current, cancelled,
                 paused, bounds>>

\* process_message raises: the message goes back to the inbox with the task.
Fail(a) ==
  /\ At(a, "work") /\ Invoked(a) /\ a \notin cancelled
  /\ mood' = [mood EXCEPT ![a] = "error"]
  /\ IF status[Task(a)] = "in_progress"
       THEN /\ Update(Task(a), "pending", None)
            /\ file' = [file EXCEPT ![loop[a].msg] =
                          IF @ = "workingbox" THEN "inbox" ELSE @]
       ELSE UNCHANGED <<status, calls, file>>
  /\ Go(a, "finish")
  /\ disputed' = Disputed(a)
  /\ UNCHANGED <<owner, approved, outgoing, body, inMemory, current, cancelled, paused, bounds>>

\* Authentication has expired: the message is queued once more for later, its id
\* is forgotten when the hold ends, and the poll queues its file again as well.
Hold(a) ==
  /\ At(a, "work") /\ Invoked(a) /\ a \notin cancelled
  /\ Len(queue[a]) < MaxQueue
  /\ mood' = [mood EXCEPT ![a] = "pending_reauth"]
  /\ queue' = [queue EXCEPT ![a] = Put(@, loop[a].msg)]
  /\ Go(a, "hold")
  /\ disputed' = Disputed(a)
  /\ UNCHANGED <<board, outgoing, files, queued, current, cancelled, calls, paused, bounds>>

\* The reauth route.
Reauthenticate(a) ==
  /\ mood[a] = "pending_reauth"
  /\ mood' = [mood EXCEPT ![a] = "idle"]
  /\ UNCHANGED <<board, outgoing, files, inMemory, loop, current, cancelled, calls,
                 paused, bounds, disputed>>

\* The `finally` block.
Finish(a) ==
  /\ At(a, "finish") \/ (At(a, "hold") /\ mood[a] # "pending_reauth")
  /\ LET m == loop[a].msg IN
       /\ file' = [file EXCEPT ![m] =
                     IF @ = "workingbox" /\ status[Task(a)] # "in_progress"
                       THEN "none" ELSE @]
       /\ queued' = [queued EXCEPT ![a] = @ \ {m}]
  /\ Skip(a)
  /\ cancelled' = cancelled \ {a}
  /\ current' = [current EXCEPT ![a] = None]
  /\ mood' = [mood EXCEPT ![a] = IF a \in paused THEN "session_paused"
                                  ELSE IF @ = "error" THEN @ ELSE "idle"]
  /\ UNCHANGED <<board, outgoing, body, queue, calls, paused, bounds, disputed>>

-----------------------------------------------------------------------------
(* The process stops and starts again: what was in memory is gone, and each*)
(* agent queues its files, then a new message for every pending task that  *)
(* it has none for. Before that, paused sessions are made active.          *)

\* The files that are kept: those of closed tasks go to the outbox.
Kept == [m \in Messages |->
  IF file[m] # "none" /\ status[body[m].task] \in Terminal THEN "none" ELSE file[m]]

KeptIn(a, directory) == {m \in Messages : Kept[m] = directory /\ body[m].to = a}

\* The pending tasks without a message, each with an agent that may work on it.
Lost == {p \in Agents \X Tasks : p[2] \in Orphans(p[1])}

\* The queue of a: the workingbox, the inbox, then the new messages ids, each in
\* any order.
NewFor(a, ids) == {m \in DOMAIN ids : ids[m][1] = a}

Recovered(a, ids) ==
  {q[1] \o q[2] \o q[3] : q \in SetToSeqs(KeptIn(a, "workingbox"))
                               \X SetToSeqs(KeptIn(a, "inbox")) \X SetToSeqs(NewFor(a, ids))}

Recover(ids) ==
  /\ body' = [m \in Messages |->
       IF m \in DOMAIN ids THEN [to |-> ids[m][1], task |-> ids[m][2]] ELSE body[m]]
  /\ file' = [m \in Messages |-> IF m \in DOMAIN ids THEN "inbox" ELSE Kept[m]]
  /\ queue' \in [Agents -> UNION {Recovered(a, ids) : a \in Agents}]
  /\ \A a \in Agents : queue'[a] \in Recovered(a, ids)
  /\ queued' = [a \in Agents |-> KeptIn(a, "workingbox") \cup KeptIn(a, "inbox")
                                   \cup NewFor(a, ids)]

Restart ==
  /\ restarts < MaxRestarts /\ restarts' = restarts + 1
  /\ \E M \in SUBSET {m \in Messages : Kept[m] = "none"} :
       \E ids \in Bijection(M, Lost) : Recover(ids)
  /\ loop' = [a \in Agents |-> Idle]
  /\ mood' = [a \in Agents |-> "idle"]
  /\ current' = [a \in Agents |-> None]
  /\ cancelled' = {} /\ calls' = {} /\ outgoing' = {} /\ paused' = {}
  /\ disputed' = {}
  /\ UNCHANGED <<board, requests>>

-----------------------------------------------------------------------------

LoopStep(a) ==
  \/ Take(a) \/ PassGate(a) \/ ShowPause(a) \/ Guard(a) \/ Reset(a)
  \/ Prepare(a) \/ Decompose(a) \/ Respond(a) \/ Fail(a) \/ Hold(a) \/ Finish(a)

Next ==
  \/ \E t \in Tasks, o \in Assignments, a \in Agents : CreateTask(t, o, a)
  \/ \E a \in Agents, t \in Tasks : Deliver(a, t) \/ Lose(a, t)
  \/ \E t \in Tasks, o \in Agents \cup {None}, outcome \in {None, "rejected"} :
       \E s \in Requested \cup {status[t]} : UpdateTask(t, s, o, outcome)
  \/ \E t \in Tasks, a \in Agents : StartTask(t, a)
  \/ \E a \in Agents : Cancel(a) \/ Reconcile(a) \/ Nudge(a) \/ Pause(a) \/ Resume(a)
  \/ \E m \in Messages : Poll(m)
  \/ \E a \in Agents : LoopStep(a) \/ Reauthenticate(a)
  \/ Restart

Spec == Init /\ [][Next]_vars

\* The broker polls and reconciles for as long as it runs, a scheduled callback
\* runs, and the loop goes on whenever it can: the model's answer has a time
\* limit. Nobody has to assign, to deliver, to nudge, to reauthenticate or to resume.
Fairness ==
  /\ \A m \in Messages : WF_vars(Poll(m))
  /\ \A a \in Agents : WF_vars(Reconcile(a)) /\ WF_vars(Cancel(a)) /\ WF_vars(LoopStep(a))

FairSpec == Spec /\ Fairness

-----------------------------------------------------------------------------
(* Properties *)

\* "enforce single-task invariant": an agent's workingbox holds one message at
\* the most, through retries, duplicates, nudges and restarts.
OneInWorkingbox == \A a \in Agents : \A m, n \in Working(a) : m = n

\* The agents that work on t for a message about it.
Workers(t) == {a \in Agents : loop[a].at \in {"prepare", "decompose", "work"} /\ Task(a) = t
                              /\ status[t] = "in_progress"}

\* No task in progress is worked on by two agents, though both of a role may
\* hold a message for it; tasks that somebody worked on unclaimed, claimed after an
\* await from the agent that had it, or gave to another while one worked on it, are
\* the exception for as long as somebody works on them.
OneWorker == \A t \in Tasks \ disputed : \A a, b \in Workers(t) : a = b

\* "Guard: skip if task was already claimed by another agent": nobody works on a task
\* in progress beside another, disputed or not. False of the code.
ClaimIsExclusive == \A t \in Tasks : \A a, b \in Workers(t) : a = b

works == [a \in Agents |-> Work(a)]

Promise == INSTANCE TaskWork WITH holder <- owner, work <- works

\* Whatever is queued twice, lost, late, cancelled, reassigned or paused, and however
\* the process is restarted, an undisputed task is worked on by the agent that has it
\* and by no other, and its work begins and ends as TaskWork says.
WorksAsPromised == Promise!Spec

\* Message m lies in the inbox, and is on its way: yet to be queued, on the queue, or
\* taken off it and held.
Waiting(m) == LET a == body[m].to IN
  /\ file[m] = "inbox"
  /\ \/ m \notin queued[a] \/ m \in Range(queue[a])
     \/ loop[a].msg = m /\ loop[a].at \in {"gate", "revive"}

\* The loop of the agent it is for has let it pass the gate.
HasTurn(m) == LET l == loop[body[m].to] IN
  l.msg = m /\ l.at \notin {"idle", "gate", "revive"}

\* A message that waits gets its turn, whatever the agent's other tasks do and however
\* often its session was paused before, unless authentication is lacking or the session
\* is paused: either is for the user to end.
DeliveredIsTakenUp ==
  \A m \in Messages :
    Waiting(m) ~> (\/ file[m] = "none" \/ HasTurn(m)
                   \/ mood[body[m].to] = "pending_reauth" \/ body[m].to \in paused)

=============================================================================
