----------------------------- MODULE TaskBoard -----------------------------
(***************************************************************************)
(* core/task_board.py over db/repositories/task_repo.py: an in-memory      *)
(* cache of the tasks in front of a database.                              *)
(*                                                                         *)
(* update_task changes the cached task at once, in the synchronous part of *)
(* the coroutine, and only then awaits the database write; create_task and *)
(* delete_task touch the database first and the cache when the await       *)
(* returns. Every await lets other coroutines run, so a call is split here *)
(* at its awaits: `call[c]` is what coroutine c still has to do. The       *)
(* repository's update is itself two database operations, a SELECT that    *)
(* loads the row and a COMMIT that writes the columns whose new value      *)
(* differs from the loaded one.                                            *)
(***************************************************************************)
EXTENDS TaskLifecycle, Naturals, FiniteSets

CONSTANTS
  Tasks,        \* task identifiers
  Callers,      \* coroutines that may be inside the board at once
  Agents,       \* agent ids that emit task actions
  Privileged,   \* ids whose invalid transitions are let through
  WebUser,      \* id the web routes pass as _agent_id
  DefaultReviewer, \* "jerry"
  Requests,     \* the update requests the callers make
  MaxUpdates,   \* bound on the calls of update_task
  None,         \* Python's None
  Absent,       \* a keyword that a call does not pass
  NoTask        \* no such task (in the cache) or row (in the database)

Outcome  == {"approved", "rejected", "complete"}
Category == {"operational", "project"}
Reviewer == Agents \cup {DefaultReviewer}

\* The fields of a task that the board itself reads or writes. started and
\* completed say whether started_at and completed_at are set; notes counts
\* the progress notes. title, labels, priority and the like only pass through.
Durable ==
  [ status: Status, category: Category, outcome: Outcome \cup {None},
    reviewer: Reviewer \cup {None}, started: BOOLEAN, completed: BOOLEAN ]

\* What a caller passes to update_task. An "unknown" status is any string
\* that is no TaskStatus.
Request ==
  [ status: Status \cup {"unknown", Absent}, category: Category \cup {Absent},
    outcome: Outcome \cup {Absent}, reviewer: Reviewer \cup {Absent},
    note: BOOLEAN ]

\* The keywords update_task hands on to the repository.
Keywords ==
  [ status: Status \cup {Absent}, category: Category \cup {Absent},
    outcome: Outcome \cup {None, Absent}, reviewer: Reviewer \cup {Absent},
    started: {TRUE, Absent}, completed: {TRUE, Absent} ]

ASSUME TaskBoardAssumption ==
  /\ Requests \subseteq Request
  /\ MaxUpdates \in Nat
  /\ None \notin Outcome \cup Reviewer \cup Tasks
  /\ Absent \notin Outcome \cup Reviewer \cup Status \cup Category \cup {"unknown"}
  /\ Absent # None /\ Absent \notin BOOLEAN
  /\ NoTask \notin Tasks \cup Durable

VARIABLES
  cache,     \* cache[t]: the fields of the cached task, or NoTask
  parent,    \* parent[t]: parent_task_id, fixed when t is created
  subtasks,  \* subtasks[t]: Task.subtasks, kept in the cache only
  notes,     \* notes[t]: progress notes of the cached task
  db,        \* db[t]: the row of the tasks table, or NoTask
  dbNotes,   \* dbNotes[t]: rows of task_progress_notes for t
  call,      \* call[c]: what coroutine c has yet to do
  overlapped, \* history: tasks that two writes were under way for at once
  failed,    \* history: tasks that a write failed for
  deleted,   \* history: tasks whose row was deleted
  updates    \* calls of update_task so far, for the bound

history == <<overlapped, failed, deleted, updates>>

vars == <<cache, parent, subtasks, notes, db, dbNotes, call, overlapped, failed,
          deleted, updates>>

Idle == [op |-> "idle"]

Call ==
  {Idle}
    \cup [op: {"create", "insert"}, task: Tasks, row: Durable]
    \cup [op: {"load"}, task: Tasks, kw: Keywords, note: BOOLEAN]
    \cup [op: {"commit"}, task: Tasks, kw: Keywords, note: BOOLEAN,
          loaded: Durable]
    \cup [op: {"delete", "drop"}, task: Tasks]

TypeOK ==
  /\ cache \in [Tasks -> Durable \cup {NoTask}]
  /\ parent \in [Tasks -> Tasks \cup {None}]
  /\ subtasks \in [Tasks -> SUBSET Tasks]
  /\ notes \in [Tasks -> Nat]
  /\ db \in [Tasks -> Durable \cup {NoTask}]
  /\ dbNotes \in [Tasks -> Nat]
  /\ call \in [Callers -> Call]
  /\ overlapped \subseteq Tasks
  /\ failed \subseteq Tasks
  /\ deleted \subseteq Tasks
  /\ updates \in 0..MaxUpdates

Init ==
  /\ cache = [t \in Tasks |-> NoTask]
  /\ parent = [t \in Tasks |-> None]
  /\ subtasks = [t \in Tasks |-> {}]
  /\ notes = [t \in Tasks |-> 0]
  /\ db = [t \in Tasks |-> NoTask]
  /\ dbNotes = [t \in Tasks |-> 0]
  /\ call = [c \in Callers |-> Idle]
  /\ overlapped = {}
  /\ failed = {}
  /\ deleted = {}
  /\ updates = 0

-----------------------------------------------------------------------------
(* Reads *)

Cached(t) == cache[t] # NoTask

Busy(t) == {c \in Callers : call[c].op # "idle" /\ call[c].task = t}

\* Identifiers are drawn at random: no identifier is ever used twice.
Fresh(t) == ~Cached(t) /\ db[t] = NoTask /\ t \notin deleted /\ Busy(t) = {}

\* A write to t starts now: does another one run already?
OverlappedBy(t) == IF Busy(t) # {} THEN overlapped \cup {t} ELSE overlapped

Become(c, record) == call' = [call EXCEPT ![c] = record]

-----------------------------------------------------------------------------
(* create_task: the row first, the cache once the await returns.           *)

NewTask(status, category) ==
  [ status |-> status, category |-> category, outcome |-> None,
    reviewer |-> None, started |-> FALSE, completed |-> FALSE ]

CreateTask(c, t, p, status, category) ==
  /\ call[c].op = "idle"
  /\ Fresh(t)
  /\ p # None => Cached(p)
  /\ parent' = [parent EXCEPT ![t] = p]
  /\ Become(c, [op |-> "create", task |-> t, row |-> NewTask(status, category)])
  /\ UNCHANGED <<cache, subtasks, notes, db, dbNotes, history>>

CreateRow(c) ==
  /\ call[c].op = "create"
  /\ db' = [db EXCEPT ![call[c].task] = call[c].row]
  /\ Become(c, [call[c] EXCEPT !.op = "insert"])
  /\ UNCHANGED <<cache, parent, subtasks, notes, dbNotes, history>>

\* The parent learns of the subtask only here, and only in the cache.
InsertInCache(c) ==
  /\ call[c].op = "insert"
  /\ LET t == call[c].task IN
       /\ cache' = [cache EXCEPT ![t] = call[c].row]
       /\ subtasks' =
            [p \in Tasks |-> IF p = parent[t] /\ Cached(p)
                               THEN subtasks[p] \cup {t} ELSE subtasks[p]]
  /\ Become(c, Idle)
  /\ UNCHANGED <<parent, notes, db, dbNotes, history>>

-----------------------------------------------------------------------------
(* update_task: the synchronous part changes the cached task, then the     *)
(* repository loads the row and commits what differs.                      *)

\* An unknown status is dropped from the request; the other fields stand.
Accepted(task, a, request) ==
  \/ request.status \notin Status
  \/ Allowed(task.status, request.status)
  \/ a \in Privileged

\* Mutant: a status that is no TaskStatus is stored as it came.
StatusKeywordUnparsed(task, request) == request.status

StatusKeyword(task, request) ==
  IF request.status \in Status
    THEN StatusAfter(task.status, request.status, task.category, request.outcome)
    ELSE Absent

\* Done without an outcome is "complete"; leaving done clears the outcome.
OutcomeKeyword(task, request, status) ==
  IF request.outcome # Absent THEN request.outcome
  ELSE IF status = "done" /\ task.outcome = None THEN "complete"
  ELSE IF task.status = "done" /\ status \notin {"done", Absent} THEN None
  ELSE Absent

ReviewerKeyword(task, request, status) ==
  IF status = "review" /\ request.reviewer = Absent /\ task.reviewer = None
    THEN DefaultReviewer ELSE request.reviewer

KeywordsOf(task, request) ==
  LET status == StatusKeyword(task, request) IN
  [ status    |-> status,
    category  |-> request.category,
    outcome   |-> OutcomeKeyword(task, request, status),
    reviewer  |-> ReviewerKeyword(task, request, status),
    started   |-> IF status = "in_progress" /\ ~task.started
                    THEN TRUE ELSE Absent,
    completed |-> IF status = "done" THEN TRUE ELSE Absent ]

\* The setattr loop.
Assign(old, new) == IF new = Absent THEN old ELSE new

Apply(task, kw) ==
  [ status    |-> Assign(task.status, kw.status),
    category  |-> Assign(task.category, kw.category),
    outcome   |-> Assign(task.outcome, kw.outcome),
    reviewer  |-> Assign(task.reviewer, kw.reviewer),
    started   |-> Assign(task.started, kw.started),
    completed |-> Assign(task.completed, kw.completed) ]

UpdateTask(c, t, a, request) ==
  /\ call[c].op = "idle"
  /\ Cached(t)
  /\ updates < MaxUpdates
  /\ updates' = updates + 1
  /\ notes' = [notes EXCEPT ![t] = IF request.note THEN @ + 1 ELSE @]
  /\ \/ /\ Accepted(cache[t], a, request)
        /\ LET kw == KeywordsOf(cache[t], request) IN
             /\ cache' = [cache EXCEPT ![t] = Apply(cache[t], kw)]
             /\ Become(c, [op |-> "load", task |-> t, kw |-> kw,
                           note |-> request.note])
        /\ overlapped' = OverlappedBy(t)
     \/ \* refused: the progress note is in the cache all the same
        /\ ~Accepted(cache[t], a, request)
        /\ UNCHANGED <<cache, call, overlapped>>
  /\ UNCHANGED <<parent, subtasks, db, dbNotes, failed, deleted>>

\* web/routes/tasks.py, PATCH /tasks/{id}: no category and no note.
WebUpdate(c, t, request) ==
  /\ request.category = Absent /\ ~request.note
  /\ UpdateTask(c, t, WebUser, request)

AgentUpdate(c, t, a, request) == UpdateTask(c, t, a, request)

\* session.get: a row that is gone ends the call.
LoadRow(c) ==
  /\ call[c].op = "load"
  /\ LET t == call[c].task IN
       IF db[t] = NoTask
         THEN Become(c, Idle)
         ELSE Become(c, [op |-> "commit", task |-> t, kw |-> call[c].kw,
                         note |-> call[c].note, loaded |-> db[t]])
  /\ UNCHANGED <<cache, parent, subtasks, notes, db, dbNotes, history>>

\* Mutant: a keyword that is None is taken for one that was not given.
DifferenceSkipsNone(old, new) == IF new \in {old, None} THEN Absent ELSE new

Difference(old, new) == IF new = old THEN Absent ELSE new

\* The UPDATE sets the columns whose value changed since the row was loaded.
Changed(loaded, kw) ==
  [ status    |-> Difference(loaded.status, kw.status),
    category  |-> Difference(loaded.category, kw.category),
    outcome   |-> Difference(loaded.outcome, kw.outcome),
    reviewer  |-> Difference(loaded.reviewer, kw.reviewer),
    started   |-> Difference(loaded.started, kw.started),
    completed |-> Difference(loaded.completed, kw.completed) ]

\* commit: on a row deleted meanwhile it writes nothing that load() would find.
CommitRow(c) ==
  /\ call[c].op = "commit"
  /\ LET t == call[c].task IN
       IF db[t] = NoTask
         THEN UNCHANGED <<db, dbNotes>>
         ELSE /\ db' = [db EXCEPT ![t] =
                          Apply(db[t], Changed(call[c].loaded, call[c].kw))]
              /\ dbNotes' = [dbNotes EXCEPT ![t] =
                               IF call[c].note THEN @ + 1 ELSE @]
  /\ Become(c, Idle)
  /\ UNCHANGED <<cache, parent, subtasks, notes, history>>

\* The database refuses (locked, disk full), or the refresh that follows the
\* INSERT fails: the exception goes to the caller, the cache stays as it is.
WriteFails(c) ==
  /\ call[c].op \in {"create", "insert", "load", "commit", "delete"}
  /\ failed' = failed \cup {call[c].task}
  /\ Become(c, Idle)
  /\ UNCHANGED <<cache, parent, subtasks, notes, db, dbNotes, overlapped,
                 deleted, updates>>

-----------------------------------------------------------------------------
(* delete_task: the row first, then the cache.                             *)

DeleteTask(c, t) ==
  /\ call[c].op = "idle"
  /\ Cached(t)
  /\ overlapped' = OverlappedBy(t)
  /\ Become(c, [op |-> "delete", task |-> t])
  /\ UNCHANGED <<cache, parent, subtasks, notes, db, dbNotes, failed, deleted,
                 updates>>

\* Mutant: the row count is not looked at.
DeleteRowUnchecked(c) ==
  /\ call[c].op = "delete"
  /\ db' = [db EXCEPT ![call[c].task] = NoTask]
  /\ deleted' = deleted \cup {call[c].task}
  /\ Become(c, [call[c] EXCEPT !.op = "drop"])
  /\ UNCHANGED <<cache, parent, subtasks, notes, dbNotes, overlapped, failed,
                 updates>>

\* A second delete of the same row matches nothing and returns False.
DeleteRow(c) ==
  /\ call[c].op = "delete"
  /\ LET t == call[c].task IN
       IF db[t] = NoTask
         THEN Become(c, Idle) /\ UNCHANGED <<db, dbNotes, deleted>>
         ELSE /\ db' = [db EXCEPT ![t] = NoTask]
              /\ deleted' = deleted \cup {t}
              /\ Become(c, [op |-> "drop", task |-> t])
              /\ UNCHANGED dbNotes
  /\ UNCHANGED <<cache, parent, subtasks, notes, overlapped, failed,
                 updates>>

DropFromCache(c) ==
  /\ call[c].op = "drop"
  /\ LET t == call[c].task IN
       /\ cache' = [cache EXCEPT ![t] = NoTask]
       /\ subtasks' =
            [p \in Tasks |-> IF p = t THEN {}
                             ELSE IF p = parent[t] /\ Cached(p)
                               THEN subtasks[p] \ {t} ELSE subtasks[p]]
  /\ Become(c, Idle)
  /\ UNCHANGED <<parent, notes, db, dbNotes, history>>

-----------------------------------------------------------------------------
(* The process dies and load() refills the cache: whatever had not been    *)
(* committed is gone, and so is every subtask list (no code writes that    *)
(* column).                                                                *)

Restart ==
  /\ cache' = db
  /\ notes' = dbNotes
  /\ subtasks' = [t \in Tasks |-> {}]
  /\ call' = [c \in Callers |-> Idle]
  /\ UNCHANGED <<parent, db, dbNotes, history>>

\* draft and pending are the statuses a task is ever created in; the parent,
\* if any, is the task its creator is working on.
Next ==
  \/ \E c \in Callers, t \in Tasks, p \in Tasks \cup {None},
        status \in {"draft", "pending"}, category \in Category :
       CreateTask(c, t, p, status, category)
  \/ \E c \in Callers : CreateRow(c)
  \/ \E c \in Callers : InsertInCache(c)
  \/ \E c \in Callers, t \in Tasks, a \in Agents, request \in Requests :
       AgentUpdate(c, t, a, request)
  \/ \E c \in Callers, t \in Tasks, request \in Requests :
       WebUpdate(c, t, request)
  \/ \E c \in Callers : LoadRow(c)
  \/ \E c \in Callers : CommitRow(c)
  \/ \E c \in Callers : WriteFails(c)
  \/ \E c \in Callers, t \in Tasks : DeleteTask(c, t)
  \/ \E c \in Callers : DeleteRow(c)
  \/ \E c \in Callers : DropFromCache(c)
  \/ Restart

Spec == Init /\ [][Next]_vars

-----------------------------------------------------------------------------
(* Properties *)

Torn == overlapped \cup failed

Settled(t) == Busy(t) = {} /\ t \notin Torn

\* The fields that a status promises its readers: a finished task has an
\* outcome and a completion time, a started one a start time, and a task in
\* review has somebody to review it.
Fits(task) ==
  /\ task.status = "done" => task.outcome # None /\ task.completed
  /\ task.status = "in_progress" => task.started
  /\ task.status = "review" => task.reviewer # None

\* update_task's defaults (reviewer, outcome, timestamps) hold for every task
\* in the cache, also after a restart has reloaded it from the database, as
\* long as no write to the task failed or overlapped another.
FieldsFitStatus == \A t \in Tasks : Cached(t) /\ t \notin Torn => Fits(cache[t])

\* Once its writes are through, a task whose writes never failed and never
\* overlapped is the same in the cache and in the database: the keywords that
\* reach the repository say all that setattr did.
CacheMatchesRow == \A t \in Tasks : Settled(t) => cache[t] = db[t]

\* "All write methods are async (hit DB + refresh cache)": updates that overlap leave
\* the same in both. False of the code: two may commit in the other order.
OverlapsAgree == \A t \in Tasks \ failed : Busy(t) = {} => cache[t] = db[t]

\* The same of one update of which the database write fails. False of the code: the
\* cache has been changed by then, and is not changed back.
FailuresAgree ==
  \A t \in Tasks \ overlapped : Cached(t) /\ Busy(t) = {} => cache[t] = db[t]

\* A subtask list names only tasks on the board, and only children of the
\* task it belongs to, whatever creations and deletions run at the same time.
SubtasksExist ==
  \A p \in Tasks : \A t \in subtasks[p] :
    Cached(p) /\ Cached(t) /\ parent[t] = p

\* Deleting is final: the row does not come back by a write that was already
\* under way, the cached task outlives its row only while delete_task is about
\* to drop it, and no two calls both get to drop it (a KeyError).
DeletedStaysDeleted ==
  /\ \A t \in deleted :
       /\ db[t] = NoTask
       /\ Cached(t) => \E c \in Busy(t) : call[c].op = "drop"
  /\ \A c \in Callers : call[c].op = "drop" =>
       /\ Cached(call[c].task)
       /\ \A d \in Busy(call[c].task) : call[d].op = "drop" => d = c

\* The review gate as the database sees it: no committed write takes a project
\* task from in_progress to done unless its outcome is "rejected", whoever
\* asked for it, as long as writes to the task do not overlap or fail.
DurableReviewGate ==
  [][\A t \in Tasks \ Torn :
       db[t] # NoTask /\ db'[t] # NoTask =>
         ~ /\ db[t].status = "in_progress" /\ db[t].category = "project"
           /\ db'[t].status = "done" /\ db'[t].outcome # "rejected"]_vars

=============================================================================
