--------------------------- MODULE MailboxProofs ---------------------------
(***************************************************************************)
(* Proofs about Mailbox for any number of agents, tasks, messages, requests*)
(* and restarts: an agent's workingbox holds one message at the most, the  *)
(* loops' steps are those of TaskWork, and therefore no undisputed task is *)
(* worked on by two agents.                                                *)
(***************************************************************************)
EXTENDS Mailbox, FiniteSetTheorems, TLAPS

-----------------------------------------------------------------------------
(* The inductive invariant *)

\* Message m is for agent a, about a task that is on the board.
For(m, a) == body[m] \in [to: {a}, task: Tasks] /\ status[body[m].task] # "absent"

\* A message is addressed for as long as anything mentions it: what is on an
\* agent's queue, in its loop or in its directories is for that agent.
Addressed ==
  /\ \A m \in Messages : file[m] # "none" => \E a \in Agents : For(m, a)
  /\ \A a \in Agents : \A i \in 1..Len(queue[a]) : For(queue[a][i], a)
  /\ \A a \in Agents : loop[a].at # "idle" => loop[a].msg \in Messages /\ For(loop[a].msg, a)
  /\ \A a \in Agents, t \in Tasks : <<a, t>> \in outgoing => status[t] # "absent"

Inv == TypeOK /\ Addressed /\ OneInWorkingbox

-----------------------------------------------------------------------------
(* Types                                                                   *)

\* What update_task leaves is a status, whatever it was asked for.
LEMMA GrantedType ==
  ASSUME NEW t \in Tasks, NEW s \in Status, NEW outcome
  PROVE  Granted(t, s, outcome) \in Status
BY DEF Granted, StatusAfter, Status

\* A granted update keeps the board's statuses and the scheduled calls well-typed, and
\* takes no task off the board.
LEMMA GrantType ==
  ASSUME TypeOK, NEW t \in Tasks, NEW s \in Status, NEW outcome, Grant(t, s, outcome)
  PROVE  /\ status' \in [Tasks -> Status \cup {"absent"}] /\ calls' \in SUBSET Agents
         /\ \A u \in Tasks : status[u] # "absent" => status'[u] # "absent"
<1>1. "absent" \notin Status
  BY DEF Status
<1> QED
  BY <1>1, GrantedType DEF TypeOK, Grant, Stopped

\* Nor does an update, granted or refused.
LEMMA UpdateType ==
  ASSUME TypeOK, NEW t \in Tasks, NEW s \in Status, NEW outcome, Update(t, s, outcome)
  PROVE  /\ status' \in [Tasks -> Status \cup {"absent"}] /\ calls' \in SUBSET Agents
         /\ \A u \in Tasks : status[u] # "absent" => status'[u] # "absent"
<1>1. CASE Allowed(status[t], s)
  BY <1>1, GrantType DEF Update
<1>2. CASE ~Allowed(status[t], s)
  BY <1>2 DEF Update, TypeOK
<1> QED
  BY <1>1, <1>2

\* An assignment keeps the assignees well-typed.
LEMMA AssignType ==
  ASSUME TypeOK, NEW t \in Tasks, NEW o \in Agents \cup {None}, Assign(t, o)
  PROVE  owner' \in [Tasks -> Agents \cup {None}] /\ disputed' \subseteq Tasks
BY DEF TypeOK, Assign

\* What is asked for is a status.
LEMMA RequestIsStatus ==
  ASSUME TypeOK, NEW t \in Tasks, NEW s \in Requested \cup {status[t]}, NEW o, NEW outcome,
         UpdateTask(t, s, o, outcome)
  PROVE  s \in Status
BY MailboxAssumption DEF TypeOK, UpdateTask

\* A message in the loop is about a task on the board.
LEMMA LoopTask ==
  ASSUME TypeOK, Addressed, NEW a \in Agents, loop[a].at # "idle"
  PROVE  /\ loop[a].msg \in Messages
         /\ Task(a) \in Tasks /\ status[Task(a)] \in Status
BY DEF TypeOK, Addressed, For, Task

\* The loop moves between its points.
LEMMA GoType ==
  ASSUME TypeOK, NEW a \in Agents, NEW point \in Points, Go(a, point) \/ Skip(a)
  PROVE  loop' \in [Agents -> [at: Points, msg: Messages \cup {None}]]
<1>1. CASE Go(a, point)
  BY <1>1 DEF TypeOK, Go
<1>2. CASE Skip(a)
  BY <1>2 DEF TypeOK, Skip, Idle, Points
<1> QED
  BY <1>1, <1>2

\* Moving a message leaves every file in a directory.
LEMMA ToWorkingboxType ==
  ASSUME TypeOK, NEW a, NEW m, ToWorkingbox(a, m)
  PROVE  file' \in [Messages -> {"none", "inbox", "workingbox"}]
BY DEF TypeOK, ToWorkingbox

\* What a restart puts on an agent's queue.
LEMMA RecoveredType ==
  ASSUME NEW a, NEW M \in SUBSET Messages, NEW ids, DOMAIN ids = M,
         NEW q \in Recovered(a, ids)
  PROVE  /\ q \in Seq(Messages)
         /\ \A k \in 1..Len(q) :
              q[k] \in KeptIn(a, "workingbox") \cup KeptIn(a, "inbox") \cup NewFor(a, ids)
<1>1. ASSUME NEW S \in SUBSET Messages, NEW f \in SetToSeqs(S)
      PROVE  f \in Seq(S)
  <2>1. Cardinality(S) \in Nat
    BY MailboxAssumption, FS_Subset, FS_CardinalityType
  <2> QED
    BY <2>1 DEF SetToSeqs
<1>2. PICK w \in SetToSeqs(KeptIn(a, "workingbox")), i \in SetToSeqs(KeptIn(a, "inbox")),
           n \in SetToSeqs(NewFor(a, ids)) : q = w \o i \o n
  BY DEF Recovered
<1> DEFINE W == KeptIn(a, "workingbox")
           I == KeptIn(a, "inbox")
           N == NewFor(a, ids)
<1>3. W \subseteq Messages /\ I \subseteq Messages /\ N \subseteq Messages
  BY DEF KeptIn, NewFor
<1>4. w \in Seq(W) /\ i \in Seq(I) /\ n \in Seq(N)
  BY <1>1, <1>3
<1> HIDE DEF W, I, N
<1>5. \A x \in W \cup I \cup N : x \in Messages
  BY <1>3
<1>6. q \in Seq(W \cup I \cup N)
  BY <1>2, <1>4
<1> QED
  BY <1>5, <1>6 DEF W, I, N

\* The new messages are for pending tasks, with ids that no kept file has.
LEMMA RestartIds ==
  ASSUME Restart
  PROVE  \E M \in SUBSET Messages : \E ids \in [M -> Agents \X Tasks] :
           Recover(ids) /\ \A m \in M : Kept[m] = "none" /\ status[ids[m][2]] = "pending"
<1>1. PICK M \in SUBSET {m \in Messages : Kept[m] = "none"} :
        \E ids \in Bijection(M, Lost) : Recover(ids)
  BY DEF Restart
<1>2. PICK ids \in Bijection(M, Lost) : Recover(ids)
  BY <1>1
<1>3. ids \in [M -> Lost]
  BY DEF Bijection, Injection, IsInjective, Surjection
<1>4. Lost \subseteq Agents \X Tasks /\ \A p \in Lost : status[p[2]] = "pending"
  BY DEF Lost, Orphans
<1>5. ids \in [M -> Agents \X Tasks]
  BY <1>3, <1>4
<1> QED
  BY <1>1, <1>2, <1>3, <1>4, <1>5

\* Claiming, or resetting a stale task before it, keeps the types.
LEMMA ClaimType ==
  ASSUME TypeOK, Addressed, NEW a \in Agents, loop[a].at # "idle",
         (ClaimTask(a) /\ UNCHANGED disputed) \/ ClaimLate(a) \/ ResetStale(a)
  PROVE  /\ status' \in [Tasks -> Status \cup {"absent"}]
         /\ owner' \in [Tasks -> Agents \cup {None}]
         /\ disputed' \subseteq Tasks /\ calls' \subseteq Agents
         /\ loop' \in [Agents -> [at: Points, msg: Messages \cup {None}]]
<1> DEFINE t == Task(a)
<1>1. t \in Tasks
  BY LoopTask
<1>2. CASE ClaimTask(a) /\ (UNCHANGED disputed \/ ClaimLate(a))
  <2>1. loop' \in [Agents -> [at: Points, msg: Messages \cup {None}]]
    BY <1>2, GoType DEF ClaimTask, Points
  <2> HIDE DEF t
  <2>2. /\ status' \in [Tasks -> Status \cup {"absent"}]
        /\ owner' \in [Tasks -> Agents \cup {None}]
    BY <1>1, <1>2 DEF ClaimTask, TypeOK, Status, t
  <2>3. disputed' \subseteq Tasks /\ calls' \subseteq Agents
    BY <1>1, <1>2 DEF ClaimTask, ClaimLate, TypeOK, t
  <2> QED
    BY <2>1, <2>2, <2>3
<1>3. CASE ResetStale(a)
  <2>1. loop' \in [Agents -> [at: Points, msg: Messages \cup {None}]]
    BY <1>3, GoType DEF ResetStale, Points
  <2>2. PICK u \in Tasks : status[u] = "in_progress" /\ Update(u, "pending", None)
    BY <1>3 DEF ResetStale, Stale
  <2>3. status' \in [Tasks -> Status \cup {"absent"}] /\ calls' \in SUBSET Agents
    BY <2>2, UpdateType DEF Status
  <2> QED
    BY <1>3, <2>1, <2>3 DEF ResetStale, TypeOK
<1> QED
  BY <1>2, <1>3 DEF ClaimLate

\* Every step keeps the types, given that messages are addressed.
LEMMA TypeStep == TypeOK /\ Addressed /\ [Next]_vars => TypeOK'
<1> SUFFICES ASSUME TypeOK, Addressed, [Next]_vars
             PROVE  TypeOK'
  OBVIOUS
<1> USE DEF TypeOK, board, files, inMemory, agent, bounds
<1>1. ASSUME NEW t \in Tasks, NEW o \in Assignments, NEW a \in Agents, CreateTask(t, o, a)
     PROVE  TypeOK'
  BY <1>1, MailboxAssumption DEF CreateTask, Status
<1>2. ASSUME NEW a \in Agents, NEW t \in Tasks, Deliver(a, t)
     PROVE  TypeOK'
  BY <1>2 DEF Deliver, WriteInbox, Unused
<1>3. ASSUME NEW a \in Agents, NEW t \in Tasks, Lose(a, t)
     PROVE  TypeOK'
  BY <1>3 DEF Lose
<1>4. ASSUME NEW t \in Tasks, NEW s \in Status, NEW o \in Agents \cup {None}, NEW outcome,
             UpdateTask(t, s, o, outcome)
     PROVE  TypeOK'
  <2>1. /\ status' \in [Tasks -> Status \cup {"absent"}] /\ calls' \in SUBSET Agents
        /\ owner' \in [Tasks -> Agents \cup {None}] /\ disputed' \subseteq Tasks
    BY <1>4, GrantType, AssignType DEF UpdateTask
  <2>2. approved' \subseteq Tasks /\ requests' \in 0..MaxRequests
    BY <1>4, MailboxAssumption DEF UpdateTask, Request
  <2> QED
    BY <1>4, <2>1, <2>2 DEF UpdateTask
<1>5. ASSUME NEW a \in Agents, Cancel(a)
     PROVE  TypeOK'
  BY <1>5 DEF Cancel
<1>6. ASSUME NEW a \in Agents, Reconcile(a)
     PROVE  TypeOK'
  BY <1>6 DEF Reconcile, Synthesize, Unused, Bijection, Injection, Surjection, IsInjective, Orphans
<1>7. ASSUME NEW a \in Agents, Nudge(a)
     PROVE  TypeOK'
  <2>1. CASE \E m \in Working(a) \cup Inbox(a) : Enqueue(a, m) /\ UNCHANGED files
    <3>1. PICK m \in Messages : Enqueue(a, m) /\ UNCHANGED files
      BY <2>1 DEF Working, Inbox, FilesOf
    <3>2. queue' \in [Agents -> Seq(Messages)] /\ queued' \in [Agents -> SUBSET Messages]
      BY <3>1 DEF Enqueue, Put
    <3> QED
      BY <1>7, <3>1, <3>2 DEF Nudge
  <2>2. CASE \E t \in Active(a), m \in Unused : WriteInbox(m, a, t) /\ Enqueue(a, m)
    <3>1. PICK t \in Tasks, m \in Messages : WriteInbox(m, a, t) /\ Enqueue(a, m)
      BY <2>2 DEF Active, Unused
    <3>2. queue' \in [Agents -> Seq(Messages)] /\ queued' \in [Agents -> SUBSET Messages]
      BY <3>1 DEF Enqueue, Put
    <3>3. /\ body' \in [Messages -> [to: Agents, task: Tasks] \cup {None}]
          /\ file' \in [Messages -> {"none", "inbox", "workingbox"}]
      BY <3>1 DEF WriteInbox
    <3> QED
      BY <1>7, <3>2, <3>3 DEF Nudge
  <2> QED
    BY <1>7, <2>1, <2>2 DEF Nudge
<1>8. ASSUME NEW m \in Messages, Poll(m)
     PROVE  TypeOK'
  <2>1. PICK a \in Agents : body[m].to = a
    BY <1>8 DEF Poll, Addressed, For
  <2>2. CASE file' = [file EXCEPT ![m] = "none"] /\ UNCHANGED inMemory
    BY <1>8, <2>2 DEF Poll
  <2>3. CASE Enqueue(a, m) /\ UNCHANGED file
    <3>1. queue' \in [Agents -> Seq(Messages)] /\ queued' \in [Agents -> SUBSET Messages]
      BY <2>3 DEF Enqueue, Put
    <3> QED
      BY <1>8, <2>3, <3>1 DEF Poll
  <2> QED
    BY <1>8, <2>1, <2>2, <2>3 DEF Poll
<1>9. ASSUME NEW a \in Agents, Take(a)
     PROVE  TypeOK'
  <2> DEFINE m == Head(queue[a])
  <2>1. m \in Messages /\ body[m].task \in Tasks
    <3>1. 1 \in 1..Len(queue[a]) /\ m = queue[a][1] /\ m \in Messages
      BY <1>9 DEF Take
    <3> QED
      BY <3>1 DEF Addressed, For
  <2>2. queue' \in [Agents -> Seq(Messages)]
    BY <1>9 DEF Take
  <2> HIDE DEF m
  <2>3. CASE Start(a, m)
    BY <1>9, <2>1, <2>2, <2>3 DEF Take, Start, Points, Moods
  <2>4. CASE \E point \in {"gate", "revive"}, shown \in Moods : Wait(a, m, point, shown)
    BY <1>9, <2>1, <2>2, <2>4 DEF Take, Wait, Points
  <2>5. mood[a] \in Moods /\ "session_paused" \in Moods
    BY DEF Moods
  <2> QED
    BY <1>9, <2>3, <2>4, <2>5 DEF Take, m
<1>10. ASSUME NEW a \in Agents, Guard(a)
     PROVE  TypeOK'
  <2>1. loop[a].at # "idle"
    BY <1>10 DEF Guard, At
  <2>2. CASE Skip(a) /\ UNCHANGED <<status, owner, calls, disputed>>
    <3>1. loop' \in [Agents -> [at: Points, msg: Messages \cup {None}]]
      BY <2>2, GoType DEF Points
    <3>2. file' \in [Messages -> {"none", "inbox", "workingbox"}]
      BY <1>10, <2>2 DEF Guard, WorkUnclaimed, ToWorkingbox
    <3> QED
      BY <1>10, <2>2, <3>1, <3>2 DEF Guard
  <2>3. CASE ((ClaimTask(a) /\ UNCHANGED disputed) \/ ResetStale(a)) /\ UNCHANGED file
    BY <1>10, <2>1, <2>3, ClaimType DEF Guard
  <2>4. CASE WorkUnclaimed(a)
    <3>1. loop' \in [Agents -> [at: Points, msg: Messages \cup {None}]]
      BY <2>4, GoType DEF Points, WorkUnclaimed
    <3>2. file' \in [Messages -> {"none", "inbox", "workingbox"}]
      BY <2>4, ToWorkingboxType DEF WorkUnclaimed
    <3>3. disputed' \subseteq Tasks
      BY <2>1, <2>4, LoopTask DEF WorkUnclaimed
    <3> QED
      BY <1>10, <2>4, <3>1, <3>2, <3>3 DEF Guard, WorkUnclaimed
  <2> QED
    BY <1>10, <2>2, <2>3, <2>4 DEF Guard
<1>11. ASSUME NEW a \in Agents, Reset(a)
     PROVE  TypeOK'
  BY <1>11, ClaimType DEF Reset, At
<1>12. ASSUME NEW a \in Agents, Prepare(a)
     PROVE  TypeOK'
  <2>1. loop[a].at # "idle"
    BY <1>12 DEF Prepare, At
  <2>2. loop' \in [Agents -> [at: Points, msg: Messages \cup {None}]]
    BY <1>12, GoType DEF Prepare, GiveUp, Points
  <2>3. CASE GiveUp(a) /\ UNCHANGED <<board, outgoing, file, calls>>
    BY <1>12, <2>2, <2>3 DEF Prepare, GiveUp, Disputed, Moods
  <2>4. CASE ToWorkingbox(a, loop[a].msg) /\ approved' \in {approved, approved \cup {Task(a)}}
             /\ UNCHANGED <<status, owner, outgoing, mood, current, cancelled, calls, disputed>>
    BY <1>12, <2>1, <2>2, <2>4, ToWorkingboxType, LoopTask DEF Prepare
  <2>5. ASSUME NEW s \in Tasks,
               status' = [status EXCEPT ![s] = "pending"],
               owner' = [owner EXCEPT ![s] = a],
               approved' = approved \cup {s},
               outgoing' = outgoing \cup {<<a, s>>},
               UNCHANGED <<file, mood, current, cancelled, calls, disputed>>
        PROVE  TypeOK'
    BY <1>12, <2>2, <2>5 DEF Prepare, Status
  <2> QED
    BY <1>12, <2>3, <2>4, <2>5 DEF Prepare
<1>13. ASSUME NEW a \in Agents, Decompose(a)
     PROVE  TypeOK'
  BY <1>13 DEF Decompose, At, Skip, Idle, GiveUp, Disputed, Stopped, Status, Points, Moods
<1>14. ASSUME NEW a \in Agents, Respond(a)
     PROVE  TypeOK'
  <2>1. loop' \in [Agents -> [at: Points, msg: Messages \cup {None}]]
    BY <1>14, GoType DEF Respond, Points
  <2>2. Task(a) \in Tasks /\ status[Task(a)] # "absent"
    BY <1>14, LoopTask DEF Respond, At, Status
  <2>3. status' \in [Tasks -> Status \cup {"absent"}] /\ calls' \in SUBSET Agents
    <3>1. CASE UNCHANGED <<status, calls>>
      BY <3>1
    <3>2. ASSUME NEW s \in {"pending", "done"}, NEW outcome, Update(Task(a), s, outcome)
          PROVE  status' \in [Tasks -> Status \cup {"absent"}] /\ calls' \in SUBSET Agents
      BY <2>2, <3>2, UpdateType DEF Status
    <3> QED
      BY <1>14, <3>1, <3>2 DEF Respond
  <2> QED
    BY <1>14, <2>1, <2>3 DEF Respond, Disputed
<1>15. ASSUME NEW a \in Agents, Fail(a)
     PROVE  TypeOK'
  <2>1. loop' \in [Agents -> [at: Points, msg: Messages \cup {None}]]
    BY <1>15, GoType DEF Fail, Points
  <2>2. Task(a) \in Tasks /\ status[Task(a)] # "absent"
    BY <1>15, LoopTask DEF Fail, At, Status
  <2>3. status' \in [Tasks -> Status \cup {"absent"}] /\ calls' \in SUBSET Agents
    <3>1. CASE UNCHANGED <<status, calls>>
      BY <3>1
    <3>2. CASE Update(Task(a), "pending", None)
      BY <2>2, <3>2, UpdateType DEF Status
    <3> QED
      BY <1>15, <3>1, <3>2 DEF Fail
  <2>4. file' \in [Messages -> {"none", "inbox", "workingbox"}]
    <3>1. CASE status[Task(a)] = "in_progress"
      <4>1. PICK d \in {"none", "inbox", "workingbox"} :
              file' = [file EXCEPT ![loop[a].msg] = d]
        BY <1>15, <3>1 DEF Fail
      <4> QED
        BY <4>1
    <3>2. CASE status[Task(a)] # "in_progress"
      BY <1>15, <3>2 DEF Fail
    <3> QED
      BY <3>1, <3>2
  <2>5. mood' \in [Agents -> Moods] /\ disputed' \subseteq Tasks
    BY <1>15 DEF Fail, Moods, Disputed
  <2> QED
    BY <1>15, <2>1, <2>3, <2>4, <2>5 DEF Fail
<1>16. ASSUME NEW a \in Agents, Hold(a)
     PROVE  TypeOK'
  BY <1>16 DEF Hold, At, Go, Put, Points, Moods, Disputed, Addressed, For
<1>17. ASSUME NEW a \in Agents, Finish(a)
     PROVE  TypeOK'
  BY <1>17 DEF Finish, At, Skip, Idle, Task, Points, Moods
<1>18. ASSUME NEW a \in Agents, Reauthenticate(a)
     PROVE  TypeOK'
  BY <1>18 DEF Reauthenticate, Moods
<1>19. CASE Restart
  <2>1. PICK M \in SUBSET Messages : \E ids \in [M -> Agents \X Tasks] : Recover(ids)
    BY <1>19, RestartIds
  <2>2. PICK ids \in [M -> Agents \X Tasks] : Recover(ids)
    BY <2>1
  <2>3. body' \in [Messages -> [to: Agents, task: Tasks] \cup {None}]
    BY <2>2 DEF Recover
  <2>4. file' \in [Messages -> {"none", "inbox", "workingbox"}]
    BY <2>2 DEF Recover, Kept
  <2>5. queue' \in [Agents -> Seq(Messages)]
    BY <2>2, RecoveredType DEF Recover
  <2>6. queued' \in [Agents -> SUBSET Messages]
    BY <2>2 DEF Recover, KeptIn, NewFor
  <2>7. loop' \in [Agents -> [at: Points, msg: Messages \cup {None}]]
    BY <1>19 DEF Restart, Idle, Points
  <2> QED
    BY <1>19, <2>3, <2>4, <2>5, <2>6, <2>7, MailboxAssumption DEF Restart, Moods
<1>20. ASSUME NEW t \in Tasks, NEW a \in Agents, StartTask(t, a)
     PROVE  TypeOK'
  <2>1. status[t] \in Status
    BY <1>20 DEF StartTask
  <2>2. /\ status' \in [Tasks -> Status \cup {"absent"}] /\ calls' \in SUBSET Agents
        /\ owner' \in [Tasks -> Agents \cup {None}] /\ disputed' \subseteq Tasks
    BY <1>20, <2>1, GrantType, AssignType DEF StartTask
  <2>3. outgoing' \subseteq Agents \X Tasks /\ requests' \in 0..MaxRequests
    BY <1>20, MailboxAssumption DEF StartTask, Request
  <2> QED
    BY <1>20, <2>2, <2>3 DEF StartTask
<1>21. ASSUME NEW a \in Agents, PassGate(a)
     PROVE  TypeOK'
  <2>1. loop[a].msg \in Messages /\ body[loop[a].msg].task \in Tasks
    BY <1>21 DEF PassGate, At, Addressed, For
  <2>2. CASE Start(a, loop[a].msg)
    BY <1>21, <2>1, <2>2 DEF PassGate, Start, Points, Moods
  <2>3. CASE Go(a, "revive") /\ UNCHANGED <<current, mood>>
    <3>1. loop' \in [Agents -> [at: Points, msg: Messages \cup {None}]]
      BY <2>3, GoType DEF Points
    <3> QED
      BY <1>21, <2>3, <3>1 DEF PassGate
  <2> QED
    BY <1>21, <2>2, <2>3 DEF PassGate
<1>22. ASSUME NEW a \in Agents, ShowPause(a)
     PROVE  TypeOK'
  BY <1>22 DEF ShowPause, Moods
<1>23. ASSUME NEW a \in Agents, Pause(a) \/ Resume(a)
     PROVE  TypeOK'
  BY <1>23 DEF Pause, Resume
<1>24. CASE UNCHANGED vars
  BY <1>24 DEF vars
<1> QED
  BY <1>1, <1>2, <1>3, <1>4, <1>5, <1>6, <1>7, <1>8, <1>9, <1>10, <1>11, <1>12,
     <1>13, <1>14, <1>15, <1>16, <1>17, <1>18, <1>19, <1>20, <1>21, <1>22, <1>23,
     <1>24, RequestIsStatus, MailboxAssumption
  DEF Next, LoopStep

-----------------------------------------------------------------------------
(* Messages stay addressed                                                 *)

\* A step that leaves every message as it is, and takes up only messages that
\* are addressed to the agent that takes them up.
KeepsMessages ==
  /\ UNCHANGED body
  /\ \A t \in Tasks : status[t] # "absent" => status'[t] # "absent"
  /\ \A m \in Messages : file'[m] # "none" => file[m] # "none" \/ \E a \in Agents : For(m, a)
  /\ \A a \in Agents :
       \/ queue'[a] = queue[a]
       \/ \E m \in Messages : For(m, a) /\ queue'[a] = Append(queue[a], m)
       \/ queue[a] # <<>> /\ queue'[a] = Tail(queue[a])
  /\ \A a \in Agents : loop'[a].at # "idle" =>
       \/ loop[a].at # "idle" /\ loop'[a].msg = loop[a].msg
       \/ loop'[a].msg \in Messages /\ For(loop'[a].msg, a)
  /\ \A a \in Agents, t \in Tasks :
       <<a, t>> \in outgoing' => <<a, t>> \in outgoing \/ status'[t] # "absent"

\* A step that only moves, drops or queues messages keeps them addressed.
LEMMA AddressedKept == TypeOK /\ Addressed /\ KeepsMessages => Addressed'
<1> SUFFICES ASSUME TypeOK, Addressed, KeepsMessages
             PROVE  Addressed'
  OBVIOUS
<1>1. ASSUME NEW m \in Messages, NEW a \in Agents, For(m, a)
      PROVE  For(m, a)'
  BY <1>1 DEF For, KeepsMessages, TypeOK
<1>2. \A m \in Messages : file'[m] # "none" => \E a \in Agents : For(m, a)'
  BY <1>1 DEF Addressed, KeepsMessages
<1>3. ASSUME NEW a \in Agents, NEW i \in 1..Len(queue'[a])
      PROVE  For(queue[a][i], a)'
  <2> DEFINE q == queue[a]
  <2>1. q \in Seq(Messages) /\ \A k \in 1..Len(q) : q[k] \in Messages /\ For(q[k], a)
    BY DEF Addressed, TypeOK
  <2> HIDE DEF q
  <2>2. CASE queue'[a] = q
    <3>1. PICK m \in Messages : m = queue'[a][i] /\ For(m, a)
      BY <2>1, <2>2
    <3> QED
      BY <1>1, <3>1 DEF For
  <2>3. CASE \E m \in Messages : For(m, a) /\ queue'[a] = Append(q, m)
    <3>1. PICK m \in Messages : m = queue'[a][i] /\ For(m, a)
      BY <2>1, <2>3
    <3> QED
      BY <1>1, <3>1 DEF For
  <2>4. CASE q # <<>> /\ queue'[a] = Tail(q)
    <3>1. PICK m \in Messages : m = queue'[a][i] /\ For(m, a)
      BY <2>1, <2>4
    <3> QED
      BY <1>1, <3>1 DEF For
  <2> QED
    BY <2>2, <2>3, <2>4 DEF KeepsMessages, q
<1>4. ASSUME NEW a \in Agents, loop'[a].at # "idle"
      PROVE  loop'[a].msg \in Messages /\ For(loop[a].msg, a)'
  <2>1. PICK m \in Messages : m = loop'[a].msg /\ For(m, a)
    BY <1>4 DEF Addressed, KeepsMessages
  <2> QED
    BY <1>1, <2>1 DEF For
<1>5. \A a \in Agents, t \in Tasks : <<a, t>> \in outgoing' => status'[t] # "absent"
  BY DEF Addressed, KeepsMessages, TypeOK
<1> QED
  BY <1>2, <1>3, <1>4, <1>5 DEF Addressed

\* An unused id is on no queue and in no loop.
LEMMA UnusedIsNew ==
  ASSUME TypeOK, NEW m \in Unused
  PROVE  /\ m \in Messages
         /\ \A a \in Agents : loop[a].msg # m /\ \A i \in 1..Len(queue[a]) : queue[a][i] # m
BY DEF Unused, TypeOK, Range

\* A step that makes messages, with unused ids, about tasks on the board.
BringsMessages(N) ==
  /\ N \subseteq Unused
  /\ \A n \in N : \E a \in Agents, t \in Tasks :
       status[t] # "absent" /\ body'[n] = [to |-> a, task |-> t]
  /\ \A m \in Messages \ N : body'[m] = body[m] /\ (file'[m] # "none" => file[m] # "none")
  /\ UNCHANGED <<status, loop>>
  /\ \A a \in Agents : \/ queue'[a] = queue[a]
                       \/ \E n \in N : body'[n].to = a /\ queue'[a] = Append(queue[a], n)
  /\ outgoing' \subseteq outgoing

\* A step that makes messages keeps all of them addressed.
LEMMA AddressedNew ==
  ASSUME TypeOK, Addressed, NEW N, BringsMessages(N)
  PROVE  Addressed'
<1>1. ASSUME NEW m \in Messages \ N, NEW a \in Agents, For(m, a)
      PROVE  For(m, a)'
  BY <1>1 DEF For, BringsMessages
<1>2. ASSUME NEW n \in N
      PROVE  n \in Messages /\ \E a \in Agents : For(n, a)' /\ body'[n].to = a
  <2>1. PICK a \in Agents, t \in Tasks :
          status[t] # "absent" /\ body'[n] = [to |-> a, task |-> t]
    BY DEF BringsMessages
  <2> QED
    BY <2>1, UnusedIsNew DEF For, BringsMessages
<1>3. ASSUME NEW m \in Messages, file'[m] # "none"
      PROVE  \E a \in Agents : For(m, a)'
  BY <1>1, <1>2, <1>3 DEF Addressed, BringsMessages
<1>4. ASSUME NEW a \in Agents, NEW i \in 1..Len(queue'[a])
      PROVE  For(queue[a][i], a)'
  <2> DEFINE q == queue[a]
  <2>1. /\ q \in Seq(Messages)
        /\ \A k \in 1..Len(q) : q[k] \in Messages \ N /\ For(q[k], a)
    BY UnusedIsNew DEF Addressed, TypeOK, BringsMessages
  <2> HIDE DEF q
  <2>2. CASE queue'[a] = q
    <3>1. PICK m \in Messages \ N : m = queue'[a][i] /\ For(m, a)
      BY <2>1, <2>2
    <3> QED
      BY <1>1, <3>1 DEF For
  <2>3. CASE \E n \in N : body'[n].to = a /\ queue'[a] = Append(q, n)
    <3>1. PICK n \in N : body'[n].to = a /\ queue'[a] = Append(q, n)
      BY <2>3
    <3>2. For(n, a)'
      BY <1>2, <3>1 DEF For
    <3>3. CASE i = Len(q) + 1
      BY <2>1, <3>1, <3>2, <3>3 DEF For
    <3>4. CASE i # Len(q) + 1
      <4>1. PICK m \in Messages \ N : m = queue'[a][i] /\ For(m, a)
        BY <2>1, <3>1, <3>4
      <4> QED
        BY <1>1, <4>1 DEF For
    <3> QED
      BY <3>3, <3>4
  <2> QED
    BY <2>2, <2>3 DEF BringsMessages, q
<1>5. ASSUME NEW a \in Agents, loop'[a].at # "idle"
      PROVE  loop'[a].msg \in Messages /\ For(loop[a].msg, a)'
  <2>1. PICK m \in Messages \ N : m = loop'[a].msg /\ For(m, a)
    BY <1>5, UnusedIsNew DEF Addressed, BringsMessages
  <2> QED
    BY <1>1, <2>1 DEF For
<1>6. \A a \in Agents, t \in Tasks : <<a, t>> \in outgoing' => status'[t] # "absent"
  BY DEF Addressed, BringsMessages
<1> QED
  BY <1>3, <1>4, <1>5, <1>6 DEF Addressed

\* Moving the loop of one agent changes nobody's message.
LEMMA LoopKept ==
  ASSUME TypeOK, NEW a \in Agents, loop[a].at # "idle", NEW point, Go(a, point) \/ Skip(a)
  PROVE  \A b \in Agents : loop'[b].at # "idle" =>
           loop[b].at # "idle" /\ loop'[b].msg = loop[b].msg
<1>1. CASE Go(a, point)
  BY <1>1 DEF TypeOK, Go
<1>2. CASE Skip(a)
  BY <1>2 DEF TypeOK, Skip, Idle
<1> QED
  BY <1>1, <1>2

\* Claiming, or resetting a stale task, takes no task off the board.
LEMMA ClaimKeeps ==
  ASSUME TypeOK, Addressed, NEW a \in Agents, loop[a].at # "idle",
         ClaimTask(a) \/ ResetStale(a)
  PROVE  \A t \in Tasks : status[t] # "absent" => status'[t] # "absent"
<1>1. CASE ClaimTask(a)
  BY <1>1, LoopTask DEF ClaimTask, TypeOK, Status
<1>2. CASE ResetStale(a)
  <2>1. PICK u \in Tasks : Update(u, "pending", None)
    BY <1>2 DEF ResetStale, Stale
  <2> QED
    BY <2>1, UpdateType DEF Status
<1> QED
  BY <1>1, <1>2

\* Every step keeps the messages addressed.
LEMMA AddressedStep == TypeOK /\ Addressed /\ [Next]_vars => Addressed'
<1> SUFFICES ASSUME TypeOK, Addressed, [Next]_vars
             PROVE  Addressed'
  OBVIOUS
<1> USE DEF TypeOK, board, files, inMemory, agent, bounds
<1>1. ASSUME NEW t \in Tasks, NEW o \in Assignments, NEW a \in Agents, CreateTask(t, o, a)
     PROVE  Addressed'
  BY <1>1, AddressedKept DEF KeepsMessages, CreateTask
<1>2. ASSUME NEW a \in Agents, NEW t \in Tasks, Deliver(a, t)
     PROVE  Addressed'
  <2>1. PICK m \in Unused : WriteInbox(m, a, t)
    BY <1>2 DEF Deliver
  <2>2. BringsMessages({m})
    BY <1>2, <2>1, UnusedIsNew DEF Deliver, WriteInbox, Addressed, BringsMessages
  <2> QED
    BY <2>2, AddressedNew
<1>3. ASSUME NEW a \in Agents, NEW t \in Tasks, Lose(a, t)
     PROVE  Addressed'
  BY <1>3, AddressedKept DEF KeepsMessages, Lose
<1>4. ASSUME NEW t \in Tasks, NEW s \in Status, NEW o \in Agents \cup {None}, NEW outcome,
             UpdateTask(t, s, o, outcome)
     PROVE  Addressed'
  <2>1. \A u \in Tasks : status[u] # "absent" => status'[u] # "absent"
    BY <1>4, GrantType DEF UpdateTask
  <2> QED
    BY <1>4, <2>1, AddressedKept DEF KeepsMessages, UpdateTask
<1>5. ASSUME NEW a \in Agents, Cancel(a)
     PROVE  Addressed'
  BY <1>5, AddressedKept DEF KeepsMessages, Cancel
<1>6. ASSUME NEW a \in Agents, Reconcile(a)
     PROVE  Addressed'
  <2>1. PICK M \in SUBSET Unused : \E ids \in Bijection(M, Orphans(a)) : Synthesize(a, ids)
    BY <1>6 DEF Reconcile
  <2>2. PICK ids \in Bijection(M, Orphans(a)) : Synthesize(a, ids)
    BY <2>1
  <2>3. ids \in [M -> Orphans(a)] /\ \A t \in Orphans(a) : t \in Tasks /\ status[t] # "absent"
    BY DEF Bijection, Injection, IsInjective, Surjection, Orphans
  <2>4. M \subseteq Messages
    BY UnusedIsNew
  <2>5. BringsMessages(M)
    BY <1>6, <2>2, <2>3, <2>4 DEF Reconcile, Synthesize, BringsMessages
  <2> QED
    BY <2>5, AddressedNew
<1>7. ASSUME NEW a \in Agents, Nudge(a)
     PROVE  Addressed'
  <2>1. CASE \E m \in Working(a) \cup Inbox(a) : Enqueue(a, m) /\ UNCHANGED files
    <3>1. PICK m \in Messages : /\ file[m] # "none" /\ body[m].to = a
                                /\ Enqueue(a, m) /\ UNCHANGED files
      BY <2>1 DEF Working, Inbox, FilesOf
    <3>2. For(m, a)
      BY <3>1 DEF Addressed, For
    <3>3. \A b \in Agents : queue'[b] = queue[b] \/ (b = a /\ queue'[b] = Append(queue[b], m))
      BY <3>1 DEF Enqueue, Put
    <3> QED
      BY <1>7, <3>1, <3>2, <3>3, AddressedKept DEF KeepsMessages, Nudge
  <2>2. CASE \E t \in Active(a), m \in Unused : WriteInbox(m, a, t) /\ Enqueue(a, m)
    <3>1. PICK t \in Active(a), m \in Unused : WriteInbox(m, a, t) /\ Enqueue(a, m)
      BY <2>2
    <3>2. t \in Tasks /\ status[t] # "absent"
      BY DEF Active, Workable
    <3>3. \A b \in Agents : queue'[b] = queue[b] \/ (b = a /\ queue'[b] = Append(queue[b], m))
      BY <3>1 DEF Enqueue, Put
    <3>4. BringsMessages({m})
      BY <1>7, <3>1, <3>2, <3>3, UnusedIsNew DEF Nudge, WriteInbox, BringsMessages
    <3> QED
      BY <3>4, AddressedNew
  <2> QED
    BY <1>7, <2>1, <2>2 DEF Nudge
<1>8. ASSUME NEW m \in Messages, Poll(m)
     PROVE  Addressed'
  <2>1. PICK a \in Agents : For(m, a)
    BY <1>8 DEF Poll, Addressed
  <2>2. body[m].to = a
    BY <2>1 DEF For
  <2>3. \A n \in Messages : file'[n] # "none" => file[n] # "none"
    BY <1>8 DEF Poll
  <2>4. \A b \in Agents : queue'[b] = queue[b] \/ (b = a /\ queue'[b] = Append(queue[b], m))
    BY <1>8, <2>2 DEF Poll, Enqueue, Put
  <2> QED
    BY <1>8, <2>1, <2>3, <2>4, AddressedKept DEF KeepsMessages, Poll
<1>9. ASSUME NEW a \in Agents, Take(a)
     PROVE  Addressed'
  <2> DEFINE m == Head(queue[a])
  <2>1. m \in Messages /\ For(m, a)
    <3>1. queue[a] \in Seq(Messages) /\ queue[a] # <<>>
      BY <1>9 DEF Take
    <3>2. 1 \in 1..Len(queue[a]) /\ m = queue[a][1] /\ m \in Messages
      BY <3>1
    <3> QED
      BY <3>2 DEF Addressed
  <2>2. \E point \in Points : loop' = [loop EXCEPT ![a] = [at |-> point, msg |-> m]]
    BY <1>9 DEF Take, Start, Wait, Points
  <2>3. \A b \in Agents : loop'[b] = loop[b] \/ (b = a /\ loop'[b].msg = m)
    BY <2>2
  <2>4. \A b \in Agents : queue'[b] = queue[b] \/ (queue[b] # <<>> /\ queue'[b] = Tail(queue[b]))
    BY <1>9 DEF Take
  <2> HIDE DEF m
  <2> QED
    BY <1>9, <2>1, <2>3, <2>4, AddressedKept DEF KeepsMessages, Take
<1>10. ASSUME NEW a \in Agents, Guard(a)
     PROVE  Addressed'
  <2>1. loop[a].at # "idle" /\ loop[a].msg \in Messages /\ For(loop[a].msg, a)
    BY <1>10 DEF Guard, At, Addressed
  <2>2. \A m \in Messages : file'[m] # "none" => file[m] # "none" \/ For(m, a)
    BY <1>10, <2>1 DEF Guard, WorkUnclaimed, ToWorkingbox
  <2>3. \A t \in Tasks : status[t] # "absent" => status'[t] # "absent"
    BY <1>10, <2>1, ClaimKeeps DEF Guard, WorkUnclaimed
  <2>4. \A b \in Agents : loop'[b].at # "idle" => loop[b].at # "idle" /\ loop'[b].msg = loop[b].msg
    BY <1>10, <2>1, LoopKept DEF Guard, ClaimTask, ResetStale, WorkUnclaimed
  <2> QED
    BY <1>10, <2>2, <2>3, <2>4, AddressedKept DEF KeepsMessages, Guard
<1>11. ASSUME NEW a \in Agents, Reset(a)
     PROVE  Addressed'
  <2>1. \A t \in Tasks : status[t] # "absent" => status'[t] # "absent"
    BY <1>11, ClaimKeeps DEF Reset, ClaimLate, At
  <2>2. \A b \in Agents : loop'[b].at # "idle" => loop[b].at # "idle" /\ loop'[b].msg = loop[b].msg
    BY <1>11, LoopKept DEF Reset, At, ClaimLate, ClaimTask, ResetStale
  <2> QED
    BY <1>11, <2>1, <2>2, AddressedKept DEF KeepsMessages, Reset
<1>12. ASSUME NEW a \in Agents, Prepare(a)
     PROVE  Addressed'
  <2>1. loop[a].at # "idle" /\ loop[a].msg \in Messages /\ For(loop[a].msg, a)
    BY <1>12 DEF Prepare, At, Addressed
  <2>2. \A m \in Messages : file'[m] # "none" => file[m] # "none" \/ For(m, a)
    BY <1>12, <2>1 DEF Prepare, ToWorkingbox
  <2>3. \A b \in Agents : loop'[b].at # "idle" => loop[b].at # "idle" /\ loop'[b].msg = loop[b].msg
    BY <1>12, <2>1, LoopKept DEF Prepare, GiveUp
  <2>4. \/ UNCHANGED <<status, outgoing>>
        \/ \E s \in Tasks : /\ status' = [status EXCEPT ![s] = "pending"]
                            /\ outgoing' = outgoing \cup {<<a, s>>}
    BY <1>12 DEF Prepare
  <2> QED
    BY <1>12, <2>2, <2>3, <2>4, AddressedKept DEF KeepsMessages, Prepare
<1>13. ASSUME NEW a \in Agents, Decompose(a)
     PROVE  Addressed'
  <2>1. \A t \in Tasks : status[t] # "absent" => status'[t] # "absent"
    BY <1>13 DEF Decompose
  <2> QED
    BY <1>13, <2>1, AddressedKept DEF KeepsMessages, Decompose, GiveUp, Skip, Idle
<1>14. ASSUME NEW a \in Agents, Respond(a)
     PROVE  Addressed'
  <2>1. \A t \in Tasks : status[t] # "absent" => status'[t] # "absent"
    <3>1. Task(a) \in Tasks /\ status[Task(a)] # "absent"
      BY <1>14, LoopTask DEF Respond, At, Status
    <3>2. ASSUME NEW s \in {"pending", "done"}, NEW outcome, Update(Task(a), s, outcome)
          PROVE  \A t \in Tasks : status[t] # "absent" => status'[t] # "absent"
      BY <3>1, <3>2, UpdateType DEF Status
    <3> QED
      BY <1>14, <3>2 DEF Respond
  <2> QED
    BY <1>14, <2>1, AddressedKept DEF KeepsMessages, Respond, Go, At
<1>15. ASSUME NEW a \in Agents, Fail(a)
     PROVE  Addressed'
  <2>1. \A t \in Tasks : status[t] # "absent" => status'[t] # "absent"
    <3>1. Task(a) \in Tasks
      BY <1>15, LoopTask DEF Fail, At
    <3>2. CASE Update(Task(a), "pending", None)
      BY <3>1, <3>2, UpdateType DEF Status
    <3> QED
      BY <1>15, <3>2 DEF Fail
  <2>2. \A m \in Messages : file'[m] # "none" => file[m] # "none"
    BY <1>15 DEF Fail
  <2> QED
    BY <1>15, <2>1, <2>2, AddressedKept DEF KeepsMessages, Fail, Go, At
<1>16. ASSUME NEW a \in Agents, Hold(a)
     PROVE  Addressed'
  <2>1. loop[a].msg \in Messages /\ For(loop[a].msg, a)
    BY <1>16 DEF Hold, At, Addressed
  <2> QED
    BY <1>16, <2>1, AddressedKept DEF KeepsMessages, Hold, Go, At, Put
<1>17. ASSUME NEW a \in Agents, Finish(a)
     PROVE  Addressed'
  <2>1. \A m \in Messages : file'[m] # "none" => file[m] # "none"
    BY <1>17 DEF Finish
  <2> QED
    BY <1>17, <2>1, AddressedKept DEF KeepsMessages, Finish, Skip, Idle
<1>18. ASSUME NEW a \in Agents, Reauthenticate(a)
     PROVE  Addressed'
  BY <1>18, AddressedKept DEF KeepsMessages, Reauthenticate
<1>19. CASE Restart
  <2>1. PICK M \in SUBSET Messages : \E ids \in [M -> Agents \X Tasks] :
          Recover(ids) /\ \A m \in M : Kept[m] = "none" /\ status[ids[m][2]] = "pending"
    BY <1>19, RestartIds
  <2>2. PICK ids \in [M -> Agents \X Tasks] :
          Recover(ids) /\ \A m \in M : Kept[m] = "none" /\ status[ids[m][2]] = "pending"
    BY <2>1
  <2>3. UNCHANGED status /\ outgoing' = {} /\ \A a \in Agents : loop'[a].at = "idle"
    BY <1>19 DEF Restart, Idle
  <2>4. ASSUME NEW m \in M
        PROVE  For(m, ids[m][1])' /\ ids[m][1] \in Agents
    BY <2>2, <2>3 DEF Recover, For
  <2>5. ASSUME NEW m \in Messages \ M, Kept[m] # "none"
        PROVE  \E a \in Agents : For(m, a)' /\ body[m].to = a
    <3>1. file[m] # "none"
      BY <2>5 DEF Kept
    <3>2. PICK a \in Agents : For(m, a)
      BY <3>1 DEF Addressed
    <3> QED
      BY <2>2, <2>3, <3>2 DEF Recover, For
  <2>6. \A m \in Messages : file'[m] # "none" => \E a \in Agents : For(m, a)'
    BY <2>2, <2>4, <2>5 DEF Recover
  <2>7. ASSUME NEW a \in Agents, NEW i \in 1..Len(queue'[a])
        PROVE  For(queue[a][i], a)'
    <3>1. queue'[a] \in Recovered(a, ids)
      BY <2>2 DEF Recover
    <3>2. PICK m : /\ m = queue'[a][i]
                   /\ m \in KeptIn(a, "workingbox") \cup KeptIn(a, "inbox") \cup NewFor(a, ids)
      BY <3>1, RecoveredType
    <3>3. CASE m \in NewFor(a, ids)
      BY <2>4, <3>2, <3>3 DEF NewFor, For
    <3>4. CASE m \notin NewFor(a, ids)
      <4>1. m \in Messages /\ Kept[m] # "none" /\ body[m].to = a
        BY <3>2, <3>4 DEF KeptIn
      <4>2. m \notin M
        BY <2>2, <4>1
      <4> QED
        BY <2>5, <3>2, <4>1, <4>2 DEF For
    <3> QED
      BY <3>3, <3>4
  <2> QED
    BY <2>3, <2>6, <2>7 DEF Addressed
<1>20. ASSUME NEW t \in Tasks, NEW a \in Agents, StartTask(t, a)
     PROVE  Addressed'
  <2>1. status[t] \in Status /\ Grant(t, status[t], None)
    BY <1>20 DEF StartTask
  <2>2. \A u \in Tasks : status[u] # "absent" => status'[u] # "absent"
    BY <2>1, GrantType
  <2> QED
    BY <1>20, <2>2, AddressedKept DEF KeepsMessages, StartTask
<1>21. ASSUME NEW a \in Agents, PassGate(a)
     PROVE  Addressed'
  <2>1. loop[a].at # "idle"
    BY <1>21 DEF PassGate, At
  <2>2. \A b \in Agents : loop'[b] = loop[b] \/ (b = a /\ loop'[b].msg = loop[b].msg)
    BY <1>21 DEF PassGate, Start, Go
  <2> QED
    BY <1>21, <2>1, <2>2, AddressedKept DEF KeepsMessages, PassGate
<1>22. ASSUME NEW a \in Agents, ShowPause(a)
     PROVE  Addressed'
  BY <1>22, AddressedKept DEF KeepsMessages, ShowPause
<1>23. ASSUME NEW a \in Agents, Pause(a) \/ Resume(a)
     PROVE  Addressed'
  BY <1>23, AddressedKept DEF KeepsMessages, Pause, Resume
<1>24. CASE UNCHANGED vars
  BY <1>24, AddressedKept DEF KeepsMessages, vars
<1> QED
  BY <1>1, <1>2, <1>3, <1>4, <1>5, <1>6, <1>7, <1>8, <1>9, <1>10, <1>11, <1>12,
     <1>13, <1>14, <1>15, <1>16, <1>17, <1>18, <1>19, <1>20, <1>21, <1>22, <1>23,
     <1>24, RequestIsStatus, MailboxAssumption
  DEF Next, LoopStep

-----------------------------------------------------------------------------
(* One message in the workingbox                                           *)

\* A step that puts nothing into a workingbox leaves at most one message there.
LEMMA WorkingboxKept ==
  ASSUME TypeOK, OneInWorkingbox,
         \A m \in Messages : file'[m] = "workingbox" =>
           file[m] = "workingbox" /\ body'[m] = body[m]
  PROVE  OneInWorkingbox'
BY DEF OneInWorkingbox, Working, FilesOf

\* A message of its own agent replaces what is in the agent's workingbox.
LEMMA WorkingboxReplaced ==
  ASSUME TypeOK, OneInWorkingbox, NEW a \in Agents, NEW m \in Messages, For(m, a),
         ToWorkingbox(a, m), UNCHANGED body
  PROVE  OneInWorkingbox'
<1>1. body[m].to = a
  BY DEF For
<1>2. CASE file[m] = "workingbox"
  <2>1. \A n \in Messages : file'[n] = "workingbox" => file[n] = "workingbox"
    BY <1>2 DEF ToWorkingbox
  <2> QED
    BY <2>1, WorkingboxKept
<1>3. CASE file[m] # "workingbox"
  <2>1. \A n \in Messages : file'[n] = "workingbox" =>
          n = m \/ (file[n] = "workingbox" /\ body[n].to # a)
    BY <1>3 DEF ToWorkingbox, Working, FilesOf
  <2> QED
    BY <1>1, <2>1 DEF OneInWorkingbox, Working, FilesOf
<1> QED
  BY <1>2, <1>3

\* Every step leaves each workingbox with one message at the most.
LEMMA WorkingboxStep == TypeOK /\ Addressed /\ OneInWorkingbox /\ [Next]_vars => OneInWorkingbox'
<1> SUFFICES ASSUME TypeOK, Addressed, OneInWorkingbox, [Next]_vars
             PROVE  OneInWorkingbox'
  OBVIOUS
<1> USE DEF TypeOK, board, files, inMemory, agent, bounds
<1>1. ASSUME NEW t \in Tasks, NEW o \in Assignments, NEW a \in Agents, CreateTask(t, o, a)
     PROVE  OneInWorkingbox'
  BY <1>1, WorkingboxKept DEF CreateTask
<1>2. ASSUME NEW a \in Agents, NEW t \in Tasks, Deliver(a, t)
     PROVE  OneInWorkingbox'
  <2>1. PICK m \in Unused : WriteInbox(m, a, t)
    BY <1>2 DEF Deliver
  <2> QED
    BY <2>1, UnusedIsNew, WorkingboxKept DEF WriteInbox
<1>3. ASSUME NEW a \in Agents, NEW t \in Tasks, Lose(a, t)
     PROVE  OneInWorkingbox'
  BY <1>3, WorkingboxKept DEF Lose
<1>4. ASSUME NEW t \in Tasks, NEW s \in Status, NEW o \in Agents \cup {None}, NEW outcome,
             UpdateTask(t, s, o, outcome)
     PROVE  OneInWorkingbox'
  BY <1>4, WorkingboxKept DEF UpdateTask
<1>5. ASSUME NEW a \in Agents, Cancel(a)
     PROVE  OneInWorkingbox'
  BY <1>5, WorkingboxKept DEF Cancel
<1>6. ASSUME NEW a \in Agents, Reconcile(a)
     PROVE  OneInWorkingbox'
  <2>1. PICK M \in SUBSET Unused : \E ids \in Bijection(M, Orphans(a)) : Synthesize(a, ids)
    BY <1>6 DEF Reconcile
  <2>2. PICK ids \in Bijection(M, Orphans(a)) : Synthesize(a, ids)
    BY <2>1
  <2> QED
    BY <2>2, WorkingboxKept DEF Synthesize
<1>7. ASSUME NEW a \in Agents, Nudge(a)
     PROVE  OneInWorkingbox'
  <2>1. CASE UNCHANGED files
    BY <2>1, WorkingboxKept
  <2>2. CASE \E t \in Active(a), m \in Unused : WriteInbox(m, a, t)
    BY <2>2, UnusedIsNew, WorkingboxKept DEF WriteInbox
  <2> QED
    BY <1>7, <2>1, <2>2 DEF Nudge
<1>8. ASSUME NEW m \in Messages, Poll(m)
     PROVE  OneInWorkingbox'
  BY <1>8, WorkingboxKept DEF Poll
<1>9. ASSUME NEW a \in Agents, Take(a)
     PROVE  OneInWorkingbox'
  BY <1>9, WorkingboxKept DEF Take
<1>10. ASSUME NEW a \in Agents, Guard(a)
     PROVE  OneInWorkingbox'
  <2>1. loop[a].msg \in Messages /\ For(loop[a].msg, a)
    BY <1>10 DEF Guard, At, Addressed
  <2>2. CASE file' = [file EXCEPT ![loop[a].msg] = "none"]
    BY <1>10, <2>2, WorkingboxKept DEF Guard
  <2>3. CASE UNCHANGED file
    BY <1>10, <2>3, WorkingboxKept DEF Guard
  <2>4. CASE ToWorkingbox(a, loop[a].msg)
    BY <1>10, <2>1, <2>4, WorkingboxReplaced DEF Guard
  <2> QED
    BY <1>10, <2>2, <2>3, <2>4 DEF Guard, WorkUnclaimed
<1>11. ASSUME NEW a \in Agents, Reset(a)
     PROVE  OneInWorkingbox'
  BY <1>11, WorkingboxKept DEF Reset
<1>12. ASSUME NEW a \in Agents, Prepare(a)
     PROVE  OneInWorkingbox'
  <2>1. loop[a].msg \in Messages /\ For(loop[a].msg, a)
    BY <1>12 DEF Prepare, At, Addressed
  <2>2. CASE UNCHANGED file
    BY <1>12, <2>2, WorkingboxKept DEF Prepare
  <2>3. CASE ToWorkingbox(a, loop[a].msg)
    BY <1>12, <2>1, <2>3, WorkingboxReplaced DEF Prepare
  <2> QED
    BY <1>12, <2>2, <2>3 DEF Prepare
<1>13. ASSUME NEW a \in Agents, Decompose(a)
     PROVE  OneInWorkingbox'
  BY <1>13, WorkingboxKept DEF Decompose
<1>14. ASSUME NEW a \in Agents, Respond(a)
     PROVE  OneInWorkingbox'
  BY <1>14, WorkingboxKept DEF Respond
<1>15. ASSUME NEW a \in Agents, Fail(a)
     PROVE  OneInWorkingbox'
  BY <1>15, WorkingboxKept DEF Fail
<1>16. ASSUME NEW a \in Agents, Hold(a)
     PROVE  OneInWorkingbox'
  BY <1>16, WorkingboxKept DEF Hold
<1>17. ASSUME NEW a \in Agents, Finish(a)
     PROVE  OneInWorkingbox'
  BY <1>17, WorkingboxKept DEF Finish
<1>18. ASSUME NEW a \in Agents, Reauthenticate(a)
     PROVE  OneInWorkingbox'
  BY <1>18, WorkingboxKept DEF Reauthenticate
<1>19. CASE Restart
  <2>1. PICK M \in SUBSET Messages : \E ids \in [M -> Agents \X Tasks] : Recover(ids)
    BY <1>19, RestartIds
  <2>2. PICK ids \in [M -> Agents \X Tasks] : Recover(ids)
    BY <2>1
  <2>3. \A m \in Messages : file'[m] = "workingbox" => file[m] = "workingbox" /\ body'[m] = body[m]
    BY <2>2 DEF Recover, Kept
  <2> QED
    BY <2>3, WorkingboxKept
<1>20. ASSUME NEW t \in Tasks, NEW a \in Agents, StartTask(t, a)
     PROVE  OneInWorkingbox'
  BY <1>20, WorkingboxKept DEF StartTask
<1>21. ASSUME NEW a \in Agents, PassGate(a)
     PROVE  OneInWorkingbox'
  BY <1>21, WorkingboxKept DEF PassGate
<1>22. ASSUME NEW a \in Agents, ShowPause(a)
     PROVE  OneInWorkingbox'
  BY <1>22, WorkingboxKept DEF ShowPause
<1>23. ASSUME NEW a \in Agents, Pause(a) \/ Resume(a)
     PROVE  OneInWorkingbox'
  BY <1>23, WorkingboxKept DEF Pause, Resume
<1>24. CASE UNCHANGED vars
  BY <1>24, WorkingboxKept DEF vars
<1> QED
  BY <1>1, <1>2, <1>3, <1>4, <1>5, <1>6, <1>7, <1>8, <1>9, <1>10, <1>11, <1>12,
     <1>13, <1>14, <1>15, <1>16, <1>17, <1>18, <1>19, <1>20, <1>21, <1>22, <1>23,
     <1>24, RequestIsStatus, MailboxAssumption
  DEF Next, LoopStep

-----------------------------------------------------------------------------
(* Work is as promised                                                     *)

\* Where the loop of an agent that works on a task is.
AtWork == {"prepare", "decompose", "work"}

\* The table of TaskWork is the board's.
LEMMA TableIs ==
  /\ Promise!VALID_TRANSITIONS = VALID_TRANSITIONS
  /\ \A from, to : Promise!Allowed(from, to) <=> Allowed(from, to)
<1>1. Promise!VALID_TRANSITIONS = VALID_TRANSITIONS
  BY DEF Promise!VALID_TRANSITIONS, VALID_TRANSITIONS
<1> QED  BY <1>1 DEF Promise!Allowed, Allowed

\* An agent at work has a task, which is on the board.
LEMMA WorkIs ==
  ASSUME TypeOK, Addressed, NEW a \in Agents
  PROVE  IF loop[a].at \in AtWork
           THEN /\ works[a] = Task(a) /\ works[a] # None
                /\ works[a] \in Tasks /\ Promise!Known(works[a])
           ELSE works[a] = None
<1>1. works[a] = IF loop[a].at \in AtWork THEN Task(a) ELSE None
  BY DEF works, Work, AtWork
<1>2. CASE loop[a].at \in AtWork
  <2>1. Task(a) \in Tasks /\ status[Task(a)] \in Status
    BY <1>2, LoopTask DEF AtWork
  <2> QED  BY <1>1, <1>2, <2>1, MailboxAssumption DEF Promise!Known, Status
<1> QED  BY <1>1, <1>2

\* Nobody's work changes while the loops stay where they are.
LEMMA WorkStays ==
  ASSUME UNCHANGED loop,
         \A a \in Agents : loop[a].at # "idle" => body'[loop[a].msg] = body[loop[a].msg]
  PROVE  works' = works
BY DEF works, Work, Task

\* The loop of one agent moves.
LEMMA WorkGoes ==
  ASSUME TypeOK, NEW a \in Agents, UNCHANGED body, NEW point, Go(a, point)
  PROVE  works' = [works EXCEPT ![a] = IF point \in AtWork THEN Task(a) ELSE None]
<1>1. \A b \in Agents : loop'[b].msg = loop[b].msg /\ loop'[b].at = IF b = a THEN point ELSE loop[b].at
  BY DEF Go, TypeOK
<1> QED  BY <1>1 DEF works, Work, Task, AtWork

LEMMA WorkSkips ==
  ASSUME TypeOK, NEW a \in Agents, UNCHANGED body, Skip(a)
  PROVE  works' = [works EXCEPT ![a] = None]
<1>1. \A b \in Agents : IF b = a THEN loop'[b].at = "idle" ELSE loop'[b] = loop[b]
  BY DEF Skip, TypeOK, Idle
<1> QED  BY <1>1 DEF works, Work, Task, AtWork

\* An update bound by the table leaves a status that the task may come to.
LEMMA AllowedIsOpen ==
  ASSUME TypeOK, NEW t \in Tasks, Promise!Known(t), NEW s \in Status, NEW outcome,
         Allowed(status[t], s)
  PROVE  \/ Granted(t, s, outcome) = status[t]
         \/ Granted(t, s, outcome) \in Promise!VALID_TRANSITIONS[status[t]]
<1>1. status[t] \in Status
  BY DEF TypeOK, Promise!Known
<1>2. "review" \in VALID_TRANSITIONS["in_progress"]
  BY DEF VALID_TRANSITIONS
<1> QED  BY <1>1, <1>2, TableIs DEF Granted, StatusAfter, Gated, Allowed

\* A request moves its task, which stops nobody's work.
LEMMA RequestMoves ==
  ASSUME TypeOK, NEW t \in Tasks, Promise!Known(t), NEW s \in Status, NEW outcome,
         NEW o \in Agents \cup {None}, Grant(t, s, outcome), Assign(t, o), works' = works
  PROVE  Promise!Next
<1>1. \E r \in Promise!Status : Promise!Set(t, r)
  BY GrantedType DEF Grant, Promise!Set, Promise!Status, Status
<1>2. \A a \in Agents : works[a] = Work(a)
  BY DEF works
<1> QED  BY <1>1, <1>2 DEF Assign, Promise!Move, Promise!Next

\* An agent stops working, with an update of its task or without.
LEMMA WorkEnds ==
  ASSUME TypeOK, Addressed, NEW a \in Agents, loop[a].at \in AtWork,
         works' = [works EXCEPT ![a] = None], UNCHANGED owner, disputed' = Disputed(a),
         \/ UNCHANGED status
         \/ \E s \in Promise!VALID_TRANSITIONS[status[Task(a)]] : Promise!Set(Task(a), s)
  PROVE  Promise!Next
<1>1. works[a] = Task(a) /\ works[a] # None
  BY WorkIs
<1>2. disputed' = {t \in disputed : \E b \in Agents \ {a} : works[b] = t}
  BY DEF Disputed, works
<1> QED  BY <1>1, <1>2 DEF Promise!End, Promise!Next

\* What an update without privilege leaves of the task an agent works on.
LEMMA UpdateEnds ==
  ASSUME TypeOK, Addressed, NEW a \in Agents, loop[a].at \in AtWork,
         NEW s \in Status, NEW outcome, Update(Task(a), s, outcome)
  PROVE  \/ UNCHANGED status
         \/ \E r \in Promise!VALID_TRANSITIONS[status[Task(a)]] : Promise!Set(Task(a), r)
<1> DEFINE t == Task(a)
<1>1. t \in Tasks /\ Promise!Known(t)
  BY WorkIs
<1> HIDE DEF t
<1>2. CASE Allowed(status[t], s)
  <2>1. status' = [status EXCEPT ![t] = Granted(t, s, outcome)]
    BY <1>2 DEF Update, Grant, t
  <2>2. \/ Granted(t, s, outcome) = status[t]
        \/ Granted(t, s, outcome) \in Promise!VALID_TRANSITIONS[status[t]]
    BY <1>1, <1>2, AllowedIsOpen
  <2> QED  BY <2>1, <2>2 DEF TypeOK, Promise!Set, t
<1>3. CASE ~Allowed(status[t], s)
  BY <1>3 DEF Update, t
<1> QED  BY <1>2, <1>3

\* An agent at its guard, or past it, comes to work on its task.
LEMMA ClaimBegins ==
  ASSUME TypeOK, Addressed, NEW a \in Agents, loop[a].at \in {"guard", "reset"}, UNCHANGED body,
         \/ /\ ClaimTask(a) /\ UNCHANGED disputed
            /\ owner[Task(a)] \in {a, None} /\ Allowed(status[Task(a)], "in_progress")
         \/ ClaimLate(a)
  PROVE  Promise!Next
<1> DEFINE t == Task(a)
<1>1. t \in Tasks /\ Promise!Known(t) /\ works[a] = None
  BY LoopTask, WorkIs DEF AtWork, Promise!Known, Status
<1>2. ClaimTask(a)
  BY DEF ClaimLate
<1>3. works' = [works EXCEPT ![a] = t]
  BY <1>2, WorkGoes DEF ClaimTask, AtWork
<1>4. CASE Allowed(status[t], "in_progress")
  <2>1. Promise!Claim(a, t)
    BY <1>2, <1>4, TableIs DEF ClaimTask, Promise!Claim, Promise!Set
  <2>2. owner'[t] = a
    BY <1>1, <1>2, <1>4 DEF ClaimTask, TypeOK
  <2>3. \/ owner[t] \in {a, None} /\ UNCHANGED disputed
        \/ owner[t] # a /\ disputed' = disputed \cup {t}
    BY <2>2 DEF ClaimLate
  <2> QED  BY <1>1, <1>3, <2>1, <2>3 DEF Promise!Begin, Promise!Next
<1>5. CASE ~Allowed(status[t], "in_progress")
  <2>1. UNCHANGED <<status, owner>>
    BY <1>1, <1>2, <1>5 DEF ClaimTask, TypeOK
  <2>2. \/ owner[t] = a /\ UNCHANGED disputed
        \/ ~Promise!Allowed(status[t], "in_progress") /\ disputed' = disputed \cup {t}
    BY <1>5, <2>1, TableIs DEF ClaimLate
  <2> QED  BY <1>1, <1>3, <2>1, <2>2 DEF Promise!Begin, Promise!Next
<1> QED  BY <1>4, <1>5

\* A stale task is put back before the agent's own is claimed.
LEMMA ResetMoves ==
  ASSUME TypeOK, Addressed, NEW a \in Agents, loop[a].at \in {"guard", "reset"}, UNCHANGED body,
         ResetStale(a)
  PROVE  Promise!Next
<1>1. PICK t \in Tasks : status[t] = "in_progress" /\ Update(t, "pending", None)
  BY DEF ResetStale, Stale
<1>2. works' = [works EXCEPT ![a] = None]
  BY WorkGoes DEF ResetStale, AtWork
<1>3. works' = works
  BY <1>2, WorkIs DEF AtWork, works
<1>4. Grant(t, "pending", None)
  BY <1>1 DEF Update, Allowed, VALID_TRANSITIONS
<1>5. Assign(t, owner[t]) /\ owner[t] \in Agents \cup {None}
  BY DEF Assign, ResetStale, TypeOK
<1> QED  BY <1>1, <1>3, <1>4, <1>5, RequestMoves DEF Promise!Known, Status

\* Every step of the mailbox is a step of the work on tasks, or leaves it alone.
LEMMA StepIsWork ==
  ASSUME TypeOK, Addressed, [Next]_vars
  PROVE  Promise!Next \/ UNCHANGED Promise!workVars
<1> USE DEF board, files, inMemory, agent, bounds
<1> DEFINE Fine == Promise!Next \/ UNCHANGED Promise!workVars
<1>0. ASSUME works' = works, UNCHANGED <<board, disputed>>  PROVE Fine
  BY <1>0 DEF Promise!workVars
<1>1. ASSUME NEW t \in Tasks, NEW o \in Assignments, NEW a \in Agents, CreateTask(t, o, a)
      PROVE  Fine
  <2>1. works' = works
    BY <1>1, WorkStays DEF CreateTask
  <2> QED
    BY <1>1, <2>1, MailboxAssumption
    DEF CreateTask, Promise!Create, Promise!Known, Promise!Set, Promise!Next
<1>2. ASSUME NEW a \in Agents, NEW t \in Tasks, Deliver(a, t)  PROVE Fine
  <2>1. PICK m \in Unused : WriteInbox(m, a, t)
    BY <1>2 DEF Deliver
  <2>2. works' = works
    BY <1>2, <2>1, UnusedIsNew, WorkStays DEF WriteInbox, Addressed, Deliver, TypeOK
  <2> QED  BY <1>0, <1>2, <2>2 DEF Deliver
<1>3. ASSUME NEW a \in Agents, NEW t \in Tasks, Lose(a, t)  PROVE Fine
  BY <1>0, <1>3, WorkStays DEF Lose
<1>4. ASSUME NEW t \in Tasks, NEW s \in Status, NEW o \in Agents \cup {None}, NEW outcome,
             UpdateTask(t, s, o, outcome)
      PROVE  Fine
  <2>1. works' = works
    BY <1>4, WorkStays DEF UpdateTask
  <2> QED  BY <1>4, <2>1, RequestMoves DEF UpdateTask, Promise!Known
<1>5. ASSUME NEW a \in Agents, Cancel(a)  PROVE Fine
  BY <1>0, <1>5, WorkStays DEF Cancel
<1>6. ASSUME NEW a \in Agents, Reconcile(a)  PROVE Fine
  <2>1. PICK M \in SUBSET Unused : \E ids \in Bijection(M, Orphans(a)) : Synthesize(a, ids)
    BY <1>6 DEF Reconcile
  <2>2. PICK ids \in Bijection(M, Orphans(a)) : Synthesize(a, ids)
    BY <2>1
  <2>3. DOMAIN ids = M
    BY DEF Bijection, Injection, IsInjective, Surjection
  <2>4. \A b \in Agents : loop[b].at # "idle" => body'[loop[b].msg] = body[loop[b].msg]
    BY <2>2, <2>3, UnusedIsNew DEF Synthesize, Addressed
  <2> QED  BY <1>0, <1>6, <2>4, WorkStays DEF Reconcile
<1>7. ASSUME NEW a \in Agents, Nudge(a)  PROVE Fine
  <2>1. \A b \in Agents : loop[b].at # "idle" => body'[loop[b].msg] = body[loop[b].msg]
    <3>1. CASE UNCHANGED files
      BY <3>1
    <3>2. CASE \E t \in Active(a), m \in Unused : WriteInbox(m, a, t)
      BY <3>2, UnusedIsNew DEF WriteInbox, Addressed, TypeOK
    <3> QED  BY <1>7, <3>1, <3>2 DEF Nudge
  <2> QED  BY <1>0, <1>7, <2>1, WorkStays DEF Nudge
<1>8. ASSUME NEW m \in Messages, Poll(m)  PROVE Fine
  BY <1>0, <1>8, WorkStays DEF Poll
<1>9. ASSUME NEW a \in Agents, Take(a)  PROVE Fine
  <2>1. \A b \in Agents : IF b = a THEN loop[b].at = "idle" /\ loop'[b].at \notin AtWork
                          ELSE loop'[b] = loop[b]
    BY <1>9 DEF Take, Start, Wait, At, TypeOK, AtWork
  <2>2. works' = works
    BY <1>9, <2>1 DEF works, Work, Task, Take, AtWork
  <2> QED  BY <1>0, <1>9, <2>2 DEF Take
<1>10. ASSUME NEW a \in Agents, Guard(a)  PROVE Fine
  <2>1. /\ loop[a].at = "guard" /\ Task(a) \in Tasks /\ Promise!Known(Task(a))
        /\ works[a] = None /\ UNCHANGED body
    BY <1>10, LoopTask, WorkIs DEF Guard, At, AtWork, Promise!Known, Status
  <2>2. CASE Skip(a) /\ UNCHANGED <<status, owner, calls, disputed>>
    <3>1. works' = works
      BY <2>1, <2>2, WorkSkips DEF works
    <3> QED  BY <2>2, <3>1 DEF Promise!workVars
  <2>3. CASE /\ ClaimTask(a) /\ UNCHANGED disputed
             /\ owner[Task(a)] \in {a, None}
             /\ status[Task(a)] \in {"draft", "pending", "paused"}
    <3>1. Allowed(status[Task(a)], "in_progress")
      BY <2>3 DEF Allowed, VALID_TRANSITIONS
    <3> QED  BY <2>1, <2>3, <3>1, ClaimBegins
  <2>4. CASE ResetStale(a)
    BY <2>1, <2>4, ResetMoves
  <2>5. CASE WorkUnclaimed(a) /\ owner[Task(a)] \in {a, None}
    <3>1. works' = [works EXCEPT ![a] = Task(a)]
      BY <2>1, <2>5, WorkGoes DEF WorkUnclaimed, AtWork
    <3>2. \/ owner[Task(a)] = a /\ UNCHANGED disputed
          \/ owner[Task(a)] # a /\ disputed' = disputed \cup {Task(a)}
      BY <2>5, MailboxAssumption DEF WorkUnclaimed
    <3> QED  BY <2>1, <2>5, <3>1, <3>2 DEF WorkUnclaimed, Promise!Begin, Promise!Next
  <2> QED  BY <1>10, <2>2, <2>3, <2>4, <2>5 DEF Guard
<1>11. ASSUME NEW a \in Agents, Reset(a)  PROVE Fine
  BY <1>11, ClaimBegins, ResetMoves DEF Reset, At
<1>12. ASSUME NEW a \in Agents, Prepare(a)  PROVE Fine
  <2>1. loop[a].at = "prepare" /\ UNCHANGED body /\ works[a] = Task(a)
    BY <1>12, WorkIs DEF Prepare, At, AtWork
  <2>2. CASE GiveUp(a) /\ UNCHANGED board
    BY <2>1, <2>2, WorkSkips, WorkEnds DEF GiveUp, AtWork
  <2>3. CASE Go(a, "work") /\ UNCHANGED <<status, owner, disputed>>
    <3>1. works' = works
      BY <2>1, <2>3, WorkGoes DEF AtWork, works
    <3> QED  BY <2>1, <2>3, <3>1 DEF Promise!workVars
  <2>4. ASSUME NEW s \in Tasks, status[s] = "absent", status' = [status EXCEPT ![s] = "pending"],
               owner' = [owner EXCEPT ![s] = a], Go(a, "decompose"), UNCHANGED disputed
        PROVE  Fine
    <3>1. works' = works
      BY <2>1, <2>4, WorkGoes DEF AtWork, works
    <3> QED  BY <2>1, <2>4, <3>1 DEF Promise!Create, Promise!Known, Promise!Set, Promise!Next
  <2> QED  BY <1>12, <2>2, <2>3, <2>4 DEF Prepare
<1>13. ASSUME NEW a \in Agents, Decompose(a)  PROVE Fine
  <2>1. /\ loop[a].at \in AtWork /\ UNCHANGED owner /\ disputed' = Disputed(a)
        /\ works' = [works EXCEPT ![a] = None]
    BY <1>13, WorkSkips DEF Decompose, GiveUp, At, AtWork
  <2>2. UNCHANGED status \/ (Promise!Set(Task(a), "done") /\ Allowed(status[Task(a)], "done"))
    BY <1>13 DEF Decompose, Promise!Set, TypeOK
  <2>3. \/ UNCHANGED status
        \/ \E s \in Promise!VALID_TRANSITIONS[status[Task(a)]] : Promise!Set(Task(a), s)
    BY <2>2, TableIs DEF Allowed, Promise!Set, TypeOK
  <2> QED  BY <2>1, <2>3, WorkEnds
<1>14. ASSUME NEW a \in Agents, Respond(a)  PROVE Fine
  <2>1. loop[a].at \in AtWork /\ works' = [works EXCEPT ![a] = None]
    BY <1>14, WorkGoes DEF Respond, At, AtWork
  <2>2. UNCHANGED status \/ \E s \in {"pending", "done"}, outcome \in {None, "rejected"} :
                              Update(Task(a), s, outcome)
    BY <1>14 DEF Respond
  <2>3. \/ UNCHANGED status
        \/ \E s \in Promise!VALID_TRANSITIONS[status[Task(a)]] : Promise!Set(Task(a), s)
    BY <2>1, <2>2, UpdateEnds DEF Status
  <2> QED  BY <1>14, <2>1, <2>3, WorkEnds DEF Respond
<1>15. ASSUME NEW a \in Agents, Fail(a)  PROVE Fine
  <2>1. loop[a].at \in AtWork /\ works' = [works EXCEPT ![a] = None]
    BY <1>15, WorkGoes DEF Fail, At, AtWork
  <2>2. UNCHANGED status \/ Update(Task(a), "pending", None)
    BY <1>15 DEF Fail
  <2>3. \/ UNCHANGED status
        \/ \E s \in Promise!VALID_TRANSITIONS[status[Task(a)]] : Promise!Set(Task(a), s)
    BY <2>1, <2>2, UpdateEnds DEF Status
  <2> QED  BY <1>15, <2>1, <2>3, WorkEnds DEF Fail
<1>16. ASSUME NEW a \in Agents, Hold(a)  PROVE Fine
  <2>1. loop[a].at \in AtWork /\ works' = [works EXCEPT ![a] = None]
    BY <1>16, WorkGoes DEF Hold, At, AtWork
  <2> QED  BY <1>16, <2>1, WorkEnds DEF Hold
<1>17. ASSUME NEW a \in Agents, Finish(a)  PROVE Fine
  <2>1. works[a] = None
    BY <1>17, WorkIs DEF Finish, At, AtWork
  <2>2. works' = works
    BY <1>17, <2>1, WorkSkips DEF Finish, works
  <2> QED  BY <1>0, <1>17, <2>2 DEF Finish
<1>18. ASSUME NEW a \in Agents, Reauthenticate(a)  PROVE Fine
  BY <1>0, <1>18, WorkStays DEF Reauthenticate
<1>19. CASE Restart
  <2>1. works' = [a \in Agents |-> None]
    BY <1>19 DEF Restart, works, Work, Idle
  <2> QED  BY <1>19, <2>1 DEF Restart, Promise!Down, Promise!Next
<1>20. ASSUME NEW t \in Tasks, NEW a \in Agents, StartTask(t, a)  PROVE Fine
  <2>1. works' = works
    BY <1>20, WorkStays DEF StartTask
  <2>2. status[t] \in Status
    BY <1>20 DEF StartTask, TypeOK
  <2> QED  BY <1>20, <2>1, <2>2, RequestMoves DEF StartTask, Promise!Known
<1>21. ASSUME NEW a \in Agents, PassGate(a)  PROVE Fine
  <2>1. \A b \in Agents : IF b = a THEN loop[b].at \notin AtWork /\ loop'[b].at \notin AtWork
                          ELSE loop'[b] = loop[b]
    BY <1>21 DEF PassGate, Start, Go, At, AtWork, TypeOK
  <2>2. works' = works
    BY <1>21, <2>1 DEF works, Work, Task, PassGate, AtWork
  <2> QED  BY <1>0, <1>21, <2>2 DEF PassGate
<1>22. ASSUME NEW a \in Agents, ShowPause(a)  PROVE Fine
  BY <1>0, <1>22, WorkStays DEF ShowPause
<1>23. ASSUME NEW a \in Agents, Pause(a) \/ Resume(a)  PROVE Fine
  BY <1>0, <1>23, WorkStays DEF Pause, Resume
<1>24. CASE UNCHANGED vars
  BY <1>0, <1>24, WorkStays DEF vars
<1> QED
  BY <1>1, <1>2, <1>3, <1>4, <1>5, <1>6, <1>7, <1>8, <1>9, <1>10, <1>11, <1>12,
     <1>13, <1>14, <1>15, <1>16, <1>17, <1>18, <1>19, <1>20, <1>21, <1>22, <1>23,
     <1>24, RequestIsStatus, MailboxAssumption
  DEF Next, LoopStep

\* Who works on a task, which is on the board, has it, or it is disputed.
HasIt ==
  /\ Promise!Typed
  /\ \A a \in Agents : works[a] # None =>
       Promise!Known(works[a]) /\ (owner[works[a]] = a \/ works[a] \in disputed)

LEMMA HasItStep ==
  ASSUME HasIt, [Promise!Next]_(Promise!workVars)  PROVE HasIt'
<1> USE MailboxAssumption DEF HasIt, Promise!Typed, Promise!Known
<1>1. ASSUME NEW t \in Tasks, Promise!Move(t)  PROVE HasIt'
  <2>1. PICK s \in Promise!Status : Promise!Set(t, s)
    BY <1>1 DEF Promise!Move
  <2>2. PICK o \in Agents \cup {None} :
          /\ owner' = [owner EXCEPT ![t] = o]
          /\ disputed' = IF o # owner[t] /\ \E a \in Agents \ {o} : works[a] = t
                           THEN disputed \cup {t} ELSE disputed
    BY <1>1 DEF Promise!Move
  <2>3. "absent" \notin Promise!Status /\ works' = works
    BY <1>1 DEF Promise!Status, Promise!Move
  <2>4. Promise!Typed' /\ \A u \in Tasks : status[u] # "absent" => status'[u] # "absent"
    BY <2>1, <2>2, <2>3 DEF Promise!Set
  <2>5. ASSUME NEW a \in Agents, works[a] # None
        PROVE  owner'[works[a]] = a \/ works[a] \in disputed'
    BY <2>2, <2>5
  <2> QED  BY <2>3, <2>4, <2>5
<1>2. ASSUME NEW t \in Tasks, NEW a \in Agents \cup {None}, Promise!Create(t, a)  PROVE HasIt'
  BY <1>2 DEF Promise!Create, Promise!Set, Promise!Status
<1>3. ASSUME NEW a \in Agents, Promise!End(a)  PROVE HasIt'
  <2>1. works[a] \in Tasks /\ status[works[a]] \in Promise!Status
    BY <1>3 DEF Promise!End
  <2>2. Promise!VALID_TRANSITIONS[status[works[a]]] \subseteq Promise!Status
    BY <2>1 DEF Promise!VALID_TRANSITIONS, Promise!Status
  <2>3. "absent" \notin Promise!Status
    BY DEF Promise!Status
  <2>4. status' \in [Tasks -> Promise!Status \cup {"absent"}]
        /\ \A u \in Tasks : status[u] # "absent" => status'[u] # "absent"
    BY <1>3, <2>1, <2>2, <2>3 DEF Promise!End, Promise!Set
  <2>5. \A b \in Agents : works'[b] # None => b # a /\ works'[b] = works[b]
    BY <1>3 DEF Promise!End
  <2>6. \A b \in Agents \ {a} : works[b] \in disputed => works[b] \in disputed'
    BY <1>3 DEF Promise!End
  <2>7. Promise!Typed'
    BY <1>3, <2>4 DEF Promise!End
  <2>8. owner' = owner
    BY <1>3 DEF Promise!End
  <2> QED  BY <2>4, <2>5, <2>6, <2>7, <2>8
<1>5. ASSUME NEW a \in Agents, NEW t \in Tasks, Promise!Begin(a, t)  PROVE HasIt'
  <2>1. works' = [works EXCEPT ![a] = t] /\ status[t] # "absent"
    BY <1>5 DEF Promise!Begin
  <2>2. /\ Promise!Claim(a, t) \/ UNCHANGED <<status, owner>>
        /\ UNCHANGED disputed \/ disputed' = disputed \cup {t}
    BY <1>5 DEF Promise!Begin
  <2>3. /\ Promise!Typed' /\ \A u \in Tasks : status[u] # "absent" => status'[u] # "absent"
        /\ \A u \in Tasks \ {t} : owner'[u] = owner[u]
    BY <2>1, <2>2 DEF Promise!Claim, Promise!Set, Promise!Status
  <2>4. owner'[t] = a \/ t \in disputed'
    BY <1>5 DEF Promise!Begin, Promise!Claim
  <2>5. \A b \in Agents : owner[t] = b => owner'[t] = b \/ t \in disputed'
    BY <1>5 DEF Promise!Begin, Promise!Claim
  <2> QED  BY <2>1, <2>2, <2>3, <2>4, <2>5
<1>6. CASE Promise!Down
  BY <1>6 DEF Promise!Down
<1>7. CASE UNCHANGED Promise!workVars
  BY <1>7 DEF Promise!workVars
<1> QED  BY <1>1, <1>2, <1>3, <1>5, <1>6, <1>7 DEF Promise!Next

-----------------------------------------------------------------------------
(* The theorems                                                            *)

\* The inductive invariant holds when the process starts on an empty board.
LEMMA InvInit == Init => Inv
<1> SUFFICES ASSUME Init
             PROVE  Inv
  OBVIOUS
<1>1. TypeOK
  BY MailboxAssumption DEF Init, TypeOK, Idle, Points, Moods
<1>2. Addressed
  BY DEF Init, Addressed, Idle
<1>3. OneInWorkingbox
  BY DEF Init, OneInWorkingbox, Working, FilesOf
<1> QED
  BY <1>1, <1>2, <1>3 DEF Inv

\* Every reachable state satisfies the inductive invariant: each step keeps each
\* of its conjuncts, given the others.
THEOREM Invariance == Spec => []Inv
<1>1. Inv /\ [Next]_vars => Inv'
  BY TypeStep, AddressedStep, WorkingboxStep DEF Inv
<1> QED
  BY InvInit, <1>1, PTL DEF Spec

\* The types of the mailbox's state hold forever.
THEOREM TypeCorrect == Spec => []TypeOK
BY Invariance, PTL DEF Inv

\* An agent's workingbox holds one message at the most, whatever is retried,
\* queued twice, nudged, reconciled or recovered.
THEOREM WorkingboxIsSingle == Spec => []OneInWorkingbox
BY Invariance, PTL DEF Inv

\* What TaskWork promises is enough: by its steps alone no two agents come to work on
\* a task that is not disputed.
THEOREM PromiseExcludes == WorksAsPromised => []Promise!Alone
<1>1. Promise!Init => HasIt
  BY MailboxAssumption DEF Promise!Init, HasIt, Promise!Typed
<1>2. HasIt /\ [Promise!Next]_(Promise!workVars) => HasIt'
  BY HasItStep
<1>3. HasIt => Promise!Alone
  BY MailboxAssumption DEF HasIt, Promise!Typed, Promise!Alone
<1> QED  BY <1>1, <1>2, <1>3, PTL DEF WorksAsPromised, Promise!Spec

\* The message loops implement TaskWork: whatever becomes of the messages, whoever asks
\* for whichever status and assignee of a task, and whenever sessions are paused, an
\* agent sets to work on a task that it has, and leaves it as the table allows.
THEOREM WorkIsPromised == Spec => WorksAsPromised
<1>1. Init => Promise!Init
  BY DEF Init, Promise!Init, works, Work, Idle
<1>2. Inv /\ [Next]_vars => [Promise!Next]_(Promise!workVars)
  BY StepIsWork DEF Inv
<1> QED  BY <1>1, <1>2, Invariance, PTL DEF Spec, WorksAsPromised, Promise!Spec

\* Two agents never work on one task in progress, unless it is disputed: this follows
\* from what TaskWork promises, which the loops implement.
THEOREM TaskHasOneWorker == Spec => []OneWorker
<1>1. TypeOK /\ Promise!Alone => OneWorker
  <2> SUFFICES ASSUME Promise!Alone, NEW t \in Tasks \ disputed,
                      NEW a \in Workers(t), NEW b \in Workers(t)
               PROVE  a = b
    BY DEF OneWorker
  <2>1. a \in Agents /\ b \in Agents /\ works[a] = t /\ works[b] = t
    BY DEF Workers, works, Work
  <2> QED  BY <2>1 DEF Promise!Alone
<1> QED  BY <1>1, TypeCorrect, WorkIsPromised, PromiseExcludes, PTL

=============================================================================
