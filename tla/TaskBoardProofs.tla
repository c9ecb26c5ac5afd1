-------------------------- MODULE TaskBoardProofs --------------------------
(***************************************************************************)
(* Proofs about TaskBoard for every set of tasks, callers, agents and      *)
(* requests.                                                               *)
(***************************************************************************)
EXTENDS TaskBoard, TLAPS

-----------------------------------------------------------------------------
(* The operators *)

LEMMA KeywordsType ==
  ASSUME NEW task \in Durable, NEW request \in Requests
  PROVE  KeywordsOf(task, request) \in Keywords
<1>1. request \in Request
  BY TaskBoardAssumption
<1>2. StatusKeyword(task, request) \in Status \cup {Absent}
  BY <1>1 DEF StatusKeyword, StatusAfter, Status, Request
<1>3. ASSUME NEW status \in Status \cup {Absent}
      PROVE  /\ OutcomeKeyword(task, request, status)
                  \in Outcome \cup {None, Absent}
             /\ ReviewerKeyword(task, request, status)
                  \in Reviewer \cup {Absent}
  BY <1>1 DEF OutcomeKeyword, ReviewerKeyword, Request, Outcome, Reviewer
<1> QED
  BY <1>1, <1>2, <1>3 DEF KeywordsOf, Keywords, Request

LEMMA ApplyType ==
  ASSUME NEW task \in Durable, NEW kw \in Keywords
  PROVE  Apply(task, kw) \in Durable
BY DEF Apply, Assign, Durable, Keywords

LEMMA ChangedType ==
  ASSUME NEW loaded \in Durable, NEW kw \in Keywords
  PROVE  Changed(loaded, kw) \in Keywords
BY DEF Changed, Difference, Durable, Keywords

\* Writing only what differs from the row, to that same row, writes all.
LEMMA ChangedSuffices ==
  ASSUME NEW loaded \in Durable, NEW kw \in Keywords
  PROVE  Apply(loaded, Changed(loaded, kw)) = Apply(loaded, kw)
<1>1. ASSUME NEW old, NEW new, old # Absent
      PROVE  Assign(old, Difference(old, new)) = Assign(old, new)
  BY DEF Assign, Difference
<1>2. /\ loaded.status # Absent /\ loaded.category # Absent
      /\ loaded.outcome # Absent /\ loaded.reviewer # Absent
      /\ loaded.started # Absent /\ loaded.completed # Absent
  BY TaskBoardAssumption DEF Durable
<1> QED
  BY <1>1, <1>2 DEF Apply, Changed, Assign, Difference

-----------------------------------------------------------------------------
(* Types *)

LEMMA TypeStep == TypeOK /\ [Next]_vars => TypeOK'
<1> SUFFICES ASSUME TypeOK, [Next]_vars
             PROVE  TypeOK'
  OBVIOUS
<1> USE DEF TypeOK
<1>1. ASSUME NEW c \in Callers, NEW t \in Tasks, NEW p \in Tasks \cup {None},
             NEW status \in {"draft", "pending"}, NEW category \in Category,
             CreateTask(c, t, p, status, category)
      PROVE  TypeOK'
  <2>1. NewTask(status, category) \in Durable
    BY DEF NewTask, Durable, Status
  <2>2. [op |-> "create", task |-> t, row |-> NewTask(status, category)]
          \in Call
    BY <2>1 DEF Call
  <2> QED BY <1>1, <2>2 DEF CreateTask, Become, history
<1>2. ASSUME NEW c \in Callers, CreateRow(c)
      PROVE  TypeOK'
  <2>1. call[c] \in [op: {"create", "insert"}, task: Tasks, row: Durable]
    BY <1>2 DEF CreateRow, Call, Idle
  <2>2. [call[c] EXCEPT !.op = "insert"] \in Call
    BY <2>1 DEF Call
  <2> QED BY <1>2, <2>1, <2>2 DEF CreateRow, Become, history
<1>3. ASSUME NEW c \in Callers, InsertInCache(c)
      PROVE  TypeOK'
  <2>1. call[c] \in [op: {"create", "insert"}, task: Tasks, row: Durable]
    BY <1>3 DEF InsertInCache, Call, Idle
  <2> QED BY <1>3, <2>1 DEF InsertInCache, Become, history, Call, Cached
<1>4. ASSUME NEW c \in Callers, NEW t \in Tasks, NEW a \in Agents \cup {WebUser},
             NEW request \in Requests, UpdateTask(c, t, a, request)
      PROVE  TypeOK'
  <2>1. cache[t] \in Durable
    BY <1>4 DEF UpdateTask, Cached
  <2> DEFINE kw == KeywordsOf(cache[t], request)
  <2>2. kw \in Keywords /\ request.note \in BOOLEAN
    BY <2>1, KeywordsType, TaskBoardAssumption DEF Request
  <2>3. Apply(cache[t], kw) \in Durable
    BY <2>1, <2>2, ApplyType
  <2>4. [op |-> "load", task |-> t, kw |-> kw, note |-> request.note] \in Call
    BY <2>2 DEF Call
  <2>5. updates' \in 0..MaxUpdates /\ notes' \in [Tasks -> Nat]
    BY <1>4, TaskBoardAssumption DEF UpdateTask
  <2> HIDE DEF kw
  <2>6. CASE Accepted(cache[t], a, request)
    BY <1>4, <2>6, <2>3, <2>4, <2>5 DEF UpdateTask, Become, OverlappedBy, kw
  <2>7. CASE ~Accepted(cache[t], a, request)
    BY <1>4, <2>7, <2>5 DEF UpdateTask
  <2> QED BY <2>6, <2>7
<1>5. ASSUME NEW c \in Callers, LoadRow(c)
      PROVE  TypeOK'
  <2>1. call[c] \in [op: {"load"}, task: Tasks, kw: Keywords, note: BOOLEAN]
    BY <1>5 DEF LoadRow, Call, Idle
  <2>2. call' \in [Callers -> Call]
    <3>1. CASE db[call[c].task] = NoTask
      BY <1>5, <3>1 DEF LoadRow, Become, Call
    <3>2. CASE db[call[c].task] # NoTask
      <4>1. db[call[c].task] \in Durable
        BY <2>1, <3>2
      <4>2. [op |-> "commit", task |-> call[c].task, kw |-> call[c].kw,
             note |-> call[c].note, loaded |-> db[call[c].task]] \in Call
        BY <2>1, <4>1 DEF Call
      <4> QED BY <1>5, <3>2, <4>2 DEF LoadRow, Become
    <3> QED BY <3>1, <3>2
  <2> QED BY <1>5, <2>2 DEF LoadRow, history
<1>6. ASSUME NEW c \in Callers, CommitRow(c)
      PROVE  TypeOK'
  <2>1. call[c] \in [op: {"commit"}, task: Tasks, kw: Keywords, note: BOOLEAN,
                     loaded: Durable]
    BY <1>6 DEF CommitRow, Call, Idle
  <2>2. call' \in [Callers -> Call]
    BY <1>6 DEF CommitRow, Become, Call
  <2>3. CASE db[call[c].task] = NoTask
    BY <1>6, <2>2, <2>3 DEF CommitRow, history
  <2>4. CASE db[call[c].task] # NoTask
    <3>1. db[call[c].task] \in Durable
      BY <2>1, <2>4
    <3>2. Apply(db[call[c].task], Changed(call[c].loaded, call[c].kw))
            \in Durable
      BY <2>1, <3>1, ApplyType, ChangedType
    <3> QED BY <1>6, <2>1, <2>2, <2>4, <3>2 DEF CommitRow, history
  <2> QED BY <2>3, <2>4
<1>7. ASSUME NEW c \in Callers, WriteFails(c)
      PROVE  TypeOK'
  <2>1. call[c].task \in Tasks
    BY <1>7 DEF WriteFails, Call, Idle
  <2> QED BY <1>7, <2>1 DEF WriteFails, Become, Call
<1>8. ASSUME NEW c \in Callers, NEW t \in Tasks, DeleteTask(c, t)
      PROVE  TypeOK'
  BY <1>8 DEF DeleteTask, Become, Call, OverlappedBy
<1>9. ASSUME NEW c \in Callers, DeleteRow(c)
      PROVE  TypeOK'
  <2>1. call[c].task \in Tasks
    BY <1>9 DEF DeleteRow, Call, Idle
  <2> QED BY <1>9, <2>1 DEF DeleteRow, Become, Call
<1>10. ASSUME NEW c \in Callers, DropFromCache(c)
       PROVE  TypeOK'
  <2>1. call[c].task \in Tasks
    BY <1>10 DEF DropFromCache, Call, Idle
  <2> QED BY <1>10, <2>1 DEF DropFromCache, Become, Call, history, Cached
<1>11. CASE Restart
  BY <1>11 DEF Restart, history, Call
<1>12. CASE UNCHANGED vars
  BY <1>12 DEF vars
<1> QED
  BY <1>1, <1>2, <1>3, <1>4, <1>5, <1>6, <1>7, <1>8, <1>9, <1>10, <1>11, <1>12
  DEF Next, AgentUpdate, WebUpdate

LEMMA TypeInit == Init => TypeOK
<1>1. ASSUME Init
      PROVE  updates \in 0..MaxUpdates /\ notes \in [Tasks -> Nat]
               /\ dbNotes \in [Tasks -> Nat]
  BY <1>1, TaskBoardAssumption DEF Init
<1>2. Init => call \in [Callers -> Call]
  BY DEF Init, Call
<1> QED
  BY <1>1, <1>2 DEF Init, TypeOK

\* Every variable keeps its type: TypeOK.
THEOREM TypeCorrect == Spec => []TypeOK
BY TypeInit, TypeStep, PTL DEF Spec

-----------------------------------------------------------------------------
(* Agreement of cache and database                                         *)

\* The keywords of an update under way respect the review gate on this row.
GateKept(row, kw) ==
  row.status = "in_progress" /\ row.category = "project"
     /\ Apply(row, kw).status = "done" => Apply(row, kw).outcome = "rejected"

\* What a call that is under way, alone on its task t, knows of that task.
Expects(job, t) ==
  /\ job.op = "create" => cache[t] = NoTask /\ db[t] = NoTask /\ Fits(job.row)
  /\ job.op = "insert" => cache[t] = NoTask /\ db[t] = job.row
  /\ job.op \in {"load", "commit"} =>
       /\ db[t] \in Durable
       /\ cache[t] = Apply(db[t], job.kw)
       /\ GateKept(db[t], job.kw)
  /\ job.op = "commit" => job.loaded = db[t]
  /\ job.op = "delete" => cache[t] = db[t]
  /\ job.op = "drop" => db[t] = NoTask

Stored(t) ==
  /\ cache[t] # NoTask => Fits(cache[t])
  /\ db[t] # NoTask => Fits(db[t])

\* The inductive invariant for a task that is not torn: one call at most is at
\* work on it, cache and row fit their status, and they are related the way
\* that call left them, or equal if there is none.
Agrees(t) ==
  t \notin Torn =>
    /\ \A c, d \in Busy(t) : c = d
    /\ Stored(t)
    /\ \A c \in Busy(t) : Expects(call[c], t)
    /\ Busy(t) = {} => cache[t] = db[t]

Agreement == TypeOK /\ \A t \in Tasks : Agrees(t)

\* What an update does to a task that fits its status: it fits again, and the
\* review gate is kept.
LEMMA UpdateFits ==
  ASSUME NEW task \in Durable, NEW request \in Requests, Fits(task)
  PROVE  /\ Fits(Apply(task, KeywordsOf(task, request)))
         /\ GateKept(task, KeywordsOf(task, request))
<1> DEFINE status == StatusKeyword(task, request)
           kw == KeywordsOf(task, request)
           after == Apply(task, kw)
<1>1. request \in Request
  BY TaskBoardAssumption
<1>2. /\ status \in Status \cup {Absent}
      /\ status # Absent => request.status \in Status
      /\ status # Absent =>
           status = StatusAfter(task.status, request.status, task.category,
                                request.outcome)
  BY <1>1, TaskBoardAssumption
  DEF StatusKeyword, StatusAfter, Status, Request
<1>3. /\ kw.status = status
      /\ kw.outcome = OutcomeKeyword(task, request, status)
      /\ kw.reviewer = ReviewerKeyword(task, request, status)
      /\ kw.started = IF status = "in_progress" /\ ~task.started
                        THEN TRUE ELSE Absent
      /\ kw.completed = IF status = "done" THEN TRUE ELSE Absent
  BY DEF KeywordsOf
<1>4. /\ after.status = Assign(task.status, status)
      /\ after.outcome = Assign(task.outcome, kw.outcome)
      /\ after.reviewer = Assign(task.reviewer, kw.reviewer)
      /\ after.started = Assign(task.started, kw.started)
      /\ after.completed = Assign(task.completed, kw.completed)
  BY <1>3 DEF Apply
<1>5. TRUE # Absent
  BY TaskBoardAssumption
<1> HIDE DEF status, kw, after
<1>6. after.status = "done" => after.outcome # None
  <2>1. request.outcome # None
    BY <1>1, TaskBoardAssumption DEF Request
  <2>2. "complete" # None /\ "complete" # Absent
    BY TaskBoardAssumption DEF Outcome
  <2>3. CASE status = Absent
    BY <1>3, <1>4, <2>1, <2>2, <2>3 DEF Assign, OutcomeKeyword, Fits
  <2>4. CASE status # Absent
    BY <1>3, <1>4, <2>1, <2>2, <2>4 DEF Assign, OutcomeKeyword, Fits
  <2> QED BY <2>3, <2>4
<1>7. after.status = "done" => after.completed
  BY <1>2, <1>3, <1>4, <1>5 DEF Assign, Fits
<1>8. after.status = "in_progress" => after.started
  BY <1>2, <1>3, <1>4, <1>5 DEF Assign, Fits
<1>9. after.status = "review" => after.reviewer # None
  <2>1. /\ DefaultReviewer # None /\ DefaultReviewer # Absent
        /\ request.reviewer # None
    BY <1>1, TaskBoardAssumption DEF Request, Reviewer
  <2> QED BY <1>2, <1>3, <1>4, <2>1 DEF Assign, ReviewerKeyword, Fits
<1>10. GateKept(task, kw)
  <2> SUFFICES ASSUME task.status = "in_progress", task.category = "project",
                      after.status = "done"
               PROVE  after.outcome = "rejected"
    BY DEF GateKept, after
  <2>1. status = "done" /\ status # Absent
    BY <1>2, <1>4 DEF Assign, Status
  <2>2. request.status = "done" /\ request.outcome = "rejected"
    BY <1>2, <2>1 DEF StatusAfter, Gated
  <2>3. "rejected" # Absent
    BY TaskBoardAssumption DEF Outcome
  <2> QED BY <1>3, <1>4, <2>2, <2>3 DEF Assign, OutcomeKeyword
<1> QED BY <1>6, <1>7, <1>8, <1>9, <1>10 DEF Fits, after, kw

\* A step of caller c on task t leaves the other tasks as they are. On t it is
\* enough to look at what the step leaves c with: a call still under way, which
\* must know the task, or nothing, and then cache and row must agree.
LEMMA OneTaskSteps ==
  ASSUME Agreement,
         NEW c \in Callers, NEW t \in Tasks,
         \A d \in Callers : d # c => call'[d] = call[d],
         call[c].op = "idle" \/ call[c].task = t,
         call'[c].op = "idle" \/ call'[c].task = t,
         \A s \in Tasks \ {t} : cache'[s] = cache[s] /\ db'[s] = db[s],
         Torn \subseteq Torn',
         t \notin Torn' =>
           /\ Busy(t) \subseteq {c}
           /\ Stored(t)'
           /\ IF call'[c].op = "idle" THEN cache'[t] = db'[t]
                                      ELSE Expects(call[c], t)'
  PROVE  \A s \in Tasks : Agrees(s)'
<1>1. ASSUME NEW s \in Tasks, s # t
      PROVE  Agrees(s)'
  <2>1. /\ Busy(s)' = Busy(s)
        /\ \A d \in Busy(s) : call'[d] = call[d]
    BY <1>1 DEF Busy
  <2>2. Agrees(s) /\ cache'[s] = cache[s] /\ db'[s] = db[s]
    BY <1>1 DEF Agreement
  <2>3. ASSUME NEW d \in Busy(s), Expects(call[d], s)
        PROVE  Expects(call[d], s)'
    BY <2>1, <2>2, <2>3 DEF Expects
  <2> QED
    BY <2>1, <2>2, <2>3 DEF Agrees, Stored
<1>2. Agrees(t)'
  <2>1. Busy(t)' = IF call'[c].op = "idle" THEN Busy(t) \ {c}
                                          ELSE Busy(t) \cup {c}
    BY DEF Busy
  <2> SUFFICES ASSUME (t \notin Torn)'
               PROVE  (/\ \A d, e \in Busy(t) : d = e
                       /\ Stored(t)
                       /\ \A d \in Busy(t) : Expects(call[d], t)
                       /\ Busy(t) = {} => cache[t] = db[t])'
    BY DEF Agrees
  <2>2. CASE call'[c].op = "idle"
    BY <2>1, <2>2
  <2>3. CASE call'[c].op # "idle"
    <3>1. Busy(t)' = {c}
      BY <2>1, <2>3
    <3> QED BY <2>3, <3>1
  <2> QED BY <2>2, <2>3
<1> QED BY <1>1, <1>2

\* A call under way on a task that is not torn has it to itself.
LEMMA Alone ==
  ASSUME Agreement, NEW c \in Callers, call[c].op # "idle"
  PROVE  \E t \in Tasks :
           /\ call[c].task = t
           /\ t \notin Torn =>
                Busy(t) \subseteq {c} /\ Stored(t) /\ Expects(call[c], t)
<1>1. call[c] \in Call
  BY DEF Agreement, TypeOK
<1>2. PICK t \in Tasks : call[c].task = t
  BY <1>1 DEF Call, Idle
<1>3. c \in Busy(t)
  BY <1>2 DEF Busy
<1> QED
  BY <1>2, <1>3 DEF Agreement, Agrees

LEMMA AgreementStep == Agreement /\ [Next]_vars => Agreement'
<1> SUFFICES ASSUME Agreement, [Next]_vars
             PROVE  \A s \in Tasks : Agrees(s)'
  BY TypeStep DEF Agreement
<1> USE DEF Torn, Become
<1>0. TypeOK /\ call \in [Callers -> Call]
  BY DEF Agreement, TypeOK
<1>1. ASSUME NEW c \in Callers, NEW t \in Tasks, NEW p \in Tasks \cup {None},
             NEW status \in {"draft", "pending"}, NEW category \in Category,
             CreateTask(c, t, p, status, category)
      PROVE  \A s \in Tasks : Agrees(s)'
  <2>1. /\ call[c].op = "idle" /\ Busy(t) = {}
        /\ cache[t] = NoTask /\ db[t] = NoTask
        /\ cache' = cache /\ db' = db /\ Torn' = Torn
        /\ call' = [call EXCEPT ![c] = [op |-> "create", task |-> t,
                                       row |-> NewTask(status, category)]]
    BY <1>1 DEF CreateTask, Fresh, Cached, history
  <2>2. Stored(t)' /\ Fits(NewTask(status, category))
    BY <2>1 DEF Stored, Fits, NewTask
  <2>3. Expects(call[c], t)'
    BY <1>0, <2>1, <2>2 DEF Expects
  <2> QED BY <1>0, <2>1, <2>2, <2>3, OneTaskSteps
<1>2. ASSUME NEW c \in Callers, CreateRow(c)
      PROVE  \A s \in Tasks : Agrees(s)'
  <2>1. PICK t \in Tasks :
          /\ call[c].task = t
          /\ t \notin Torn =>
               Busy(t) \subseteq {c} /\ Stored(t) /\ Expects(call[c], t)
    BY <1>2, Alone DEF CreateRow
  <2>2. call[c] \in [op: {"create", "insert"}, task: Tasks, row: Durable]
    BY <1>0, <1>2 DEF CreateRow, Call, Idle
  <2>3. /\ cache' = cache /\ Torn' = Torn
        /\ db' = [db EXCEPT ![t] = call[c].row]
        /\ call' = [call EXCEPT ![c] = [call[c] EXCEPT !.op = "insert"]]
    BY <1>2, <2>1 DEF CreateRow, history
  <2>4. db'[t] = call[c].row /\ call'[c].op = "insert"
        /\ call'[c].row = call[c].row /\ call'[c].task = t
    BY <1>0, <2>1, <2>2, <2>3 DEF TypeOK
  <2>5. ASSUME t \notin Torn
        PROVE  Stored(t)' /\ Expects(call[c], t)'
    BY <1>2, <2>1, <2>3, <2>4, <2>5 DEF Stored, Expects, CreateRow
  <2> QED
    BY <1>0, <2>1, <2>3, <2>4, <2>5, OneTaskSteps DEF TypeOK
<1>3. ASSUME NEW c \in Callers, InsertInCache(c)
      PROVE  \A s \in Tasks : Agrees(s)'
  <2>1. PICK t \in Tasks :
          /\ call[c].task = t
          /\ t \notin Torn =>
               Busy(t) \subseteq {c} /\ Stored(t) /\ Expects(call[c], t)
    BY <1>3, Alone DEF InsertInCache
  <2>2. /\ db' = db /\ Torn' = Torn /\ call[c].op = "insert"
        /\ cache' = [cache EXCEPT ![t] = call[c].row]
        /\ call' = [call EXCEPT ![c] = Idle]
    BY <1>3, <2>1 DEF InsertInCache, history
  <2>3. cache'[t] = call[c].row /\ call'[c].op = "idle"
    BY <1>0, <2>1, <2>2 DEF TypeOK, Idle
  <2>4. ASSUME t \notin Torn
        PROVE  Stored(t)' /\ cache'[t] = db'[t]
    BY <2>1, <2>2, <2>3, <2>4 DEF Stored, Expects
  <2> QED
    BY <1>0, <2>1, <2>2, <2>3, <2>4, OneTaskSteps DEF TypeOK
<1>4. ASSUME NEW c \in Callers, NEW t \in Tasks, NEW a \in Agents \cup {WebUser},
             NEW request \in Requests, UpdateTask(c, t, a, request)
      PROVE  \A s \in Tasks : Agrees(s)'
  <2> DEFINE kw == KeywordsOf(cache[t], request)
             job == [op |-> "load", task |-> t, kw |-> kw, note |-> request.note]
  <2>1. cache[t] \in Durable /\ call[c].op = "idle" /\ db' = db
    BY <1>0, <1>4 DEF UpdateTask, Cached, TypeOK
  <2>2. CASE Accepted(cache[t], a, request)
    <3>1. /\ cache' = [cache EXCEPT ![t] = Apply(cache[t], kw)]
          /\ call' = [call EXCEPT ![c] = job]
          /\ overlapped' = OverlappedBy(t) /\ failed' = failed
      BY <1>4, <2>2 DEF UpdateTask
    <3>2. call'[c] = job /\ cache'[t] = Apply(cache[t], kw)
      BY <1>0, <3>1 DEF TypeOK
    <3>3. Torn \subseteq Torn' /\ (t \notin Torn' => t \notin Torn /\ Busy(t) = {})
      BY <3>1 DEF OverlappedBy
    <3>4. ASSUME t \notin Torn'
          PROVE  Stored(t)' /\ Expects(call[c], t)'
      <4>1. cache[t] = db[t] /\ Fits(cache[t])
        BY <2>1, <3>3, <3>4, TaskBoardAssumption DEF Agreement, Agrees, Stored
      <4>2. Fits(Apply(cache[t], kw)) /\ GateKept(cache[t], kw)
        BY <2>1, <4>1, UpdateFits
      <4>3. /\ call'[c].op = "load" /\ call'[c].kw = kw
        BY <3>2
      <4> HIDE DEF kw, job
      <4>4. Stored(t)'
        BY <2>1, <3>2, <4>1, <4>2 DEF Stored
      <4>5. Expects(call[c], t)'
        BY <2>1, <3>2, <4>1, <4>2, <4>3 DEF Expects, GateKept
      <4> QED BY <4>4, <4>5
    <3>5. call'[c].op = "load" /\ call'[c].task = t
      BY <3>2
    <3> HIDE DEF kw, job
    <3> QED BY <1>0, <2>1, <3>1, <3>3, <3>4, <3>5, OneTaskSteps DEF TypeOK
  <2>3. CASE ~Accepted(cache[t], a, request)
    <3>1. cache' = cache /\ db' = db /\ call' = call /\ Torn' = Torn
      BY <1>4, <2>3 DEF UpdateTask
    <3> QED
      BY <3>1 DEF Agreement, Agrees, Stored, Expects, Busy
  <2> QED BY <2>2, <2>3
<1>5. ASSUME NEW c \in Callers, LoadRow(c)
      PROVE  \A s \in Tasks : Agrees(s)'
  <2>1. PICK t \in Tasks :
          /\ call[c].task = t
          /\ t \notin Torn =>
               Busy(t) \subseteq {c} /\ Stored(t) /\ Expects(call[c], t)
    BY <1>5, Alone DEF LoadRow
  <2>2. /\ db' = db /\ cache' = cache /\ Torn' = Torn /\ call[c].op = "load"
    BY <1>5 DEF LoadRow, history
  <2>3. CASE db[t] = NoTask
    <3>1. call' = [call EXCEPT ![c] = Idle] /\ call'[c].op = "idle"
      BY <1>0, <1>5, <2>1, <2>3 DEF LoadRow, Idle
    <3>2. t \in Torn
      BY <2>1, <2>2, <2>3, TaskBoardAssumption DEF Expects
    <3> QED BY <1>0, <2>1, <2>2, <3>1, <3>2, OneTaskSteps
  <2>4. CASE db[t] # NoTask
    <3>1. call' = [call EXCEPT ![c] =
             [op |-> "commit", task |-> t, kw |-> call[c].kw,
              note |-> call[c].note, loaded |-> db[t]]]
      BY <1>5, <2>1, <2>4 DEF LoadRow
    <3>2. /\ call'[c].op = "commit" /\ call'[c].task = t
          /\ call'[c].kw = call[c].kw /\ call'[c].loaded = db[t]
      BY <1>0, <3>1
    <3>3. ASSUME t \notin Torn
          PROVE  Stored(t)' /\ Expects(call[c], t)'
      BY <2>1, <2>2, <3>2, <3>3 DEF Stored, Expects, GateKept
    <3> QED BY <1>0, <2>1, <2>2, <3>1, <3>2, <3>3, OneTaskSteps
  <2> QED BY <2>3, <2>4
<1>6. ASSUME NEW c \in Callers, CommitRow(c)
      PROVE  \A s \in Tasks : Agrees(s)'
  <2>1. PICK t \in Tasks :
          /\ call[c].task = t
          /\ t \notin Torn =>
               Busy(t) \subseteq {c} /\ Stored(t) /\ Expects(call[c], t)
    BY <1>6, Alone DEF CommitRow
  <2>2. /\ cache' = cache /\ Torn' = Torn /\ call[c].op = "commit"
        /\ call' = [call EXCEPT ![c] = Idle]
    BY <1>6 DEF CommitRow, history
  <2>3. call'[c].op = "idle"
    BY <1>0, <2>2 DEF Idle
  <2>4. call[c].kw \in Keywords
    BY <1>0, <2>2 DEF Call, Idle
  <2>5. \A s \in Tasks \ {t} : db'[s] = db[s]
    BY <1>0, <1>6, <2>1 DEF CommitRow, TypeOK
  <2>6. ASSUME t \notin Torn
        PROVE  Stored(t)' /\ cache'[t] = db'[t]
    <3>1. /\ db[t] \in Durable /\ call[c].loaded = db[t]
          /\ cache[t] = Apply(db[t], call[c].kw)
      BY <2>1, <2>2, <2>6 DEF Expects
    <3>2. db[t] # NoTask
      BY <3>1, TaskBoardAssumption
    <3>3. db' = [db EXCEPT ![t] = Apply(db[t], Changed(call[c].loaded, call[c].kw))]
      BY <1>6, <2>1, <3>2 DEF CommitRow
    <3>4. db'[t] = cache[t]
      BY <1>0, <2>4, <3>1, <3>3, ChangedSuffices DEF TypeOK
    <3> QED BY <2>1, <2>2, <2>6, <3>4 DEF Stored
  <2> QED BY <1>0, <2>1, <2>2, <2>3, <2>5, <2>6, OneTaskSteps
<1>7. ASSUME NEW c \in Callers, WriteFails(c)
      PROVE  \A s \in Tasks : Agrees(s)'
  <2>1. PICK t \in Tasks : call[c].task = t
    BY <1>7, Alone DEF WriteFails
  <2>2. /\ db' = db /\ cache' = cache /\ t \in Torn' /\ Torn \subseteq Torn'
        /\ call' = [call EXCEPT ![c] = Idle]
    BY <1>7, <2>1 DEF WriteFails
  <2>3. call'[c].op = "idle"
    BY <1>0, <2>2 DEF Idle
  <2> QED BY <1>0, <2>1, <2>2, <2>3, OneTaskSteps
<1>8. ASSUME NEW c \in Callers, NEW t \in Tasks, DeleteTask(c, t)
      PROVE  \A s \in Tasks : Agrees(s)'
  <2>1. /\ call[c].op = "idle" /\ db' = db /\ cache' = cache
        /\ Torn \subseteq Torn' /\ (t \notin Torn' => t \notin Torn /\ Busy(t) = {})
        /\ call' = [call EXCEPT ![c] = [op |-> "delete", task |-> t]]
    BY <1>8 DEF DeleteTask, OverlappedBy
  <2>2. call'[c].op = "delete" /\ call'[c].task = t
    BY <1>0, <2>1
  <2>3. ASSUME t \notin Torn'
        PROVE  Stored(t)' /\ Expects(call[c], t)'
    BY <2>1, <2>2, <2>3 DEF Agreement, Agrees, Stored, Expects
  <2> QED BY <1>0, <2>1, <2>2, <2>3, OneTaskSteps
<1>9. ASSUME NEW c \in Callers, DeleteRow(c)
      PROVE  \A s \in Tasks : Agrees(s)'
  <2>1. PICK t \in Tasks :
          /\ call[c].task = t
          /\ t \notin Torn =>
               Busy(t) \subseteq {c} /\ Stored(t) /\ Expects(call[c], t)
    BY <1>9, Alone DEF DeleteRow
  <2>2. /\ cache' = cache /\ Torn' = Torn /\ call[c].op = "delete"
    BY <1>9 DEF DeleteRow
  <2>3. CASE db[t] = NoTask
    <3>1. call' = [call EXCEPT ![c] = Idle] /\ call'[c].op = "idle" /\ db' = db
      BY <1>0, <1>9, <2>1, <2>3 DEF DeleteRow, Idle
    <3>2. t \notin Torn => Stored(t)' /\ cache'[t] = db'[t]
      BY <2>1, <2>2, <3>1 DEF Stored, Expects
    <3> QED BY <1>0, <2>1, <2>2, <3>1, <3>2, OneTaskSteps
  <2>4. CASE db[t] # NoTask
    <3>1. /\ db' = [db EXCEPT ![t] = NoTask]
          /\ call' = [call EXCEPT ![c] = [op |-> "drop", task |-> t]]
      BY <1>9, <2>1, <2>4 DEF DeleteRow
    <3>2. db'[t] = NoTask /\ call'[c].op = "drop" /\ call'[c].task = t
      BY <1>0, <3>1 DEF TypeOK
    <3>3. t \notin Torn => Stored(t)' /\ Expects(call[c], t)'
      BY <2>1, <2>2, <3>2 DEF Stored, Expects
    <3> QED BY <1>0, <2>1, <2>2, <3>1, <3>2, <3>3, OneTaskSteps DEF TypeOK
  <2> QED BY <2>3, <2>4
<1>10. ASSUME NEW c \in Callers, DropFromCache(c)
       PROVE  \A s \in Tasks : Agrees(s)'
  <2>1. PICK t \in Tasks :
          /\ call[c].task = t
          /\ t \notin Torn =>
               Busy(t) \subseteq {c} /\ Stored(t) /\ Expects(call[c], t)
    BY <1>10, Alone DEF DropFromCache
  <2>2. /\ db' = db /\ Torn' = Torn /\ call[c].op = "drop"
        /\ cache' = [cache EXCEPT ![t] = NoTask]
        /\ call' = [call EXCEPT ![c] = Idle]
    BY <1>10, <2>1 DEF DropFromCache, history
  <2>3. cache'[t] = NoTask /\ call'[c].op = "idle"
    BY <1>0, <2>1, <2>2 DEF TypeOK, Idle
  <2>4. t \notin Torn => Stored(t)' /\ cache'[t] = db'[t]
    BY <2>1, <2>2, <2>3 DEF Stored, Expects
  <2> QED BY <1>0, <2>1, <2>2, <2>3, <2>4, OneTaskSteps DEF TypeOK
<1>11. CASE Restart
  <2>1. /\ cache' = db /\ db' = db /\ Torn' = Torn
        /\ call' = [c \in Callers |-> Idle]
    BY <1>11 DEF Restart, history
  <2>2. ASSUME NEW s \in Tasks
        PROVE  Busy(s)' = {}
    BY <2>1 DEF Busy, Idle
  <2> QED
    BY <2>1, <2>2 DEF Agreement, Agrees, Stored
<1>12. CASE UNCHANGED vars
  <2>1. cache' = cache /\ db' = db /\ call' = call /\ Torn' = Torn
    BY <1>12 DEF vars
  <2> QED
    BY <2>1 DEF Agreement, Agrees, Stored, Expects, Busy
<1> QED
  BY <1>1, <1>2, <1>3, <1>4, <1>5, <1>6, <1>7, <1>8, <1>9, <1>10, <1>11, <1>12
  DEF Next, AgentUpdate, WebUpdate

LEMMA AgreementHolds == Spec => []Agreement
<1>1. Init => Agreement
  <2>1. Init => TypeOK
    BY TypeInit
  <2>2. ASSUME Init, NEW t \in Tasks
        PROVE  Agrees(t)
    <3>1. Busy(t) = {} /\ cache[t] = NoTask /\ db[t] = NoTask
      BY <2>2 DEF Init, Busy, Idle
    <3> QED BY <3>1 DEF Agrees, Stored
  <2> QED BY <2>1, <2>2 DEF Agreement
<1> QED
  BY <1>1, AgreementStep, PTL DEF Spec

\* update_task's defaults hold of every cached task whose writes neither
\* overlapped nor failed: FieldsFitStatus.
THEOREM FieldsFit == Spec => []FieldsFitStatus
<1>1. Agreement => FieldsFitStatus
  BY DEF Agreement, Agrees, Stored, FieldsFitStatus, Cached
<1> QED
  BY <1>1, AgreementHolds, PTL

\* Cache and database agree on every settled task: CacheMatchesRow.
THEOREM CacheAgrees == Spec => []CacheMatchesRow
<1>1. Agreement => CacheMatchesRow
  BY DEF Agreement, Agrees, CacheMatchesRow, Settled
<1> QED
  BY <1>1, AgreementHolds, PTL

\* No write that is alone on its task lets a project task past review:
\* DurableReviewGate.
THEOREM ReviewGateIsDurable == Spec => DurableReviewGate
<1> DEFINE Passes(t) ==
      db[t] # NoTask /\ db'[t] # NoTask =>
        ~ /\ db[t].status = "in_progress" /\ db[t].category = "project"
          /\ db'[t].status = "done" /\ db'[t].outcome # "rejected"
<1>1. ASSUME Agreement, [Next]_vars, NEW t \in Tasks \ Torn
      PROVE  Passes(t)
  <2>0. db \in [Tasks -> Durable \cup {NoTask}] /\ call \in [Callers -> Call]
    BY <1>1 DEF Agreement, TypeOK
  <2>1. CASE db'[t] = db[t]
    BY <2>1
  <2>2. ASSUME NEW c \in Callers, CreateRow(c)
        PROVE  Passes(t)
    <3>1. CASE call[c].task = t
      BY <1>1, <2>2, <3>1, Alone DEF CreateRow, Expects
    <3>2. CASE call[c].task # t
      BY <2>0, <2>2, <3>2 DEF CreateRow
    <3> QED BY <3>1, <3>2
  <2>3. ASSUME NEW c \in Callers, CommitRow(c)
        PROVE  Passes(t)
    <3>1. CASE call[c].task = t
      <4>1. /\ call[c].op = "commit" /\ db[t] \in Durable
            /\ call[c].loaded = db[t] /\ GateKept(db[t], call[c].kw)
        BY <1>1, <2>3, <3>1, Alone DEF CommitRow, Expects
      <4>2. call[c].kw \in Keywords
        BY <2>0, <4>1 DEF Call, Idle
      <4>3. db'[t] = Apply(db[t], call[c].kw)
        BY <2>0, <2>3, <3>1, <4>1, <4>2, ChangedSuffices, TaskBoardAssumption
        DEF CommitRow
      <4> QED BY <4>1, <4>3 DEF GateKept
    <3>2. CASE call[c].task # t
      BY <2>0, <2>3, <3>2 DEF CommitRow
    <3> QED BY <3>1, <3>2
  <2>4. ASSUME NEW c \in Callers, DeleteRow(c)
        PROVE  Passes(t)
    BY <2>0, <2>4 DEF DeleteRow
  <2>5. CASE UNCHANGED db
    BY <2>1, <2>5
  <2> QED
    BY <1>1, <2>2, <2>3, <2>4, <2>5
    DEF Next, vars, CreateTask, InsertInCache, AgentUpdate, WebUpdate,
        UpdateTask, LoadRow, WriteFails, DeleteTask, DropFromCache, Restart
<1>2. Agreement /\ [Next]_vars => [\A t \in Tasks \ Torn : Passes(t)]_vars
  BY <1>1
<1> QED
  BY <1>2, AgreementHolds, PTL DEF Spec, DurableReviewGate

-----------------------------------------------------------------------------
(* Creation and deletion, with no proviso on overlapping calls             *)

\* The inductive invariant for one task: it is on nobody's hands but its
\* creator's until it is in the cache, a row once deleted is gone, and of the
\* calls that delete it only one goes on to drop it from the cache.
Lives(t) ==
  /\ \A c \in Busy(t) : call[c].op \in {"create", "insert"} =>
       /\ t \notin deleted /\ ~Cached(t) /\ Busy(t) = {c}
       /\ call[c].op = "create" => db[t] = NoTask
  /\ t \in deleted =>
       /\ db[t] = NoTask
       /\ Cached(t) => \E c \in Busy(t) : call[c].op = "drop"
  /\ \A c \in Busy(t) : call[c].op = "drop" =>
       /\ Cached(t) /\ t \in deleted
       /\ \A d \in Busy(t) : call[d].op = "drop" => d = c
  /\ \A c \in Busy(t) : call[c].op = "delete" => Cached(t) \/ db[t] = NoTask

Registry == TypeOK /\ (\A t \in Tasks : Lives(t)) /\ SubtasksExist

LEMMA LivesStep == Registry /\ [Next]_vars => \A t \in Tasks : Lives(t)'
<1> SUFFICES ASSUME Registry, [Next]_vars, NEW t \in Tasks
             PROVE  Lives(t)'
  OBVIOUS
<1>0. /\ TypeOK /\ call \in [Callers -> Call] /\ Lives(t)
      /\ cache \in [Tasks -> Durable \cup {NoTask}]
      /\ db \in [Tasks -> Durable \cup {NoTask}]
  BY DEF Registry, TypeOK
<1> USE DEF Lives, Cached, Become
\* A step of c on another task does not touch this one.
<1>a. ASSUME NEW c \in Callers, NEW job, call' = [call EXCEPT ![c] = job],
             call[c].op = "idle" \/ call[c].task # t,
             job.op = "idle" \/ job.task # t,
             cache'[t] = cache[t], db'[t] = db[t],
             t \in deleted' <=> t \in deleted
      PROVE  Lives(t)'
  <2>1. Busy(t)' = Busy(t) /\ \A d \in Busy(t) : call'[d] = call[d]
    BY <1>0, <1>a DEF Busy
  <2> QED BY <1>0, <1>a, <2>1
\* What a step of c leaves of the calls on this task.
<1>b. ASSUME NEW c \in Callers, NEW job, call' = [call EXCEPT ![c] = job]
      PROVE  /\ call'[c] = job
             /\ \A d \in Callers : d # c => call'[d] = call[d]
             /\ job.op # "idle" /\ job.task = t => Busy(t)' = Busy(t) \cup {c}
             /\ job.op = "idle" => Busy(t)' = Busy(t) \ {c}
  BY <1>0, <1>b DEF Busy
<1>1. ASSUME NEW c \in Callers, NEW s \in Tasks, NEW p \in Tasks \cup {None},
             NEW status \in {"draft", "pending"}, NEW category \in Category,
             CreateTask(c, s, p, status, category)
      PROVE  Lives(t)'
  <2> DEFINE job == [op |-> "create", task |-> s, row |-> NewTask(status, category)]
  <2>1. /\ call[c].op = "idle" /\ Fresh(s)
        /\ cache' = cache /\ db' = db /\ deleted' = deleted
        /\ call' = [call EXCEPT ![c] = job]
        /\ job.op = "create" /\ job.task = s
    BY <1>1 DEF CreateTask, history
  <2> HIDE DEF job
  <2>2. CASE s # t
    BY <2>1, <2>2, <1>a
  <2>3. CASE s = t
    <3>1. Busy(t)' = {c} /\ call'[c] = job
      BY <2>1, <2>3, <1>b DEF Fresh
    <3> QED BY <1>0, <2>1, <2>3, <3>1 DEF Fresh
  <2> QED BY <2>2, <2>3
<1>2. ASSUME NEW c \in Callers, CreateRow(c)
      PROVE  Lives(t)'
  <2>1. call[c] \in [op: {"create", "insert"}, task: Tasks, row: Durable]
    BY <1>0, <1>2 DEF CreateRow, Call, Idle
  <2> DEFINE job == [call[c] EXCEPT !.op = "insert"]
  <2>2. /\ cache' = cache /\ deleted' = deleted /\ call[c].op = "create"
        /\ db' = [db EXCEPT ![call[c].task] = call[c].row]
        /\ call' = [call EXCEPT ![c] = job]
    BY <1>2 DEF CreateRow, history
  <2>3. job.op = "insert" /\ job.task = call[c].task
    BY <2>1
  <2> HIDE DEF job
  <2>4. CASE call[c].task # t
    <3>1. db'[t] = db[t]
      BY <1>0, <2>2, <2>4
    <3> QED BY <2>2, <2>3, <2>4, <3>1, <1>a
  <2>5. CASE call[c].task = t
    <3>1. c \in Busy(t) /\ Busy(t) = {c} /\ t \notin deleted /\ ~Cached(t)
      BY <1>0, <2>2, <2>5 DEF Busy
    <3>2. Busy(t)' = {c} /\ call'[c] = job
      BY <2>2, <2>3, <2>5, <3>1, <1>b
    <3> QED BY <2>2, <2>3, <3>1, <3>2
  <2> QED BY <2>4, <2>5
<1>3. ASSUME NEW c \in Callers, InsertInCache(c)
      PROVE  Lives(t)'
  <2>1. call[c] \in [op: {"create", "insert"}, task: Tasks, row: Durable]
    BY <1>0, <1>3 DEF InsertInCache, Call, Idle
  <2>2. /\ db' = db /\ deleted' = deleted /\ call[c].op = "insert"
        /\ cache' = [cache EXCEPT ![call[c].task] = call[c].row]
        /\ call' = [call EXCEPT ![c] = Idle] /\ Idle.op = "idle"
    BY <1>3 DEF InsertInCache, history, Idle
  <2>3. CASE call[c].task # t
    <3>1. cache'[t] = cache[t]
      BY <1>0, <2>2, <2>3
    <3> QED BY <2>2, <2>3, <3>1, <1>a
  <2>4. CASE call[c].task = t
    <3>1. Busy(t) = {c} /\ t \notin deleted
      BY <1>0, <2>2, <2>4 DEF Busy
    <3>2. Busy(t)' = {}
      BY <2>2, <3>1, <1>b
    <3> QED BY <2>2, <3>1, <3>2
  <2> QED BY <2>3, <2>4
<1>4. ASSUME NEW c \in Callers, NEW s \in Tasks, NEW a \in Agents \cup {WebUser},
             NEW request \in Requests, UpdateTask(c, s, a, request)
      PROVE  Lives(t)'
  <2> DEFINE kw == KeywordsOf(cache[s], request)
             job == [op |-> "load", task |-> s, kw |-> kw, note |-> request.note]
  <2>1. /\ call[c].op = "idle" /\ Cached(s) /\ cache[s] \in Durable
        /\ db' = db /\ deleted' = deleted
    BY <1>0, <1>4 DEF UpdateTask
  <2>2. Cached(t)' <=> Cached(t)
    <3>1. Apply(cache[s], kw) \in Durable
      BY <2>1, KeywordsType, ApplyType
    <3>2. Apply(cache[s], kw) # NoTask
      BY <3>1, TaskBoardAssumption
    <3> HIDE DEF kw
    <3>3. cache' = [cache EXCEPT ![s] = Apply(cache[s], kw)] \/ cache' = cache
      BY <1>4 DEF UpdateTask, kw
    <3> QED BY <1>0, <2>1, <3>2, <3>3
  <2>3. CASE ~Accepted(cache[s], a, request)
    <3>1. cache' = cache /\ call' = call
      BY <1>4, <2>3 DEF UpdateTask
    <3> QED BY <1>0, <2>1, <3>1 DEF Busy
  <2>4. CASE Accepted(cache[s], a, request)
    <3>1. /\ call' = [call EXCEPT ![c] = job]
          /\ cache' = [cache EXCEPT ![s] = Apply(cache[s], kw)]
          /\ job.op = "load" /\ job.task = s
      BY <1>4, <2>4 DEF UpdateTask
    <3> HIDE DEF job, kw
    <3>2. CASE s # t
      <4>1. cache'[t] = cache[t]
        BY <1>0, <3>1, <3>2
      <4> QED BY <2>1, <3>1, <3>2, <4>1, <1>a
    <3>3. CASE s = t
      <4>1. /\ Busy(t)' = Busy(t) \cup {c} /\ call'[c] = job
            /\ \A d \in Callers : d # c => call'[d] = call[d]
            /\ c \notin Busy(t)
        BY <2>1, <3>1, <3>3, <1>b DEF Busy
      <4>2. /\ \A d \in Busy(t) : call'[d] = call[d] /\ d # c
            /\ \A d \in Busy(t) : call[d].op \notin {"create", "insert"}
        BY <1>0, <2>1, <3>3, <4>1 DEF Busy
      <4> QED BY <1>0, <2>1, <2>2, <3>1, <3>3, <4>1, <4>2
    <3> QED BY <3>2, <3>3
  <2> QED BY <2>3, <2>4
<1>5. ASSUME NEW c \in Callers, LoadRow(c)
      PROVE  Lives(t)'
  <2>1. call[c] \in [op: {"load"}, task: Tasks, kw: Keywords, note: BOOLEAN]
    BY <1>0, <1>5 DEF LoadRow, Call, Idle
  <2>2. /\ db' = db /\ deleted' = deleted /\ cache' = cache
        /\ call[c].op = "load"
    BY <1>5 DEF LoadRow, history
  <2>3. PICK job : /\ call' = [call EXCEPT ![c] = job]
                   /\ \/ job.op = "idle"
                      \/ job.op = "commit" /\ job.task = call[c].task
    <3> DEFINE commit == [op |-> "commit", task |-> call[c].task,
                          kw |-> call[c].kw, note |-> call[c].note,
                          loaded |-> db[call[c].task]]
    <3>1. Idle.op = "idle" /\ commit.op = "commit" /\ commit.task = call[c].task
      BY DEF Idle
    <3>2. call' = [call EXCEPT ![c] = Idle] \/ call' = [call EXCEPT ![c] = commit]
      BY <1>5 DEF LoadRow
    <3> HIDE DEF commit
    <3> QED BY <3>1, <3>2
  <2>4. CASE call[c].task # t
    BY <2>2, <2>3, <2>4, <1>a
  <2>5. CASE call[c].task = t
    <3>1. c \in Busy(t)
      BY <2>2, <2>5 DEF Busy
    <3>2. Busy(t)' \subseteq Busy(t) /\ Busy(t) \ {c} \subseteq Busy(t)'
      BY <2>3, <2>5, <3>1, <1>b
    <3>3. \A d \in Busy(t) : IF d = c THEN call'[c] = job ELSE call'[d] = call[d]
      BY <2>3, <1>b DEF Busy
    <3> QED BY <1>0, <2>2, <2>3, <3>1, <3>2, <3>3
  <2> QED BY <2>4, <2>5
<1>6. ASSUME NEW c \in Callers, CommitRow(c)
      PROVE  Lives(t)'
  <2>1. call[c] \in [op: {"commit"}, task: Tasks, kw: Keywords, note: BOOLEAN,
                     loaded: Durable]
    BY <1>0, <1>6 DEF CommitRow, Call, Idle
  <2>2. /\ deleted' = deleted /\ cache' = cache /\ call[c].op = "commit"
        /\ call' = [call EXCEPT ![c] = Idle] /\ Idle.op = "idle"
    BY <1>6 DEF CommitRow, history, Idle
  <2>3. db[t] = NoTask => db'[t] = NoTask
    BY <1>0, <1>6 DEF CommitRow
  <2>4. CASE call[c].task # t
    <3>1. db'[t] = db[t]
      BY <1>0, <1>6, <2>4 DEF CommitRow
    <3> QED BY <2>2, <2>4, <3>1, <1>a
  <2>5. CASE call[c].task = t
    <3>1. Busy(t)' = Busy(t) \ {c} /\ \A d \in Busy(t)' : call'[d] = call[d]
      BY <2>2, <1>b DEF Busy
    <3> QED BY <1>0, <2>2, <2>3, <2>5, <3>1 DEF Busy
  <2> QED BY <2>4, <2>5
<1>7. ASSUME NEW c \in Callers, WriteFails(c)
      PROVE  Lives(t)'
  <2>1. /\ db' = db /\ deleted' = deleted /\ cache' = cache
        /\ call' = [call EXCEPT ![c] = Idle] /\ Idle.op = "idle"
        /\ call[c].op # "drop"
    BY <1>7 DEF WriteFails, Idle
  <2>2. Busy(t)' = Busy(t) \ {c} /\ \A d \in Busy(t)' : call'[d] = call[d]
    BY <2>1, <1>b DEF Busy
  <2> QED BY <1>0, <2>1, <2>2
<1>8. ASSUME NEW c \in Callers, NEW s \in Tasks, DeleteTask(c, s)
      PROVE  Lives(t)'
  <2> DEFINE job == [op |-> "delete", task |-> s]
  <2>1. /\ call[c].op = "idle" /\ Cached(s)
        /\ db' = db /\ deleted' = deleted /\ cache' = cache
        /\ call' = [call EXCEPT ![c] = job] /\ job.op = "delete" /\ job.task = s
    BY <1>8 DEF DeleteTask
  <2> HIDE DEF job
  <2>2. CASE s # t
    BY <2>1, <2>2, <1>a
  <2>3. CASE s = t
    <3>1. /\ Busy(t)' = Busy(t) \cup {c} /\ call'[c] = job
          /\ c \notin Busy(t)
          /\ \A d \in Busy(t) : call'[d] = call[d]
      BY <2>1, <2>3, <1>b DEF Busy
    <3>2. \A d \in Busy(t) : call[d].op \notin {"create", "insert"}
      BY <1>0, <2>1, <2>3
    <3> QED BY <1>0, <2>1, <2>3, <3>1, <3>2
  <2> QED BY <2>2, <2>3
<1>9. ASSUME NEW c \in Callers, DeleteRow(c)
      PROVE  Lives(t)'
  <2>1. call[c] \in [op: {"delete", "drop"}, task: Tasks]
    BY <1>0, <1>9 DEF DeleteRow, Call, Idle
  <2>2. cache' = cache /\ call[c].op = "delete"
    BY <1>9 DEF DeleteRow
  <2>3. CASE db[call[c].task] = NoTask
    <3>1. /\ call' = [call EXCEPT ![c] = Idle] /\ Idle.op = "idle"
          /\ db' = db /\ deleted' = deleted
      BY <1>9, <2>3 DEF DeleteRow, Idle
    <3>2. Busy(t)' = Busy(t) \ {c} /\ \A d \in Busy(t)' : call'[d] = call[d]
      BY <3>1, <1>b DEF Busy
    <3> QED BY <1>0, <2>2, <3>1, <3>2
  <2>4. CASE db[call[c].task] # NoTask
    <3> DEFINE job == [op |-> "drop", task |-> call[c].task]
    <3>1. /\ call' = [call EXCEPT ![c] = job]
          /\ job.op = "drop" /\ job.task = call[c].task
          /\ db' = [db EXCEPT ![call[c].task] = NoTask]
          /\ deleted' = deleted \cup {call[c].task}
      BY <1>9, <2>4 DEF DeleteRow
    <3> HIDE DEF job
    <3>2. CASE call[c].task # t
      <4>1. db'[t] = db[t]
        BY <1>0, <3>1, <3>2
      <4> QED BY <2>2, <3>1, <3>2, <4>1, <1>a
    <3>3. CASE call[c].task = t
      <4>1. /\ c \in Busy(t) /\ Busy(t)' = Busy(t) /\ call'[c] = job
            /\ \A d \in Busy(t) : d # c => call'[d] = call[d]
        BY <2>2, <3>1, <3>3, <1>b DEF Busy
      <4>2. /\ db'[t] = NoTask /\ t \in deleted' /\ Cached(t)'
        BY <1>0, <2>2, <2>4, <3>1, <3>3, <4>1
      <4>3. \A d \in Busy(t) : call[d].op \notin {"create", "insert", "drop"}
        BY <1>0, <2>2, <2>4, <3>3, <4>1, <4>2
      <4> QED BY <2>2, <3>1, <4>1, <4>2, <4>3
    <3> QED BY <3>2, <3>3
  <2> QED BY <2>3, <2>4
<1>10. ASSUME NEW c \in Callers, DropFromCache(c)
       PROVE  Lives(t)'
  <2>1. call[c] \in [op: {"delete", "drop"}, task: Tasks]
    BY <1>0, <1>10 DEF DropFromCache, Call, Idle
  <2>2. /\ db' = db /\ deleted' = deleted /\ call[c].op = "drop"
        /\ cache' = [cache EXCEPT ![call[c].task] = NoTask]
        /\ call' = [call EXCEPT ![c] = Idle] /\ Idle.op = "idle"
    BY <1>10 DEF DropFromCache, history, Idle
  <2>3. CASE call[c].task # t
    <3>1. cache'[t] = cache[t]
      BY <1>0, <2>2, <2>3
    <3> QED BY <2>2, <2>3, <3>1, <1>a
  <2>4. CASE call[c].task = t
    <3>1. /\ c \in Busy(t) /\ Busy(t)' = Busy(t) \ {c}
          /\ \A d \in Busy(t)' : call'[d] = call[d]
      BY <2>2, <2>4, <1>b DEF Busy
    <3>2. cache'[t] = NoTask /\ t \in deleted /\ db[t] = NoTask
      BY <1>0, <2>1, <2>2, <2>4, <3>1
    <3>3. \A d \in Busy(t)' : call[d].op \notin {"create", "insert", "drop"}
      BY <1>0, <2>2, <3>1, <3>2
    <3> QED BY <2>2, <3>1, <3>2, <3>3
  <2> QED BY <2>3, <2>4
<1>11. CASE Restart
  <2>1. /\ cache' = db /\ db' = db /\ deleted' = deleted
        /\ call' = [c \in Callers |-> Idle]
    BY <1>11 DEF Restart, history
  <2>2. Busy(t)' = {}
    BY <2>1 DEF Busy, Idle
  <2> QED BY <1>0, <2>1, <2>2
<1>12. CASE UNCHANGED vars
  <2>1. cache' = cache /\ db' = db /\ call' = call /\ deleted' = deleted
    BY <1>12 DEF vars
  <2> QED BY <1>0, <2>1 DEF Busy
<1> HIDE DEF Lives, Cached, Become
<1> QED
  BY <1>1, <1>2, <1>3, <1>4, <1>5, <1>6, <1>7, <1>8, <1>9, <1>10, <1>11, <1>12
  DEF Next, AgentUpdate, WebUpdate

LEMMA SubtasksStep == Registry /\ [Next]_vars => SubtasksExist'
<1> SUFFICES ASSUME Registry, [Next]_vars, NEW p \in Tasks, NEW t \in subtasks'[p]
             PROVE  Cached(p)' /\ Cached(t)' /\ parent'[t] = p
  BY DEF SubtasksExist
<1>0. /\ TypeOK /\ \A s \in subtasks[p] : Cached(p) /\ Cached(s) /\ parent[s] = p
      /\ cache \in [Tasks -> Durable \cup {NoTask}]
      /\ parent \in [Tasks -> Tasks \cup {None}]
      /\ subtasks \in [Tasks -> SUBSET Tasks]
      /\ call \in [Callers -> Call]
  BY DEF Registry, SubtasksExist, TypeOK
<1> USE DEF Cached
<1>1. ASSUME NEW c \in Callers, NEW s \in Tasks, NEW q \in Tasks \cup {None},
             NEW status \in {"draft", "pending"}, NEW category \in Category,
             CreateTask(c, s, q, status, category)
      PROVE  Cached(p)' /\ Cached(t)' /\ parent'[t] = p
  <2>1. /\ cache' = cache /\ subtasks' = subtasks /\ ~Cached(s)
        /\ parent' = [parent EXCEPT ![s] = q]
    BY <1>1 DEF CreateTask, Fresh
  <2> QED BY <1>0, <2>1
<1>2. ASSUME NEW c \in Callers, InsertInCache(c)
      PROVE  Cached(p)' /\ Cached(t)' /\ parent'[t] = p
  <2>1. /\ call[c] \in [op: {"create", "insert"}, task: Tasks, row: Durable]
    BY <1>0, <1>2 DEF InsertInCache, Call, Idle
  <2> DEFINE s == call[c].task
  <2>2. /\ cache' = [cache EXCEPT ![s] = call[c].row] /\ parent' = parent
        /\ subtasks'[p] = IF p = parent[s] /\ Cached(p)
                             THEN subtasks[p] \cup {s} ELSE subtasks[p]
        /\ call[c].row # NoTask
    BY <1>2, <2>1, TaskBoardAssumption DEF InsertInCache
  <2>3. s \in Tasks
    BY <2>1
  <2> HIDE DEF s
  <2> QED BY <1>0, <2>2, <2>3
<1>3. ASSUME NEW c \in Callers, DropFromCache(c)
      PROVE  Cached(p)' /\ Cached(t)' /\ parent'[t] = p
  <2>1. /\ call[c] \in [op: {"delete", "drop"}, task: Tasks]
    BY <1>0, <1>3 DEF DropFromCache, Call, Idle
  <2> DEFINE s == call[c].task
  <2>2. /\ cache' = [cache EXCEPT ![s] = NoTask] /\ parent' = parent
        /\ subtasks'[p] = IF p = s THEN {}
                          ELSE IF p = parent[s] /\ Cached(p)
                            THEN subtasks[p] \ {s} ELSE subtasks[p]
    BY <1>3 DEF DropFromCache
  <2> HIDE DEF s
  <2> QED BY <1>0, <2>2
<1>4. ASSUME NEW c \in Callers, NEW s \in Tasks, NEW a \in Agents \cup {WebUser},
             NEW request \in Requests, UpdateTask(c, s, a, request)
      PROVE  Cached(p)' /\ Cached(t)' /\ parent'[t] = p
  <2> DEFINE after == Apply(cache[s], KeywordsOf(cache[s], request))
  <2>1. cache[s] \in Durable
    BY <1>0, <1>4 DEF UpdateTask
  <2>2. after \in Durable
    BY <2>1, KeywordsType, ApplyType
  <2>3. /\ parent' = parent /\ subtasks' = subtasks
        /\ cache' = [cache EXCEPT ![s] = after] \/ cache' = cache
    BY <1>4 DEF UpdateTask
  <2>4. after # NoTask
    BY <2>2, TaskBoardAssumption
  <2> HIDE DEF after
  <2> QED BY <1>0, <2>3, <2>4
<1>5. CASE Restart
  BY <1>5 DEF Restart
<1>6. CASE UNCHANGED <<cache, parent, subtasks>>
  BY <1>0, <1>6
<1> QED
  BY <1>1, <1>2, <1>3, <1>4, <1>5, <1>6
  DEF Registry, Next, AgentUpdate, WebUpdate, vars, CreateRow, LoadRow, CommitRow,
      WriteFails, DeleteTask, DeleteRow

LEMMA RegistryHolds == Spec => []Registry
<1>1. Init => Registry
  <2>1. ASSUME Init, NEW t \in Tasks
        PROVE  Lives(t)
    <3>1. Busy(t) = {} /\ deleted = {}
      BY <2>1 DEF Init, Busy, Idle
    <3> QED BY <3>1 DEF Lives
  <2>2. Init => SubtasksExist
    BY DEF Init, SubtasksExist
  <2> QED BY <2>1, <2>2, TypeInit DEF Registry
<1>2. Registry /\ [Next]_vars => Registry'
  BY TypeStep, LivesStep, SubtasksStep DEF Registry
<1> QED
  BY <1>1, <1>2, PTL DEF Spec

\* Subtask lists name only children that are on the board: SubtasksExist.
THEOREM SubtasksAreThere == Spec => []SubtasksExist
<1>1. Registry => SubtasksExist
  BY DEF Registry
<1> QED
  BY <1>1, RegistryHolds, PTL

\* A deleted task stays deleted, and one call only drops it from the cache:
\* DeletedStaysDeleted.
THEOREM DeletionIsFinal == Spec => []DeletedStaysDeleted
<1>1. Registry => DeletedStaysDeleted
  <2> SUFFICES ASSUME Registry
               PROVE  DeletedStaysDeleted
    OBVIOUS
  <2>1. deleted \subseteq Tasks /\ call \in [Callers -> Call]
    BY DEF Registry, TypeOK
  <2>2. ASSUME NEW t \in deleted
        PROVE  /\ db[t] = NoTask
               /\ Cached(t) => \E c \in Busy(t) : call[c].op = "drop"
    BY <2>1 DEF Registry, Lives
  <2>3. ASSUME NEW c \in Callers, call[c].op = "drop"
        PROVE  /\ Cached(call[c].task)
               /\ \A d \in Busy(call[c].task) : call[d].op = "drop" => d = c
    <3>1. call[c].task \in Tasks /\ c \in Busy(call[c].task)
      BY <2>1, <2>3 DEF Call, Idle, Busy
    <3> QED BY <2>3, <3>1 DEF Registry, Lives
  <2> QED BY <2>2, <2>3 DEF DeletedStaysDeleted
<1> QED
  BY <1>1, RegistryHolds, PTL

=============================================================================
