------------------------------ MODULE TaskWork ------------------------------
(***************************************************************************)
(* What the task board and the agents' loops (core/task_board.py,          *)
(* core/agent.py) promise together of the work on tasks, whatever becomes  *)
(* of the messages: an agent begins to work on a task that it has, by a    *)
(* claim that takes it from nobody, works on one task at a time, and when  *)
(* it ends moves that task as the table allows. A request may move a task  *)
(* anywhere and give it to anyone. Nothing is promised of who works on a   *)
(* disputed task, and the three ways to come to one are named here.        *)
(***************************************************************************)
EXTENDS TaskLifecycle

CONSTANTS Agents, Tasks, None

VARIABLES
  status,  \* status[t], or "absent"
  holder,  \* holder[t]: the agent that has t, or None
  work,    \* work[a]: the task a works on, or None
  disputed \* tasks that two agents may have come to, for as long as one works on them

workVars == <<status, holder, work, disputed>>

Init ==
  /\ status = [t \in Tasks |-> "absent"] /\ holder = [t \in Tasks |-> None]
  /\ work = [a \in Agents |-> None] /\ disputed = {}

Known(t) == status[t] # "absent"

Set(t, s) == status' = [status EXCEPT ![t] = s]

Create(t, a) ==
  /\ ~Known(t) /\ Set(t, "pending")
  /\ holder' = [holder EXCEPT ![t] = a]
  /\ UNCHANGED <<work, disputed>>

\* Somebody asks for another status of t, or gives it to o, while another works on it
\* or not; nobody is stopped.
Move(t) ==
  /\ Known(t) /\ \E s \in Status : Set(t, s)
  /\ \E o \in Agents \cup {None} :
       /\ holder' = [holder EXCEPT ![t] = o]
       /\ disputed' = IF o # holder[t] /\ \E a \in Agents \ {o} : work[a] = t
                        THEN disputed \cup {t} ELSE disputed
  /\ UNCHANGED work

\* The agent takes a task that nobody else has.
Claim(a, t) ==
  /\ Allowed(status[t], "in_progress") /\ Set(t, "in_progress")
  /\ holder' = [holder EXCEPT ![t] = a]

Begin(a, t) ==
  /\ work[a] = None /\ Known(t)
  /\ work' = [work EXCEPT ![a] = t]
  /\ \/ holder[t] \in {a, None} /\ Claim(a, t) /\ UNCHANGED disputed
     \/ holder[t] = a /\ UNCHANGED <<status, holder, disputed>>
     \/ /\ holder[t] # a \/ ~Allowed(status[t], "in_progress")
        /\ disputed' = disputed \cup {t}
        /\ Claim(a, t) \/ UNCHANGED <<status, holder>>

\* The agent is through with its task, and may leave it in another status.
End(a) ==
  /\ work[a] # None
  /\ UNCHANGED status \/ \E s \in VALID_TRANSITIONS[status[work[a]]] : Set(work[a], s)
  /\ work' = [work EXCEPT ![a] = None]
  /\ disputed' = {t \in disputed : \E b \in Agents \ {a} : work[b] = t}
  /\ UNCHANGED holder

\* The process ends, and all work with it.
Down ==
  /\ work' = [a \in Agents |-> None] /\ disputed' = {}
  /\ UNCHANGED <<status, holder>>

Next ==
  \/ \E t \in Tasks : Move(t) \/ \E a \in Agents \cup {None} : Create(t, a)
  \/ \E a \in Agents : End(a) \/ \E t \in Tasks : Begin(a, t)
  \/ Down

Spec == Init /\ [][Next]_workVars

Typed ==
  /\ status \in [Tasks -> Status \cup {"absent"}] /\ holder \in [Tasks -> Agents \cup {None}]
  /\ work \in [Agents -> Tasks \cup {None}] /\ disputed \subseteq Tasks

\* No two agents work on a task that is not disputed, in progress or not: what the
\* claim of a task in _message_loop is for.
Alone == \A t \in Tasks \ disputed : \A a, b \in Agents : work[a] = t /\ work[b] = t => a = b

=============================================================================
