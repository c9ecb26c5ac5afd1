--------------------------- MODULE TaskLifecycle ---------------------------
(***************************************************************************)
(* The status machine of a task, shared by the task board and by the agent *)
(* loop: core/task.py names the statuses, core/task_board.py says which    *)
(* moves a caller without privilege may make.                              *)
(***************************************************************************)

\* core/task.py, class TaskStatus.
Status == {"draft", "pending", "in_progress", "review",
           "blocked", "paused", "done", "cancelled"}

\* core/task_board.py, VALID_TRANSITIONS.
VALID_TRANSITIONS ==
  [ draft       |-> {"pending", "in_progress", "cancelled"},
    pending     |-> {"in_progress", "blocked", "paused", "draft", "cancelled"},
    in_progress |-> {"review", "done", "blocked", "paused", "pending",
                     "cancelled"},
    review      |-> {"done", "in_progress", "pending", "cancelled"},
    blocked     |-> {"pending", "in_progress", "cancelled"},
    paused      |-> {"in_progress", "pending", "cancelled"},
    done        |-> {"pending"},
    cancelled   |-> {"pending"} ]

\* A requested status that an update by a caller without privilege may take.
Allowed(from, to) == to = from \/ to \in VALID_TRANSITIONS[from]

\* The review gate: a project task that its worker declares done goes to
\* review instead, unless the outcome given with the request is "rejected".
Gated(from, to, category, outcome) ==
  /\ from = "in_progress"
  /\ to = "done"
  /\ category = "project"
  /\ outcome # "rejected"

\* Mutant: no review gate.
StatusAfterUngated(from, to, category, outcome) == to

\* The status an accepted request for `to` leaves the task in.
StatusAfter(from, to, category, outcome) ==
  IF Gated(from, to, category, outcome) THEN "review" ELSE to

=============================================================================
