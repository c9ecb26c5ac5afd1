---------------------------- MODULE MCTaskBoard ----------------------------
(* TaskBoard on a small instance. *)
EXTENDS TaskBoard, TLC

CONSTANTS t1, t2, c1, c2

MCTasks == {t1, t2}
MCCallers == {c1, c2}
MCSymmetry == Permutations(MCTasks) \cup Permutations(MCCallers)

Ask(status, outcome) ==
  [status |-> status, category |-> Absent, outcome |-> outcome,
   reviewer |-> Absent, note |-> FALSE]

\* Start, finish (plainly and as a rejection), reopen; a note with a status
\* that is no TaskStatus.
MCRequests ==
  {Ask("in_progress", Absent), Ask("done", Absent), Ask("done", "rejected"),
   Ask("pending", Absent), [Ask("unknown", Absent) EXCEPT !.note = TRUE]}

=============================================================================
