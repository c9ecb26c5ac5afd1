--------------------------- MODULE RunningProjects ---------------------------
(* What ProjectLifecycleManager (main.py) promises of the running projects: *)
(* no more than MaxRunning of them, each by an engine of its own, which it  *)
(* keeps until the project stops; all go at once when the process does.     *)
EXTENDS Naturals, FiniteSets

CONSTANTS Projects, Engines, MaxRunning, None

VARIABLE up  \* the engine of each project

Up == {p \in Projects : up[p] # None}

Init == up = [p \in Projects |-> None]

Start(p, e) ==
  /\ p \notin Up /\ Cardinality(Up) < MaxRunning
  /\ \A q \in Up : up[q] # e
  /\ up' = [up EXCEPT ![p] = e]

Stop(p) == p \in Up /\ up' = [up EXCEPT ![p] = None]

Down == up' = [p \in Projects |-> None]

Next ==
  \/ \E p \in Projects : Stop(p) \/ \E e \in Engines : Start(p, e)
  \/ Down

Spec == Init /\ [][Next]_up

=============================================================================
