---------------------------- MODULE MCPhaseBoard ----------------------------
(* Two phases, two requests of the user and the planner at once.            *)
EXTENDS PhaseBoard, TLC

CONSTANTS p1, p2, r1, r2, a1, d1

MCPhases == {p1, p2}
MCOrdering == p1 :> 1 @@ p2 :> 2
MCRoutes == {r1, r2}
MCAgents == {a1}
MCDocs == {d1}

\* The planner submits its plan with the document, attaches one, asks for the
\* review, and may complete the phase itself.
MCAsks ==
  { [status |-> "awaiting_approval", doc |-> d1],
    [status |-> Absent, doc |-> d1],
    [status |-> "review", doc |-> Absent],
    [status |-> "completed", doc |-> Absent] }
MCSymmetry == Permutations(MCRoutes)

=============================================================================
