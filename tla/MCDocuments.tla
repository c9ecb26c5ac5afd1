---------------------------- MODULE MCDocuments ----------------------------
(* Two agents and two comments on the documents there are.                 *)
EXTENDS Documents, TLC

CONSTANTS d1, d2, c1, c2

MCUpdate(d) == [kind |-> "update", doc |-> d, comments |-> {}]
MCResolve(d, C) == [kind |-> "resolve", doc |-> d, comments |-> C]
MCReplies ==
  { <<[kind |-> "write", doc |-> None, comments |-> {}]>>,
    <<MCUpdate(d2)>>,
    <<MCUpdate(d1), MCResolve(d1, {c1, c2})>>,
    <<MCResolve(d1, {c1})>>, <<MCResolve(d1, {c2})>>, <<MCResolve(d2, {c1, c2})>> }

Alike == Permutations({c1, c2}) \cup Permutations(Agents)

=============================================================================
