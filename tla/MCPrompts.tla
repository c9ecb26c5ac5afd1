------------------------------ MODULE MCPrompts ------------------------------
(* The same agent id in two running projects: one agent with a command-    *)
(* line provider, a2 with an API.                                          *)
EXTENDS Prompts, TLC

CONSTANTS a1, a2, p1, p2, r1, r2, id

MCProjectOf == a1 :> p1 @@ a2 :> p2
MCPersonOf == [a \in Agents |-> id]

RostersAlike == Permutations({r1, r2})

=============================================================================
