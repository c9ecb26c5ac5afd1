--------------------------- MODULE MCConversations ---------------------------
(* One agent, two requests at once, and what they may make and say.         *)
EXTENDS Conversations

CONSTANTS a1, r1, r2, v1, v2, m1

MCAgents == {a1}
MCRoutes == {r1, r2}
MCIds == {v1, v2}
MCMessages == {m1}

=============================================================================
