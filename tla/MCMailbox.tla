----------------------------- MODULE MCMailbox -----------------------------
(* One agent with two tasks or two of one role with one, and two message ids.*)
EXTENDS Mailbox, TLC

CONSTANTS a1, a2, t1, t2, m1, m2

OneAgent == {a1}
MCAgents == {a1, a2}
MCTasks == {t1, t2}
MCMessages == {m1, m2}
MCAnyone == {None}
MCRequested == {"cancelled", "pending", "in_progress", "paused"}

\* Sound for safety: the agents are alike, and so are the message ids.
AgentSymmetry == Permutations(MCAgents) \cup Permutations(MCMessages)

=============================================================================
