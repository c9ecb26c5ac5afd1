---------------------------- MODULE MCMcpServers ----------------------------
(* Two agents, of whom one is recruited, two servers and two removals.      *)
EXTENDS McpServers, TLC

Alike == Permutations(Servers) \cup Permutations(Removers)

=============================================================================
