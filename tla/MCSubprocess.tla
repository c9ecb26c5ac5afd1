---------------------------- MODULE MCSubprocess ----------------------------
(* Two agents of the viewed project, listed in the order of the registry.  *)
EXTENDS Subprocess

CONSTANTS a1, a2

MCRegistry == <<a1, a2>>

=============================================================================
