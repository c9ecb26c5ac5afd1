-------------------------- MODULE MCSessionStore --------------------------
(* One agent and one request at a time to the session routes. Two requests *)
(* at once, which interfere with each other as well, are left to the proofs.*)
EXTENDS SessionStore

\* Three messages: two that fail, and the one that must then be held.
MCThreshold == 2
MCMessages == 3

=============================================================================
