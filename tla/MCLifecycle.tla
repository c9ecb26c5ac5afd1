---------------------------- MODULE MCLifecycle ----------------------------
(* Projects of one name, two of which may run, and two requests at once.    *)
EXTENDS Lifecycle

=============================================================================
