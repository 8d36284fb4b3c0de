----------------------------- MODULE MCLifecycle -----------------------------
(* Two devices, and device memory for two daemons.                         *)
EXTENDS Lifecycle

=============================================================================
