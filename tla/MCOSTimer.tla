----------------------------- MODULE MCOSTimer -----------------------------
(* An instance of OSTimer: three threads. *)
EXTENDS OSTimer

CONSTANTS graph, audio, sleeper

=============================================================================
