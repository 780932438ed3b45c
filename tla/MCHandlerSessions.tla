-------------------------- MODULE MCHandlerSessions --------------------------
(* Instances of the sessions of a handler small enough for TLC. *)
EXTENDS SessionProperties

=============================================================================
