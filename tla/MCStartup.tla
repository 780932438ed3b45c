------------------------------ MODULE MCStartup ------------------------------
(* Instances of the start-up small enough for TLC. *)
EXTENDS StartupProperties

=============================================================================
