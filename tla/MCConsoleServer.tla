--------------------------- MODULE MCConsoleServer ---------------------------
(* Instances of the console server small enough for TLC. *)
EXTENDS ConsoleServerRefinement

=============================================================================
