-------------------------------- MODULE MCMenu --------------------------------
(* The menus of one session for TLC. *)
EXTENDS MenuProperties

=============================================================================
