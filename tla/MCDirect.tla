------------------------------- MODULE MCDirect -------------------------------
(* One session of DirectAccess for TLC: replies of five units, so that the *)
(* loop over a text can go wrong in every way it has.                      *)
EXTENDS DirectProperties

=============================================================================
