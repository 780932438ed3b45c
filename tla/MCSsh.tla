--------------------------------- MODULE MCSsh ---------------------------------
(* The listeners of SshSubsystem for TLC: one port with passwords, two     *)
(* without, two workers.                                                   *)
EXTENDS SshProperties

=============================================================================
