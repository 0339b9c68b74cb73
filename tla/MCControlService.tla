-------------------------- MODULE MCControlService --------------------------
(* ControlService for TLC: the cfg files give the constants their values.  *)
EXTENDS ControlService

=============================================================================
