-------------------------- MODULE MCControlActions --------------------------
(* ControlActions for TLC: two lists of actions, with one action in both.  *)
EXTENDS ControlActions

CONSTANTS full, other, unknown

MCActionsOf == <<<<full, other>>, <<unknown, other>>>>

=============================================================================
