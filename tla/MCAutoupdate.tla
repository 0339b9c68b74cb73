---------------------------- MODULE MCAutoupdate ----------------------------
(* Autoupdate for TLC: the cfg file gives the constants their values.       *)
EXTENDS Autoupdate

=============================================================================
