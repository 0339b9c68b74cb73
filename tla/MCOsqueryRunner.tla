-------------------------- MODULE MCOsqueryRunner --------------------------
(* OsqueryRunner for TLC: the cfg files give the constants their values.   *)
EXTENDS OsqueryRunner, TLC

\* The goroutines that call the runner are interchangeable.
CallerSymmetry == Permutations(Callers)

=============================================================================
