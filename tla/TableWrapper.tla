---------------------------- MODULE TableWrapper ----------------------------
(***************************************************************************)
(* What every table of launcher is wrapped in, ee/tables/tablewrapper: a    *)
(* query takes one of the table's workers, its generate function runs in a  *)
(* goroutine, and the query returns what the goroutine sends or a timeout,  *)
(* whichever comes first.  The goroutine of a query that timed out runs on. *)
(*                                                                         *)
(* Time is left out: a timeout of any length may end at any moment, so the  *)
(* value that FlagsChanged stores does not matter here.                     *)
(***************************************************************************)
EXTENDS Naturals, FiniteSets

CONSTANTS Queries,       \* the queries of one table, in any order and overlap
          numWorkers

ASSUME TableWrapperAssumption == IsFiniteSet(Queries) /\ numWorkers \in Nat \ {0}

VARIABLES freeWorkers,   \* workers left
          queryAt,       \* how far each query is
          genAt,         \* how far its goroutine is
          resultSent     \* what is in its result channel, which holds one

twVars == <<freeWorkers, queryAt, genAt, resultSent>>

newWrappedTable ==
  /\ freeWorkers = numWorkers
  /\ queryAt = [q \in Queries |-> "idle"] /\ genAt = [q \in Queries |-> "none"]
  /\ resultSent = [q \in Queries |-> "nothing"]

generate(q) ==
  /\ queryAt[q] = "idle"
  /\ \/ /\ freeWorkers = 0
        /\ queryAt' = [queryAt EXCEPT ![q] = "refused"]
        /\ UNCHANGED <<freeWorkers, genAt>>
     \/ /\ freeWorkers # 0
        /\ freeWorkers' = freeWorkers - 1
        /\ queryAt' = [queryAt EXCEPT ![q] = "waiting"]
        /\ genAt' = [genAt EXCEPT ![q] = "running"]
  /\ UNCHANGED resultSent

\* The result is sent before the deferred Release.
genReturns(q) ==
  /\ genAt[q] = "running"
  /\ genAt' = [genAt EXCEPT ![q] = "returned"]
  /\ \E result \in {"rows", "error"} : resultSent' = [resultSent EXCEPT ![q] = result]
  /\ UNCHANGED <<freeWorkers, queryAt>>

genReleases(q) ==
  /\ genAt[q] = "returned"
  /\ genAt' = [genAt EXCEPT ![q] = "done"]
  /\ freeWorkers' = freeWorkers + 1
  /\ UNCHANGED <<queryAt, resultSent>>

\* Mutant of genPanics: Release is called at the end, not deferred.
genPanicsHolding(q) ==
  /\ genAt[q] = "running"
  /\ genAt' = [genAt EXCEPT ![q] = "panicked"]
  /\ UNCHANGED <<freeWorkers, queryAt, resultSent>>

\* A panic runs the deferred Release first, and then onPanic.
genPanics(q) ==
  /\ genAt[q] = "running"
  /\ genAt' = [genAt EXCEPT ![q] = "panicked"]
  /\ freeWorkers' = freeWorkers + 1
  /\ UNCHANGED <<queryAt, resultSent>>

onPanic(q) ==
  /\ genAt[q] = "panicked"
  /\ genAt' = [genAt EXCEPT ![q] = "done"]
  /\ resultSent' = [resultSent EXCEPT ![q] = "error"]
  /\ UNCHANGED <<freeWorkers, queryAt>>

\* The two cases of generate's select.
resultReceived(q) ==
  /\ queryAt[q] = "waiting" /\ resultSent[q] # "nothing"
  /\ queryAt' = [queryAt EXCEPT ![q] = resultSent[q]]
  /\ resultSent' = [resultSent EXCEPT ![q] = "nothing"]
  /\ UNCHANGED <<freeWorkers, genAt>>

timedOut(q) ==
  /\ queryAt[q] = "waiting"
  /\ queryAt' = [queryAt EXCEPT ![q] = "timeout"]
  /\ UNCHANGED <<freeWorkers, genAt, resultSent>>

TableWrapperNext ==
  \E q \in Queries : \/ generate(q) \/ genReturns(q) \/ genReleases(q) \/ genPanics(q) \/ onPanic(q)
                     \/ resultReceived(q) \/ timedOut(q)

TableWrapperSpec == newWrappedTable /\ [][TableWrapperNext]_twVars

\* The queries whose generate function has a worker.
Working == {q \in Queries : genAt[q] \in {"running", "returned"}}

(***************************************************************************)
(* A worker is taken exactly as long as a generate function has it: one     *)
(* that timed out keeps its worker, one that panicked gives it back, and    *)
(* none is given back twice, so a table never runs more than numWorkers of  *)
(* its functions and is not refused for good.  A query still waiting when   *)
(* its goroutine is over has its result in the channel.                     *)
(***************************************************************************)
WorkersFollowTables ==
  /\ freeWorkers + Cardinality(Working) = numWorkers
  /\ \A q \in Queries : queryAt[q] = "waiting" /\ genAt[q] = "done" => resultSent[q] # "nothing"
=============================================================================
