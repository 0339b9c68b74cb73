------------------------------ MODULE LogQueue ------------------------------
(***************************************************************************)
(* What stores of logs promise, whichever code implements them: logs are    *)
(* delivered in the order they were written, each at least once, and leave  *)
(* their store only after that or, the oldest first, when the store is too  *)
(* full.  A log may be delivered again; none is delivered after a later one *)
(* has left.                                                                *)
(***************************************************************************)
EXTENDS Naturals, Sequences

CONSTANTS Queues,     \* the stores
          Full(_)     \* of a load: it is too much

VARIABLES pending,    \* the logs in each store, oldest first
          load,       \* how much it holds, with what it will never deliver
          delivered   \* the logs of it that have been delivered

queueVars == <<pending, load, delivered>>

Prefix(q, k) == {pending[q][j] : j \in 1..k}
Rest(q, k) == SubSeq(pending[q], k + 1, Len(pending[q]))

QueueInit ==
  /\ pending = [q \in Queues |-> <<>>]
  /\ load = [q \in Queues |-> 0]
  /\ delivered = [q \in Queues |-> {}]

\* A new log goes to the end.
Put(q) ==
  /\ Len(pending'[q]) = Len(pending[q]) + 1
  /\ LET n == pending'[q][Len(pending'[q])] IN
       /\ n \notin delivered[q] \cup Prefix(q, Len(pending[q]))
       /\ pending' = [pending EXCEPT ![q] = Append(@, n)]
  /\ UNCHANGED delivered

\* A batch is delivered: the oldest logs of the store.
Deliver(q) ==
  /\ \E k \in 1..Len(pending[q]) :
        delivered' = [delivered EXCEPT ![q] = @ \cup Prefix(q, k)]
  /\ UNCHANGED <<pending, load>>

\* Delivered logs leave.
Remove(q) ==
  /\ \E k \in 0..Len(pending[q]) :
        /\ Prefix(q, k) \subseteq delivered[q]
        /\ pending' = [pending EXCEPT ![q] = Rest(q, k)]
  /\ UNCHANGED delivered

\* The oldest logs of a store that is too full leave.
Purge(q) ==
  /\ Full(load[q])
  /\ \E k \in 0..Len(pending[q]) : pending' = [pending EXCEPT ![q] = Rest(q, k)]
  /\ UNCHANGED delivered

QueueNext == \E q \in Queues : Put(q) \/ Deliver(q) \/ Remove(q) \/ Purge(q)

QueueSpec == QueueInit /\ [][QueueNext]_queueVars
=============================================================================
