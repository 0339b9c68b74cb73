------------------------------ MODULE RunGroup ------------------------------
(***************************************************************************)
(* The run group that launcher's subsystems run in (pkg/rungroup/          *)
(* rungroup.go).  Run starts every actor's execute; when the first of them *)
(* returns or panics, it interrupts all actors in parallel, waits for the  *)
(* interrupts and then for the executes, each for a limited time, and      *)
(* returns the first actor's error.                                        *)
(*                                                                         *)
(* An execute may return at any time.  Some never return, and some         *)
(* interrupts never return: those of the actors in Stuck.                  *)
(***************************************************************************)
EXTENDS Naturals, Sequences, FiniteSets

CONSTANTS
    Actors,     \* the actors that may be added
    Stuck       \* actors whose execute or interrupt may block for ever

\* No actor.
CONSTANT None

ASSUME RunGroupAssumption ==
    /\ IsFiniteSet(Actors)
    /\ Stuck \subseteq Actors
    /\ None \notin Actors

VARIABLES
    actors,        \* g.actors
    pc,            \* where Run is
    execute,       \* of an actor: idle, running or returned
    interrupt,     \* of an actor: idle, running or returned
    actorErrors,   \* the channel of errors; an error is named by its actor
    initial,       \* initialActorErr
    collected,     \* actors whose error was received after the initial one
    deadline       \* Run stopped waiting for executes to return

vars == <<actors, pc, execute, interrupt, actorErrors, initial, collected,
          deadline>>

Calls == {"idle", "running", "returned"}

TypeOK ==
    /\ actors \subseteq Actors
    /\ pc \in {"new", "first", "interrupt", "interrupted", "collect", "returned"}
    /\ execute \in [Actors -> Calls]
    /\ interrupt \in [Actors -> Calls]
    /\ actorErrors \in Seq(Actors)
    /\ initial \in Actors \cup {None}
    /\ collected \subseteq Actors
    /\ deadline \in BOOLEAN

\* NewRunGroup.
Init ==
    /\ actors = {}
    /\ pc = "new"
    /\ execute = [a \in Actors |-> "idle"]
    /\ interrupt = [a \in Actors |-> "idle"]
    /\ actorErrors = <<>>
    /\ initial = None
    /\ collected = {}
    /\ deadline = FALSE

Add(a) ==
    /\ pc = "new"
    /\ a \notin actors
    /\ actors' = actors \cup {a}
    /\ UNCHANGED <<pc, execute, interrupt, actorErrors, initial, collected,
                   deadline>>

\* Run starts every actor, or returns when there is none.
Run ==
    /\ pc = "new"
    /\ pc' = IF actors = {} THEN "returned" ELSE "first"
    /\ execute' = [a \in Actors |-> IF a \in actors THEN "running" ELSE "idle"]
    /\ UNCHANGED <<actors, interrupt, actorErrors, initial, collected, deadline>>

\* Mutant of ExecuteReturns: the recovery from a panic sends no error.
ExecuteReturnsOrPanics(a) ==
    /\ execute[a] = "running"
    /\ execute' = [execute EXCEPT ![a] = "returned"]
    /\ actorErrors' \in {actorErrors, Append(actorErrors, a)}
    /\ UNCHANGED <<actors, pc, interrupt, initial, collected, deadline>>

\* execute returns or panics: either way its actor's error is sent.  The
\* channel has room for every actor, so that the send never blocks.
ExecuteReturns(a) ==
    /\ execute[a] = "running"
    /\ execute' = [execute EXCEPT ![a] = "returned"]
    /\ actorErrors' = Append(actorErrors, a)
    /\ UNCHANGED <<actors, pc, interrupt, initial, collected, deadline>>

ReceiveFirst ==
    /\ pc = "first"
    /\ actorErrors # <<>>
    /\ initial' = Head(actorErrors)
    /\ actorErrors' = Tail(actorErrors)
    /\ pc' = "interrupt"
    /\ UNCHANGED <<actors, execute, interrupt, collected, deadline>>

\* Every actor is interrupted, in a goroutine of its own.
InterruptAll ==
    /\ pc = "interrupt"
    /\ interrupt' = [a \in Actors |-> IF a \in actors THEN "running"
                                      ELSE interrupt[a]]
    /\ pc' = "interrupted"
    /\ UNCHANGED <<actors, execute, actorErrors, initial, collected, deadline>>

\* interrupt returns or panics: either way the semaphore is released.
InterruptReturns(a) ==
    /\ interrupt[a] = "running"
    /\ interrupt' = [interrupt EXCEPT ![a] = "returned"]
    /\ UNCHANGED <<actors, pc, execute, actorErrors, initial, collected, deadline>>

\* Mutant of InterruptsAwaited: waits for the interrupts without a timeout.
InterruptsAllReturned ==
    /\ pc = "interrupted"
    /\ \A a \in actors : interrupt[a] = "returned"
    /\ pc' = "collect"
    /\ UNCHANGED <<actors, execute, interrupt, actorErrors, initial, collected,
                   deadline>>

\* Every interrupt has returned, or InterruptTimeout has passed.
InterruptsAwaited ==
    /\ pc = "interrupted"
    /\ pc' = "collect"
    /\ UNCHANGED <<actors, execute, interrupt, actorErrors, initial, collected,
                   deadline>>

\* The errors that are still to be received: cap(actorErrors) less those
\* received.
Remaining == Cardinality(actors) - Cardinality(collected) - 1

Collect ==
    /\ pc = "collect"
    /\ Remaining > 0
    /\ actorErrors # <<>>
    /\ collected' = collected \cup {Head(actorErrors)}
    /\ actorErrors' = Tail(actorErrors)
    /\ UNCHANGED <<actors, pc, execute, interrupt, initial, deadline>>

\* executeReturnTimeout has passed.
Timeout ==
    /\ pc = "collect"
    /\ Remaining > 0
    /\ deadline' = TRUE
    /\ pc' = "returned"
    /\ UNCHANGED <<actors, execute, interrupt, actorErrors, initial, collected>>

Return ==
    /\ pc = "collect"
    /\ Remaining <= 0
    /\ pc' = "returned"
    /\ UNCHANGED <<actors, execute, interrupt, actorErrors, initial, collected,
                   deadline>>

Next ==
    \/ \E a \in Actors : Add(a) \/ ExecuteReturns(a) \/ InterruptReturns(a)
    \/ Run
    \/ ReceiveFirst
    \/ InterruptAll
    \/ InterruptsAwaited
    \/ Collect
    \/ Timeout
    \/ Return

Spec == Init /\ [][Next]_vars

\* Run goes on, its timers expire, and an actor that is not stuck returns
\* from interrupt, and from execute once it is interrupted.
Fairness ==
    /\ WF_vars(ReceiveFirst \/ InterruptAll \/ InterruptsAwaited \/ Collect
               \/ Timeout \/ Return)
    /\ \A a \in Actors \ Stuck :
          /\ WF_vars(InterruptReturns(a))
          /\ WF_vars(interrupt[a] # "idle" /\ ExecuteReturns(a))

FairSpec == Spec /\ Fairness

-----------------------------------------------------------------------------
(* Properties. *)

InChannel == {actorErrors[i] : i \in 1..Len(actorErrors)}
Returned == {a \in Actors : execute[a] = "returned"}

\* Every actor that has returned is accounted for exactly once: its error
\* is the initial one, has been collected or is in the channel.  None is lost
\* by a panic and none is sent twice, so that Run's count of errors is right
\* and no send finds the channel full.
ErrorsAccounted ==
    /\ Returned = ({initial} \ {None}) \cup collected \cup InChannel
    /\ Cardinality(Returned) =
          (IF initial = None THEN 0 ELSE 1) + Cardinality(collected)
             + Len(actorErrors)

\* Unless it gave up at its deadline, Run returns only when every actor's
\* execute has returned, and leaves no error in the channel.
ReturnedMeansStopped ==
    (pc = "returned" /\ ~deadline) =>
        actorErrors = <<>> /\ \A a \in actors : execute[a] = "returned"

\* By the time Run waits for the executes, and so by the time it returns,
\* it has interrupted every actor, the one that returned first included.
AllInterrupted ==
    pc \in {"collect", "returned"} => \A a \in actors : interrupt[a] # "idle"

\* Run accounts for every actor: its error, its interrupt and its return.
RunAccounted == ErrorsAccounted /\ ReturnedMeansStopped /\ AllInterrupted

\* The group stops as a whole: once one actor returns, Run returns whatever
\* the others do, and every actor that is not stuck returns too.
GroupStops ==
    []<>(Returned # {} =>
           /\ pc = "returned"
           /\ \A a \in actors \ Stuck : execute[a] = "returned")

=============================================================================
