--------------------------- MODULE LoggedErrgroup ---------------------------
(***************************************************************************)
(* The errgroup wrapper an osquery instance runs its goroutines in (ee/    *)
(* errgroup/errgroup.go): goroutines that run once, goroutines that are    *)
(* repeated on an interval, and goroutines that run when the group shuts   *)
(* down, over golang.org/x/sync/errgroup, which keeps the first error and  *)
(* cancels the group's context with it.                                    *)
(***************************************************************************)
EXTENDS Naturals, FiniteSets

CONSTANTS
    Plain,        \* goroutines given to StartGoroutine
    Repeated,     \* goroutines given to StartRepeatedGoroutine
    OnShutdown,   \* goroutines given to AddShutdownGoroutine
    Stuck         \* goroutines that may never return

Goroutines == Plain \cup Repeated \cup OnShutdown
Errors == {"nil", "error", "canceled"}

VARIABLES
    state,      \* of a goroutine: none, delay, waiting, running, ticking, returned
    err,        \* the first error that is not nil
    doneCtx,    \* the group's context is done
    asked,      \* Shutdown was called
    failed,     \* goroutines whose function returned an error
    wait,       \* Wait: idle, waiting, returned or timeout
    result      \* what Wait returned

vars == <<state, err, doneCtx, asked, failed, wait, result>>

TypeOK ==
    /\ state \in [Goroutines -> {"none", "delay", "waiting", "running",
                                 "ticking", "returned"}]
    /\ err \in Errors
    /\ doneCtx \in BOOLEAN
    /\ asked \in BOOLEAN
    /\ failed \subseteq Goroutines
    /\ wait \in {"idle", "waiting", "returned", "timeout"}
    /\ result \in Errors

\* NewLoggedErrgroup.
Init ==
    /\ state = [g \in Goroutines |-> "none"]
    /\ err = "nil"
    /\ doneCtx = FALSE
    /\ asked = FALSE
    /\ failed = {}
    /\ wait = "idle"
    /\ result = "nil"

\* The group learns that g has exited with e: the first error is kept, and
\* cancels the context.
Exit(g, e) ==
    /\ state' = [state EXCEPT ![g] = "returned"]
    /\ err' = IF err = "nil" THEN e ELSE err
    /\ doneCtx' = (doneCtx \/ e # "nil")

Enter(g, s) ==
    /\ state' = [state EXCEPT ![g] = s]
    /\ UNCHANGED <<err, doneCtx>>

-----------------------------------------------------------------------------
\* Goroutines are started before Wait is called.
StartGoroutine(g) ==
    /\ g \in Plain /\ state[g] = "none" /\ wait = "idle"
    /\ Enter(g, "running")
    /\ UNCHANGED <<asked, failed, wait, result>>

\* With or without a delay.
StartRepeatedGoroutine(g) ==
    /\ g \in Repeated /\ state[g] = "none" /\ wait = "idle"
    /\ Enter(g, "delay") \/ Enter(g, "running")
    /\ UNCHANGED <<asked, failed, wait, result>>

AddShutdownGoroutine(g) ==
    /\ g \in OnShutdown /\ state[g] = "none" /\ wait = "idle"
    /\ Enter(g, "waiting")
    /\ UNCHANGED <<asked, failed, wait, result>>

\* The function of a goroutine returns an error; that of a shutdown goroutine
\* is only logged, and the error of the context is returned instead.
ReturnsError(g) ==
    /\ state[g] = "running"
    /\ Exit(g, IF g \in OnShutdown THEN "canceled" ELSE "error")
    /\ failed' = failed \cup {g}
    /\ UNCHANGED <<asked, wait, result>>

\* The function of a goroutine returns nil: a repeated one waits for its
\* next turn.
ReturnsNil(g) ==
    /\ state[g] = "running"
    /\ IF g \in Repeated THEN Enter(g, "ticking")
       ELSE Exit(g, IF g \in OnShutdown THEN "canceled" ELSE "nil")
    /\ UNCHANGED <<asked, failed, wait, result>>

\* The function of a goroutine panics: only a panic with an error makes a
\* goroutine return an error, and no panic does in a shutdown goroutine.
Panics(g) ==
    /\ state[g] = "running"
    /\ \/ Exit(g, IF g \in OnShutdown THEN "nil" ELSE "error")
       \/ Exit(g, "nil")
    /\ UNCHANGED <<asked, failed, wait, result>>

\* The delay is over, or the ticker ticks.
Turn(g) ==
    /\ state[g] \in {"delay", "ticking"}
    /\ Enter(g, "running")
    /\ UNCHANGED <<asked, failed, wait, result>>

\* Mutant of SeesDone: the ticker's loop does not look at the context.
SeesDoneInDelay(g) ==
    /\ doneCtx
    /\ \/ state[g] = "delay" /\ Exit(g, "nil")
       \/ state[g] = "waiting" /\ Enter(g, "running")
    /\ UNCHANGED <<asked, failed, wait, result>>

\* A goroutine that waits sees that the context is done.
SeesDone(g) ==
    /\ doneCtx
    /\ \/ state[g] \in {"delay", "ticking"} /\ Exit(g, "nil")
       \/ state[g] = "waiting" /\ Enter(g, "running")
    /\ UNCHANGED <<asked, failed, wait, result>>

Shutdown ==
    /\ ~asked
    /\ asked' = TRUE
    /\ doneCtx' = TRUE
    /\ UNCHANGED <<state, err, failed, wait, result>>

Wait ==
    /\ wait = "idle"
    /\ wait' = "waiting"
    /\ UNCHANGED <<state, err, doneCtx, asked, failed, result>>

\* The group's own Wait returns when every goroutine has exited, and cancels
\* the context.
WaitReturns ==
    /\ wait = "waiting"
    /\ \A g \in Goroutines : state[g] \in {"none", "returned"}
    /\ wait' = "returned"
    /\ result' = err
    /\ doneCtx' = TRUE
    /\ UNCHANGED <<state, err, asked, failed>>

\* maxErrgroupShutdownDuration has passed since Wait was called.
WaitTimesOut ==
    /\ wait = "waiting"
    /\ wait' = "timeout"
    /\ UNCHANGED <<state, err, doneCtx, asked, failed, result>>

Next ==
    \/ \E g \in Goroutines :
          \/ StartGoroutine(g)
          \/ StartRepeatedGoroutine(g)
          \/ AddShutdownGoroutine(g)
          \/ ReturnsError(g)
          \/ ReturnsNil(g)
          \/ Panics(g)
          \/ Turn(g)
          \/ SeesDone(g)
    \/ Shutdown
    \/ Wait
    \/ WaitReturns
    \/ WaitTimesOut

Spec == Init /\ [][Next]_vars

\* Goroutines see the context, timers expire, and the functions that are
\* not stuck return.  A select with two ready cases picks each in the end.
Fairness ==
    /\ WF_vars(WaitReturns \/ WaitTimesOut)
    /\ \A g \in Goroutines : WF_vars(SeesDone(g)) /\ WF_vars(Turn(g))
    /\ \A g \in Repeated : SF_vars(SeesDone(g))
    /\ \A g \in Goroutines \ Stuck :
          WF_vars(ReturnsError(g) \/ ReturnsNil(g) \/ Panics(g))

FairSpec == Spec /\ Fairness

-----------------------------------------------------------------------------
(* Properties. *)

\* The error of a goroutine that fails while the group is not being shut
\* down is the group's error: neither the shutdown goroutines that it sets
\* off nor the goroutines that fail after it replace it.  So WaitShutdown
\* returns the initial error, unless someone called Shutdown.
InitialErrorKept ==
    (failed \ OnShutdown # {} /\ ~asked) => err = "error"

\* When Wait returns without a timeout, no goroutine of the group is left.
WaitMeansExited ==
    wait = "returned" =>
        \A g \in Goroutines : state[g] \in {"none", "returned"}

\* Once the group is done, every goroutine that is not stuck exits: repeated
\* ones, those still in their delay, and shutdown goroutines.
DoneStopsAll ==
    []<>(doneCtx => \A g \in Goroutines \ Stuck : state[g] \in {"none", "returned"})

=============================================================================
