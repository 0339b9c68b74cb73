--------------------------- MODULE FlagController ---------------------------
(***************************************************************************)
(* The flag controller (ee/agent/flags/flag_controller.go): the values the *)
(* control server stores, the temporary overrides that take precedence     *)
(* over them, with the timers that end them (flag_value_override.go), and  *)
(* the observers that are told of every change and read the flags again.   *)
(*                                                                         *)
(* A process is a goroutine that sets flags, or the callback of a timer.   *)
(* The n-th override that is started, its timer and the callback of that   *)
(* timer all go by the number n.                                           *)
(***************************************************************************)
EXTENDS Naturals, FiniteSets

CONSTANTS
    Keys,         \* flag keys
    Values,       \* values the control server or launcher stores
    Observers,    \* change observers
    Setters,      \* goroutines that set or override flags
    MaxStarts,    \* bound: overrides started in a behaviour
    MaxWrites     \* bound: changes of the stored values

Starts == 1..MaxStarts
None == 0
Procs == Setters \cup Starts

ASSUME FlagAssumption ==
    /\ MaxStarts \in Nat
    /\ MaxWrites \in Nat
    /\ Setters \cap (Starts \cup {None}) = {}
    /\ Values \cap (Starts \cup {None}) = {}

VARIABLES
    agentFlagsStore,  \* stored value of a key, or None
    writes,           \* changes made to it
    overrides,        \* fc.overrides: the start in force for a key, or None
    starts,           \* overrides started so far
    timer,            \* of a start: none, armed, stopped, fired
    overrideMutex,    \* the process in the critical section, or None
    pc,               \* where a process is
    keys,             \* the keys a process is working on; of a callback, its key
    todo,             \* the observers a process has still to call
    observers,        \* fc.observers
    view              \* what an observer last read

vars == <<agentFlagsStore, writes, overrides, starts, timer,
          overrideMutex, pc, keys, todo, observers, view>>

overrideVars == <<overrides, starts, timer, overrideMutex>>
storeVars == <<agentFlagsStore, writes>>
observerVars == <<observers, view>>

\* idle; waiting for the override lock; in Start, waiting on the channel of
\* the timer; about to copy the observers; calling them; a finished callback.
Steps == {"idle", "lock", "start", "drain", "notify", "call", "done"}

TypeOK ==
    /\ agentFlagsStore \in [Keys -> Values \cup {None}]
    /\ writes \in 0..MaxWrites
    /\ overrides \in [Keys -> Starts \cup {None}]
    /\ starts \in 0..MaxStarts
    /\ timer \in [Starts -> {"none", "armed", "stopped", "fired"}]
    /\ overrideMutex \in Procs \cup {None}
    /\ pc \in [Procs -> Steps]
    /\ keys \in [Procs -> SUBSET Keys]
    /\ todo \in [Procs -> SUBSET Observers]
    /\ observers \subseteq Observers
    /\ view \in [Observers -> [Keys -> Values \cup Starts \cup {None}]]

Init ==
    /\ agentFlagsStore = [k \in Keys |-> None]
    /\ writes = 0
    /\ overrides = [k \in Keys |-> None]
    /\ starts = 0
    /\ timer = [n \in Starts |-> "none"]
    /\ overrideMutex = None
    /\ pc = [p \in Procs |-> "idle"]
    /\ keys = [p \in Procs |-> {}]
    /\ todo = [p \in Procs |-> {}]
    /\ observers = Observers
    /\ view = [o \in Observers |-> [k \in Keys |-> None]]

\* A getter: an override takes precedence over the stored value, which takes
\* precedence over the default.
Get(k) == IF overrides[k] # None THEN overrides[k] ELSE agentFlagsStore[k]

-----------------------------------------------------------------------------
(* Stored values. *)

\* setControlServerValue: a value is stored and the observers are told.
\* (When the store fails, nothing changes and nobody is told.)
setControlServerValue(p, k, v) ==
    /\ pc[p] = "idle"
    /\ writes < MaxWrites
    /\ writes' = writes + 1
    /\ agentFlagsStore' = [agentFlagsStore EXCEPT ![k] = v]
    /\ pc' = [pc EXCEPT ![p] = "notify"]
    /\ keys' = [keys EXCEPT ![p] = {k}]
    /\ UNCHANGED <<overrideVars, observerVars, todo>>

\* The keys that hold a value and are not among S.
StaleKeys(S) == {k \in Keys \ S : agentFlagsStore[k] # None}

\* Mutant of Update: the observers are not told of the keys it deletes.
UpdateForgetsDeleted(p, S, v) ==
    /\ pc[p] = "idle"
    /\ writes < MaxWrites
    /\ writes' = writes + 1
    /\ agentFlagsStore' = [k \in Keys |-> IF k \in S THEN v ELSE None]
    /\ pc' = [pc EXCEPT ![p] = "notify"]
    /\ keys' = [keys EXCEPT ![p] = S]
    /\ UNCHANGED <<overrideVars, observerVars, todo>>

\* Update: the keys of S are stored, then, in a second transaction, all
\* other keys are deleted; the observers are told of the keys of S whether
\* or not they were stored, and of the keys that were deleted.
Update(p, S, v) ==
    /\ pc[p] = "idle"
    /\ writes < MaxWrites
    /\ writes' = writes + 1
    /\ \/ /\ agentFlagsStore' = [k \in Keys |-> IF k \in S THEN v ELSE None]
          /\ keys' = [keys EXCEPT ![p] = S \cup StaleKeys(S)]
       \/ /\ agentFlagsStore' =
                [k \in Keys |-> IF k \in S THEN v ELSE agentFlagsStore[k]]
          /\ keys' = [keys EXCEPT ![p] = S]
       \/ /\ UNCHANGED agentFlagsStore
          /\ keys' = [keys EXCEPT ![p] = S]
    /\ pc' = [pc EXCEPT ![p] = "notify"]
    /\ UNCHANGED <<overrideVars, observerVars, todo>>

-----------------------------------------------------------------------------
(* Overrides. *)

\* overrideFlag is called ... (at most MaxStarts times)
overrideFlag(p, k) ==
    /\ pc[p] = "idle"
    /\ starts + Cardinality({q \in Setters : pc[q] \in {"lock", "start"}})
          < MaxStarts
    /\ pc' = [pc EXCEPT ![p] = "lock"]
    /\ keys' = [keys EXCEPT ![p] = {k}]
    /\ UNCHANGED <<overrideVars, storeVars, observerVars, todo>>

\* ... and enters its critical section.
overrideLock(p) ==
    /\ pc[p] = "lock"
    /\ overrideMutex = None
    /\ overrideMutex' = p
    /\ pc' = [pc EXCEPT ![p] = "start"]
    /\ UNCHANGED <<overrides, starts, timer, storeVars, observerVars, keys,
                   todo>>

\* The override of k that p starts is number n: its timer is armed, the one
\* that ran for k until now is stopped, the lock is released and the
\* observers are to be told.
Started(p, k, n) ==
    /\ starts' = n
    /\ overrides' = [overrides EXCEPT ![k] = n]
    /\ timer' = [m \in Starts |-> IF m = n THEN "armed"
                                  ELSE IF m = overrides[k] /\ timer[m] = "armed"
                                  THEN "stopped" ELSE timer[m]]
    /\ keys' = [keys EXCEPT ![n] = {k}]
    /\ overrideMutex' = None
    /\ pc' = [pc EXCEPT ![p] = "notify"]
    /\ UNCHANGED <<storeVars, observerVars, todo>>

\* Start: when the timer of the override in force can be stopped, or there
\* is none, the new override starts.
Start(p) ==
    /\ pc[p] = "start"
    /\ starts < MaxStarts
    /\ \E k \in keys[p] :
          /\ overrides[k] # None => timer[overrides[k]] = "armed"
          /\ Started(p, k, starts + 1)

\* Start: when that timer has fired, Start receives from its channel, which
\* is nil for a timer made by AfterFunc.  There is no step out of "drain".
StartDrains(p) ==
    /\ pc[p] = "start"
    /\ \E k \in keys[p] : overrides[k] # None /\ timer[overrides[k]] = "fired"
    /\ pc' = [pc EXCEPT ![p] = "drain"]
    /\ UNCHANGED <<overrideVars, storeVars, observerVars, keys, todo>>

\* A timer fires; its callback goes for the lock.
TimerFires(n) ==
    /\ timer[n] = "armed"
    /\ timer' = [timer EXCEPT ![n] = "fired"]
    /\ pc' = [pc EXCEPT ![n] = "lock"]
    /\ UNCHANGED <<overrides, starts, overrideMutex, storeVars, observerVars,
                   keys, todo>>

\* overrideExpired: the callback deletes the override of its key.
overrideExpired(n) ==
    /\ pc[n] = "lock"
    /\ overrideMutex = None
    /\ overrides' = [k \in Keys |-> IF k \in keys[n] THEN None ELSE overrides[k]]
    /\ pc' = [pc EXCEPT ![n] = "notify"]
    /\ UNCHANGED <<starts, timer, overrideMutex, storeVars, observerVars,
                   keys, todo>>

-----------------------------------------------------------------------------
(* Observers. *)

\* notifyObservers: the observers are copied under the observers' lock ...
notifyObservers(p) ==
    /\ pc[p] = "notify"
    /\ pc' = [pc EXCEPT ![p] = "call"]
    /\ todo' = [todo EXCEPT ![p] = IF keys[p] = {} THEN {} ELSE observers]
    /\ UNCHANGED <<overrideVars, storeVars, observerVars, keys>>

\* ... and called without it.  An observer reads the flags that changed,
\* for which it needs the override lock.
FlagsChanged(p, o) ==
    /\ pc[p] = "call"
    /\ o \in todo[p]
    /\ overrideMutex = None
    /\ todo' = [todo EXCEPT ![p] = @ \ {o}]
    /\ view' = [view EXCEPT ![o] =
                   [k \in Keys |-> IF k \in keys[p] THEN Get(k) ELSE @[k]]]
    /\ UNCHANGED <<overrideVars, storeVars, observers, pc, keys>>

Notified(p) ==
    /\ pc[p] = "call"
    /\ todo[p] = {}
    /\ pc' = [pc EXCEPT ![p] = IF p \in Setters THEN "idle" ELSE "done"]
    /\ UNCHANGED <<overrideVars, storeVars, observerVars, keys, todo>>

\* An observer registers and reads the flags, or deregisters.
RegisterChangeObserver(o) ==
    /\ o \notin observers
    /\ overrideMutex = None
    /\ observers' = observers \cup {o}
    /\ view' = [view EXCEPT ![o] = [k \in Keys |-> Get(k)]]
    /\ UNCHANGED <<overrideVars, storeVars, pc, keys, todo>>

DeregisterChangeObserver(o) ==
    /\ o \in observers
    /\ observers' = observers \ {o}
    /\ UNCHANGED <<overrideVars, storeVars, view, pc, keys, todo>>

Next ==
    \/ \E p \in Setters :
          \/ \E k \in Keys :
                \/ \E v \in Values : setControlServerValue(p, k, v)
                \/ overrideFlag(p, k)
          \/ \E S \in SUBSET Keys, v \in Values : Update(p, S, v)
          \/ overrideLock(p)
          \/ Start(p)
          \/ StartDrains(p)
    \/ \E n \in Starts : TimerFires(n) \/ overrideExpired(n)
    \/ \E p \in Procs :
          \/ notifyObservers(p)
          \/ \E o \in Observers : FlagsChanged(p, o)
          \/ Notified(p)
    \/ \E o \in Observers :
          \/ RegisterChangeObserver(o)
          \/ DeregisterChangeObserver(o)

Spec == Init /\ [][Next]_vars

\* Goroutines run, timers fire, and the mutex starves nobody; no one needs
\* to set a flag, and observers need not come or go.
Fairness ==
    /\ \A p \in Setters : SF_vars(overrideLock(p)) /\ WF_vars(Start(p))
    /\ \A n \in Starts : WF_vars(TimerFires(n)) /\ SF_vars(overrideExpired(n))
    /\ \A p \in Procs : /\ WF_vars(notifyObservers(p) \/ Notified(p))
                        /\ SF_vars(\E o \in Observers : FlagsChanged(p, o))

FairSpec == Spec /\ Fairness

-----------------------------------------------------------------------------
(* Properties. *)

\* The callback of n has still to delete its override.
Expiring(n) == timer[n] = "armed" \/ (timer[n] = "fired" /\ pc[n] = "lock")

\* Every override in force has a timer that is running, or a callback that
\* is on its way: none is in force for ever by having lost its timer.
OverrideHasTimer ==
    \A k \in Keys : overrides[k] # None => Expiring(overrides[k])

\* A timer that runs, or whose callback is on its way, is the timer of the
\* override in force for its key: no override is ended early by the expiry
\* of the one it replaced.
ExpiryIsOwn ==
    \A n \in Starts : Expiring(n) => \A k \in keys[n] : overrides[k] = n

\* Process p will still have observer o read k.
WillRead(p, o, k) ==
    k \in keys[p] /\ (pc[p] = "notify" \/ (pc[p] = "call" /\ o \in todo[p]))

\* A registered observer has read the value that a flag now has, or will be
\* called again: overlapping changes, expiries and registrations leave no
\* observer with an old value, in whatever order it is called for them.
ObserversSeeLatest ==
    \A o \in observers, k \in Keys :
        view[o][k] = Get(k) \/ \E p \in Procs : WillRead(p, o, k)

\* Overrides, timers and observers fit together, however setters, timers and
\* registrations overlap (overrideFlag, overrideExpired, notifyObservers).
FlagsConsistent == OverrideHasTimer /\ ExpiryIsOwn /\ ObserversSeeLatest

\* Violated by the code.  An override is in force "until the duration has
\* elapsed" (types/flags.go): it ends.
OverrideEnds ==
    \A k \in Keys, n \in Starts : (overrides[k] = n) ~> (overrides[k] # n)

=============================================================================
