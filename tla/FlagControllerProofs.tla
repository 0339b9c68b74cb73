----------------------- MODULE FlagControllerProofs ------------------------
(***************************************************************************)
(* Proofs about FlagController, for any sets of keys, values, observers    *)
(* and setters.  Besides the invariants that the runs check, the induction *)
(* needs to know who holds the override lock, that only the callback of a  *)
(* timer that has fired goes for it, and that an override belongs to the   *)
(* one key its start was for.                                              *)
(***************************************************************************)
EXTENDS FlagController, FlagValues, TLAPS

\* The lock is held by the setter that is in Start, or stuck there.
LockInv ==
    /\ \A p \in Procs : pc[p] \in {"start", "drain"} =>
                           p \in Setters /\ overrideMutex = p
    /\ overrideMutex # None =>
          /\ overrideMutex \in Setters
          /\ pc[overrideMutex] \in {"start", "drain"}

\* A start that has not happened has no timer; a callback runs only once its
\* timer has fired.
CallbackInv ==
    \A n \in Starts :
        /\ n > starts => timer[n] = "none"
        /\ timer[n] # "fired" => pc[n] = "idle"

\* An override is in force for the key it was started for only.
KeyInv == \A k \in Keys : overrides[k] # None => keys[overrides[k]] = {k}

TimerInv == LockInv /\ CallbackInv /\ KeyInv /\ OverrideHasTimer /\ ExpiryIsOwn

IInv == TypeOK /\ TimerInv /\ ObserversSeeLatest

\* The invariant holds when the controller is made.
LEMMA InitIInv == Init => IInv
  <1> SUFFICES ASSUME Init PROVE IInv
    OBVIOUS
  <1> USE FlagAssumption DEF Init, Procs, Starts, None
  <1>1. TypeOK
    BY DEF TypeOK, Steps
  <1>2. TimerInv
    BY DEF TimerInv, LockInv, CallbackInv, KeyInv, OverrideHasTimer,
           ExpiryIsOwn, Expiring
  <1>3. ObserversSeeLatest
    BY DEF ObserversSeeLatest, Get
  <1> QED
    BY <1>1, <1>2, <1>3 DEF IInv

\* Every step keeps the types.
LEMMA TypeStep ==
    ASSUME TypeOK, [Next]_vars PROVE TypeOK'
  <1> USE FlagAssumption DEF Procs, Starts, None
  <1>1. ASSUME NEW p \in Setters, NEW k \in Keys, NEW v \in Values, setControlServerValue(p, k, v)
        PROVE  TypeOK'
    BY <1>1 DEF setControlServerValue, TypeOK, Steps, overrideVars, storeVars,
       observerVars
  <1>2. ASSUME NEW p \in Setters, NEW k \in Keys, overrideFlag(p, k)
        PROVE  TypeOK'
    BY <1>2 DEF overrideFlag, TypeOK, Steps, overrideVars, storeVars,
       observerVars
  <1>3. ASSUME NEW p \in Setters, NEW S \in SUBSET Keys, NEW v \in Values, Update(p, S, v)
        PROVE  TypeOK'
    <2>1. StaleKeys(S) \subseteq Keys
      BY DEF StaleKeys
    <2>2. agentFlagsStore' \in [Keys -> Values \cup {0}]
      BY <1>3 DEF Update, TypeOK
    <2>3. keys' \in [Procs -> SUBSET Keys]
      BY <1>3, <2>1 DEF Update, TypeOK
    <2>4. writes' \in 0..MaxWrites /\ pc' \in [Procs -> Steps]
      BY <1>3 DEF Update, TypeOK, Steps
    <2> QED
      BY <1>3, <2>2, <2>3, <2>4 DEF Update, TypeOK, overrideVars, observerVars
  <1>4. ASSUME NEW p \in Setters, overrideLock(p)
        PROVE  TypeOK'
    BY <1>4 DEF overrideLock, TypeOK, Steps, overrideVars, storeVars,
       observerVars
  <1>5. ASSUME NEW p \in Setters, Start(p)
        PROVE  TypeOK'
    BY <1>5 DEF Start, Started, TypeOK, Steps, overrideVars, storeVars,
       observerVars
  <1>6. ASSUME NEW p \in Setters, StartDrains(p)
        PROVE  TypeOK'
    BY <1>6 DEF StartDrains, TypeOK, Steps, overrideVars, storeVars,
       observerVars
  <1>7. ASSUME NEW n \in Starts, TimerFires(n)
        PROVE  TypeOK'
    BY <1>7 DEF TimerFires, TypeOK, Steps, overrideVars, storeVars,
       observerVars
  <1>8. ASSUME NEW n \in Starts, overrideExpired(n)
        PROVE  TypeOK'
    BY <1>8 DEF overrideExpired, TypeOK, Steps, overrideVars, storeVars,
       observerVars
  <1>9. ASSUME NEW p \in Procs, notifyObservers(p)
        PROVE  TypeOK'
    BY <1>9 DEF notifyObservers, TypeOK, Steps, overrideVars, storeVars,
       observerVars
  <1>10. ASSUME NEW p \in Procs, NEW o \in Observers, FlagsChanged(p, o)
        PROVE  TypeOK'
    BY <1>10 DEF FlagsChanged, Get, TypeOK, Steps, overrideVars, storeVars,
       observerVars
  <1>11. ASSUME NEW p \in Procs, Notified(p)
        PROVE  TypeOK'
    BY <1>11 DEF Notified, TypeOK, Steps, overrideVars, storeVars, observerVars
  <1>12. ASSUME NEW o \in Observers, RegisterChangeObserver(o)
        PROVE  TypeOK'
    BY <1>12 DEF RegisterChangeObserver, Get, TypeOK, Steps, overrideVars,
       storeVars, observerVars
  <1>13. ASSUME NEW o \in Observers, DeregisterChangeObserver(o)
        PROVE  TypeOK'
    BY <1>13 DEF DeregisterChangeObserver, TypeOK, Steps, overrideVars,
       storeVars, observerVars
  <1>14. CASE UNCHANGED vars
    BY <1>14 DEF vars, TypeOK, Steps, overrideVars, storeVars, observerVars
  <1> QED
    BY <1>1, <1>2, <1>3, <1>4, <1>5, <1>6, <1>7, <1>8, <1>9, <1>10, <1>11,
       <1>12, <1>13, <1>14 DEF Next

\* Every step keeps the lock with its holder.
LEMMA LockStep ==
    ASSUME TypeOK, LockInv, [Next]_vars PROVE LockInv'
  <1> USE FlagAssumption DEF Procs, Starts, None
  <1>1. ASSUME NEW p \in Setters, NEW k \in Keys, NEW v \in Values, setControlServerValue(p, k, v)
        PROVE  LockInv'
    BY <1>1 DEF setControlServerValue, TypeOK, LockInv, overrideVars,
       storeVars, observerVars
  <1>2. ASSUME NEW p \in Setters, NEW k \in Keys, overrideFlag(p, k)
        PROVE  LockInv'
    BY <1>2 DEF overrideFlag, TypeOK, LockInv, overrideVars, storeVars,
       observerVars
  <1>3. ASSUME NEW p \in Setters, NEW S \in SUBSET Keys, NEW v \in Values, Update(p, S, v)
        PROVE  LockInv'
    BY <1>3 DEF Update, StaleKeys, TypeOK, LockInv, overrideVars, storeVars,
       observerVars
  <1>4. ASSUME NEW p \in Setters, overrideLock(p)
        PROVE  LockInv'
    BY <1>4 DEF overrideLock, TypeOK, LockInv, overrideVars, storeVars,
       observerVars
  <1>5. ASSUME NEW p \in Setters, Start(p)
        PROVE  LockInv'
    BY <1>5 DEF Start, Started, TypeOK, LockInv, overrideVars, storeVars,
       observerVars
  <1>6. ASSUME NEW p \in Setters, StartDrains(p)
        PROVE  LockInv'
    BY <1>6 DEF StartDrains, TypeOK, LockInv, overrideVars, storeVars,
       observerVars
  <1>7. ASSUME NEW n \in Starts, TimerFires(n)
        PROVE  LockInv'
    BY <1>7 DEF TimerFires, TypeOK, LockInv, overrideVars, storeVars,
       observerVars
  <1>8. ASSUME NEW n \in Starts, overrideExpired(n)
        PROVE  LockInv'
    BY <1>8 DEF overrideExpired, TypeOK, LockInv, overrideVars, storeVars,
       observerVars
  <1>9. ASSUME NEW p \in Procs, notifyObservers(p)
        PROVE  LockInv'
    BY <1>9 DEF notifyObservers, TypeOK, LockInv, overrideVars, storeVars,
       observerVars
  <1>10. ASSUME NEW p \in Procs, NEW o \in Observers, FlagsChanged(p, o)
        PROVE  LockInv'
    BY <1>10 DEF FlagsChanged, Get, TypeOK, LockInv, overrideVars, storeVars,
       observerVars
  <1>11. ASSUME NEW p \in Procs, Notified(p)
        PROVE  LockInv'
    BY <1>11 DEF Notified, TypeOK, LockInv, overrideVars, storeVars,
       observerVars
  <1>12. ASSUME NEW o \in Observers, RegisterChangeObserver(o)
        PROVE  LockInv'
    BY <1>12 DEF RegisterChangeObserver, Get, TypeOK, LockInv, overrideVars,
       storeVars, observerVars
  <1>13. ASSUME NEW o \in Observers, DeregisterChangeObserver(o)
        PROVE  LockInv'
    BY <1>13 DEF DeregisterChangeObserver, TypeOK, LockInv, overrideVars,
       storeVars, observerVars
  <1>14. CASE UNCHANGED vars
    BY <1>14 DEF vars, TypeOK, LockInv, overrideVars, storeVars, observerVars
  <1> QED
    BY <1>1, <1>2, <1>3, <1>4, <1>5, <1>6, <1>7, <1>8, <1>9, <1>10, <1>11,
       <1>12, <1>13, <1>14 DEF Next

\* Every step keeps callbacks behind their timers.
LEMMA CallbackStep ==
    ASSUME TypeOK, TimerInv, [Next]_vars PROVE CallbackInv'
  <1> USE FlagAssumption DEF Procs, Starts, None
  <1>1. ASSUME NEW p \in Setters, NEW k \in Keys, NEW v \in Values, setControlServerValue(p, k, v)
        PROVE  CallbackInv'
    BY SMTT(30), <1>1 DEF setControlServerValue, TypeOK, TimerInv, LockInv, CallbackInv,
       overrideVars, storeVars, observerVars
  <1>2. ASSUME NEW p \in Setters, NEW k \in Keys, overrideFlag(p, k)
        PROVE  CallbackInv'
    BY <1>2 DEF overrideFlag, TypeOK, TimerInv, LockInv, CallbackInv,
       overrideVars, storeVars, observerVars
  <1>3. ASSUME NEW p \in Setters, NEW S \in SUBSET Keys, NEW v \in Values, Update(p, S, v)
        PROVE  CallbackInv'
    BY <1>3 DEF Update, StaleKeys, TypeOK, TimerInv, LockInv, CallbackInv,
       overrideVars, storeVars, observerVars
  <1>4. ASSUME NEW p \in Setters, overrideLock(p)
        PROVE  CallbackInv'
    BY <1>4 DEF overrideLock, TypeOK, TimerInv, LockInv, CallbackInv,
       overrideVars, storeVars, observerVars
  <1>5. ASSUME NEW p \in Setters, Start(p)
        PROVE  CallbackInv'
    BY <1>5 DEF Start, Started, TypeOK, TimerInv, LockInv, CallbackInv,
       overrideVars, storeVars, observerVars
  <1>6. ASSUME NEW p \in Setters, StartDrains(p)
        PROVE  CallbackInv'
    BY <1>6 DEF StartDrains, TypeOK, TimerInv, LockInv, CallbackInv,
       overrideVars, storeVars, observerVars
  <1>7. ASSUME NEW n \in Starts, TimerFires(n)
        PROVE  CallbackInv'
    BY <1>7 DEF TimerFires, TypeOK, TimerInv, LockInv, CallbackInv,
       overrideVars, storeVars, observerVars
  <1>8. ASSUME NEW n \in Starts, overrideExpired(n)
        PROVE  CallbackInv'
    BY <1>8 DEF overrideExpired, TypeOK, TimerInv, LockInv, CallbackInv,
       overrideVars, storeVars, observerVars
  <1>9. ASSUME NEW p \in Procs, notifyObservers(p)
        PROVE  CallbackInv'
    BY <1>9 DEF notifyObservers, TypeOK, TimerInv, LockInv, CallbackInv,
       overrideVars, storeVars, observerVars
  <1>10. ASSUME NEW p \in Procs, NEW o \in Observers, FlagsChanged(p, o)
        PROVE  CallbackInv'
    BY <1>10 DEF FlagsChanged, Get, TypeOK, TimerInv, LockInv, CallbackInv,
       overrideVars, storeVars, observerVars
  <1>11. ASSUME NEW p \in Procs, Notified(p)
        PROVE  CallbackInv'
    BY <1>11 DEF Notified, TypeOK, TimerInv, LockInv, CallbackInv,
       overrideVars, storeVars, observerVars
  <1>12. ASSUME NEW o \in Observers, RegisterChangeObserver(o)
        PROVE  CallbackInv'
    BY <1>12 DEF RegisterChangeObserver, Get, TypeOK, TimerInv, LockInv,
       CallbackInv, overrideVars, storeVars, observerVars
  <1>13. ASSUME NEW o \in Observers, DeregisterChangeObserver(o)
        PROVE  CallbackInv'
    BY <1>13 DEF DeregisterChangeObserver, TypeOK, TimerInv, LockInv,
       CallbackInv, overrideVars, storeVars, observerVars
  <1>14. CASE UNCHANGED vars
    BY <1>14 DEF vars, TypeOK, TimerInv, LockInv, CallbackInv, overrideVars,
       storeVars, observerVars
  <1> QED
    BY <1>1, <1>2, <1>3, <1>4, <1>5, <1>6, <1>7, <1>8, <1>9, <1>10, <1>11,
       <1>12, <1>13, <1>14 DEF Next

\* Every step keeps overrides with their keys.
LEMMA KeyStep ==
    ASSUME TypeOK, TimerInv, [Next]_vars PROVE KeyInv'
  <1> USE FlagAssumption DEF Procs, Starts, None
  <1>1. ASSUME NEW p \in Setters, NEW k \in Keys, NEW v \in Values, setControlServerValue(p, k, v)
        PROVE  KeyInv'
    BY <1>1 DEF setControlServerValue, TypeOK, TimerInv, CallbackInv, KeyInv,
       OverrideHasTimer, Expiring, overrideVars, storeVars, observerVars
  <1>2. ASSUME NEW p \in Setters, NEW k \in Keys, overrideFlag(p, k)
        PROVE  KeyInv'
    BY <1>2 DEF overrideFlag, TypeOK, TimerInv, CallbackInv, KeyInv,
       OverrideHasTimer, Expiring, overrideVars, storeVars, observerVars
  <1>3. ASSUME NEW p \in Setters, NEW S \in SUBSET Keys, NEW v \in Values, Update(p, S, v)
        PROVE  KeyInv'
    BY <1>3 DEF Update, StaleKeys, TypeOK, TimerInv, CallbackInv, KeyInv,
       OverrideHasTimer, Expiring, overrideVars, storeVars, observerVars
  <1>4. ASSUME NEW p \in Setters, overrideLock(p)
        PROVE  KeyInv'
    BY <1>4 DEF overrideLock, TypeOK, TimerInv, CallbackInv, KeyInv,
       OverrideHasTimer, Expiring, overrideVars, storeVars, observerVars
  <1>5. ASSUME NEW p \in Setters, Start(p)
        PROVE  KeyInv'
    BY <1>5 DEF Start, Started, TypeOK, TimerInv, CallbackInv, KeyInv,
       OverrideHasTimer, Expiring, overrideVars, storeVars, observerVars
  <1>6. ASSUME NEW p \in Setters, StartDrains(p)
        PROVE  KeyInv'
    BY <1>6 DEF StartDrains, TypeOK, TimerInv, CallbackInv, KeyInv,
       OverrideHasTimer, Expiring, overrideVars, storeVars, observerVars
  <1>7. ASSUME NEW n \in Starts, TimerFires(n)
        PROVE  KeyInv'
    BY <1>7 DEF TimerFires, TypeOK, TimerInv, CallbackInv, KeyInv,
       OverrideHasTimer, Expiring, overrideVars, storeVars, observerVars
  <1>8. ASSUME NEW n \in Starts, overrideExpired(n)
        PROVE  KeyInv'
    BY <1>8 DEF overrideExpired, TypeOK, TimerInv, CallbackInv, KeyInv,
       OverrideHasTimer, Expiring, overrideVars, storeVars, observerVars
  <1>9. ASSUME NEW p \in Procs, notifyObservers(p)
        PROVE  KeyInv'
    BY <1>9 DEF notifyObservers, TypeOK, TimerInv, CallbackInv, KeyInv,
       OverrideHasTimer, Expiring, overrideVars, storeVars, observerVars
  <1>10. ASSUME NEW p \in Procs, NEW o \in Observers, FlagsChanged(p, o)
        PROVE  KeyInv'
    BY <1>10 DEF FlagsChanged, Get, TypeOK, TimerInv, CallbackInv, KeyInv,
       OverrideHasTimer, Expiring, overrideVars, storeVars, observerVars
  <1>11. ASSUME NEW p \in Procs, Notified(p)
        PROVE  KeyInv'
    BY <1>11 DEF Notified, TypeOK, TimerInv, CallbackInv, KeyInv,
       OverrideHasTimer, Expiring, overrideVars, storeVars, observerVars
  <1>12. ASSUME NEW o \in Observers, RegisterChangeObserver(o)
        PROVE  KeyInv'
    BY <1>12 DEF RegisterChangeObserver, Get, TypeOK, TimerInv, CallbackInv,
       KeyInv, OverrideHasTimer, Expiring, overrideVars, storeVars,
       observerVars
  <1>13. ASSUME NEW o \in Observers, DeregisterChangeObserver(o)
        PROVE  KeyInv'
    BY <1>13 DEF DeregisterChangeObserver, TypeOK, TimerInv, CallbackInv,
       KeyInv, OverrideHasTimer, Expiring, overrideVars, storeVars,
       observerVars
  <1>14. CASE UNCHANGED vars
    BY <1>14 DEF vars, TypeOK, TimerInv, CallbackInv, KeyInv,
       OverrideHasTimer, Expiring, overrideVars, storeVars, observerVars
  <1> QED
    BY <1>1, <1>2, <1>3, <1>4, <1>5, <1>6, <1>7, <1>8, <1>9, <1>10, <1>11,
       <1>12, <1>13, <1>14 DEF Next

\* Every step leaves each override a timer.
LEMMA HasTimerStep ==
    ASSUME TypeOK, TimerInv, [Next]_vars PROVE OverrideHasTimer'
  <1> USE FlagAssumption DEF Procs, Starts, None
  <1>1. ASSUME NEW p \in Setters, NEW k \in Keys, NEW v \in Values, setControlServerValue(p, k, v)
        PROVE  OverrideHasTimer'
    BY <1>1 DEF setControlServerValue, TypeOK, TimerInv, CallbackInv, KeyInv,
       ExpiryIsOwn, OverrideHasTimer, Expiring, overrideVars, storeVars,
       observerVars
  <1>2. ASSUME NEW p \in Setters, NEW k \in Keys, overrideFlag(p, k)
        PROVE  OverrideHasTimer'
    BY <1>2 DEF overrideFlag, TypeOK, TimerInv, CallbackInv, KeyInv,
       ExpiryIsOwn, OverrideHasTimer, Expiring, overrideVars, storeVars,
       observerVars
  <1>3. ASSUME NEW p \in Setters, NEW S \in SUBSET Keys, NEW v \in Values, Update(p, S, v)
        PROVE  OverrideHasTimer'
    BY <1>3 DEF Update, StaleKeys, TypeOK, TimerInv, CallbackInv, KeyInv,
       ExpiryIsOwn, OverrideHasTimer, Expiring, overrideVars, storeVars,
       observerVars
  <1>4. ASSUME NEW p \in Setters, overrideLock(p)
        PROVE  OverrideHasTimer'
    BY <1>4 DEF overrideLock, TypeOK, TimerInv, CallbackInv, KeyInv,
       ExpiryIsOwn, OverrideHasTimer, Expiring, overrideVars, storeVars,
       observerVars
  <1>5. ASSUME NEW p \in Setters, Start(p)
        PROVE  OverrideHasTimer'
    <2>1. PICK k \in keys[p] : Started(p, k, starts + 1)
      BY <1>5 DEF Start
    <2>2. starts + 1 \in Starts /\ timer[starts + 1] = "none" /\ k \in Keys
      BY <1>5 DEF Start, TypeOK, TimerInv, CallbackInv
    <2>3. SUFFICES ASSUME NEW j \in Keys, overrides'[j] # None
                   PROVE  Expiring(overrides[j])'
      BY DEF OverrideHasTimer
    <2>4. CASE j = k
      BY <2>1, <2>2, <2>4 DEF Started, TypeOK, Expiring
    <2>5. CASE j # k
      <3>1. overrides'[j] = overrides[j] /\ Expiring(overrides[j])
        BY <2>1, <2>2, <2>3, <2>5 DEF Started, TypeOK, TimerInv,
           OverrideHasTimer
      <3>2. overrides[j] \in Starts /\ overrides[j] # starts + 1
        BY <2>2, <2>3, <3>1 DEF TypeOK, Expiring
      <3>3. overrides[j] # overrides[k]
        BY <2>2, <2>3, <2>5, <3>1 DEF TimerInv, KeyInv
      <3>4. timer'[overrides[j]] = timer[overrides[j]]
        BY <2>1, <3>2, <3>3 DEF Started
      <3>5. pc'[overrides[j]] = pc[overrides[j]]
        BY <2>1, <3>2 DEF Started, TypeOK
      <3> QED
        BY <3>1, <3>4, <3>5 DEF Expiring
    <2> QED
      BY <2>4, <2>5
  <1>6. ASSUME NEW p \in Setters, StartDrains(p)
        PROVE  OverrideHasTimer'
    BY <1>6 DEF StartDrains, TypeOK, TimerInv, CallbackInv, KeyInv,
       ExpiryIsOwn, OverrideHasTimer, Expiring, overrideVars, storeVars,
       observerVars
  <1>7. ASSUME NEW n \in Starts, TimerFires(n)
        PROVE  OverrideHasTimer'
    BY <1>7 DEF TimerFires, TypeOK, TimerInv, CallbackInv, KeyInv,
       ExpiryIsOwn, OverrideHasTimer, Expiring, overrideVars, storeVars,
       observerVars
  <1>8. ASSUME NEW n \in Starts, overrideExpired(n)
        PROVE  OverrideHasTimer'
    BY <1>8 DEF overrideExpired, TypeOK, TimerInv, CallbackInv, KeyInv,
       ExpiryIsOwn, OverrideHasTimer, Expiring, overrideVars, storeVars,
       observerVars
  <1>9. ASSUME NEW p \in Procs, notifyObservers(p)
        PROVE  OverrideHasTimer'
    BY <1>9 DEF notifyObservers, TypeOK, TimerInv, CallbackInv, KeyInv,
       ExpiryIsOwn, OverrideHasTimer, Expiring, overrideVars, storeVars,
       observerVars
  <1>10. ASSUME NEW p \in Procs, NEW o \in Observers, FlagsChanged(p, o)
        PROVE  OverrideHasTimer'
    BY <1>10 DEF FlagsChanged, Get, TypeOK, TimerInv, CallbackInv, KeyInv,
       ExpiryIsOwn, OverrideHasTimer, Expiring, overrideVars, storeVars,
       observerVars
  <1>11. ASSUME NEW p \in Procs, Notified(p)
        PROVE  OverrideHasTimer'
    BY <1>11 DEF Notified, TypeOK, TimerInv, CallbackInv, KeyInv, ExpiryIsOwn,
       OverrideHasTimer, Expiring, overrideVars, storeVars, observerVars
  <1>12. ASSUME NEW o \in Observers, RegisterChangeObserver(o)
        PROVE  OverrideHasTimer'
    BY <1>12 DEF RegisterChangeObserver, Get, TypeOK, TimerInv, CallbackInv,
       KeyInv, ExpiryIsOwn, OverrideHasTimer, Expiring, overrideVars,
       storeVars, observerVars
  <1>13. ASSUME NEW o \in Observers, DeregisterChangeObserver(o)
        PROVE  OverrideHasTimer'
    BY <1>13 DEF DeregisterChangeObserver, TypeOK, TimerInv, CallbackInv,
       KeyInv, ExpiryIsOwn, OverrideHasTimer, Expiring, overrideVars,
       storeVars, observerVars
  <1>14. CASE UNCHANGED vars
    BY <1>14 DEF vars, TypeOK, TimerInv, CallbackInv, KeyInv, ExpiryIsOwn,
       OverrideHasTimer, Expiring, overrideVars, storeVars, observerVars
  <1> QED
    BY <1>1, <1>2, <1>3, <1>4, <1>5, <1>6, <1>7, <1>8, <1>9, <1>10, <1>11,
       <1>12, <1>13, <1>14 DEF Next

\* Every step leaves each timer its override.
LEMMA OwnStep ==
    ASSUME TypeOK, TimerInv, [Next]_vars PROVE ExpiryIsOwn'
  <1> USE FlagAssumption DEF Procs, Starts, None
  <1>1. ASSUME NEW p \in Setters, NEW k \in Keys, NEW v \in Values, setControlServerValue(p, k, v)
        PROVE  ExpiryIsOwn'
    BY SMTT(30), <1>1 DEF setControlServerValue, TypeOK, TimerInv, CallbackInv, KeyInv,
       ExpiryIsOwn, OverrideHasTimer, Expiring, overrideVars, storeVars,
       observerVars
  <1>2. ASSUME NEW p \in Setters, NEW k \in Keys, overrideFlag(p, k)
        PROVE  ExpiryIsOwn'
    BY <1>2 DEF overrideFlag, TypeOK, TimerInv, CallbackInv, KeyInv,
       ExpiryIsOwn, OverrideHasTimer, Expiring, overrideVars, storeVars,
       observerVars
  <1>3. ASSUME NEW p \in Setters, NEW S \in SUBSET Keys, NEW v \in Values, Update(p, S, v)
        PROVE  ExpiryIsOwn'
    BY <1>3 DEF Update, StaleKeys, TypeOK, TimerInv, CallbackInv, KeyInv,
       ExpiryIsOwn, OverrideHasTimer, Expiring, overrideVars, storeVars,
       observerVars
  <1>4. ASSUME NEW p \in Setters, overrideLock(p)
        PROVE  ExpiryIsOwn'
    BY <1>4 DEF overrideLock, TypeOK, TimerInv, CallbackInv, KeyInv,
       ExpiryIsOwn, OverrideHasTimer, Expiring, overrideVars, storeVars,
       observerVars
  <1>5. ASSUME NEW p \in Setters, Start(p)
        PROVE  ExpiryIsOwn'
    BY <1>5 DEF Start, Started, TypeOK, TimerInv, CallbackInv, KeyInv,
       ExpiryIsOwn, OverrideHasTimer, Expiring, overrideVars, storeVars,
       observerVars
  <1>6. ASSUME NEW p \in Setters, StartDrains(p)
        PROVE  ExpiryIsOwn'
    BY <1>6 DEF StartDrains, TypeOK, TimerInv, CallbackInv, KeyInv,
       ExpiryIsOwn, OverrideHasTimer, Expiring, overrideVars, storeVars,
       observerVars
  <1>7. ASSUME NEW n \in Starts, TimerFires(n)
        PROVE  ExpiryIsOwn'
    BY <1>7 DEF TimerFires, TypeOK, TimerInv, CallbackInv, KeyInv,
       ExpiryIsOwn, OverrideHasTimer, Expiring, overrideVars, storeVars,
       observerVars
  <1>8. ASSUME NEW n \in Starts, overrideExpired(n)
        PROVE  ExpiryIsOwn'
    BY <1>8 DEF overrideExpired, TypeOK, TimerInv, CallbackInv, KeyInv,
       ExpiryIsOwn, OverrideHasTimer, Expiring, overrideVars, storeVars,
       observerVars
  <1>9. ASSUME NEW p \in Procs, notifyObservers(p)
        PROVE  ExpiryIsOwn'
    BY <1>9 DEF notifyObservers, TypeOK, TimerInv, CallbackInv, KeyInv,
       ExpiryIsOwn, OverrideHasTimer, Expiring, overrideVars, storeVars,
       observerVars
  <1>10. ASSUME NEW p \in Procs, NEW o \in Observers, FlagsChanged(p, o)
        PROVE  ExpiryIsOwn'
    BY <1>10 DEF FlagsChanged, Get, TypeOK, TimerInv, CallbackInv, KeyInv,
       ExpiryIsOwn, OverrideHasTimer, Expiring, overrideVars, storeVars,
       observerVars
  <1>11. ASSUME NEW p \in Procs, Notified(p)
        PROVE  ExpiryIsOwn'
    BY <1>11 DEF Notified, TypeOK, TimerInv, CallbackInv, KeyInv, ExpiryIsOwn,
       OverrideHasTimer, Expiring, overrideVars, storeVars, observerVars
  <1>12. ASSUME NEW o \in Observers, RegisterChangeObserver(o)
        PROVE  ExpiryIsOwn'
    BY <1>12 DEF RegisterChangeObserver, Get, TypeOK, TimerInv, CallbackInv,
       KeyInv, ExpiryIsOwn, OverrideHasTimer, Expiring, overrideVars,
       storeVars, observerVars
  <1>13. ASSUME NEW o \in Observers, DeregisterChangeObserver(o)
        PROVE  ExpiryIsOwn'
    BY <1>13 DEF DeregisterChangeObserver, TypeOK, TimerInv, CallbackInv,
       KeyInv, ExpiryIsOwn, OverrideHasTimer, Expiring, overrideVars,
       storeVars, observerVars
  <1>14. CASE UNCHANGED vars
    BY <1>14 DEF vars, TypeOK, TimerInv, CallbackInv, KeyInv, ExpiryIsOwn,
       OverrideHasTimer, Expiring, overrideVars, storeVars, observerVars
  <1> QED
    BY <1>1, <1>2, <1>3, <1>4, <1>5, <1>6, <1>7, <1>8, <1>9, <1>10, <1>11,
       <1>12, <1>13, <1>14 DEF Next

\* Every step leaves the observers up to date, or to be called.
LEMMA ObserverStep ==
    ASSUME TypeOK, TimerInv, ObserversSeeLatest, [Next]_vars PROVE ObserversSeeLatest'
  <1> USE FlagAssumption DEF Procs, Starts, None
  <1>1. ASSUME NEW p \in Setters, NEW k \in Keys, NEW v \in Values, setControlServerValue(p, k, v)
        PROVE  ObserversSeeLatest'
    BY ZenonT(30), <1>1 DEF setControlServerValue, TypeOK, TimerInv, LockInv, CallbackInv,
       KeyInv, ObserversSeeLatest, WillRead, Get, overrideVars, storeVars,
       observerVars
  <1>2. ASSUME NEW p \in Setters, NEW k \in Keys, overrideFlag(p, k)
        PROVE  ObserversSeeLatest'
    BY <1>2 DEF overrideFlag, TypeOK, TimerInv, LockInv, CallbackInv, KeyInv,
       ObserversSeeLatest, WillRead, Get, overrideVars, storeVars,
       observerVars
  <1>3. ASSUME NEW p \in Setters, NEW S \in SUBSET Keys, NEW v \in Values, Update(p, S, v)
        PROVE  ObserversSeeLatest'
    <2>1. PICK K \in SUBSET Keys :
             /\ keys' = [keys EXCEPT ![p] = K]
             /\ \A k \in Keys \ K : agentFlagsStore'[k] = agentFlagsStore[k]
      <3>1. StaleKeys(S) \subseteq Keys
        BY DEF StaleKeys
      <3>2. \A k \in Keys \ (S \cup StaleKeys(S)) : agentFlagsStore[k] = 0
        BY DEF StaleKeys
      <3> QED
        BY <1>3, <3>1, <3>2 DEF Update, TypeOK
    <2>2. pc[p] = "idle" /\ pc' = [pc EXCEPT ![p] = "notify"]
          /\ UNCHANGED <<overrides, observers, view, todo>>
      BY <1>3 DEF Update, overrideVars, observerVars
    <2>3. \A o \in Observers, k \in K : WillRead(p, o, k)'
      BY <2>1, <2>2 DEF TypeOK, WillRead
    <2>4. \A k \in Keys \ K : Get(k)' = Get(k)
      BY <2>1, <2>2 DEF Get
    <2>5. \A q \in Procs, o \in Observers, k \in Keys :
             WillRead(q, o, k) => WillRead(q, o, k)'
      BY <2>1, <2>2 DEF TypeOK, WillRead
    <2> QED
      BY <2>2, <2>3, <2>4, <2>5 DEF TypeOK, ObserversSeeLatest
  <1>4. ASSUME NEW p \in Setters, overrideLock(p)
        PROVE  ObserversSeeLatest'
    BY <1>4 DEF overrideLock, TypeOK, TimerInv, LockInv, CallbackInv, KeyInv,
       ObserversSeeLatest, WillRead, Get, overrideVars, storeVars,
       observerVars
  <1>5. ASSUME NEW p \in Setters, Start(p)
        PROVE  ObserversSeeLatest'
    <2>1. PICK k \in keys[p] : Started(p, k, starts + 1)
      BY <1>5 DEF Start
    <2>2. starts + 1 \in Starts /\ pc[starts + 1] = "idle" /\ pc[p] = "start"
      BY <1>5 DEF Start, TypeOK, TimerInv, CallbackInv
    <2>3. \A o \in Observers : WillRead(p, o, k)'
      BY <2>1, <2>2 DEF Started, TypeOK, WillRead
    <2>4. \A j \in Keys \ {k} : Get(j)' = Get(j)
      BY <2>1 DEF Started, TypeOK, Get, storeVars
    <2>5. \A q \in Procs, o \in Observers, j \in Keys :
             WillRead(q, o, j) => WillRead(q, o, j)'
      BY <2>1, <2>2 DEF Started, TypeOK, WillRead
    <2> QED
      BY <2>1, <2>3, <2>4, <2>5 DEF Started, TypeOK, ObserversSeeLatest,
                                    observerVars
  <1>6. ASSUME NEW p \in Setters, StartDrains(p)
        PROVE  ObserversSeeLatest'
    BY <1>6 DEF StartDrains, TypeOK, TimerInv, LockInv, CallbackInv, KeyInv,
       ObserversSeeLatest, WillRead, Get, overrideVars, storeVars,
       observerVars
  <1>7. ASSUME NEW n \in Starts, TimerFires(n)
        PROVE  ObserversSeeLatest'
    BY <1>7 DEF TimerFires, TypeOK, TimerInv, LockInv, CallbackInv, KeyInv,
       ObserversSeeLatest, WillRead, Get, overrideVars, storeVars,
       observerVars
  <1>8. ASSUME NEW n \in Starts, overrideExpired(n)
        PROVE  ObserversSeeLatest'
    BY <1>8 DEF overrideExpired, TypeOK, TimerInv, LockInv, CallbackInv,
       KeyInv, ObserversSeeLatest, WillRead, Get, overrideVars, storeVars,
       observerVars
  <1>9. ASSUME NEW p \in Procs, notifyObservers(p)
        PROVE  ObserversSeeLatest'
    BY <1>9 DEF notifyObservers, TypeOK, TimerInv, LockInv, CallbackInv,
       KeyInv, ObserversSeeLatest, WillRead, Get, overrideVars, storeVars,
       observerVars
  <1>10. ASSUME NEW p \in Procs, NEW o \in Observers, FlagsChanged(p, o)
        PROVE  ObserversSeeLatest'
    BY <1>10 DEF FlagsChanged, Get, TypeOK, TimerInv, LockInv, CallbackInv,
       KeyInv, ObserversSeeLatest, WillRead, Get, overrideVars, storeVars,
       observerVars
  <1>11. ASSUME NEW p \in Procs, Notified(p)
        PROVE  ObserversSeeLatest'
    BY <1>11 DEF Notified, TypeOK, TimerInv, LockInv, CallbackInv, KeyInv,
       ObserversSeeLatest, WillRead, Get, overrideVars, storeVars,
       observerVars
  <1>12. ASSUME NEW o \in Observers, RegisterChangeObserver(o)
        PROVE  ObserversSeeLatest'
    BY <1>12 DEF RegisterChangeObserver, Get, TypeOK, TimerInv, LockInv,
       CallbackInv, KeyInv, ObserversSeeLatest, WillRead, Get, overrideVars,
       storeVars, observerVars
  <1>13. ASSUME NEW o \in Observers, DeregisterChangeObserver(o)
        PROVE  ObserversSeeLatest'
    BY <1>13 DEF DeregisterChangeObserver, TypeOK, TimerInv, LockInv,
       CallbackInv, KeyInv, ObserversSeeLatest, WillRead, Get, overrideVars,
       storeVars, observerVars
  <1>14. CASE UNCHANGED vars
    BY <1>14 DEF vars, TypeOK, TimerInv, LockInv, CallbackInv, KeyInv,
       ObserversSeeLatest, WillRead, Get, overrideVars, storeVars,
       observerVars
  <1> QED
    BY <1>1, <1>2, <1>3, <1>4, <1>5, <1>6, <1>7, <1>8, <1>9, <1>10, <1>11,
       <1>12, <1>13, <1>14 DEF Next

\* Every step preserves the invariant.
LEMMA NextIInv == ASSUME IInv, [Next]_vars PROVE IInv'
  BY TypeStep, LockStep, CallbackStep, KeyStep, HasTimerStep, OwnStep,
     ObserverStep DEF IInv, TimerInv

\* For every set of keys, values, observers and setters and any number of
\* overrides, the controller's state keeps its types.
THEOREM FlagControllerTypes == Spec => []TypeOK
  <1>1. IInv => TypeOK
    BY DEF IInv
  <1> QED
    BY InitIInv, NextIInv, <1>1, PTL DEF Spec

\* For every set of keys, values, observers and setters and any number of
\* overrides: an override in force has its timer, a timer ends its own
\* override only, and observers have read the latest value or will be called.
THEOREM FlagControllerSafety == Spec => []FlagsConsistent
  <1>1. IInv => FlagsConsistent
    BY DEF IInv, TimerInv, FlagsConsistent
  <1> QED
    BY InitIInv, NextIInv, <1>1, PTL DEF Spec

-----------------------------------------------------------------------------
(* What reading a flag returns.                                             *)

FlagKinds == {"bool", "string", "duration", "int", "float"}

\* The values of a kind.
OfKind(kind, v) ==
  /\ kind \in {"duration", "int", "float"} => v \in Int
  /\ kind = "bool" => v \in BOOLEAN
  /\ kind = "string" => v \in Words

\* How a flag may be described: with bounds in order, and a sanitizer only for text.
Described(f) ==
  /\ f.kind \in FlagKinds
  /\ f.min \in Int /\ f.max \in Int /\ f.min <= f.max
  /\ f.allowed \in SUBSET Words
  /\ f.allowed # {} => f.kind = "string"
  /\ f.default = FromOptions \/ OfKind(f.kind, f.default)

\* A flag as its kind's constructor makes it is described that way.
LEMMA FlagDescribed ==
  ASSUME NEW k \in FlagKinds, NEW d, d = FromOptions \/ OfKind(k, d), NEW lo \in Int,
         NEW hi \in Int, lo <= hi
  PROVE  Described(Flag(k, d, lo, hi)) /\ Flag(k, d, lo, hi).kind = k
BY SMTT(30) DEF Flag, Described

\* The options a flag may be given keep it so; a sanitizer is one of words, for text.
LEMMA OptionsDescribed ==
  ASSUME NEW f, Described(f)
  PROVE  /\ Described(WithOverride(f)) /\ Described(CommandLineOnly(f))
         /\ \A al \in SUBSET Words : \A fb : f.kind = "string" => Described(WithSanitizer(f, al, fb))
BY SMT DEF Described, WithOverride, CommandLineOnly, WithSanitizer

\* A flag of each kind is described so, given a default of its kind and bounds in order.
LEMMA KindsDescribed ==
  /\ \A d : d = FromOptions \/ d \in BOOLEAN => Described(NewBoolFlagValue(d))
  /\ \A d : d = FromOptions \/ d \in Words
       => Described(NewStringFlagValue(d)) /\ NewStringFlagValue(d).kind = "string"
  /\ \A d, lo, hi : (d = FromOptions \/ d \in Int) /\ lo \in Int /\ hi \in Int /\ lo <= hi
       => /\ Described(NewDurationFlagValue(d, lo, hi))
          /\ Described(NewIntFlagValue(d, lo, hi))
          /\ Described(NewFloat64FlagValue(d, lo, hi))
<1>1. MinInt \in Int /\ MaxInt \in Int /\ MinInt <= MaxInt
  BY DEF MinInt, MaxInt
<1>2. ASSUME NEW d, d = FromOptions \/ d \in BOOLEAN
      PROVE  Described(NewBoolFlagValue(d))
  BY <1>1, <1>2, FlagDescribed DEF NewBoolFlagValue, OfKind, FlagKinds
<1>3. ASSUME NEW d, d = FromOptions \/ d \in Words
      PROVE  Described(NewStringFlagValue(d)) /\ NewStringFlagValue(d).kind = "string"
  BY <1>1, <1>3, FlagDescribed DEF NewStringFlagValue, OfKind, FlagKinds
<1>4. ASSUME NEW d, NEW lo, NEW hi,
             (d = FromOptions \/ d \in Int) /\ lo \in Int /\ hi \in Int /\ lo <= hi
      PROVE  /\ Described(NewDurationFlagValue(d, lo, hi))
             /\ Described(NewIntFlagValue(d, lo, hi))
             /\ Described(NewFloat64FlagValue(d, lo, hi))
  BY <1>4, FlagDescribed DEF NewDurationFlagValue, NewIntFlagValue, NewFloat64FlagValue, OfKind, FlagKinds
<1> QED
  BY <1>2, <1>3, <1>4

\* The words of the sanitizers are words.
LEMMA WordSets ==
  /\ "" \in Words /\ "info" \in Words
  /\ SanitizeUpdateChannel \in SUBSET Words /\ LauncherVersions \in SUBSET Words
  /\ OsquerydVersions \in SUBSET Words /\ ShippingLevels \in SUBSET Words
BY DEF Words, ShippingLevels

\* Every flag of ServerFlags is described so.
LEMMA ServerDescribed == \A n \in DOMAIN ServerFlags : Described(ServerFlags[n])
<1>2. /\ Described(NewStringFlagValue(FromOptions)) /\ NewStringFlagValue(FromOptions).kind = "string"
      /\ Described(NewBoolFlagValue(FromOptions))
  BY KindsDescribed, WordSets
<1>4. /\ Described(CommandLineOnly(NewStringFlagValue(FromOptions)))
  BY <1>2, OptionsDescribed
<1> QED
  BY <1>2, <1>4, SMTT(30) DEF ServerFlags

\* Every flag of PathFlags is described so.
LEMMA PathDescribed == \A n \in DOMAIN PathFlags : Described(PathFlags[n])
<1>2. /\ Described(NewStringFlagValue(FromOptions)) /\ NewStringFlagValue(FromOptions).kind = "string"
  BY KindsDescribed, WordSets
<1>4. /\ Described(CommandLineOnly(NewStringFlagValue(FromOptions)))
  BY <1>2, OptionsDescribed
<1> QED
  BY <1>2, <1>4, SMTT(30) DEF PathFlags

\* Every flag of RunnerFlags is described so.
LEMMA RunnerDescribed == \A n \in DOMAIN RunnerFlags : Described(RunnerFlags[n])
<1>1. /\ Described(NewDurationFlagValue(FromOptions, 5 * Second, 10 * Minute))
  BY KindsDescribed, SMTT(30) DEF Second, Minute, Hour
<1>2. /\ Described(NewStringFlagValue(FromOptions)) /\ NewStringFlagValue(FromOptions).kind = "string"
      /\ Described(NewBoolFlagValue(FromOptions))
  BY KindsDescribed, WordSets
<1>4. /\ Described(CommandLineOnly(NewStringFlagValue(FromOptions)))
      /\ Described(CommandLineOnly(NewBoolFlagValue(FromOptions)))
  BY <1>1, <1>2, OptionsDescribed
<1> QED
  BY <1>1, <1>2, <1>4, SMTT(30) DEF RunnerFlags

\* Every flag of DesktopFlags is described so.
LEMMA DesktopDescribed == \A n \in DOMAIN DesktopFlags : Described(DesktopFlags[n])
<1>1. /\ Described(NewDurationFlagValue(5 * Second, 5 * Second, 10 * Minute))
      /\ Described(NewDurationFlagValue(15 * Minute, 5 * Minute, 60 * Minute))
      /\ Described(NewIntFlagValue(2, 0, 16))
      /\ Described(NewIntFlagValue(8, 0, 32))
  BY KindsDescribed, SMTT(30) DEF Second, Minute, Hour
<1>2. /\ Described(NewBoolFlagValue(FALSE))
  BY KindsDescribed, WordSets
<1> DEFINE v1 == NewBoolFlagValue(FALSE)
           v2 == NewDurationFlagValue(5 * Second, 5 * Second, 10 * Minute)
           v3 == NewDurationFlagValue(15 * Minute, 5 * Minute, 60 * Minute)
           v4 == NewIntFlagValue(2, 0, 16)
           v5 == NewIntFlagValue(8, 0, 32)
<1>5. Described(v1) /\ Described(v2) /\ Described(v3) /\ Described(v4) /\ Described(v5)
  BY ZenonT(30), <1>1, <1>2
<1>6. DesktopFlags =
        [DesktopEnabled |-> v1, DesktopUpdateInterval |-> v2,
         DesktopMenuRefreshInterval |-> v3, DesktopGoMaxProcs |-> v4,
         LauncherGoMaxProcs |-> v5]
  BY DEF DesktopFlags
<1> HIDE DEF v1, v2, v3, v4, v5
<1> QED
  BY <1>5, <1>6, SMTT(30)

\* Every flag of ControlFlags is described so.
LEMMA ControlDescribed == \A n \in DOMAIN ControlFlags : Described(ControlFlags[n])
<1>1. /\ Described(NewDurationFlagValue(FromOptions, 5 * Second, 10 * Minute))
  BY KindsDescribed, SMTT(30) DEF Second, Minute, Hour
<1>2. /\ Described(NewBoolFlagValue(FALSE))
      /\ Described(NewStringFlagValue(FromOptions)) /\ NewStringFlagValue(FromOptions).kind = "string"
      /\ Described(NewBoolFlagValue(FromOptions))
  BY KindsDescribed, WordSets
<1>4. /\ Described(WithOverride(NewDurationFlagValue(FromOptions, 5 * Second, 10 * Minute)))
  BY <1>1, <1>2, OptionsDescribed
<1> DEFINE v1 == NewBoolFlagValue(FALSE)
           v2 == NewStringFlagValue(FromOptions)
           v3 == WithOverride(NewDurationFlagValue(FromOptions, 5 * Second, 10 * Minute))
           v4 == NewBoolFlagValue(FromOptions)
<1>5. Described(v1) /\ Described(v2) /\ Described(v3) /\ Described(v4)
  BY ZenonT(30), <1>1, <1>2, <1>4
<1>6. ControlFlags =
        [DebugServerData |-> v1, ForceControlSubsystems |-> v1,
         ControlServerURL |-> v2, ControlRequestInterval |-> v3,
         AllowOverlyBroadDt4aAcceleration |-> v1, DisableControlTLS |-> v4,
         InsecureControlTLS |-> v4, InsecureTLS |-> v4,
         InsecureTransportTLS |-> v4, IAmBreakingEELicense |-> v4]
  BY DEF ControlFlags
<1> HIDE DEF v1, v2, v3, v4
<1> QED
  BY <1>5, <1>6, SMTT(30)

\* Every flag of OsquerydFlags is described so.
LEMMA OsquerydDescribed == \A n \in DOMAIN OsquerydFlags : Described(OsquerydFlags[n])
<1>1. /\ Described(NewDurationFlagValue(1 * Minute, 5 * Second, 5 * Minute))
      /\ Described(NewIntFlagValue(FromOptions, 0, 600))
      /\ Described(NewIntFlagValue(FromOptions, 100, 10000))
      /\ Described(NewIntFlagValue(FromOptions, 5, 100))
  BY KindsDescribed, SMTT(30) DEF Second, Minute, Hour
<1>2. /\ Described(NewBoolFlagValue(FromOptions))
      /\ Described(NewStringFlagValue(FromOptions)) /\ NewStringFlagValue(FromOptions).kind = "string"
  BY KindsDescribed, WordSets
<1>4. /\ Described(WithOverride(NewDurationFlagValue(1 * Minute, 5 * Second, 5 * Minute)))
  BY <1>1, <1>2, OptionsDescribed
<1> QED
  BY <1>1, <1>2, <1>4, SMTT(30) DEF OsquerydFlags

\* Every flag of AutoupdateFlags is described so.
LEMMA AutoupdateDescribed == \A n \in DOMAIN AutoupdateFlags : Described(AutoupdateFlags[n])
<1>1. /\ Described(NewDurationFlagValue(FromOptions, 1 * Minute, 24 * Hour))
      /\ Described(NewDurationFlagValue(FromOptions, 5 * Second, 12 * Hour))
  BY KindsDescribed, SMTT(30) DEF Second, Minute, Hour
<1>2. /\ Described(NewStringFlagValue("")) /\ NewStringFlagValue("").kind = "string"
      /\ Described(NewBoolFlagValue(FromOptions))
      /\ Described(NewStringFlagValue(FromOptions)) /\ NewStringFlagValue(FromOptions).kind = "string"
  BY KindsDescribed, WordSets
<1>3. /\ Described(WithSanitizer(NewStringFlagValue(FromOptions), SanitizeUpdateChannel, "stable"))
      /\ Described(WithSanitizer(NewStringFlagValue(""), LauncherVersions, ""))
      /\ Described(WithSanitizer(NewStringFlagValue(""), OsquerydVersions, ""))
  BY ZenonT(30), <1>2, OptionsDescribed, WordSets
<1>4. /\ Described(WithOverride(NewDurationFlagValue(FromOptions, 1 * Minute, 24 * Hour)))
      /\ Described(WithOverride(NewDurationFlagValue(FromOptions, 5 * Second, 12 * Hour)))
      /\ Described(WithOverride(WithSanitizer(NewStringFlagValue(""), LauncherVersions, "")))
      /\ Described(WithOverride(WithSanitizer(NewStringFlagValue(""), OsquerydVersions, "")))
  BY ZenonT(30), <1>1, <1>2, <1>3, OptionsDescribed
<1> DEFINE v1 == NewStringFlagValue("")
           v2 == NewBoolFlagValue(FromOptions)
           v3 == NewStringFlagValue(FromOptions)
           v4 == WithOverride(NewDurationFlagValue(FromOptions, 1 * Minute, 24 * Hour))
           v5 == WithSanitizer(NewStringFlagValue(FromOptions), SanitizeUpdateChannel, "stable")
           v6 == WithOverride(NewDurationFlagValue(FromOptions, 5 * Second, 12 * Hour))
           v7 == WithOverride(WithSanitizer(NewStringFlagValue(""), LauncherVersions, ""))
           v8 == WithOverride(WithSanitizer(NewStringFlagValue(""), OsquerydVersions, ""))
<1>5. Described(v1) /\ Described(v2) /\ Described(v3) /\ Described(v4) /\ Described(v5) /\ Described(v6) /\ Described(v7) /\ Described(v8)
  BY ZenonT(30), <1>1, <1>2, <1>3, <1>4
<1>6. AutoupdateFlags =
        [CurrentRunningOsqueryVersion |-> v1, AutoupdateEnabled |-> v2,
         TufServerURL |-> v3, MirrorServerURL |-> v3, AutoupdateInterval |-> v4,
         UpdateChannel |-> v5, AutoupdateInitialDelay |-> v6,
         UpdateDirectory |-> v3, PinnedLauncherVersion |-> v7,
         PinnedOsquerydVersion |-> v8]
  BY SMTT(30) DEF AutoupdateFlags
<1> HIDE DEF v1, v2, v3, v4, v5, v6, v7, v8
<1> QED
  BY <1>5, <1>6, SMTT(30)

\* Every flag of ObservabilityFlags is described so.
LEMMA ObservabilityDescribed == \A n \in DOMAIN ObservabilityFlags : Described(ObservabilityFlags[n])
<1>1. /\ Described(NewFloat64FlagValue(FromOptions, 0, 100))
      /\ Described(NewDurationFlagValue(1 * Minute, 5 * Second, 1 * Hour))
      /\ Described(NewDurationFlagValue(FromOptions, 0, 1 * Hour))
  BY KindsDescribed, SMTT(30) DEF Second, Minute, Hour
<1>2. /\ Described(NewBoolFlagValue(FromOptions))
      /\ Described(NewBoolFlagValue(FALSE))
      /\ Described(NewStringFlagValue(FromOptions)) /\ NewStringFlagValue(FromOptions).kind = "string"
      /\ Described(NewStringFlagValue("info")) /\ NewStringFlagValue("info").kind = "string"
  BY KindsDescribed, WordSets
<1>3. /\ Described(WithSanitizer(NewStringFlagValue("info"), ShippingLevels, "info"))
  BY ZenonT(30), <1>2, OptionsDescribed, WordSets
<1>4. /\ Described(WithOverride(NewBoolFlagValue(FromOptions)))
      /\ Described(WithOverride(NewFloat64FlagValue(FromOptions, 0, 100)))
      /\ Described(WithOverride(WithSanitizer(NewStringFlagValue("info"), ShippingLevels, "info")))
      /\ Described(CommandLineOnly(NewStringFlagValue(FromOptions)))
  BY SMTT(30), <1>1, <1>2, <1>3, OptionsDescribed
<1> DEFINE v1 == WithOverride(NewBoolFlagValue(FromOptions))
           v2 == NewBoolFlagValue(FALSE)
           v3 == WithOverride(NewFloat64FlagValue(FromOptions, 0, 100))
           v4 == NewDurationFlagValue(1 * Minute, 5 * Second, 1 * Hour)
           v5 == NewStringFlagValue(FromOptions)
           v6 == WithOverride(WithSanitizer(NewStringFlagValue("info"), ShippingLevels, "info"))
           v7 == NewBoolFlagValue(FromOptions)
           v8 == NewDurationFlagValue(FromOptions, 0, 1 * Hour)
           v9 == CommandLineOnly(NewStringFlagValue(FromOptions))
<1>5. Described(v1) /\ Described(v2) /\ Described(v3) /\ Described(v4) /\ Described(v5) /\ Described(v6) /\ Described(v7) /\ Described(v8) /\ Described(v9)
  BY ZenonT(30), <1>1, <1>2, <1>3, <1>4
<1>6. ObservabilityFlags =
        [ExportTraces |-> v1, LauncherWatchdogDisabled |-> v2,
         SystrayRestartEnabled |-> v2, TraceSamplingRate |-> v3,
         TraceBatchTimeout |-> v4, LogIngestServerURL |-> v5,
         LogShippingLevel |-> v6, TraceIngestServerURL |-> v5,
         DisableTraceIngestTLS |-> v7, InModernStandby |-> v2,
         OsqueryHealthcheckStartupDelay |-> v8, LocalDevelopmentPath |-> v9]
  BY ZenonT(30) DEF ObservabilityFlags
<1> HIDE DEF v1, v2, v3, v4, v5, v6, v7, v8, v9
<1> QED
  BY <1>5, <1>6, SMTT(30)

\* Every flag of TableFlags is described so.
LEMMA TableDescribed == \A n \in DOMAIN TableFlags : Described(TableFlags[n])
<1>1. /\ Described(NewDurationFlagValue(4 * Minute, 30 * Second, 10 * Minute))
      /\ Described(NewDurationFlagValue(6 * Hour, 90 * Minute, 72 * Hour))
      /\ Described(NewDurationFlagValue(FromOptions, 0, 72 * Hour))
      /\ Described(NewDurationFlagValue(0, 0, 24 * Hour))
      /\ Described(NewIntFlagValue(FromOptions, 0, 100))
  BY KindsDescribed, SMTT(30) DEF Second, Minute, Hour
<1>2. /\ Described(NewBoolFlagValue(FALSE))
      /\ Described(NewStringFlagValue(FromOptions)) /\ NewStringFlagValue(FromOptions).kind = "string"
  BY KindsDescribed, WordSets
<1> DEFINE v1 == NewDurationFlagValue(4 * Minute, 30 * Second, 10 * Minute)
           v2 == NewBoolFlagValue(FALSE)
           v3 == NewDurationFlagValue(6 * Hour, 90 * Minute, 72 * Hour)
           v4 == NewDurationFlagValue(FromOptions, 0, 72 * Hour)
           v5 == NewDurationFlagValue(0, 0, 24 * Hour)
           v6 == NewStringFlagValue(FromOptions)
           v7 == NewIntFlagValue(FromOptions, 0, 100)
<1>5. Described(v1) /\ Described(v2) /\ Described(v3) /\ Described(v4) /\ Described(v5) /\ Described(v6) /\ Described(v7)
  BY ZenonT(30), <1>1, <1>2
<1>6. TableFlags =
        [TableGenerateTimeout |-> v1, UseCachedDataForScheduledQueries |-> v2,
         CachedQueryResultsTTL |-> v3, ResetOnHardwareChangeEnabled |-> v2,
         AutoupdateDownloadSplay |-> v4, PerformanceMonitoringEnabled |-> v2,
         DuplicateLogWindow |-> v5, OsqueryPublisherURL |-> v6,
         OsqueryPublisherPercentEnabled |-> v7]
  BY DEF TableFlags
<1> HIDE DEF v1, v2, v3, v4, v5, v6, v7
<1> QED
  BY <1>5, <1>6, SMTT(30)

-----------------------------------------------------------------------------
(* Texts.                                                                  *)

\* The inputs of a flag are of its kind.
LEMMA InputsOfKind ==
  ASSUME NEW f, Described(f), NEW v \in Inputs(f)
  PROVE  OfKind(f.kind, v)
<1>1. CASE Numeric(f)
  <2>1. v \in Int
    BY <1>1 DEF Inputs, Described
  <2> QED
    BY <1>1, <2>1 DEF OfKind, Numeric
<1>2. CASE ~Numeric(f) /\ f.kind = "bool"
  BY <1>2 DEF Inputs, OfKind, Numeric
<1>3. CASE ~Numeric(f) /\ f.kind = "string"
  <2>1. v \in Words
    BY ZenonT(30), <1>3 DEF Inputs, Described, Words
  <2> QED
    BY <1>3, <2>1 DEF OfKind
<1> QED
  BY <1>1, <1>2, <1>3 DEF Described, FlagKinds, Numeric

\* What a value is stored as is a text, and is parsed back to the value.
LEMMA ReadBack ==
  ASSUME NEW f, Described(f), NEW v, OfKind(f.kind, v), NEW default
  PROVE  ToBytes(f, v) \in Texts /\ parse(f, ToBytes(f, v), default) = v
<1>1. CASE f.kind = "bool"
  <2>1. v \in BOOLEAN
    BY <1>1 DEF OfKind
  <2>2. boolToBytes(v) \in Texts /\ bytesToBool(boolToBytes(v)) = v
    <3>0. Word("enabled") \in Texts /\ Word("") \in Texts /\ Word("enabled") # Word("")
      <4>1. Word("enabled").word = "enabled" /\ Word("").word = ""
        BY DEF Word
      <4>2. Word("enabled") \in Texts /\ Word("") \in Texts
        BY DEF Texts, Word, Words
      <4>3. "enabled" # ""
        OBVIOUS
      <4> QED
        BY <4>1, <4>2, <4>3, Zenon
    <3>1. CASE v
      <4>1. boolToBytes(v) = Word("enabled")
        BY <3>1, Zenon DEF boolToBytes
      <4>2. bytesToBool(boolToBytes(v)) <=> TRUE
        BY <4>1, Zenon DEF bytesToBool
      <4> QED
        BY <2>1, <3>0, <3>1, <4>1, <4>2, Zenon
    <3>2. CASE ~v
      <4>1. boolToBytes(v) = Word("")
        BY <3>2, Zenon DEF boolToBytes
      <4>2. bytesToBool(boolToBytes(v)) <=> FALSE
        BY <4>1, <3>0, Zenon DEF bytesToBool
      <4>3. v = FALSE
        BY <2>1, <3>2
      <4>4. bytesToBool(boolToBytes(v)) = FALSE
        BY ZenonT(30), <4>2, <4>1, <3>0 DEF bytesToBool
      <4> QED
        BY <3>0, <4>1, <4>3, <4>4, Zenon
    <3> QED
      BY <3>1, <3>2
  <2> QED
    BY <1>1, <2>2 DEF ToBytes, parse
<1>2. CASE f.kind = "duration"
  <2>1. v \in Int
    BY <1>2 DEF OfKind
  <2>2. durationToBytes(v) \in Texts /\ parseDuration(durationToBytes(v), default) = v
    BY SMTT(30), <2>1 DEF durationToBytes, parseDuration, Texts, Text, Words
  <2> QED
    BY <1>2, <2>2 DEF ToBytes, parse
<1>3. CASE f.kind = "int"
  <2>1. v \in Int
    BY <1>3 DEF OfKind
  <2>2. intToBytes(v) \in Texts /\ parseInt(intToBytes(v), default) = v
    BY SMTT(30), <2>1 DEF intToBytes, parseInt, Texts, Text, Words
  <2> QED
    BY <1>3, <2>2 DEF ToBytes, parse
<1>4. CASE f.kind = "float"
  <2>1. v \in Int
    BY <1>4 DEF OfKind
  <2>2. v % 100 \in Int /\ v \div 100 \in Int /\ v = 100 * (v \div 100) + (v % 100)
    BY <2>1
  <2>3. float64ToBytes(v) \in Texts /\ parseFloat(float64ToBytes(v), default) = v
    <3>1. CASE v % 100 = 0
      BY SMTT(30), <2>1, <2>2, <3>1 DEF float64ToBytes, parseFloat, Texts, Text, Words
    <3>2. CASE v % 100 # 0
      BY SMTT(30), <2>1, <3>2 DEF float64ToBytes, parseFloat, Texts, Text, Words
    <3> QED
      BY SMTT(30), <3>1, <3>2
  <2> QED
    BY <1>4, <2>3 DEF ToBytes, parse
<1>5. CASE f.kind = "string"
  <2>1. v \in Words
    BY <1>5 DEF OfKind
  <2>2. Word(v) \in Texts /\ Word(v).word = v
    BY SMTT(30), <2>1 DEF Word, Texts
  <2> QED
    BY <1>5, <2>2 DEF ToBytes, parse
<1> QED
  BY SMTT(30), <1>1, <1>2, <1>3, <1>4, <1>5 DEF Described, FlagKinds

\* Parsing any text gives a value of the kind.
LEMMA ParseOfKind ==
  ASSUME NEW f, Described(f), NEW t \in Texts, NEW default, OfKind(f.kind, default)
  PROVE  OfKind(f.kind, parse(f, t, default))
<1>1. t.n \in Int /\ t.word \in Words
  BY SMTT(30) DEF Texts
<1>2. CASE f.kind = "bool"
  BY SMTT(30), <1>2 DEF parse, OfKind, bytesToBool
<1>3. CASE f.kind \in {"duration", "int", "float"}
  <2>1. default \in Int
    BY <1>3 DEF OfKind
  <2>2. /\ parseDuration(t, default) \in Int /\ parseInt(t, default) \in Int
        /\ parseFloat(t, default) \in Int
    BY SMTT(30), <1>1, <2>1 DEF parseDuration, parseInt, parseFloat
  <2> QED
    BY <1>3, <2>2 DEF parse, OfKind
<1>4. CASE f.kind = "string"
  BY SMTT(30), <1>1, <1>4 DEF parse, OfKind
<1> QED
  BY <1>2, <1>3, <1>4 DEF Described, FlagKinds

\* Every text the control server may send is a text.
LEMMA ServerTextsAreTexts ==
  ASSUME NEW f, Described(f), NEW t \in ServerTexts(f)
  PROVE  t \in Texts
<1>1. \A v \in Inputs(f) : ToBytes(f, v) \in Texts
  BY SMTT(30), InputsOfKind, ReadBack
<1>2. Word("") \in Texts /\ Word("enabled") \in Texts
  BY DEF Word, Texts, Words
<1>3. f.max \in Int
  BY DEF Described
<1>4. \A n \in Int : \A form \in {"unit", "decimal", "plain"} : Text(form, n) \in Texts
  BY DEF Text, Texts, Words
<1>5. /\ Text("unit", f.max) \in Texts /\ Text("decimal", 50) \in Texts
      /\ Text("plain", 0) \in Texts
  BY SMTT(30), <1>3, <1>4
<1> QED
  BY <1>1, <1>2, <1>5 DEF ServerTexts

-----------------------------------------------------------------------------
(* The invariant.                                                          *)

\* What is stored is a text, what overrides is a value of the flag's kind, and as long
\* as nobody else stored a text, the stored one is that of the value last set.
FlagInv ==
  /\ Described(flag.f)
  /\ OfKind(flag.f.kind, flag.opts)
  /\ flag.stored = Nothing \/ flag.stored \in Texts
  /\ flag.override = Nothing \/ OfKind(flag.f.kind, flag.override)
  /\ flag.wrote = Nothing \/ ( /\ OfKind(flag.f.kind, flag.wrote)
                              /\ flag.stored = ToBytes(flag.f, flag.wrote) )

\* Every flag of flag_controller.go starts with the invariant.
LEMMA FlagInitInv == FlagInit => FlagInv
<1> SUFFICES ASSUME FlagInit PROVE FlagInv
  OBVIOUS
<1>1. PICK i \in DOMAIN Flags : \E name \in DOMAIN Flags[i] :
        \E v \in (IF Flags[i][name].default = FromOptions THEN Inputs(Flags[i][name])
                                                          ELSE {Flags[i][name].default}) :
          flag = [f |-> Flags[i][name], opts |-> v, stored |-> Nothing, override |-> Nothing,
                  wrote |-> Nothing, steps |-> 0]
  BY ZenonT(30) DEF FlagInit
<1>2. PICK name \in DOMAIN Flags[i] :
        \E v \in (IF Flags[i][name].default = FromOptions THEN Inputs(Flags[i][name])
                                                          ELSE {Flags[i][name].default}) :
          flag = [f |-> Flags[i][name], opts |-> v, stored |-> Nothing, override |-> Nothing,
                  wrote |-> Nothing, steps |-> 0]
  BY SMTT(30), <1>1
<1>3. Described(Flags[i][name])
  <2>1. \/ Flags[i] = ServerFlags \/ Flags[i] = PathFlags \/ Flags[i] = RunnerFlags
        \/ Flags[i] = DesktopFlags \/ Flags[i] = ControlFlags \/ Flags[i] = OsquerydFlags
        \/ Flags[i] = AutoupdateFlags \/ Flags[i] = ObservabilityFlags \/ Flags[i] = TableFlags
    BY SMTT(30) DEF Flags
  <2> QED
    BY <2>1, ServerDescribed, PathDescribed, RunnerDescribed, DesktopDescribed,
       ControlDescribed, OsquerydDescribed, AutoupdateDescribed, ObservabilityDescribed,
       TableDescribed, Zenon
<1> DEFINE f == Flags[i][name]
<1> HIDE DEF f
<1>4. PICK v \in (IF f.default = FromOptions THEN Inputs(f) ELSE {f.default}) :
        flag = [f |-> f, opts |-> v, stored |-> Nothing, override |-> Nothing,
                wrote |-> Nothing, steps |-> 0]
  BY <1>2 DEF f
<1>5. Described(f)
  BY SMTT(30), <1>3 DEF f
<1>6. OfKind(f.kind, v)
  BY <1>4, <1>5, InputsOfKind DEF Described
<1> QED
  BY <1>4, <1>5, <1>6 DEF FlagInv

\* Setters, updates and overrides preserve it.
LEMMA FlagNextInv == FlagInv /\ [FlagNext]_flag => FlagInv'
<1> SUFFICES ASSUME FlagInv, [FlagNext]_flag PROVE FlagInv'
  BY SMTT(30)
<1>0. ASSUME NEW stored, NEW override, NEW wrote, FlagStep(stored, override, wrote)
      PROVE  /\ flag'.f = flag.f /\ flag'.opts = flag.opts /\ flag'.stored = stored
             /\ flag'.override = override /\ flag'.wrote = wrote
  BY SMTT(30), <1>0 DEF FlagStep
<1>1. ASSUME NEW v \in Inputs(flag.f), setStoredValue(v) PROVE FlagInv'
  <2>1. OfKind(flag.f.kind, v) /\ ToBytes(flag.f, v) \in Texts
    BY InputsOfKind, ReadBack DEF FlagInv
  <2>2. FlagStep(ToBytes(flag.f, v), flag.override, v)
    BY SMTT(30), <1>1 DEF setStoredValue
  <2> QED
    BY SMTT(30), <1>0, <2>1, <2>2 DEF FlagInv
<1>2. ASSUME NEW v \in Inputs(flag.f), overrideValue(v) PROVE FlagInv'
  <2>1. OfKind(flag.f.kind, v)
    BY InputsOfKind DEF FlagInv
  <2>2. FlagStep(flag.stored, v, flag.wrote)
    BY SMTT(30), <1>2 DEF overrideValue
  <2> QED
    BY SMTT(30), <1>0, <2>1, <2>2 DEF FlagInv
<1>3. ASSUME NEW t \in ServerTexts(flag.f) \cup {Nothing}, UpdateFlags(t) PROVE FlagInv'
  <2>1. t = Nothing \/ t \in Texts
    BY ServerTextsAreTexts DEF FlagInv
  <2>2. FlagStep(t, flag.override, Nothing)
    BY SMTT(30), <1>3 DEF UpdateFlags
  <2> QED
    BY SMTT(30), <1>0, <2>1, <2>2 DEF FlagInv
<1>4. CASE overrideEnds
  <2>1. FlagStep(flag.stored, Nothing, flag.wrote)
    BY SMTT(30), <1>4 DEF overrideEnds
  <2> QED
    BY <1>0, <2>1 DEF FlagInv
<1>5. CASE UNCHANGED flag
  BY SMTT(30), <1>5 DEF FlagInv
<1> QED
  BY <1>1, <1>2, <1>3, <1>4, <1>5 DEF FlagNext

\* The invariant is enough: every value that is brought into bounds is one of its kind.
LEMMA FlagInvReads == FlagInv => FlagReadsWhatWasSet
<1> SUFFICES ASSUME FlagInv PROVE FlagReadsWhatWasSet
  BY SMTT(30)
<1> DEFINE f == flag.f
           read == IF flag.override # Nothing THEN flag.override
                   ELSE IF flag.stored # Nothing THEN parse(f, flag.stored, flag.opts)
                   ELSE flag.opts
<1>1. Described(f) /\ FlagValue = Bring(f, read)
  BY SMTT(30) DEF FlagInv, FlagValue, get
<1>2. OfKind(f.kind, read)
  BY ParseOfKind DEF FlagInv
<1>3. flag.override # Nothing => read = flag.override
  BY SMTT(30)
<1>4. flag.override = Nothing /\ flag.wrote # Nothing => read = flag.wrote
  BY ReadBack, NothingAssumption DEF FlagInv
<1>5. f = flag.f
  BY SMTT(30)
<1> HIDE DEF f, read
<1>6. Numeric(f) => Bring(f, read) >= f.min /\ Bring(f, read) <= f.max
  <2> SUFFICES ASSUME Numeric(f) PROVE Bring(f, read) >= f.min /\ Bring(f, read) <= f.max
    OBVIOUS
  <2>1. read \in Int /\ f.min \in Int /\ f.max \in Int /\ f.min <= f.max
    BY SMTT(30), <1>1, <1>2 DEF Described, OfKind, Numeric
  <2> QED
    BY <2>1 DEF Bring, clampValue
<1>7. f.allowed # {} => Bring(f, read) \in f.allowed \cup {f.fallback}
  BY <1>1 DEF Described, Bring, Numeric
<1> QED
  BY <1>1, <1>3, <1>4, <1>5, <1>6, <1>7 DEF FlagReadsWhatWasSet

(***************************************************************************)
(* A flag is always read within its bounds, or as a value its sanitizer      *)
(* admits; an override in force is what is read; and a value that was set    *)
(* comes back from its text: for all the flags of flag_controller.go, and    *)
(* however often they are set, updated and overridden.                       *)
(***************************************************************************)
THEOREM FlagValuesRead == FlagSpec => []FlagReadsWhatWasSet
<1>1. FlagSpec => []FlagInv
  BY FlagInitInv, FlagNextInv, PTL DEF FlagSpec
<1> QED
  BY <1>1, FlagInvReads, PTL

=============================================================================
