--------------------------- MODULE ControlService ---------------------------
(***************************************************************************)
(* The control service (ee/control/control.go).  The server (K2) holds one *)
(* value per subsystem and hands out a map from subsystems to the hashes   *)
(* of their values.  Fetch compares the map with the hashes it remembers,  *)
(* in memory and in a store that survives a restart, and passes what is    *)
(* new to the subsystem's consumer.                                        *)
(*                                                                         *)
(* Fetch is called by the loop of Start, and by FlagsChanged in the        *)
(* goroutine that changes a flag: the request interval or modern standby.  *)
(* A value and its hash are one number; values of a subsystem are numbered *)
(* in the order in which the server first publishes them.                  *)
(***************************************************************************)
EXTENDS Integers, FiniteSets

CONSTANTS
    Subsystems,     \* the registered subsystems
    Actions,        \* the one whose consumer is the action queue
    Callers,        \* goroutines that change flags and call FlagsChanged
    Intervals,      \* values of the control request interval
    DefaultInterval,
    Revert,         \* whether the server may publish an old value again
    MaxHash,        \* bound: values per subsystem
    MaxPublishes,   \* bound: changes on the server
    MaxCrashes,     \* bound: restarts of launcher
    MaxFull,        \* bound: force_full_control_data_fetch actions
    MaxChanges      \* bound: changes of flags

ASSUME ControlAssumption ==
    /\ Actions \in Subsystems
    /\ "Start" \notin Callers /\ "NoOne" \notin Callers
    /\ DefaultInterval \in Intervals
    /\ Revert \in BOOLEAN
    /\ {MaxHash, MaxPublishes, MaxCrashes, MaxFull, MaxChanges} \subseteq Nat
    /\ MaxHash > 0

Start == "Start"
NoOne == "NoOne"
Goroutines == Callers \cup {Start}

Hashes == 1..MaxHash
NoHash == 0

VARIABLES
    server,       \* the value of each subsystem on the server
    applied,      \* the value its consumer has last been given (it stores it)
    stored,       \* cs.store: hash of each subsystem, or NoHash
    lastFetched,  \* cs.lastFetched, the same in memory
    fetchFull,    \* cs.fetchFull: the next Fetch takes every subsystem
    fetchMutex,   \* the goroutine inside Fetch, or NoOne
    pc,           \* where each goroutine is
    fetch,        \* locals of its Fetch: map, todo, full, current subsystem
    change,       \* locals of its FlagsChanged: newInterval, wake
    standby,      \* knapsack.InModernStandby
    flag,         \* knapsack.ControlRequestInterval
    requestInterval,
    ticking,      \* requestTicker has not been stopped
    cancel,       \* cs.cancel: nil, set or called
    stopped,      \* Stop has been called
    events        \* how often each bounded event has happened

vars == <<server, applied, stored, lastFetched, fetchFull, fetchMutex, pc,
          fetch, change, standby, flag, requestInterval, ticking, cancel,
          stopped, events>>

\* What Fetch and the consumers change, and the rest.
dataVars == <<server, applied, stored, lastFetched, fetchFull>>
flagVars == <<change, standby, flag, requestInterval, ticking, cancel, stopped>>

NoFetch == [map |-> [s \in Subsystems |-> NoHash], todo |-> {}, full |-> FALSE,
            cur |-> Actions]

Count(e) == events' = [events EXCEPT ![e] = @ + 1]

Goto(g, from, to) == pc[g] = from /\ pc' = [pc EXCEPT ![g] = to]

Init ==
    /\ server = [s \in Subsystems |-> 1]
    /\ applied = [s \in Subsystems |-> NoHash]
    /\ stored = [s \in Subsystems |-> NoHash]
    /\ lastFetched = [s \in Subsystems |-> NoHash]
    /\ fetchFull = FALSE
    /\ fetchMutex = NoOne
    /\ pc = [g \in Goroutines |-> "idle"]
    /\ fetch = [g \in Goroutines |-> NoFetch]
    /\ flag = DefaultInterval
    /\ requestInterval = flag
    /\ change = [c \in Callers |-> [newInterval |-> flag, wake |-> FALSE]]
    /\ standby = FALSE
    /\ ticking = TRUE
    /\ cancel = "nil"
    /\ stopped = FALSE
    /\ events = [publish |-> 0, crash |-> 0, full |-> 0, change |-> 0]

-----------------------------------------------------------------------------
(* The server. *)

\* The server has a new value for a subsystem, or an old one again.
Publish(s) ==
    /\ events.publish < MaxPublishes
    /\ \E h \in Hashes \ {server[s]} :
          /\ Revert \/ h > server[s]
          /\ server' = [server EXCEPT ![s] = h]
    /\ Count("publish")
    /\ UNCHANGED <<applied, stored, lastFetched, fetchFull, fetchMutex, pc,
                   fetch, flagVars>>

-----------------------------------------------------------------------------
(* Fetch. *)

\* Where a goroutine goes on after its Fetch: Start waits for a tick; a
\* caller stores its interval, or has dealt with the end of modern standby.
After(g) == IF g = Start THEN "wait" ELSE IF change[g].wake THEN "idle" ELSE "store"

\* In modern standby, or while another Fetch is running, Fetch returns.
FetchSkipped(g) ==
    /\ standby \/ fetchMutex # NoOne
    /\ Goto(g, "fetch", After(g))
    /\ UNCHANGED <<dataVars, fetchMutex, fetch, flagVars, events>>

\* Mutant of FetchBegins: does not try the lock.
FetchBeginsUnlocked(g) ==
    /\ ~standby
    /\ fetchMutex' = g
    /\ Goto(g, "fetch", "config")
    /\ UNCHANGED <<dataVars, fetch, flagVars, events>>

FetchBegins(g) ==
    /\ ~standby /\ fetchMutex = NoOne
    /\ fetchMutex' = g
    /\ Goto(g, "fetch", "config")
    /\ UNCHANGED <<dataVars, fetch, flagVars, events>>

\* Fetch returns and releases the lock.
FetchReturns(g) ==
    /\ fetchMutex' = NoOne
    /\ fetch' = [fetch EXCEPT ![g] = NoFetch]

\* Mutant of ConfigFails: the early return does not release the lock.
ConfigFailsLocked(g) ==
    /\ Goto(g, "config", After(g))
    /\ UNCHANGED <<dataVars, fetchMutex, fetch, flagVars, events>>

\* GetConfig fails, or its answer cannot be decoded.
ConfigFails(g) ==
    /\ Goto(g, "config", After(g))
    /\ FetchReturns(g)
    /\ UNCHANGED <<dataVars, flagVars, events>>

\* The server's map, and the request for a full fetch, which is taken down.
GetConfig(g) ==
    /\ Goto(g, "config", "loop")
    /\ fetch' = [fetch EXCEPT ![g] = [map |-> server, todo |-> Subsystems,
                                      full |-> fetchFull, cur |-> Actions]]
    /\ fetchFull' = FALSE
    /\ UNCHANGED <<server, applied, stored, lastFetched, fetchMutex, flagVars,
                   events>>

\* The hash Fetch compares with: in memory, else in the store.
LastHash(s) == IF lastFetched[s] # NoHash THEN lastFetched[s] ELSE stored[s]

\* A read of the store may fail, which is taken for "no last hash".
MayNeedFetch(g, s) ==
    \/ fetch[g].map[s] # LastHash(s)
    \/ fetch[g].full
    \/ lastFetched[s] = NoHash

\* The last fetched update is still fresh.
SkipFresh(g, s) ==
    /\ pc[g] = "loop" /\ s \in fetch[g].todo
    /\ fetch[g].map[s] = LastHash(s) /\ ~fetch[g].full
    /\ fetch' = [fetch EXCEPT ![g].todo = @ \ {s}]
    /\ UNCHANGED <<dataVars, fetchMutex, pc, flagVars, events>>

\* fetchAndUpdate of a subsystem whose hash is new.
FetchAndUpdate(g, s) ==
    /\ s \in fetch[g].todo
    /\ MayNeedFetch(g, s)
    /\ Goto(g, "loop", "update")
    /\ fetch' = [fetch EXCEPT ![g].cur = s]
    /\ UNCHANGED <<dataVars, fetchMutex, flagVars, events>>

\* Do, an action: the action queue calls it in the middle of this Fetch.
Do(g) ==
    /\ events.full < MaxFull
    /\ pc[g] = "update" /\ fetch[g].cur = Actions
    /\ fetchFull' = TRUE
    /\ Count("full")
    /\ UNCHANGED <<server, applied, stored, lastFetched, fetchMutex, pc, fetch, flagVars>>

\* Mutant of UpdateFails: the hash is stored all the same.
UpdateFailsStores(g) ==
    LET s == fetch[g].cur IN
    /\ Goto(g, "update", "loop")
    /\ fetch' = [fetch EXCEPT ![g].todo = @ \ {s}]
    /\ stored' = [stored EXCEPT ![s] = fetch[g].map[s]]
    /\ UNCHANGED <<server, applied, lastFetched, fetchFull, fetchMutex, flagVars,
                   events>>

\* GetSubsystemData or the consumer's Update fails: nothing is remembered.
UpdateFails(g) ==
    /\ Goto(g, "update", "loop")
    /\ fetch' = [fetch EXCEPT ![g].todo = @ \ {fetch[g].cur}]
    /\ UNCHANGED <<dataVars, fetchMutex, flagVars, events>>

\* The consumer has taken the data and the subscribers have been pinged.
Update(g) ==
    /\ Goto(g, "update", "remember")
    /\ applied' = [applied EXCEPT ![fetch[g].cur] = fetch[g].map[fetch[g].cur]]
    /\ UNCHANGED <<server, stored, lastFetched, fetchFull, fetchMutex, fetch, flagVars,
                   events>>

\* Mutant of Remember: the map in memory is keyed by the wrong hash.
RememberServer(g) ==
    LET s == fetch[g].cur IN
    /\ Goto(g, "remember", "loop")
    /\ lastFetched' = [lastFetched EXCEPT ![s] = server[s]]
    /\ stored' = [stored EXCEPT ![s] = server[s]]
    /\ fetch' = [fetch EXCEPT ![g].todo = @ \ {s}]
    /\ UNCHANGED <<server, applied, fetchFull, fetchMutex, flagVars, events>>

\* The hash is remembered in memory, and in the store unless that fails.
Remember(g) ==
    LET s == fetch[g].cur IN
    /\ Goto(g, "remember", "loop")
    /\ lastFetched' = [lastFetched EXCEPT ![s] = fetch[g].map[s]]
    /\ stored' \in {stored, [stored EXCEPT ![s] = fetch[g].map[s]]}
    /\ fetch' = [fetch EXCEPT ![g].todo = @ \ {s}]
    /\ UNCHANGED <<server, applied, fetchFull, fetchMutex, flagVars, events>>

\* Mutant of FetchDone: takes the request for a full fetch down at the end.
FetchDoneResets(g) ==
    /\ fetch[g].todo = {}
    /\ Goto(g, "loop", After(g))
    /\ FetchReturns(g)
    /\ fetchFull' = FALSE
    /\ UNCHANGED <<server, applied, stored, lastFetched, flagVars, events>>

FetchDone(g) ==
    /\ fetch[g].todo = {}
    /\ Goto(g, "loop", After(g))
    /\ FetchReturns(g)
    /\ UNCHANGED <<dataVars, flagVars, events>>

Fetch(g) ==
    \/ FetchSkipped(g) \/ FetchBegins(g)
    \/ ConfigFails(g) \/ GetConfig(g)
    \/ \E s \in Subsystems : SkipFresh(g, s) \/ FetchAndUpdate(g, s)
    \/ Do(g) \/ UpdateFails(g) \/ Update(g) \/ Remember(g) \/ FetchDone(g)

-----------------------------------------------------------------------------
(* The loop of Start, its beginning and its end. *)

\* ExecuteWithContext sets cs.cancel and calls Start.
Execute ==
    /\ Goto(Start, "idle", "fetch")
    /\ cancel' = IF cancel = "nil" THEN "set" ELSE cancel
    /\ UNCHANGED <<dataVars, fetchMutex, fetch, change, standby, flag,
                   requestInterval, ticking, stopped, events>>

Tick ==
    /\ ticking
    /\ Goto(Start, "wait", "fetch")
    /\ UNCHANGED <<dataVars, fetchMutex, fetch, flagVars, events>>

StartReturns ==
    /\ cancel = "called"
    /\ Goto(Start, "wait", "returned")
    /\ UNCHANGED <<dataVars, fetchMutex, fetch, flagVars, events>>

\* Stop, in the goroutine of Interrupt.
Stop ==
    /\ ~stopped
    /\ stopped' = TRUE
    /\ ticking' = FALSE
    /\ cancel' = IF cancel = "set" THEN "called" ELSE cancel
    /\ UNCHANGED <<dataVars, fetchMutex, pc, fetch, change, standby, flag,
                   requestInterval, events>>

-----------------------------------------------------------------------------
(* FlagsChanged, called by whoever changes a flag. *)

SetInterval(c) ==
    /\ events.change < MaxChanges
    /\ Goto(c, "idle", "interval")
    /\ \E i \in Intervals \ {flag} : flag' = i
    /\ change' = [change EXCEPT ![c].wake = FALSE]
    /\ Count("change")
    /\ UNCHANGED <<dataVars, fetchMutex, fetch, standby, requestInterval,
                   ticking, cancel, stopped>>

SetInModernStandby(c) ==
    /\ events.change < MaxChanges
    /\ Goto(c, "idle", "wake")
    /\ standby' = ~standby
    /\ change' = [change EXCEPT ![c].wake = TRUE]
    /\ Count("change")
    /\ UNCHANGED <<dataVars, fetchMutex, fetch, flag, requestInterval, ticking,
                   cancel, stopped>>

\* requestIntervalChanged: nothing to do, or a Fetch first.
RequestIntervalChanged(c) ==
    /\ Goto(c, "interval", IF flag = requestInterval THEN "idle" ELSE "fetch")
    /\ change' = [change EXCEPT ![c].newInterval = flag]
    /\ UNCHANGED <<dataVars, fetchMutex, fetch, standby, flag, requestInterval,
                   ticking, cancel, stopped, events>>

\* Then the new interval is stored and the ticker restarted.
StoreInterval(c) ==
    /\ Goto(c, "store", "idle")
    /\ requestInterval' = change[c].newInterval
    /\ ticking' = TRUE
    /\ UNCHANGED <<dataVars, fetchMutex, fetch, change, standby, flag, cancel,
                   stopped, events>>

\* Modern standby has changed: on its end, Fetch.
StandbyChanged(c) ==
    /\ Goto(c, "wake", IF standby THEN "idle" ELSE "fetch")
    /\ UNCHANGED <<dataVars, fetchMutex, fetch, flagVars, events>>

FlagsChanged(c) ==
    \/ SetInterval(c) \/ RequestIntervalChanged(c) \/ StoreInterval(c)
    \/ SetInModernStandby(c) \/ StandbyChanged(c)

-----------------------------------------------------------------------------

\* Launcher dies at any point and is started again: what is in memory goes.
Restart ==
    /\ events.crash < MaxCrashes
    /\ lastFetched' = [s \in Subsystems |-> NoHash]
    /\ fetchFull' = FALSE
    /\ fetchMutex' = NoOne
    /\ pc' = [g \in Goroutines |-> "idle"]
    /\ fetch' = [g \in Goroutines |-> NoFetch]
    /\ change' = [c \in Callers |-> [newInterval |-> flag, wake |-> FALSE]]
    /\ requestInterval' = flag
    /\ ticking' = TRUE
    /\ cancel' = "nil"
    /\ stopped' = FALSE
    /\ Count("crash")
    /\ UNCHANGED <<server, applied, stored, standby, flag>>

Next ==
    \/ \E s \in Subsystems : Publish(s)
    \/ \E g \in Goroutines : Fetch(g)
    \/ Execute \/ Tick \/ StartReturns \/ Stop
    \/ \E c \in Callers : FlagsChanged(c)
    \/ Restart

Spec == Init /\ [][Next]_vars

(***************************************************************************)
(* A goroutine that can go on does: calls to the server and the consumers  *)
(* return (they have timeouts), the ticker ticks.  Of the environment it   *)
(* is assumed that requests tried for ever succeed in the end.             *)
(***************************************************************************)
Fairness ==
    /\ WF_vars(Execute \/ Tick \/ StartReturns \/ Fetch(Start))
    /\ SF_vars(GetConfig(Start))
    /\ \A s \in Subsystems : SF_vars(Update(Start) /\ fetch[Start].cur = s)
    /\ \A c \in Callers : WF_vars(\/ RequestIntervalChanged(c) \/ StoreInterval(c)
                                  \/ StandbyChanged(c) \/ Fetch(c))

FairSpec == Spec /\ Fairness

-----------------------------------------------------------------------------

TypeOK ==
    /\ server \in [Subsystems -> Hashes]
    /\ applied \in [Subsystems -> Hashes \cup {NoHash}]
    /\ stored \in [Subsystems -> Hashes \cup {NoHash}]
    /\ lastFetched \in [Subsystems -> Hashes \cup {NoHash}]
    /\ fetchFull \in BOOLEAN
    /\ fetchMutex \in Goroutines \cup {NoOne}
    /\ pc \in [Goroutines -> {"idle", "interval", "wake", "fetch", "config",
                              "loop", "update", "remember", "store", "wait",
                              "returned"}]
    /\ fetch \in [Goroutines -> [map : [Subsystems -> Hashes \cup {NoHash}],
                                 todo : SUBSET Subsystems, full : BOOLEAN,
                                 cur : Subsystems]]
    /\ change \in [Callers -> [newInterval : Intervals, wake : BOOLEAN]]
    /\ standby \in BOOLEAN
    /\ flag \in Intervals /\ requestInterval \in Intervals
    /\ ticking \in BOOLEAN
    /\ cancel \in {"nil", "set", "called"}
    /\ stopped \in BOOLEAN
    /\ events \in [publish : 0..MaxPublishes, crash : 0..MaxCrashes,
                   full : 0..MaxFull, change : 0..MaxChanges]

(***************************************************************************)
(* The hash remembered in memory is the hash of what the consumer was last *)
(* given, except between the consumer's Update and the assignment to       *)
(* lastFetched: fetchAndUpdate (lines 366-377) never takes a subsystem for *)
(* fresh that is not.                                                      *)
(***************************************************************************)
RememberedIsApplied ==
    \A s \in Subsystems :
        \/ lastFetched[s] \in {NoHash, applied[s]}
        \/ \E g \in Goroutines : pc[g] = "remember" /\ fetch[g].cur = s

(***************************************************************************)
(* A consumer is never given an older value than it has: no Fetch with a   *)
(* map from before can overtake another one (the TryLock of Fetch, line    *)
(* 283), and a restart only repeats the latest.                            *)
(***************************************************************************)
NeverBackwards == [][\A s \in Subsystems : applied'[s] >= applied[s]]_vars

(***************************************************************************)
(* "The last fetched update is still fresh" (line 333): a subsystem that   *)
(* Fetch skips has been given the value in the map, also when the hash is  *)
(* that of the store and launcher was restarted between an Update and the  *)
(* store of its hash, or the store failed.  (Only as long as the server    *)
(* does not go back to an earlier value, see Revert.)                      *)
(***************************************************************************)
SkippedIsApplied ==
    [][\A g \in Goroutines, s \in Subsystems :
           SkipFresh(g, s) => applied[s] = fetch[g].map[s]]_vars

(***************************************************************************)
(* As long as the service is not stopped and the device is awake, every    *)
(* consumer gets the server's value again and again: failing requests,     *)
(* failing stores and restarts only delay it.                              *)
(***************************************************************************)
Converges ==
    \A s \in Subsystems : []<>(applied[s] = server[s] \/ standby \/ stopped)

(***************************************************************************)
(* A full fetch asked for by an action, in the middle of a Fetch, is done  *)
(* by a later one (lines 307-315 and 457-467), unless launcher restarts.   *)
(***************************************************************************)
FullFetchHonoured ==
    \A n \in 0..MaxCrashes :
        (fetchFull /\ events.crash = n) ~>
            \/ \E g \in Goroutines : fetch[g].full
            \/ events.crash # n \/ standby \/ stopped

(***************************************************************************)
(* Violated by the code.  "ControlRequestInterval is the interval at which *)
(* control client will check for updates from the control server": after   *)
(* the flag's last change the ticker comes to run at the flag's interval.  *)
(***************************************************************************)
IntervalFollowsFlag == []<>(requestInterval = flag \/ stopped)

=============================================================================
