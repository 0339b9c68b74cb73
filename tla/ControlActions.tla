--------------------------- MODULE ControlActions ---------------------------
(***************************************************************************)
(* The control service with the action queue as the consumer of its        *)
(* actions subsystem (cmd/launcher/launcher.go, lines 516-552): Fetch asks *)
(* for the list of actions, the queue performs them one by one while Fetch *)
(* waits, and the hash of the list is remembered if all went well.  One    *)
(* action is force_full_control_data_fetch, performed by the service.      *)
(***************************************************************************)
EXTENDS ControlService, Sequences

CONSTANTS
    Ids,            \* IDs of actions
    Actors,         \* the actions that are well formed and have an actor
    FullFetch,      \* the action that asks for a full fetch
    ActionsOf,      \* the list of actions with a given hash
    MaxUnrecorded, MaxUnreadable, MaxExpired

ASSUME ActionsAssumption ==
    /\ Actors \subseteq Ids /\ FullFetch \in Actors
    /\ ActionsOf \in [Hashes -> Seq(Ids)]
    /\ {MaxUnrecorded, MaxUnreadable, MaxExpired} \subseteq Nat

VARIABLES records, expired, busy, queue, acted, failed, cleaning, deleting, runs,
          unrecorded, dropped

queueVars == <<records, expired, busy, queue, acted, failed, cleaning, deleting, runs,
               unrecorded, dropped>>

AQ == INSTANCE ActionQueue

allVars == <<vars, queueVars>>

AllInit == Init /\ AQ!Init

-----------------------------------------------------------------------------

\* GetSubsystemData has succeeded: the consumer's Update is called.
BeginActions(g) ==
    /\ pc[g] = "update" /\ fetch[g].cur = Actions
    /\ AQ!Update(ActionsOf[fetch[g].map[Actions]])
    /\ UNCHANGED vars

\* Mutant of DoAction: a nested Fetch, whose return frees the caller's lock.
DoActionFetches(g, a) ==
    /\ AQ!DoSucceeds(a)
    /\ g = fetchMutex
    /\ fetchMutex' = IF a = FullFetch THEN NoOne ELSE fetchMutex
    /\ UNCHANGED <<dataVars, pc, fetch, flagVars, events>>

\* An action is performed; one of them by the service itself.
DoAction(g, a) ==
    /\ AQ!DoSucceeds(a)
    /\ g = fetchMutex
    /\ IF a = FullFetch THEN Do(g) ELSE UNCHANGED vars

\* The consumer's Update returns to fetchAndUpdate.
EndActions(g) ==
    /\ AQ!UpdateReturns
    /\ g = fetchMutex
    /\ IF failed THEN UpdateFails(g) ELSE Update(g)

\* A step of the queue that the service does not see.
QueueStep ==
    /\ \E a \in Ids : \/ AQ!Skip(a) \/ AQ!Unreadable(a) \/ AQ!DoFails(a)
                      \/ AQ!storeActionRecord(a) \/ AQ!storeFails(a)
    /\ UNCHANGED vars

Cleanup == (AQ!CleanupScan \/ AQ!CleanupDelete) /\ UNCHANGED vars

Time == (\E a \in Ids : AQ!Expire(a) \/ AQ!Age(a)) /\ UNCHANGED vars

\* The steps of Fetch that do not call the queue.  While the queue is busy its
\* caller waits for it.
FetchAlone(g) ==
    /\ ~(busy /\ g = fetchMutex)
    /\ \/ FetchSkipped(g) \/ FetchBegins(g) \/ ConfigFails(g) \/ GetConfig(g)
       \/ \E s \in Subsystems : SkipFresh(g, s) \/ FetchAndUpdate(g, s)
       \/ UpdateFails(g)
       \/ fetch[g].cur # Actions /\ Update(g)
       \/ Remember(g) \/ FetchDone(g)
    /\ UNCHANGED queueVars

RestartAll == Restart /\ AQ!Restart

AllNext ==
    \/ \E g \in Goroutines :
          \/ FetchAlone(g) \/ BeginActions(g) \/ EndActions(g)
          \/ \E a \in Ids : DoAction(g, a)
    \/ QueueStep \/ Cleanup \/ Time
    \/ /\ \/ \E s \in Subsystems : Publish(s)
          \/ Execute \/ Tick \/ StartReturns \/ Stop
          \/ \E c \in Callers : FlagsChanged(c)
       /\ UNCHANGED queueVars
    \/ RestartAll

AllSpec == AllInit /\ [][AllNext]_allVars

\* The steps a goroutine takes by itself.
Running(g) ==
    \/ FetchAlone(g) \/ BeginActions(g) \/ EndActions(g)
    \/ \E a \in Ids : DoAction(g, a)
    \/ g = fetchMutex /\ QueueStep
    \/ /\ \/ g = Start /\ (Execute \/ Tick \/ StartReturns)
          \/ g \in Callers /\ (\/ RequestIntervalChanged(g) \/ StoreInterval(g)
                              \/ StandbyChanged(g))
       /\ UNCHANGED queueVars

(***************************************************************************)
(* No goroutine stops for ever where it can go on; the server answers and  *)
(* an action succeeds in the end if it is tried for ever.                  *)
(***************************************************************************)
AllFairness ==
    /\ \A g \in Goroutines : WF_allVars(Running(g))
    /\ SF_allVars(GetConfig(Start) /\ UNCHANGED queueVars)
    /\ SF_allVars(BeginActions(Start))
    /\ \A a \in Actors : SF_allVars(DoAction(Start, a))

AllFairSpec == AllSpec /\ AllFairness

-----------------------------------------------------------------------------

ListOf(h) == {ActionsOf[h][i] : i \in DOMAIN ActionsOf[h]}

(***************************************************************************)
(* The composition is a control service: the queue changes nothing the     *)
(* service relies on, whatever the actions do in the middle of a Fetch.    *)
(***************************************************************************)
ImplementsControlService == Spec

(***************************************************************************)
(* When the hash of a list is remembered, in memory or in the store, each  *)
(* action of the list has been performed, or has expired, has no actor, or *)
(* was passed over as its record could not be read: a list of which one    *)
(* action failed is fetched again (control.go, lines 366-374, and          *)
(* actionqueue.go, line 137).                                              *)
(***************************************************************************)
RememberedListIsDone ==
    \A h \in {lastFetched[Actions], stored[Actions]} \ {NoHash} :
        \A a \in ListOf(h) :
            runs[a] > 0 \/ a \in expired \/ a \notin Actors \/ a \in dropped

(***************************************************************************)
(* An action is performed once for each time its record did not last: it   *)
(* could not be stored, launcher died before, or the retention period was  *)
(* over.  Neither a full fetch, nor a retry of a list of which another     *)
(* action failed, nor a restart performs it again.                         *)
(***************************************************************************)
PerformedOnce == \A a \in Ids : runs[a] <= 1 + unrecorded[a]

(***************************************************************************)
(* The cleanup deletes no record within its retention period, although it  *)
(* reads the store and deletes the keys in two steps and Update stores     *)
(* records in between (actionqueue.go, lines 286-305).                     *)
(***************************************************************************)
FreshRecordsStay ==
    [][\A a \in Ids : records[a] = "fresh" => records'[a] # "none"]_allVars

(***************************************************************************)
(* An action on the server is performed in the end, unless it expires, the *)
(* server withdraws it, its record could not be read, the device sleeps or *)
(* the service is stopped: failures and restarts only delay it.            *)
(***************************************************************************)
ActionsArePerformed ==
    \A a \in Actors :
        a \in ListOf(server[Actions]) ~>
            \/ runs[a] > 0 \/ a \in expired \/ a \in dropped
            \/ a \notin ListOf(server[Actions]) \/ standby \/ stopped

=============================================================================
