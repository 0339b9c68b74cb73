---------------------------- MODULE ControlProofs ----------------------------
(***************************************************************************)
(* The control service and the action queue, for every set of subsystems,  *)
(* callers and actions and all bounds.                                     *)
(*                                                                         *)
(* The service: the hash in memory is that of what the consumer has; and   *)
(* as long as the server does not publish an old value again, no consumer  *)
(* is given an older value than it has, and what Fetch skips has been      *)
(* applied.  With the queue as a consumer: it is still a control service,  *)
(* no action is performed more often than its records were lost, and the   *)
(* list whose hash is remembered has been dealt with.                      *)
(***************************************************************************)
EXTENDS ControlActions, TLAPS

Values == [Subsystems -> Nat]

Places == {"idle", "interval", "wake", "fetch", "config", "loop", "update", "remember",
           "store", "wait", "returned"}

Shapes ==
    /\ server \in Values /\ applied \in Values
    /\ stored \in Values /\ lastFetched \in Values
    /\ pc \in [Goroutines -> Places]
    /\ fetch \in [Goroutines -> [map : Values, todo : SUBSET Subsystems,
                                 full : BOOLEAN, cur : Subsystems]]

\* A goroutine past the TryLock of Fetch holds the lock.
Exclusion ==
    \A g \in Goroutines : pc[g] \in {"config", "loop", "update", "remember"} => fetchMutex = g

\* The server does not go back to an earlier value.
Forward == ~Revert

\* The store lags behind the consumer, the consumer behind the server.
Behind ==
    Forward => \A s \in Subsystems :
        stored[s] <= applied[s] /\ applied[s] <= server[s]

\* The map of a Fetch is at least as new as what the consumers have.
MapIsNew ==
    Forward => \A g \in Goroutines : pc[g] \in {"loop", "update", "remember"} =>
        \A s \in Subsystems :
            applied[s] <= fetch[g].map[s] /\ fetch[g].map[s] <= server[s]

\* Between Update and Remember the consumer has the value of the map.
Given ==
    \A g \in Goroutines : pc[g] = "remember" =>
        applied[fetch[g].cur] = fetch[g].map[fetch[g].cur]

IInv == Shapes /\ Exclusion /\ Behind /\ MapIsNew /\ Given /\ RememberedIsApplied

\* The steps that neither move the data nor enter or leave the locked part.
LEMMA Frame ==
    ASSUME IInv, UNCHANGED <<server, applied, stored, lastFetched, fetch>>,
           pc' \in [Goroutines -> Places],
           \A g \in Goroutines :
               pc'[g] \in {"config", "loop", "update", "remember"} => fetchMutex' = g,
           \A g \in Goroutines :
               pc'[g] \in {"loop", "update", "remember"} => pc'[g] = pc[g],
           \A g \in Goroutines : pc[g] = "remember" => pc'[g] = "remember"
    PROVE  IInv'
  BY DEF IInv, Places, Shapes, Exclusion, Behind, MapIsNew, Given, RememberedIsApplied


\* New starts with nothing fetched (lines 64-87).
LEMMA InitIInv == Init => IInv
  BY ControlAssumption
  DEF Init, IInv, Places, Shapes, Values, NoFetch, NoHash, Exclusion, Behind, MapIsNew, Given,
      RememberedIsApplied

\* A new value on the server is newer than the maps in use.
LEMMA PublishIInv ==
    ASSUME IInv, NEW s \in Subsystems, Publish(s)
    PROVE  IInv'
  BY DEF Forward, Publish, Hashes, flagVars, IInv, Shapes, Values, Exclusion, Behind,
         MapIsNew, Given, RememberedIsApplied

\* Every step of Fetch (lines 266-394) keeps the invariant.
LEMMA FetchIInv ==
    ASSUME IInv, fetchFull \in BOOLEAN, NEW g \in Goroutines, Fetch(g)
    PROVE  IInv'
<1> USE DEF dataVars, flagVars
<1>1. g # NoOne
  BY ControlAssumption DEF Goroutines, Start, NoOne
<1>2. After(g) \in {"wait", "idle", "store"}
  BY DEF After
<1>3. CASE FetchSkipped(g)
  <2>1. pc[g] = "fetch" /\ pc' = [pc EXCEPT ![g] = After(g)]
    BY <1>3 DEF FetchSkipped, Goto
  <2>2. UNCHANGED <<server, applied, stored, lastFetched, fetch, fetchMutex>>
    BY <1>3 DEF FetchSkipped
  <2> QED
    BY <1>2, <2>1, <2>2, Frame DEF IInv, Places, Shapes, Exclusion
<1>4. CASE FetchBegins(g)
  <2>1. pc[g] = "fetch" /\ pc' = [pc EXCEPT ![g] = "config"]
    BY <1>4 DEF FetchBegins, Goto
  <2>2. UNCHANGED <<server, applied, stored, lastFetched, fetch>>
    BY <1>4 DEF FetchBegins
  <2>3. fetchMutex = NoOne /\ fetchMutex' = g
    BY <1>4 DEF FetchBegins
  <2>4. \A h \in Goroutines : pc[h] \notin {"config", "loop", "update", "remember"}
    BY <2>3, ControlAssumption DEF IInv, Exclusion, Goroutines, Start, NoOne
  <2> QED
    BY <2>1, <2>2, <2>3, <2>4, Frame DEF IInv, Places, Shapes
<1>5. CASE ConfigFails(g) \/ FetchDone(g)
  <2>1. pc[g] \in {"config", "loop"} /\ pc' = [pc EXCEPT ![g] = After(g)]
    BY <1>5 DEF ConfigFails, FetchDone, Goto
  <2>2. UNCHANGED <<server, applied, stored, lastFetched>>
    BY <1>5 DEF ConfigFails, FetchDone
  <2>3. fetch' = [fetch EXCEPT ![g] = NoFetch]
    BY <1>5 DEF ConfigFails, FetchDone, FetchReturns
  <2>4. \A h \in Goroutines \ {g} : pc[h] \notin {"config", "loop", "update", "remember"}
    BY <2>1 DEF IInv, Exclusion
  <2>5. \A h \in Goroutines : pc'[h] \notin {"config", "loop", "update", "remember"}
    BY <1>2, <2>1, <2>4 DEF IInv, Places, Shapes
  <2>6. Shapes'
    BY <1>2, <2>1, <2>2, <2>3, ControlAssumption
    DEF IInv, Places, Shapes, Values, NoFetch, NoHash
  <2> QED
    BY <2>1, <2>2, <2>4, <2>5, <2>6
    DEF IInv, Exclusion, Behind, MapIsNew, Given, RememberedIsApplied
<1>6. CASE GetConfig(g)
  <2>1. pc[g] = "config" /\ pc' = [pc EXCEPT ![g] = "loop"]
    BY <1>6 DEF GetConfig, Goto
  <2>2. UNCHANGED <<server, applied, stored, lastFetched, fetchMutex>>
    BY <1>6 DEF GetConfig
  <2>3. fetch' = [fetch EXCEPT ![g] = [map |-> server, todo |-> Subsystems,
                                       full |-> fetchFull, cur |-> Actions]]
    BY <1>6 DEF GetConfig
  <2>4. [map |-> server, todo |-> Subsystems, full |-> fetchFull, cur |-> Actions]
            \in [map : Values, todo : SUBSET Subsystems, full : BOOLEAN,
                 cur : Subsystems]
    BY ControlAssumption DEF IInv, Places, Shapes
  <2>5. Shapes'
    BY <2>1, <2>2, <2>3, <2>4 DEF IInv, Places, Shapes
  <2>6. /\ \A h \in Goroutines \ {g} : fetch'[h] = fetch[h]
        /\ fetch'[g].map = server
    BY <2>3 DEF IInv, Places, Shapes
  <2> QED
    BY <2>1, <2>2, <2>5, <2>6
    DEF IInv, Places, Shapes, Values, Exclusion, Behind, MapIsNew, Given, RememberedIsApplied
<1>7. ASSUME NEW s \in Subsystems, SkipFresh(g, s) \/ FetchAndUpdate(g, s)
      PROVE  IInv'
  <2>1. pc[g] = "loop" /\ pc' \in {pc, [pc EXCEPT ![g] = "update"]}
    BY <1>7 DEF SkipFresh, FetchAndUpdate, Goto
  <2>2. UNCHANGED <<server, applied, stored, lastFetched, fetchMutex>>
    BY <1>7 DEF SkipFresh, FetchAndUpdate
  <2>3. fetch' \in {[fetch EXCEPT ![g].todo = @ \ {s}], [fetch EXCEPT ![g].cur = s]}
    BY <1>7 DEF SkipFresh, FetchAndUpdate
  <2>4. \A h \in Goroutines \ {g} : pc[h] \notin {"config", "loop", "update", "remember"}
    BY <2>1 DEF IInv, Exclusion
  <2>5. fetch' \in [Goroutines -> [map : Values, todo : SUBSET Subsystems,
                                   full : BOOLEAN, cur : Subsystems]]
    BY <2>3 DEF IInv, Shapes
  <2>6. \A h \in Goroutines : fetch'[h].map = fetch[h].map
    BY <2>3 DEF IInv, Shapes
  <2>7. /\ pc' \in [Goroutines -> Places] /\ pc'[g] \in {"loop", "update"}
        /\ \A h \in Goroutines \ {g} : pc'[h] = pc[h]
    BY <2>1 DEF IInv, Shapes, Places
  <2>8. Shapes' /\ Exclusion'
    BY <2>1, <2>2, <2>5, <2>7 DEF IInv, Shapes, Exclusion
  <2> QED
    BY <2>1, <2>2, <2>4, <2>6, <2>7, <2>8
    DEF IInv, Behind, MapIsNew, Given, RememberedIsApplied
<1>8. CASE Do(g)
  BY <1>8 DEF Do, IInv, Shapes, Exclusion, Behind, MapIsNew, Given,
              RememberedIsApplied
<1>9. CASE UpdateFails(g)
  <2>1. pc[g] = "update" /\ pc' = [pc EXCEPT ![g] = "loop"]
    BY <1>9 DEF UpdateFails, Goto
  <2>2. UNCHANGED <<server, applied, stored, lastFetched, fetchMutex>>
    BY <1>9 DEF UpdateFails
  <2>3. fetch' = [fetch EXCEPT ![g].todo = @ \ {fetch[g].cur}]
    BY <1>9 DEF UpdateFails
  <2>4. \A h \in Goroutines \ {g} : pc[h] \notin {"config", "loop", "update", "remember"}
    BY <2>1 DEF IInv, Exclusion
  <2>5. fetch' \in [Goroutines -> [map : Values, todo : SUBSET Subsystems,
                                   full : BOOLEAN, cur : Subsystems]]
    BY <2>3 DEF IInv, Shapes
  <2>6. \A h \in Goroutines : fetch'[h].map = fetch[h].map
    BY <2>3 DEF IInv, Shapes
  <2> QED
    BY ZenonT(30), <2>1, <2>2, <2>4, <2>5, <2>6
    DEF IInv, Places, Shapes, Exclusion, Behind, MapIsNew, Given, RememberedIsApplied
<1>10. CASE Update(g)
  <2> DEFINE s == fetch[g].cur
  <2>1. pc[g] = "update" /\ pc' = [pc EXCEPT ![g] = "remember"]
    BY <1>10 DEF Update, Goto
  <2>2. UNCHANGED <<server, stored, lastFetched, fetchMutex, fetch>>
    BY <1>10 DEF Update
  <2>3. applied' = [applied EXCEPT ![s] = fetch[g].map[s]]
    BY <1>10 DEF Update
  <2>4. \A h \in Goroutines \ {g} : pc[h] \notin {"config", "loop", "update", "remember"}
    BY <2>1 DEF IInv, Exclusion
  <2>5. s \in Subsystems /\ fetch[g].map[s] \in Nat
    BY DEF IInv, Shapes, Values
  <2>6. Shapes' /\ Exclusion'
    BY <2>1, <2>2, <2>3, <2>5 DEF IInv, Places, Shapes, Values, Exclusion
  <2>7. Behind' /\ MapIsNew' /\ Given'
    BY <2>1, <2>2, <2>3, <2>4, <2>5
    DEF IInv, Places, Shapes, Values, Behind, MapIsNew, Given
  <2>8. RememberedIsApplied'
    BY <2>1, <2>2, <2>3, <2>4, <2>5
    DEF IInv, Places, Shapes, Values, RememberedIsApplied
  <2> QED
    BY <2>6, <2>7, <2>8 DEF IInv
<1>11. CASE Remember(g)
  <2> DEFINE s == fetch[g].cur
  <2>1. pc[g] = "remember" /\ pc' = [pc EXCEPT ![g] = "loop"]
    BY <1>11 DEF Remember, Goto
  <2>2. UNCHANGED <<server, applied, fetchMutex>>
    BY <1>11 DEF Remember
  <2>3. /\ lastFetched' = [lastFetched EXCEPT ![s] = fetch[g].map[s]]
        /\ stored' \in {stored, [stored EXCEPT ![s] = fetch[g].map[s]]}
        /\ fetch' = [fetch EXCEPT ![g].todo = @ \ {s}]
    BY <1>11 DEF Remember
  <2>4. \A h \in Goroutines \ {g} : pc[h] \notin {"config", "loop", "update", "remember"}
    BY <2>1 DEF IInv, Exclusion
  <2>5. s \in Subsystems /\ applied[s] = fetch[g].map[s] /\ fetch[g].map[s] \in Nat
    BY <2>1 DEF IInv, Shapes, Values, Given
  <2> HIDE DEF s
  <2>6. /\ stored' \in Values /\ lastFetched' \in Values
        /\ \A t \in Subsystems : stored'[t] \in {stored[t], applied[t]}
    BY <2>3, <2>5 DEF IInv, Shapes, Values
  <2>7. /\ \A h \in Goroutines : fetch'[h].map = fetch[h].map
        /\ fetch' \in [Goroutines -> [map : Values, todo : SUBSET Subsystems,
                                      full : BOOLEAN, cur : Subsystems]]
    BY <2>3 DEF IInv, Shapes
  <2>8. Shapes' /\ Exclusion'
    BY ZenonT(30), <2>1, <2>2, <2>6, <2>7 DEF IInv, Places, Shapes, Exclusion
  <2>9. Behind'
    BY <2>2, <2>6 DEF IInv, Shapes, Values, Behind
  <2>10. MapIsNew' /\ Given'
    BY <2>1, <2>2, <2>4, <2>7 DEF IInv, Places, Shapes, MapIsNew, Given
  <2>11. RememberedIsApplied'
    BY <2>1, <2>2, <2>3, <2>4, <2>5 DEF IInv, Places, Shapes, Values, RememberedIsApplied, s
  <2> QED
    BY <2>8, <2>9, <2>10, <2>11 DEF IInv
<1> QED
  BY <1>3, <1>4, <1>5, <1>6, <1>7, <1>8, <1>9, <1>10, <1>11 DEF Fetch

\* The step of a goroutine outside Fetch, to a place outside it.
LEMMA GotoIInv ==
    ASSUME IInv, NEW g \in Goroutines, NEW from \in Places, NEW to \in Places,
           Goto(g, from, to), {from, to} \cap {"config", "loop", "update", "remember"} = {},
           UNCHANGED <<server, applied, stored, lastFetched, fetch, fetchMutex>>
    PROVE  IInv'
<1>1. pc[g] = from /\ pc' = [pc EXCEPT ![g] = to]
  BY DEF Goto
<1>2. /\ pc' \in [Goroutines -> Places]
      /\ \A h \in Goroutines : pc'[h] = IF h = g THEN to ELSE pc[h]
  BY <1>1 DEF IInv, Shapes
<1> QED
  BY ZenonT(30), <1>1, <1>2, Frame DEF IInv, Exclusion

\* The loop of Start and Stop (lines 89-135 and 197-205).
LEMMA StartIInv ==
    ASSUME IInv, Execute \/ Tick \/ StartReturns \/ Stop
    PROVE  IInv'
<1> USE DEF dataVars, flagVars
<1>1. Start \in Goroutines
  BY DEF Goroutines
<1>2. CASE Execute
  BY <1>1, <1>2, GotoIInv DEF Execute, Places
<1>3. CASE Tick
  BY <1>1, <1>3, GotoIInv DEF Tick, Places
<1>4. CASE StartReturns
  BY <1>1, <1>4, GotoIInv DEF StartReturns, Places
<1>5. CASE Stop
  BY <1>5 DEF Stop, IInv, Shapes, Exclusion, Behind, MapIsNew, Given,
              RememberedIsApplied
<1> QED
  BY <1>2, <1>3, <1>4, <1>5

\* FlagsChanged and the callers that change the flags (lines 207-263).
LEMMA FlagsChangedIInv ==
    ASSUME IInv, NEW c \in Callers, FlagsChanged(c)
    PROVE  IInv'
<1> USE DEF dataVars, flagVars
<1>1. c \in Goroutines
  BY DEF Goroutines
<1>2. CASE SetInterval(c)
  BY <1>1, <1>2, GotoIInv DEF SetInterval, Places
<1>3. CASE SetInModernStandby(c)
  BY <1>1, <1>3, GotoIInv DEF SetInModernStandby, Places
<1>4. CASE RequestIntervalChanged(c)
  BY <1>1, <1>4, GotoIInv DEF RequestIntervalChanged, Places
<1>5. CASE StoreInterval(c)
  BY <1>1, <1>5, GotoIInv DEF StoreInterval, Places
<1>6. CASE StandbyChanged(c)
  BY <1>1, <1>6, GotoIInv DEF StandbyChanged, Places
<1> QED
  BY <1>2, <1>3, <1>4, <1>5, <1>6 DEF FlagsChanged

\* A restart forgets the hashes in memory and every running Fetch.
LEMMA RestartIInv ==
    ASSUME IInv, Restart
    PROVE  IInv'
<1>1. UNCHANGED <<server, applied, stored>>
  BY DEF Restart
<1>2. /\ lastFetched' = [s \in Subsystems |-> NoHash]
      /\ pc' = [g \in Goroutines |-> "idle"]
      /\ fetch' = [g \in Goroutines |-> NoFetch]
  BY DEF Restart
<1>3. Shapes'
  BY <1>1, <1>2, ControlAssumption DEF IInv, Places, Shapes, Values, NoFetch, NoHash
<1> QED
  BY <1>1, <1>2, <1>3
  DEF IInv, Exclusion, Behind, MapIsNew, Given, RememberedIsApplied

\* The request for a full fetch is set (Do) or taken down (Fetch).
LEMMA FetchFullType ==
    ASSUME fetchFull \in BOOLEAN, [Next]_vars
    PROVE  fetchFull' \in BOOLEAN
<1>1. fetchFull' = fetchFull \/ fetchFull' = TRUE \/ fetchFull' = FALSE
  BY Zenon DEF Next, vars, dataVars, Publish, Fetch, FetchSkipped, FetchBegins,
     ConfigFails, GetConfig, SkipFresh, FetchAndUpdate, Do, UpdateFails, Update, Remember, FetchDone,
     Execute, Tick, StartReturns, Stop, FlagsChanged, SetInterval, SetInModernStandby,
     RequestIntervalChanged, StoreInterval, StandbyChanged, Restart
<1> QED
  BY ZenonT(30), <1>1

\* Every step of the control service preserves the invariant.
LEMMA NextIInv ==
    ASSUME IInv, fetchFull \in BOOLEAN, [Next]_vars
    PROVE  IInv'
<1>1. CASE UNCHANGED vars
  BY <1>1 DEF vars, IInv, Shapes, Exclusion, Behind, MapIsNew, Given,
              RememberedIsApplied
<1>2. CASE Next
  BY <1>2, PublishIInv, FetchIInv, StartIInv, FlagsChangedIInv, RestartIInv DEF Next
<1> QED
  BY <1>1, <1>2

\* So the invariant holds throughout.
LEMMA SpecIInv == Spec => [](IInv /\ fetchFull \in BOOLEAN)
<1>1. Init => IInv /\ fetchFull \in BOOLEAN
  BY ZenonT(30), InitIInv DEF Init
<1>2. IInv /\ fetchFull \in BOOLEAN /\ [Next]_vars
          => (IInv /\ fetchFull \in BOOLEAN)'
  BY NextIInv, FetchFullType
<1> QED
  BY <1>1, <1>2, PTL DEF Spec

(***************************************************************************)
(* The hash fetchAndUpdate keeps in memory (line 377) is that of the value *)
(* the consumer was last given, whatever the server publishes and however  *)
(* many goroutines call Fetch.                                             *)
(***************************************************************************)
THEOREM ControlServiceMemory == Spec => []RememberedIsApplied
<1>1. IInv => RememberedIsApplied
  BY DEF IInv
<1> QED
  BY <1>1, SpecIInv, PTL

(***************************************************************************)
(* No consumer is given an older value than it has: the TryLock of Fetch   *)
(* (line 283) keeps an old map from overtaking a newer one, and the store  *)
(* only ever lags behind.                                                  *)
(***************************************************************************)
THEOREM ControlServiceForward == Forward => (Spec => NeverBackwards)
<1> SUFFICES ASSUME Forward PROVE Spec => NeverBackwards
  OBVIOUS
<1>1. ASSUME IInv, [Next]_vars
      PROVE  [\A s \in Subsystems : applied'[s] >= applied[s]]_vars
  <2>1. ASSUME NEW g \in Goroutines, Update(g)
        PROVE  \A s \in Subsystems : applied'[s] >= applied[s]
    <3> DEFINE t == fetch[g].cur
    <3>1. pc[g] = "update" /\ applied' = [applied EXCEPT ![t] = fetch[g].map[t]]
      BY <2>1 DEF Update, Goto
    <3>2. t \in Subsystems
      BY <1>1 DEF IInv, Shapes
    <3> HIDE DEF t
    <3> QED
      BY <1>1, <3>1, <3>2 DEF IInv, Shapes, Values, MapIsNew
  <2>2. ASSUME applied' = applied
        PROVE  \A s \in Subsystems : applied'[s] >= applied[s]
    BY <1>1, <2>2 DEF IInv, Shapes, Values
  <2>3. \/ applied' = applied
        \/ \E g \in Goroutines : Update(g)
    BY <1>1, Zenon DEF Next, vars, dataVars, Publish, Fetch, FetchSkipped, FetchBegins,
       ConfigFails, GetConfig, SkipFresh, FetchAndUpdate,
       Do, UpdateFails, Remember, FetchDone, Execute,
       Tick, StartReturns, Stop, FlagsChanged, SetInterval, SetInModernStandby,
       RequestIntervalChanged, StoreInterval, StandbyChanged, Restart
  <2> QED
    BY <2>1, <2>2, <2>3
<1> QED
  BY <1>1, SpecIInv, PTL DEF Spec, NeverBackwards

(***************************************************************************)
(* A subsystem Fetch skips as still fresh (lines 332-336) has been given   *)
(* the value in the map, also if the hash was read from the store after a  *)
(* restart that came between an Update and the store of its hash.          *)
(***************************************************************************)
THEOREM ControlServiceSkips == Forward => (Spec => SkippedIsApplied)
<1> SUFFICES ASSUME Forward PROVE Spec => SkippedIsApplied
  OBVIOUS
<1>1. ASSUME IInv, NEW g \in Goroutines, NEW s \in Subsystems,
             SkipFresh(g, s)
      PROVE  applied[s] = fetch[g].map[s]
  <2>1. pc[g] = "loop" /\ fetch[g].map[s] = LastHash(s)
    BY <1>1 DEF SkipFresh
  <2>2. lastFetched[s] \in {NoHash, applied[s]}
    BY <1>1, <2>1 DEF IInv, Exclusion, RememberedIsApplied
  <2>3. stored[s] <= applied[s] /\ applied[s] <= fetch[g].map[s]
    BY <1>1, <2>1 DEF IInv, Behind, MapIsNew
  <2>4. stored[s] \in Nat /\ applied[s] \in Nat /\ fetch[g].map[s] \in Nat
    BY <1>1 DEF IInv, Shapes, Values
  <2> QED
    BY <2>1, <2>2, <2>3, <2>4 DEF LastHash
<1>2. IInv /\ [Next]_vars =>
          [\A g \in Goroutines, s \in Subsystems :
               SkipFresh(g, s) => applied[s] = fetch[g].map[s]]_vars
  BY <1>1
<1> QED
  BY <1>2, SpecIInv, PTL DEF Spec, SkippedIsApplied

-----------------------------------------------------------------------------
(* The action queue. *)

(***************************************************************************)
(* A step of the composition is a step of the service, or leaves the       *)
(* service alone.                                                          *)
(***************************************************************************)
LEMMA StepSimulates ==
    ASSUME [AllNext]_allVars
    PROVE  [Next]_vars
<1>1. CASE UNCHANGED allVars
  BY <1>1 DEF allVars
<1>2. ASSUME NEW g \in Goroutines, FetchAlone(g)
      PROVE  Fetch(g)
  BY <1>2 DEF FetchAlone, Fetch
<1>3. ASSUME NEW g \in Goroutines, BeginActions(g)
      PROVE  UNCHANGED vars
  BY <1>3 DEF BeginActions
<1>4. ASSUME NEW g \in Goroutines, EndActions(g)
      PROVE  Fetch(g)
  BY <1>4 DEF EndActions, Fetch
<1>5. ASSUME NEW g \in Goroutines, NEW a \in Ids, DoAction(g, a)
      PROVE  Fetch(g) \/ UNCHANGED vars
  BY <1>5 DEF DoAction, Fetch
<1>6. CASE QueueStep \/ Cleanup \/ Time
  BY <1>6 DEF QueueStep, Cleanup, Time
<1>7. CASE RestartAll
  BY <1>7 DEF RestartAll, Next
<1> QED
  BY <1>1, <1>2, <1>3, <1>4, <1>5, <1>6, <1>7, Zenon DEF AllNext, Next

(***************************************************************************)
(* ControlActions implements ControlService: what the theorems about the   *)
(* service say holds with the action queue as its consumer.                *)
(***************************************************************************)
THEOREM ActionsImplementControlService == AllSpec => ImplementsControlService
<1>1. AllInit => Init
  BY DEF AllInit
<1> QED
  BY <1>1, StepSimulates, PTL DEF AllSpec, ImplementsControlService, Spec

-----------------------------------------------------------------------------

QShapes ==
    /\ records \in [Ids -> {"none", "fresh", "old"}]
    /\ runs \in [Ids -> Nat]
    /\ unrecorded \in [Ids -> Nat]
    /\ deleting \subseteq Ids

\* Each performance is recorded, about to be recorded or known to be lost.
Counted ==
    \A a \in Ids :
        runs[a] = unrecorded[a] + (IF records[a] # "none" THEN 1 ELSE 0)
                                + (IF acted /\ a = Head(queue) THEN 1 ELSE 0)

\* The action about to be recorded is new.
ActedIsNew ==
    acted => busy /\ queue # <<>> /\ Head(queue) \in Ids /\ records[Head(queue)] = "none"

\* The records about to be deleted are there, and old.
DeletingIsOld == \A a \in deleting : records[a] = "old"

QInv == QShapes /\ Counted /\ ActedIsNew /\ DeletingIsOld

\* Initially nothing was performed.
LEMMA InitQInv == AQ!Init => QInv
  BY DEF AQ!Init, QInv, QShapes, Counted, ActedIsNew, DeletingIsOld

\* Update and its steps (actionqueue.go, lines 99-147).
LEMMA UpdateQInv ==
    ASSUME QInv, NEW actions, AQ!Update(actions)
    PROVE  QInv'
  BY DEF AQ!Update, QInv, QShapes, Counted, ActedIsNew, DeletingIsOld

\* Actions that are skipped, cannot be read or fail are not performed.
LEMMA SkipQInv ==
    ASSUME QInv, NEW a \in Ids, AQ!Skip(a) \/ AQ!Unreadable(a) \/ AQ!DoFails(a)
    PROVE  QInv'
  BY DEF AQ!Skip, AQ!Unreadable, AQ!DoFails, AQ!Performs, AQ!Looking, QInv, QShapes,
         Counted, ActedIsNew, DeletingIsOld

\* An action is performed when it has no record.
LEMMA DoQInv ==
    ASSUME QInv, NEW a \in Ids, AQ!DoSucceeds(a)
    PROVE  QInv'
  BY DEF AQ!DoSucceeds, AQ!Performs, AQ!Looking, AQ!isActionNew, QInv, QShapes,
         Counted, ActedIsNew, DeletingIsOld

\* Storing a record covers the action that was performed; failing to is counted.
LEMMA RecordQInv ==
    ASSUME QInv, NEW a \in Ids, AQ!storeActionRecord(a) \/ AQ!storeFails(a)
    PROVE  QInv'
<1>1. acted /\ a = Head(queue) /\ records[a] = "none" /\ acted' = FALSE
  BY DEF AQ!storeActionRecord, AQ!storeFails, QInv, ActedIsNew
<1>2. UNCHANGED <<runs, deleting>>
  BY DEF AQ!storeActionRecord, AQ!storeFails
<1>3. CASE AQ!storeActionRecord(a)
  <2>1. records' = [records EXCEPT ![a] = "fresh"] /\ unrecorded' = unrecorded
    BY <1>3 DEF AQ!storeActionRecord
  <2>2. QShapes' /\ Counted'
    BY <1>1, <1>2, <2>1 DEF QInv, QShapes, Counted
  <2> QED
    BY <1>1, <1>2, <2>1, <2>2 DEF QInv, QShapes, ActedIsNew, DeletingIsOld
<1>4. CASE AQ!storeFails(a)
  <2>1. unrecorded' = [unrecorded EXCEPT ![a] = @ + 1] /\ records' = records
    BY <1>4 DEF AQ!storeFails
  <2> QED
    BY <1>1, <1>2, <2>1 DEF QInv, QShapes, Counted, ActedIsNew, DeletingIsOld
<1> QED
  BY <1>3, <1>4

\* The end of an Update.
LEMMA ReturnQInv ==
    ASSUME QInv, AQ!UpdateReturns
    PROVE  QInv'
  BY DEF AQ!UpdateReturns, QInv, QShapes, Counted, ActedIsNew, DeletingIsOld

\* cleanupActions (lines 282-311), and the passing of time.
LEMMA CleanupQInv ==
    ASSUME QInv, AQ!CleanupScan \/ AQ!CleanupDelete
    PROVE  QInv'
<1>1. UNCHANGED <<busy, queue, acted, runs>>
  BY DEF AQ!CleanupScan, AQ!CleanupDelete
<1>2. CASE AQ!CleanupScan
  <2>1. /\ UNCHANGED <<records, unrecorded>>
        /\ deleting' = {a \in Ids : records[a] = "old"}
    BY <1>2 DEF AQ!CleanupScan
  <2> QED
    BY <1>1, <2>1 DEF QInv, QShapes, Counted, ActedIsNew, DeletingIsOld
<1>3. CASE AQ!CleanupDelete
  <2>1. deleting' = {}
    BY <1>3 DEF AQ!CleanupDelete
  <2>2. \/ UNCHANGED <<records, unrecorded>>
        \/ /\ records' = [a \in Ids |-> IF a \in deleting THEN "none" ELSE records[a]]
           /\ unrecorded' = [a \in Ids |->
                                unrecorded[a] + (IF a \in deleting THEN 1 ELSE 0)]
    BY <1>3 DEF AQ!CleanupDelete
  <2>3. QShapes'
    BY <1>1, <2>1, <2>2 DEF QInv, QShapes
  <2>4. Counted'
    BY <1>1, <2>1, <2>2 DEF QInv, QShapes, Counted, DeletingIsOld
  <2>5. ActedIsNew'
    BY <1>1, <2>2 DEF QInv, QShapes, ActedIsNew, DeletingIsOld
  <2> QED
    BY <2>1, <2>3, <2>4, <2>5 DEF QInv, DeletingIsOld
<1> QED
  BY <1>2, <1>3

\* Records that age, or that a cleanup finds old enough.
LEMMA TimeQInv ==
    ASSUME QInv, NEW a \in Ids, AQ!Expire(a) \/ AQ!Age(a)
    PROVE  QInv'
<1>1. CASE AQ!Expire(a)
  BY <1>1 DEF AQ!Expire, QInv, QShapes, Counted, ActedIsNew, DeletingIsOld
<1>2. CASE AQ!Age(a)
  <2>1. /\ UNCHANGED <<busy, queue, acted, runs, unrecorded, deleting>>
        /\ records[a] = "fresh" /\ records' = [records EXCEPT ![a] = "old"]
    BY <1>2 DEF AQ!Age
  <2>2. \A b \in Ids : (records'[b] = "none") <=> (records[b] = "none")
    BY <2>1 DEF QInv, QShapes
  <2>3. QShapes' /\ DeletingIsOld'
    BY <2>1 DEF QInv, QShapes, DeletingIsOld
  <2>4. Counted'
    BY <2>1, <2>2 DEF QInv, Counted
  <2>5. ActedIsNew'
    BY <2>1 DEF QInv, QShapes, ActedIsNew
  <2> QED
    BY <2>3, <2>4, <2>5 DEF QInv
<1> QED
  BY <1>1, <1>2

\* A restart loses the record of the action just performed.
LEMMA RestartQInv ==
    ASSUME QInv, AQ!Restart
    PROVE  QInv'
<1>1. /\ unrecorded' = [a \in Ids |->
                           unrecorded[a] + (IF acted /\ a = Head(queue) THEN 1 ELSE 0)]
      /\ acted' = FALSE /\ deleting' = {} /\ UNCHANGED <<records, runs>>
  BY DEF AQ!Restart
<1> QED
  BY <1>1 DEF QInv, QShapes, Counted, ActedIsNew, DeletingIsOld

\* Every step of the composition preserves the invariant of the queue.
LEMMA NextQInv ==
    ASSUME QInv, [AllNext]_allVars
    PROVE  QInv'
<1>1. ASSUME UNCHANGED queueVars PROVE QInv'
  BY SMTT(30), <1>1 DEF queueVars, QInv, QShapes, Counted, ActedIsNew, DeletingIsOld
<1>2. ASSUME NEW g \in Goroutines,
             \/ FetchAlone(g) \/ BeginActions(g) \/ EndActions(g)
             \/ \E a \in Ids : DoAction(g, a)
      PROVE  QInv'
  BY <1>1, <1>2, UpdateQInv, ReturnQInv, DoQInv
  DEF FetchAlone, BeginActions, EndActions, DoAction
<1>3. CASE QueueStep \/ Cleanup \/ Time
  BY <1>3, SkipQInv, RecordQInv, CleanupQInv, TimeQInv DEF QueueStep, Cleanup, Time
<1>4. CASE RestartAll
  BY <1>4, RestartQInv DEF RestartAll
<1>5. CASE UNCHANGED allVars
  BY <1>1, <1>5 DEF allVars
<1> QED
  BY <1>1, <1>2, <1>3, <1>4, <1>5 DEF AllNext

\* So it holds throughout.
LEMMA SpecQInv == AllSpec => []QInv
<1>1. AllInit => QInv
  BY InitQInv DEF AllInit
<1> QED
  BY <1>1, NextQInv, PTL DEF AllSpec

(***************************************************************************)
(* An action is performed at most once more than its record was lost, for  *)
(* any lists of actions and with a full fetch, a retry or a restart at any *)
(* point (isActionNew, lines 203-243, and storeActionRecord).              *)
(***************************************************************************)
THEOREM ActionsPerformedOnce == AllSpec => []PerformedOnce
<1>1. ASSUME QInv, NEW a \in Ids
      PROVE  runs[a] <= 1 + unrecorded[a]
  <2>1. runs[a] \in Nat /\ unrecorded[a] \in Nat
    BY <1>1 DEF QInv, QShapes
  <2>2. ~(records[a] # "none" /\ acted /\ a = Head(queue))
    BY <1>1 DEF QInv, ActedIsNew
  <2> QED
    BY <1>1, <2>1, <2>2 DEF QInv, Counted
<1>2. QInv => PerformedOnce
  BY <1>1 DEF PerformedOnce
<1> QED
  BY <1>2, SpecQInv, PTL

(***************************************************************************)
(* cleanupActions deletes no record within the retention period, although  *)
(* records are stored between its scan and its Delete (lines 286-305).     *)
(***************************************************************************)
THEOREM ActionsFreshRecordsStay == AllSpec => FreshRecordsStay
<1>1. ASSUME QInv, [AllNext]_allVars
      PROVE  [\A a \in Ids : records[a] = "fresh" => records'[a] # "none"]_allVars
  <2>1. ASSUME AQ!CleanupDelete, NEW a \in Ids, records[a] = "fresh"
        PROVE  records'[a] # "none"
    BY <1>1, <2>1 DEF AQ!CleanupDelete, QInv, DeletingIsOld
  <2>2. ASSUME NEW b \in Ids, AQ!storeActionRecord(b) \/ AQ!Age(b),
               NEW a \in Ids, records[a] = "fresh"
        PROVE  records'[a] # "none"
    BY SMTT(30), <1>1, <2>2 DEF AQ!storeActionRecord, AQ!Age, QInv, QShapes
  <2>3. \/ records' = records \/ AQ!CleanupDelete
        \/ \E b \in Ids : AQ!storeActionRecord(b) \/ AQ!Age(b)
    BY <1>1, Zenon DEF AllNext, allVars, queueVars, FetchAlone, BeginActions, EndActions,
       DoAction, QueueStep, Cleanup, Time, RestartAll, AQ!Update, AQ!UpdateReturns,
       AQ!DoSucceeds, AQ!Skip, AQ!Unreadable, AQ!DoFails, AQ!storeFails,
       AQ!CleanupScan, AQ!Expire, AQ!Restart
  <2> QED
    BY <2>1, <2>2, <2>3
<1> QED
  BY <1>1, SpecQInv, PTL DEF AllSpec, FreshRecordsStay

-----------------------------------------------------------------------------
(* The list whose hash is remembered. *)

Inside == {"loop", "update", "remember"}

Done(a) == runs[a] > 0 \/ a \in expired \/ a \notin Actors \/ a \in dropped

\* The server's list of actions, those remembered, and the one a Fetch has been told of exist.
ListsExist ==
    /\ server[Actions] \in Hashes
    /\ lastFetched[Actions] \in Hashes \cup {NoHash} /\ stored[Actions] \in Hashes \cup {NoHash}
    /\ \A g \in Goroutines : pc[g] \in Inside => fetch[g].map[Actions] \in Hashes

\* While the queue is busy, the Fetch that holds the lock waits for it.
CallerWaits ==
    busy => /\ fetchMutex \in Goroutines /\ pc[fetchMutex] = "update"
            /\ fetch[fetchMutex].cur = Actions

\* What is no longer in the queue is done, unless an action has failed.
QueueCovers ==
    busy => /\ queue \in Seq(Ids)
            /\ \A a \in ListOf(fetch[fetchMutex].map[Actions]) :
                  failed \/ Done(a) \/ \E i \in 1..Len(queue) : queue[i] = a

\* The list about to be remembered is done.
ListIsDone ==
    \A g \in Goroutines : pc[g] = "remember" /\ fetch[g].cur = Actions =>
        \A a \in ListOf(fetch[g].map[Actions]) : Done(a)

ListInv == ListsExist /\ CallerWaits /\ QueueCovers /\ ListIsDone /\ RememberedListIsDone

\* What is done stays done.
LEMMA DoneStays ==
    ASSUME QInv, [AllNext]_allVars, NEW a \in Ids, Done(a)
    PROVE  Done(a)'
<1>1. /\ expired \subseteq expired' /\ dropped \subseteq dropped'
      /\ runs' = runs \/ \E b \in Ids : runs' = [runs EXCEPT ![b] = @ + 1]
  BY Zenon DEF AllNext, allVars, queueVars, FetchAlone, BeginActions, EndActions,
       DoAction, QueueStep, Cleanup, Time, RestartAll, AQ!Update, AQ!UpdateReturns,
       AQ!DoSucceeds, AQ!Skip, AQ!Unreadable, AQ!DoFails, AQ!storeActionRecord, AQ!storeFails,
       AQ!CleanupScan, AQ!CleanupDelete, AQ!Expire, AQ!Age, AQ!Restart
<1>2. runs \in [Ids -> Nat]
  BY DEF QInv, QShapes
<1>3. runs[a] > 0 => runs'[a] > 0
  BY <1>1, <1>2
<1> QED
  BY <1>1, <1>3 DEF Done

\* An action of an existing list has an ID.
LEMMA ListOfIds ==
    ASSUME NEW h \in Hashes
    PROVE  ActionsOf[h] \in Seq(Ids) /\ ListOf(h) \subseteq Ids
  BY ActionsAssumption DEF ListOf

\* Where a goroutine inside Fetch has come from.
LEMMA Moves ==
    ASSUME IInv, [Next]_vars, NEW g \in Goroutines, pc'[g] \in Inside
    PROVE  \/ /\ pc'[g] = pc[g] /\ fetch'[g].map = fetch[g].map /\ fetch'[g].cur = fetch[g].cur
           \/ pc'[g] = "loop" /\ fetch'[g].map = server
           \/ pc'[g] = "loop" /\ pc[g] \in Inside /\ fetch'[g].map = fetch[g].map
           \/ pc'[g] = "update" /\ pc[g] = "loop" /\ fetch'[g].map = fetch[g].map
           \/ /\ Update(g) /\ pc[g] = "update" /\ pc'[g] = "remember" /\ fetch' = fetch
<1> USE DEF dataVars, flagVars
<1>0. /\ pc \in [Goroutines -> Places]
      /\ fetch \in [Goroutines -> [map : Values, todo : SUBSET Subsystems,
                                   full : BOOLEAN, cur : Subsystems]]
  BY SMTT(30) DEF IInv, Shapes
<1>1. CASE UNCHANGED <<pc, fetch>>
  BY SMTT(30), <1>1
<1>2. ASSUME NEW f \in Goroutines, Fetch(f)
      PROVE  \/ /\ pc'[g] = pc[g] /\ fetch'[g].map = fetch[g].map /\ fetch'[g].cur = fetch[g].cur
             \/ pc'[g] = "loop" /\ fetch'[g].map = server
             \/ pc'[g] = "loop" /\ pc[g] \in Inside /\ fetch'[g].map = fetch[g].map
             \/ pc'[g] = "update" /\ pc[g] = "loop" /\ fetch'[g].map = fetch[g].map
             \/ /\ Update(g) /\ pc[g] = "update" /\ pc'[g] = "remember" /\ fetch' = fetch
  <2>1. CASE f # g
    <3>1. /\ pc'[g] = pc[g] /\ fetch'[g] = fetch[g]
      BY SMTT(30), <1>0, <1>2, <2>1 DEF Fetch, FetchSkipped, FetchBegins, FetchReturns,
         ConfigFails, GetConfig, SkipFresh, FetchAndUpdate, Do, UpdateFails, Update, Remember,
         FetchDone, Goto
    <3> QED
      BY <3>1
  <2>2. CASE f = g /\ (FetchSkipped(f) \/ FetchBegins(f) \/ ConfigFails(f) \/ FetchDone(f))
    <3>1. After(f) \notin Inside
      BY DEF After, Inside
    <3> QED
      BY SMTT(30), <1>0, <2>2, <3>1 DEF FetchSkipped, FetchBegins, ConfigFails, FetchDone, Goto, Inside
  <2>3. CASE f = g /\ (GetConfig(f) \/ UpdateFails(f) \/ Remember(f))
    BY <1>0, <2>3 DEF GetConfig, UpdateFails, Remember, Goto, Inside
  <2>4. CASE f = g /\ \E s \in Subsystems : SkipFresh(f, s) \/ FetchAndUpdate(f, s)
    BY SMTT(30), <1>0, <2>4 DEF SkipFresh, FetchAndUpdate, Goto, Inside
  <2>5. CASE f = g /\ (Do(f) \/ Update(f))
    BY <1>0, <2>5 DEF Do, Update, Goto
  <2> QED
    BY ZenonT(30), <1>2, <2>1, <2>2, <2>3, <2>4, <2>5 DEF Fetch
<1>3. ASSUME NEW f \in Goroutines, NEW to, pc' = [pc EXCEPT ![f] = to], to \notin Inside,
             fetch' = fetch
      PROVE  /\ pc'[g] = pc[g] /\ fetch'[g].map = fetch[g].map /\ fetch'[g].cur = fetch[g].cur
  BY SMTT(30), <1>0, <1>3
<1>4. CASE Execute \/ Tick \/ StartReturns
  <2>1. Start \in Goroutines
    BY DEF Goroutines
  <2> QED
    BY <1>3, <1>4, <2>1 DEF Execute, Tick, StartReturns, Goto, Inside
<1>5. ASSUME NEW c \in Callers, FlagsChanged(c)
      PROVE  /\ pc'[g] = pc[g] /\ fetch'[g].map = fetch[g].map /\ fetch'[g].cur = fetch[g].cur
  <2>1. c \in Goroutines
    BY DEF Goroutines
  <2>2. fetch' = fetch /\ \E to \in {"interval", "wake", "idle", "fetch"} : pc' = [pc EXCEPT ![c] = to]
    BY <1>5 DEF FlagsChanged, SetInterval, SetInModernStandby, RequestIntervalChanged,
                StoreInterval, StandbyChanged, Goto
  <2> QED
    BY <1>3, <2>1, <2>2 DEF Inside
<1>6. CASE Restart
  BY SMTT(30), <1>6 DEF Restart, Inside
<1> QED
  BY <1>1, <1>2, <1>4, <1>5, <1>6 DEF Next, vars, Publish, Stop

\* The hashes of lists that a step may remember: only Remember adds one.
LEMMA NewHashes ==
    ASSUME IInv, [Next]_vars
    PROVE  \A h \in {lastFetched'[Actions], stored'[Actions]} :
              \/ h \in {lastFetched[Actions], stored[Actions], NoHash}
              \/ \E g \in Goroutines : /\ pc[g] = "remember" /\ fetch[g].cur = Actions
                                       /\ h = fetch[g].map[Actions]
<1> USE DEF dataVars, flagVars
<1>0. Actions \in Subsystems /\ lastFetched \in Values /\ stored \in Values
  BY ControlAssumption DEF IInv, Shapes
<1>1. ASSUME NEW g \in Goroutines, Remember(g)
      PROVE  \A h \in {lastFetched'[Actions], stored'[Actions]} :
              \/ h \in {lastFetched[Actions], stored[Actions], NoHash}
              \/ /\ pc[g] = "remember" /\ fetch[g].cur = Actions
                 /\ h = fetch[g].map[Actions]
  <2> DEFINE s == fetch[g].cur
  <2>1. /\ pc[g] = "remember" /\ lastFetched' = [lastFetched EXCEPT ![s] = fetch[g].map[s]]
        /\ stored' = stored \/ stored' = [stored EXCEPT ![s] = fetch[g].map[s]]
    BY <1>1 DEF Remember, Goto
  <2> HIDE DEF s
  <2>2. \A h \in {lastFetched'[Actions], stored'[Actions]} :
              \/ h \in {lastFetched[Actions], stored[Actions], NoHash}
              \/ /\ pc[g] = "remember" /\ s = Actions
                 /\ h = fetch[g].map[Actions]
    BY SMTT(30), <1>0, <2>1 DEF Values
  <2> QED
    BY <2>2 DEF s
<1>2. CASE Restart
  BY <1>0, <1>2 DEF Restart
<1>3. \/ UNCHANGED <<lastFetched, stored>> \/ Restart \/ \E g \in Goroutines : Remember(g)
  BY ZenonT(30) DEF Next, vars, Publish, Fetch, FetchSkipped, FetchBegins,
     ConfigFails, GetConfig, SkipFresh, FetchAndUpdate, Do, UpdateFails, Update, FetchDone,
     Execute, Tick, StartReturns, Stop, FlagsChanged, SetInterval, SetInModernStandby,
     RequestIntervalChanged, StoreInterval, StandbyChanged
<1> QED
  BY SMTT(30), <1>1, <1>2, <1>3

\* Values that consumers and goroutines hold exist.
LEMMA ListsExistStep ==
    ASSUME IInv, ListsExist, [Next]_vars
    PROVE  ListsExist'
<1>0. Actions \in Subsystems /\ server \in Values
  BY ControlAssumption DEF IInv, Shapes
<1>1. server'[Actions] \in Hashes
  <2>1. server' = server \/ \E s \in Subsystems : Publish(s)
    BY Zenon DEF Next, vars, dataVars, Fetch, FetchSkipped, FetchBegins,
     ConfigFails, GetConfig, SkipFresh, FetchAndUpdate, Do, UpdateFails, Update, Remember, FetchDone,
     Execute, Tick, StartReturns, Stop, FlagsChanged, SetInterval, SetInModernStandby,
     RequestIntervalChanged, StoreInterval, StandbyChanged, Restart
  <2>2. ASSUME NEW s \in Subsystems, Publish(s)
        PROVE  server'[Actions] \in Hashes
    <3>1. PICK h \in Hashes : server' = [server EXCEPT ![s] = h]
      BY ZenonT(30), <2>2 DEF Publish
    <3> QED
      BY <1>0, <3>1 DEF ListsExist, Values
  <2> QED
    BY <2>1, <2>2 DEF ListsExist
<1>2. /\ lastFetched'[Actions] \in Hashes \cup {NoHash} /\ stored'[Actions] \in Hashes \cup {NoHash}
  BY NewHashes DEF ListsExist, Inside
<1>3. \A g \in Goroutines : pc'[g] \in Inside => fetch'[g].map[Actions] \in Hashes
  <2> SUFFICES ASSUME NEW g \in Goroutines, pc'[g] \in Inside
               PROVE  fetch'[g].map[Actions] \in Hashes
    OBVIOUS
  <2>1. (pc[g] \in Inside /\ fetch'[g].map = fetch[g].map) \/ fetch'[g].map = server
    BY SMTT(30), Moves DEF Inside
  <2> QED
    BY <2>1 DEF ListsExist
<1> QED
  BY <1>1, <1>2, <1>3 DEF ListsExist

\* While the queue is busy, no other goroutine moves the one that waits for it.
LEMMA Waits ==
    ASSUME IInv, CallerWaits, busy,
           \/ \E g \in Goroutines : FetchAlone(g)
           \/ \E s \in Subsystems : Publish(s)
           \/ Execute \/ Tick \/ StartReturns \/ Stop
           \/ \E c \in Callers : FlagsChanged(c)
    PROVE  /\ fetchMutex' = fetchMutex /\ pc'[fetchMutex] = pc[fetchMutex]
           /\ fetch'[fetchMutex] = fetch[fetchMutex]
<1> USE DEF dataVars, flagVars
<1> DEFINE m == fetchMutex
<1>0. /\ pc \in [Goroutines -> Places] /\ m \in Goroutines /\ pc[m] = "update" /\ m # NoOne
  BY ControlAssumption DEF IInv, Shapes, CallerWaits, Goroutines, Start, NoOne
<1>1. ASSUME NEW g \in Goroutines, FetchAlone(g)
      PROVE  /\ fetchMutex' = m /\ pc'[m] = pc[m] /\ fetch'[m] = fetch[m]
  <2>1. g # m /\ pc[g] \notin {"config", "loop", "update", "remember"}
    BY <1>1 DEF FetchAlone, IInv, Exclusion
  <2>2. FetchSkipped(g)
    BY <1>0, <1>1, <2>1, Zenon DEF FetchAlone, FetchBegins, ConfigFails, GetConfig, SkipFresh,
       FetchAndUpdate, UpdateFails, Update, Remember, FetchDone, Goto
  <2> QED
    BY SMTT(30), <1>0, <2>1, <2>2 DEF FetchSkipped, Goto
<1>2. ASSUME NEW f \in Goroutines, NEW to, pc[f] # "update", pc' = [pc EXCEPT ![f] = to],
             UNCHANGED <<fetchMutex, fetch>>
      PROVE  /\ fetchMutex' = m /\ pc'[m] = pc[m] /\ fetch'[m] = fetch[m]
  BY SMTT(30), <1>0, <1>2
<1>3. CASE Execute \/ Tick \/ StartReturns
  <2>1. Start \in Goroutines
    BY DEF Goroutines
  <2> QED
    BY <1>2, <1>3, <2>1 DEF Execute, Tick, StartReturns, Goto
<1>4. ASSUME NEW c \in Callers, FlagsChanged(c)
      PROVE  /\ fetchMutex' = m /\ pc'[m] = pc[m] /\ fetch'[m] = fetch[m]
  <2>1. c \in Goroutines
    BY DEF Goroutines
  <2>2. /\ UNCHANGED <<fetch, fetchMutex>> /\ pc[c] # "update"
        /\ \E to \in {"interval", "wake", "idle", "fetch"} : pc' = [pc EXCEPT ![c] = to]
    BY <1>4 DEF FlagsChanged, SetInterval, SetInModernStandby, RequestIntervalChanged,
                StoreInterval, StandbyChanged, Goto
  <2> QED
    BY ZenonT(30), <1>2, <2>1, <2>2
<1>5. ASSUME (\E s \in Subsystems : Publish(s)) \/ Stop
      PROVE  UNCHANGED <<fetchMutex, pc, fetch>>
  BY <1>5 DEF Publish, Stop
<1> QED
  BY SMTT(30), <1>1, <1>3, <1>4, <1>5

\* A goroutine comes to remember the hash of a list of actions when the queue returns no error.
LEMMA NewlyRemembering ==
    ASSUME IInv, [AllNext]_allVars, NEW g \in Goroutines, pc[g] = "update", pc'[g] = "remember"
    PROVE  fetch[g].cur # Actions \/ (EndActions(g) /\ ~failed)
<1> USE DEF dataVars, flagVars
<1>0. pc \in [Goroutines -> Places]
  BY DEF IInv, Shapes
<1>1. ASSUME NEW f \in Goroutines, FetchAlone(f)
      PROVE  fetch[g].cur # Actions
  <2>1. f = g
    BY <1>0, <1>1 DEF FetchAlone, FetchSkipped, FetchBegins, ConfigFails, GetConfig, SkipFresh,
       FetchAndUpdate, UpdateFails, Update, Remember, FetchDone, Goto
  <2>2. fetch[g].cur # Actions \/ UpdateFails(g)
    BY <1>1, <2>1, Zenon DEF FetchAlone, FetchSkipped, FetchBegins, ConfigFails, GetConfig, SkipFresh,
       FetchAndUpdate, Remember, FetchDone, Goto
  <2>3. ~UpdateFails(g)
    BY SMTT(30), <1>0 DEF UpdateFails, Goto
  <2> QED
    BY SMTT(30), <2>2, <2>3
<1>2. ASSUME NEW f \in Goroutines, EndActions(f)
      PROVE  EndActions(g) /\ ~failed
  <2>1. ~failed
    BY SMTT(30), <1>0, <1>2 DEF EndActions, UpdateFails, Goto
  <2>2. f = g
    BY ZenonT(30), <1>0, <1>2, <2>1 DEF EndActions, Update, Goto
  <2> QED
    BY <1>2, <2>1, <2>2
<1>3. pc' # pc
  OBVIOUS
<1>4. ~UNCHANGED vars
  BY <1>3 DEF vars
<1>5. ASSUME NEW f \in Goroutines, NEW a \in Ids, DoAction(f, a)
      PROVE  FALSE
  BY <1>3, <1>4, <1>5 DEF DoAction, Do
<1>6. ASSUME Execute \/ Tick \/ StartReturns \/ \E c \in Callers : FlagsChanged(c)
      PROVE  FALSE
  <2>1. PICK f \in Goroutines, to \in {"interval", "wake", "idle", "fetch", "returned"} :
           pc' = [pc EXCEPT ![f] = to]
    <3>1. Start \in Goroutines /\ Callers \subseteq Goroutines
      BY SMTT(30) DEF Goroutines
    <3> QED
      BY <1>6, <3>1 DEF Execute, Tick, StartReturns, FlagsChanged, SetInterval, SetInModernStandby,
             RequestIntervalChanged, StoreInterval, StandbyChanged, Goto
  <2> QED
    BY <1>0, <2>1
<1>7. ASSUME (\E s \in Subsystems : Publish(s)) \/ Stop \/ Restart
      PROVE  FALSE
  BY <1>0, <1>3, <1>7 DEF Publish, Stop, Restart
<1> QED
  BY <1>1, <1>2, <1>4, <1>5, <1>6, <1>7, Zenon
  DEF AllNext, allVars, BeginActions, QueueStep, Cleanup, Time, RestartAll

\* The queue has just been called, or its caller still waits.
LEMMA BusyStep ==
    ASSUME IInv, CallerWaits, [AllNext]_allVars, busy'
    PROVE  \/ \E g \in Goroutines : BeginActions(g)
           \/ /\ busy /\ fetchMutex' = fetchMutex /\ pc'[fetchMutex] = pc[fetchMutex]
              /\ fetch'[fetchMutex] = fetch[fetchMutex]
<1>1. ASSUME UNCHANGED vars, busy' = busy
      PROVE  /\ busy /\ fetchMutex' = fetchMutex /\ pc'[fetchMutex] = pc[fetchMutex]
             /\ fetch'[fetchMutex] = fetch[fetchMutex]
  BY SMTT(30), <1>1 DEF vars
<1>2. ASSUME NEW g \in Goroutines, NEW a \in Ids, DoAction(g, a)
      PROVE  /\ busy /\ fetchMutex' = fetchMutex /\ pc'[fetchMutex] = pc[fetchMutex]
             /\ fetch'[fetchMutex] = fetch[fetchMutex]
  BY ZenonT(30), <1>2 DEF DoAction, Do, vars, AQ!DoSucceeds
<1>3. ASSUME QueueStep \/ Cleanup \/ Time \/ UNCHANGED allVars
      PROVE  UNCHANGED vars /\ busy' = busy
  BY ZenonT(30), <1>3 DEF allVars, queueVars, QueueStep, Cleanup, Time, AQ!Skip, AQ!Unreadable, AQ!DoFails,
              AQ!storeActionRecord, AQ!storeFails, AQ!CleanupScan, AQ!CleanupDelete, AQ!Expire, AQ!Age
<1>4. ASSUME RestartAll \/ \E g \in Goroutines : EndActions(g)
      PROVE  FALSE
  BY <1>4 DEF RestartAll, AQ!Restart, EndActions, AQ!UpdateReturns
<1>5. ASSUME UNCHANGED queueVars,
           \/ \E g \in Goroutines : FetchAlone(g)
           \/ \E s \in Subsystems : Publish(s)
           \/ Execute \/ Tick \/ StartReturns \/ Stop
           \/ \E c \in Callers : FlagsChanged(c)
      PROVE  /\ busy /\ fetchMutex' = fetchMutex /\ pc'[fetchMutex] = pc[fetchMutex]
             /\ fetch'[fetchMutex] = fetch[fetchMutex]
  <2>1. busy
    BY <1>5 DEF queueVars
  <2> QED
    BY ZenonT(30), <1>5, <2>1, Waits
<1>6. ASSUME NEW g \in Goroutines, FetchAlone(g)
      PROVE  UNCHANGED queueVars
  BY <1>6 DEF FetchAlone
<1> QED
  BY <1>1, <1>2, <1>3, <1>4, <1>5, <1>6, Zenon DEF AllNext

\* The head of the queue leaves it when it is done or has failed.
LEMMA QueueMoves ==
    ASSUME QInv, [AllNext]_allVars, busy, busy'
    PROVE  \/ queue' = queue /\ failed' = failed
           \/ /\ queue # <<>> /\ queue' = Tail(queue) /\ Head(queue) \in Ids
              /\ \/ failed' = TRUE
                 \/ failed' = failed /\ Done(Head(queue))
                 \/ failed' = failed /\ Head(queue) \in dropped'
<1>0. /\ runs \in [Ids -> Nat] /\ unrecorded \in [Ids -> Nat] /\ Counted
      /\ acted => queue # <<>> /\ Head(queue) \in Ids
  BY DEF QInv, QShapes, ActedIsNew
<1>1. \A a \in Ids : records[a] # "none" => runs[a] > 0
  BY <1>0 DEF Counted
<1>2. acted => runs[Head(queue)] > 0
  <2> SUFFICES ASSUME acted PROVE runs[Head(queue)] > 0
    OBVIOUS
  <2> DEFINE a == Head(queue)
  <2>1. a \in Ids /\ runs[a] = unrecorded[a] + (IF records[a] # "none" THEN 1 ELSE 0)
                                + (IF acted /\ a = Head(queue) THEN 1 ELSE 0)
    BY <1>0 DEF Counted
  <2>2. unrecorded[a] \in Nat
    BY <1>0, <2>1
  <2> HIDE DEF a
  <2>3. runs[a] > 0
    BY <2>1, <2>2 DEF a
  <2> QED
    BY <2>3 DEF a
<1>3. ASSUME NEW a \in Ids, AQ!Skip(a)
      PROVE  queue # <<>> /\ queue' = Tail(queue) /\ a = Head(queue) /\ failed' = failed /\ Done(a)
  BY <1>1, <1>3 DEF AQ!Skip, AQ!Looking, AQ!isActionValid, AQ!isActionNew, Done
<1>4. ASSUME NEW a \in Ids, AQ!Unreadable(a)
      PROVE  queue # <<>> /\ queue' = Tail(queue) /\ a = Head(queue) /\ failed' = failed /\ a \in dropped'
  BY <1>4 DEF AQ!Unreadable, AQ!Looking
<1>5. ASSUME NEW a \in Ids, AQ!DoFails(a)
      PROVE  queue # <<>> /\ queue' = Tail(queue) /\ a = Head(queue) /\ failed' = TRUE
  BY <1>5 DEF AQ!DoFails, AQ!Performs, AQ!Looking
<1>6. ASSUME NEW a \in Ids, AQ!storeActionRecord(a) \/ AQ!storeFails(a)
      PROVE  queue # <<>> /\ queue' = Tail(queue) /\ a = Head(queue) /\ failed' = failed /\ Done(a)
  BY <1>0, <1>2, <1>6 DEF AQ!storeActionRecord, AQ!storeFails, Done
<1>7. CASE QueueStep
  <2>1. PICK a \in Ids : \/ AQ!Skip(a) \/ AQ!Unreadable(a) \/ AQ!DoFails(a)
                         \/ AQ!storeActionRecord(a) \/ AQ!storeFails(a)
    BY <1>7 DEF QueueStep
  <2> QED
    BY <2>1, <1>3, <1>4, <1>5, <1>6, ZenonT(30)
<1>8. QueueStep \/ (queue' = queue /\ failed' = failed)
  BY Zenon DEF AllNext, allVars, queueVars, FetchAlone, BeginActions, EndActions,
       DoAction, Cleanup, Time, RestartAll, AQ!Update, AQ!UpdateReturns,
       AQ!DoSucceeds, AQ!CleanupScan, AQ!CleanupDelete, AQ!Expire, AQ!Age, AQ!Restart
<1> QED
  BY ZenonT(30), <1>7, <1>8

\* What is looked for in a sequence is its head or in its tail.
LEMMA HeadOrTail ==
    ASSUME NEW q \in Seq(Ids), q # <<>>, NEW i \in 1..Len(q)
    PROVE  /\ Tail(q) \in Seq(Ids)
           /\ q[i] = Head(q) \/ \E j \in 1..Len(Tail(q)) : Tail(q)[j] = q[i]
<1>1. CASE i = 1
  BY <1>1
<1>2. CASE i # 1
  <2>1. i - 1 \in 1..Len(Tail(q)) /\ Tail(q)[i - 1] = q[i]
    BY <1>2
  <2> QED
    BY SMTT(30), <2>1
<1> QED
  BY <1>1, <1>2

\* Every step of the composition preserves the invariant of the lists.
LEMMA ListStep ==
    ASSUME IInv, QInv, ListInv, [AllNext]_allVars
    PROVE  ListInv'
<1>0. ListsExist /\ CallerWaits /\ QueueCovers /\ ListIsDone /\ RememberedListIsDone
  BY DEF ListInv
<1>1. [Next]_vars
  BY StepSimulates
<1>2. ListsExist'
  BY <1>0, <1>1, ListsExistStep
<1>3. ASSUME NEW g \in Goroutines, BeginActions(g)
      PROVE  /\ pc[g] = "update" /\ fetch[g].cur = Actions /\ fetchMutex = g
             /\ UNCHANGED <<pc, fetch, fetchMutex>> /\ fetch[g].map[Actions] \in Hashes
             /\ queue' = ActionsOf[fetch[g].map[Actions]]
  BY SMTT(30), <1>0, <1>3 DEF BeginActions, AQ!Update, vars, IInv, Exclusion, ListsExist, Inside
<1>4. CallerWaits'
  <2> SUFFICES ASSUME busy' PROVE CallerWaits'
    BY DEF CallerWaits
  <2> QED
    BY <1>0, <1>3, BusyStep DEF CallerWaits
<1>5. ASSUME NEW h \in Hashes, NEW a \in ListOf(h), Done(a)
      PROVE  Done(a)'
  BY SMTT(30), <1>5, DoneStays, ListOfIds
<1>6. QueueCovers'
  <2> SUFFICES ASSUME busy' PROVE QueueCovers'
    BY DEF QueueCovers
  <2>1. ASSUME NEW g \in Goroutines, BeginActions(g)
        PROVE  QueueCovers'
    <3> DEFINE h == fetch[g].map[Actions]
    <3>1. h \in Hashes /\ queue' = ActionsOf[h] /\ fetch'[fetchMutex'].map[Actions] = h
      BY <1>3, <2>1
    <3> HIDE DEF h
    <3>2. queue' \in Seq(Ids) /\ \A a \in ListOf(h) : \E i \in 1..Len(queue') : queue'[i] = a
      BY <3>1, ListOfIds DEF ListOf
    <3> QED
      BY SMTT(30), <3>1, <3>2 DEF QueueCovers
  <2>2. CASE /\ busy /\ fetchMutex' = fetchMutex /\ pc'[fetchMutex] = pc[fetchMutex]
             /\ fetch'[fetchMutex] = fetch[fetchMutex]
    <3> DEFINE h == fetch[fetchMutex].map[Actions]
    <3>1. /\ h \in Hashes /\ fetch'[fetchMutex'].map[Actions] = h /\ queue \in Seq(Ids)
          /\ \A a \in ListOf(h) : failed \/ Done(a) \/ \E i \in 1..Len(queue) : queue[i] = a
      BY <1>0, <2>2 DEF CallerWaits, QueueCovers, ListsExist, Inside
    <3> HIDE DEF h
    <3>2. CASE queue' = queue /\ failed' = failed
      <4>1. \A a \in ListOf(h) : failed' \/ Done(a)' \/ \E i \in 1..Len(queue') : queue'[i] = a
        BY SMTT(30), <1>5, <3>1, <3>2
      <4> QED
        BY <3>1, <3>2, <4>1 DEF QueueCovers
    <3>3. CASE /\ queue # <<>> /\ queue' = Tail(queue) /\ Head(queue) \in Ids
               /\ \/ failed' = TRUE
                  \/ failed' = failed /\ Done(Head(queue))
                  \/ failed' = failed /\ Head(queue) \in dropped'
      <4>1. ASSUME NEW a \in ListOf(h), ~failed'
            PROVE  Done(a)' \/ \E i \in 1..Len(queue') : queue'[i] = a
        <5>1. failed' = failed /\ (Done(Head(queue)) \/ Head(queue) \in dropped')
          BY SMTT(30), <3>3, <4>1
        <5>2. CASE Done(a)
          BY <1>5, <3>1, <5>2
        <5>3. CASE \E i \in 1..Len(queue) : queue[i] = a
          <6>1. a = Head(queue) \/ \E i \in 1..Len(queue') : queue'[i] = a
            BY SMTT(30), <3>1, <3>3, <5>3, HeadOrTail
          <6>2. a = Head(queue) => Done(a)'
            BY <1>5, <3>1, <5>1 DEF Done
          <6> QED
            BY <6>1, <6>2
        <5> QED
          BY <3>1, <4>1, <5>1, <5>2, <5>3
      <4>2. queue' \in Seq(Ids)
        BY SMTT(30), <3>1, <3>3
      <4> QED
        BY SMTT(30), <3>1, <4>1, <4>2 DEF QueueCovers
    <3> QED
      BY ZenonT(30), <2>2, <3>2, <3>3, QueueMoves
  <2> QED
    BY <1>0, <2>1, <2>2, BusyStep
<1>7. ListIsDone'
  <2> SUFFICES ASSUME NEW g \in Goroutines, pc'[g] = "remember", fetch'[g].cur = Actions,
                      NEW a \in ListOf(fetch'[g].map[Actions])
               PROVE  Done(a)'
    BY SMTT(30) DEF ListIsDone
  <2>1. \/ /\ pc[g] = "remember" /\ fetch'[g].map = fetch[g].map /\ fetch[g].cur = Actions
        \/ /\ pc[g] = "update" /\ fetch' = fetch /\ EndActions(g) /\ ~failed
    BY SMTT(30), <1>1, Moves, NewlyRemembering DEF Inside
  <2>2. fetch[g].map[Actions] \in Hashes /\ fetch'[g].map[Actions] = fetch[g].map[Actions]
    BY SMTT(30), <1>0, <2>1 DEF ListsExist, Inside
  <2>3. Done(a)
    <3>1. CASE EndActions(g) /\ ~failed
      <4>1. busy /\ queue = <<>> /\ g = fetchMutex
        BY <3>1 DEF EndActions, AQ!UpdateReturns
      <4> QED
        BY SMTT(30), <1>0, <2>2, <3>1, <4>1 DEF QueueCovers
    <3> QED
      BY SMTT(30), <1>0, <2>1, <2>2, <3>1 DEF ListIsDone
  <2> QED
    BY SMTT(30), <1>5, <2>2, <2>3
<1>8. RememberedListIsDone'
  <2> SUFFICES ASSUME NEW h \in {lastFetched'[Actions], stored'[Actions]} \ {NoHash},
                      NEW a \in ListOf(h)
               PROVE  Done(a)'
    BY SMTT(30) DEF RememberedListIsDone, Done
  <2>1. h \in Hashes
    BY SMTT(30), <1>2 DEF ListsExist
  <2>2. Done(a)
    BY <1>0, <1>1, NewHashes DEF RememberedListIsDone, ListIsDone, Done
  <2> QED
    BY SMTT(30), <1>5, <2>1, <2>2
<1> QED
  BY <1>2, <1>4, <1>6, <1>7, <1>8 DEF ListInv

(***************************************************************************)
(* The hash of a list is remembered, in memory or in the store, only after *)
(* each of its actions has been performed or needs no performing: for any  *)
(* lists, failures, full fetches and restarts (fetchAndUpdate, lines       *)
(* 366-377, and actionqueue.go, lines 99-147).                             *)
(***************************************************************************)
THEOREM ActionsListIsDone == AllSpec => []RememberedListIsDone
<1>1. AllInit => ListInv
  <2> SUFFICES ASSUME AllInit PROVE ListInv
    OBVIOUS
  <2>1. Actions \in Subsystems /\ 1 \in Hashes /\ busy = FALSE
    BY SMTT(30), ControlAssumption DEF Hashes, AllInit, AQ!Init
  <2>2. /\ server[Actions] = 1 /\ lastFetched[Actions] = NoHash /\ stored[Actions] = NoHash
        /\ \A g \in Goroutines : pc[g] = "idle"
    BY <2>1 DEF AllInit, Init
  <2> QED
    BY <2>1, <2>2 DEF ListInv, ListsExist, CallerWaits, QueueCovers, ListIsDone,
                      RememberedListIsDone, Inside
<1>2. AllSpec => [](IInv /\ fetchFull \in BOOLEAN)
  BY SpecIInv, ActionsImplementControlService, PTL DEF ImplementsControlService
<1>3. ListInv => RememberedListIsDone
  BY DEF ListInv
<1> QED
  BY <1>1, <1>2, <1>3, SpecQInv, ListStep, PTL DEF AllSpec

=============================================================================
