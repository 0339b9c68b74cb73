----------------------------- MODULE Enrollment -----------------------------
(***************************************************************************)
(* Enrollment in pkg/osquery/extension.go: the node key in the config store *)
(* and the record in the enrollment store, which are written one after the  *)
(* other, and the goroutines that use and replace them.  osquery's config   *)
(* and distributed plugins, the log loop of Execute and the first Enroll of *)
(* an osquery instance are *callers*.  Each of the four "WithReenroll"      *)
(* helpers has the same control: take the node key, enroll when there is    *)
(* none, send the request, and on a rejected key remove the enrollment,     *)
(* enroll once more and try again.  Enroll runs under enrollMutex;          *)
(* RequireReenroll, Execute's EnsureEnrollmentStored and the local server's *)
(* SaveEnrollment do not.                                                   *)
(***************************************************************************)
EXTENDS Naturals, FiniteSets

CONSTANTS EnrollCallers,          \* goroutines that send requests
          LogCaller,        \* the one that publishes logs
          ConfigCaller,     \* the one that asks for the osquery configuration
          Launch,           \* the first Enroll of the osquery instance
          LocalServer,      \* the local server, which stores keys it is given
          Home, Elsewhere,  \* deployments: the device's own and another
          None,
          MaxKeys, MaxInvalid, MaxFaults, MaxRequests   \* bounds

ASSUME EnrollmentAssumption ==
  /\ {LogCaller, ConfigCaller} \subseteq EnrollCallers
  /\ Launch \notin EnrollCallers /\ LocalServer \notin EnrollCallers /\ Launch # LocalServer
  /\ Home # Elsewhere
  /\ None \notin Nat /\ None \notin EnrollCallers \cup {Launch, LocalServer}
  /\ MaxKeys \in Nat /\ MaxInvalid \in Nat /\ MaxFaults \in Nat
  /\ MaxRequests \in Nat

VARIABLES
  nodeKey,    \* the node key in the config store
  record,     \* the node key inside the record of the enrollment store
  secret,     \* an enroll secret can be read
  config,     \* a configuration is cached in the config store
  url,        \* the KolideServerURL flag
  client,     \* the URL of the current service client
  enrollMutex,
  pc,         \* where each goroutine is
  key,        \* the node key it holds a reference to
  save,       \* the node key it is storing
  back,       \* where it goes on when Enroll returns
  again,      \* it may still re-enroll
  valid,      \* keys the server accepts
  gone,       \* launcher has uninstalled itself
  issued, faults, restarts, requests   \* how often the environment has acted

locals == <<pc, key, save, back, again>>
stores == <<nodeKey, record, secret, config, url>>
bounds == <<issued, faults, restarts, requests>>
enrollVars == <<stores, client, enrollMutex, locals, valid, gone, bounds>>

Threads == EnrollCallers \cup {Launch, LocalServer}
Keys == 1..MaxKeys

Places == {"execute", "idle", "begin", "enroll", "ensure", "ensureRecord", "enrolling",
           "swap", "saveKey", "saveRecord", "request", "reenroll", "deleteRecord", "done"}

(***************************************************************************)
(* A process starts with whatever an earlier one left in the stores: not    *)
(* yet enrolled, enrolled, or enrolled before there were records.           *)
(***************************************************************************)
FirstPlace == [t \in Threads |-> IF t = LogCaller THEN "execute"
                                 ELSE IF t = Launch THEN "enroll" ELSE "idle"]
FirstBack == [t \in Threads |-> "idle"]

EnrollmentInit ==
  /\ \/ nodeKey = None /\ record = None /\ issued = 0
     \/ nodeKey = 1 /\ record \in {None, 1} /\ issued = 1
  /\ valid = {nodeKey} \ {None}
  /\ secret \in BOOLEAN
  /\ config = (nodeKey # None)
  /\ url \in {Home, Elsewhere} /\ (nodeKey # None => url = Home)
  /\ client = url
  /\ enrollMutex = None
  /\ pc = FirstPlace /\ back = FirstBack
  /\ key = [t \in Threads |-> None] /\ save = key
  /\ again = [t \in Threads |-> FALSE]
  /\ gone = FALSE /\ faults = 0 /\ restarts = 0 /\ requests = 0

Goto(t, p) == pc' = [pc EXCEPT ![t] = p]
At(t, p) == ~gone /\ pc[t] = p

Unlocked(t) == IF enrollMutex = t THEN None ELSE enrollMutex

\* The caller has its answer or its error.  GenerateConfigs stores an answer, and after an
\* error falls back to what is stored.
Returns(t) ==
  /\ Goto(t, IF t = Launch THEN "done" ELSE "idle")
  /\ key' = [key EXCEPT ![t] = None] /\ save' = [save EXCEPT ![t] = None]
  /\ back' = [back EXCEPT ![t] = "idle"] /\ again' = [again EXCEPT ![t] = FALSE]

\* Enroll returns with a key: the mutex is released by whoever holds it.
EnrollReturns(t) ==
  /\ enrollMutex' = Unlocked(t)
  /\ IF back[t] = "idle" THEN Returns(t)
     ELSE /\ Goto(t, back[t])
          /\ save' = [save EXCEPT ![t] = None]
          /\ key' = [key EXCEPT ![t] = IF back[t] = "request" THEN @ ELSE None]
          /\ UNCHANGED <<back, again>>

\* Enroll returns without, and so does the helper that called it.
EnrollFails(t) == enrollMutex' = Unlocked(t) /\ Returns(t)

\* A reader of serviceClientLock is in a request, a writer waits in FlagsChanged.
Reading(t) == pc[t] \in {"enrolling", "request"}
NoWriterWaits == \A t \in Threads : pc[t] # "swap"

-----------------------------------------------------------------------------
(* One of the WithReenroll helpers.                                        *)

\* A new request.
Begin(t) ==
  /\ t \in EnrollCallers /\ At(t, "idle")
  /\ \/ t = ConfigCaller /\ UNCHANGED requests
     \/ t # ConfigCaller /\ requests < MaxRequests /\ requests' = requests + 1
  /\ again' = [again EXCEPT ![t] = TRUE]
  /\ Goto(t, "begin")
  /\ UNCHANGED <<stores, client, enrollMutex, key, save, back, valid, gone, issued,
                 faults, restarts>>

\* The helper takes the node key, and enrolls when there is none.
TakeKey(t) ==
  /\ At(t, "begin") /\ (nodeKey # None => NoWriterWaits)
  /\ key' = [key EXCEPT ![t] = nodeKey]
  /\ back' = [back EXCEPT ![t] = "request"]
  /\ Goto(t, IF nodeKey = None THEN "enroll" ELSE "request")
  /\ UNCHANGED <<stores, client, enrollMutex, save, again, valid, gone, bounds>>

\* The server takes the request.
Answered(t) ==
  /\ At(t, "request") /\ key[t] \in valid /\ client = Home
  /\ config' = (config \/ t = ConfigCaller)
  /\ Returns(t)
  /\ UNCHANGED <<nodeKey, record, secret, url, client, enrollMutex, valid, gone, bounds>>

\* It fails on the way.
RequestFails(t) ==
  /\ At(t, "request") /\ faults + restarts < MaxFaults
  /\ faults' = faults + 1
  /\ Returns(t)
  /\ UNCHANGED <<stores, client, enrollMutex, valid, gone, issued, restarts, requests>>

\* The server does not know the key: the helper re-enrolls, the second time it gives up.
\* (When the server says so with the status Unauthenticated, the helper for logs takes
\* that for a transport error.)
Rejected(t) ==
  /\ At(t, "request") /\ (key[t] \notin valid \/ client # Home)
  /\ IF again[t]
       THEN /\ Goto(t, "reenroll")
            /\ again' = [again EXCEPT ![t] = FALSE]
            /\ UNCHANGED <<key, save, back>>
       ELSE Returns(t)
  /\ UNCHANGED <<stores, client, enrollMutex, valid, gone, bounds>>

\* Mutant of RequireReenroll: leaves the key for a later enrollment to replace.
RequireReenrollLater(t) ==
  /\ At(t, "reenroll")
  /\ Returns(t)
  /\ UNCHANGED <<stores, client, enrollMutex, valid, gone, bounds>>

\* RequireReenroll: nothing without a secret, else the key goes and then the record.
RequireReenroll(t) ==
  /\ At(t, "reenroll")
  /\ back' = [back EXCEPT ![t] = "begin"]
  /\ nodeKey' = IF secret THEN None ELSE nodeKey
  /\ Goto(t, IF secret THEN "deleteRecord" ELSE "enroll")
  /\ UNCHANGED <<record, secret, config, url, client, enrollMutex, key, save, again,
                 valid, gone, bounds>>

DeleteRecord(t) ==
  /\ At(t, "deleteRecord")
  /\ record' = None
  /\ Goto(t, "enroll")
  /\ UNCHANGED <<nodeKey, secret, config, url, client, enrollMutex, key, save, back,
                 again, valid, gone, bounds>>

-----------------------------------------------------------------------------
(* Enroll and the knapsack's SaveEnrollment and EnsureEnrollmentStored.    *)

\* Mutant of EnrollFinds: does not make sure that the record is stored.
EnrollFindsOnly(t) ==
  /\ At(t, "enroll") /\ enrollMutex = None /\ nodeKey # None
  /\ IF back[t] = "request"
       THEN /\ Goto(t, "request") /\ key' = [key EXCEPT ![t] = nodeKey]
            /\ UNCHANGED <<save, back, again>>
       ELSE Returns(t)
  /\ UNCHANGED <<stores, client, enrollMutex, valid, gone, bounds>>

\* With the mutex, there is a node key, which Enroll will return.
EnrollFinds(t) ==
  /\ At(t, "enroll") /\ enrollMutex = None /\ nodeKey # None
  /\ enrollMutex' = t
  /\ key' = [key EXCEPT ![t] = nodeKey]
  /\ Goto(t, "ensure")
  /\ UNCHANGED <<stores, client, save, back, again, valid, gone, bounds>>

\* There is none: without a secret Enroll gives up, else it asks for one.
EnrollStarts(t) ==
  /\ At(t, "enroll") /\ enrollMutex = None /\ nodeKey = None
  /\ IF secret
       THEN /\ NoWriterWaits /\ Goto(t, "enrolling") /\ enrollMutex' = t
            /\ UNCHANGED <<key, save, back, again>>
       ELSE Returns(t) /\ UNCHANGED enrollMutex
  /\ UNCHANGED <<stores, client, valid, gone, bounds>>

\* The server enrolls the device.
Enrolled(t) ==
  /\ At(t, "enrolling") /\ client = Home /\ issued < MaxKeys
  /\ issued' = issued + 1
  /\ valid' = valid \cup {issued'}
  /\ key' = [key EXCEPT ![t] = issued'] /\ save' = [save EXCEPT ![t] = issued']
  /\ Goto(t, "saveKey")
  /\ UNCHANGED <<stores, client, enrollMutex, back, again, gone, faults, restarts, requests>>

\* It does not: an error, an invalid node or an empty answer (or no more keys here).
EnrollRefused(t) ==
  /\ At(t, "enrolling")
  /\ \/ faults + restarts < MaxFaults /\ faults' = faults + 1
     \/ issued = MaxKeys /\ UNCHANGED faults
  /\ EnrollFails(t)
  /\ UNCHANGED <<stores, client, valid, gone, issued, restarts, requests>>

\* The device belongs to another deployment: Enroll sets the URLs, and the flag
\* controller calls this extension's FlagsChanged before the set returns.
WrongRegion(t) ==
  /\ At(t, "enrolling") /\ client # Home
  /\ url' = Home
  /\ IF url = Home THEN EnrollFails(t)
                   ELSE Goto(t, "swap") /\ UNCHANGED <<enrollMutex, key, save, back, again>>
  /\ UNCHANGED <<nodeKey, record, secret, config, client, valid, gone, bounds>>

\* FlagsChanged takes serviceClientLock from its readers.  Then Enroll gives up, and the
\* local server stores the key it was given.
FlagsChanged(t) ==
  /\ At(t, "swap") /\ \A u \in Threads : ~Reading(u)
  /\ client' = url
  /\ IF t = LocalServer
       THEN Goto(t, "saveKey") /\ UNCHANGED <<enrollMutex, key, save, back, again>>
       ELSE EnrollFails(t)
  /\ UNCHANGED <<stores, valid, gone, bounds>>

\* SaveEnrollment: the node key and then the record, either of which may fail.  Enroll
\* returns the key in any case.
SaveKey(t) ==
  /\ At(t, "saveKey")
  /\ nodeKey' = save[t]
  /\ Goto(t, "saveRecord")
  /\ UNCHANGED <<record, secret, config, url, client, enrollMutex, key, save, back, again,
                 valid, gone, bounds>>

SaveRecord(t) ==
  /\ At(t, "saveRecord")
  /\ record' = save[t]
  /\ EnrollReturns(t)
  /\ UNCHANGED <<nodeKey, secret, config, url, client, valid, gone, bounds>>

SaveFails(t) ==
  /\ At(t, "saveKey") \/ At(t, "saveRecord")
  /\ faults + restarts < MaxFaults
  /\ faults' = faults + 1
  /\ EnrollReturns(t)
  /\ UNCHANGED <<stores, client, valid, gone, issued, restarts, requests>>

\* EnsureEnrollmentStored reads the node key, then the record, and stores what is missing.
EnsureReadsKey(t) ==
  /\ At(t, "ensure") \/ At(t, "execute")
  /\ \/ nodeKey = None /\ EnrollReturns(t)
     \/ /\ nodeKey # None /\ save' = [save EXCEPT ![t] = nodeKey]
        /\ Goto(t, "ensureRecord") /\ UNCHANGED <<enrollMutex, key, back, again>>
  /\ UNCHANGED <<stores, client, valid, gone, bounds>>

EnsureReadsRecord(t) ==
  /\ At(t, "ensureRecord")
  /\ IF record = save[t] \/ (record = None /\ ~secret)
       THEN EnrollReturns(t)
       ELSE /\ Goto(t, IF record = None THEN "saveKey" ELSE "saveRecord")
            /\ UNCHANGED <<enrollMutex, key, save, back, again>>
  /\ UNCHANGED <<stores, client, valid, gone, bounds>>

-----------------------------------------------------------------------------
(* The environment.                                                        *)

\* Uninstall, after an answer that the device is disabled: the secret file and the
\* database go and the process exits, never to be started again.
Uninstall(t) ==
  /\ ~gone /\ Reading(t) /\ faults + restarts < MaxFaults
  /\ gone' = TRUE
  /\ nodeKey' = None /\ record' = None /\ config' = FALSE /\ secret' = FALSE
  /\ pc' = [u \in Threads |-> "done"] /\ enrollMutex' = None
  /\ key' = [u \in Threads |-> None] /\ save' = key'
  /\ again' = [u \in Threads |-> FALSE] /\ back' = FirstBack
  /\ UNCHANGED <<url, client, valid, bounds>>

\* The server forgets the device.
Invalidate ==
  /\ ~gone /\ valid # {} /\ Cardinality((1..issued) \ valid) < MaxInvalid
  /\ valid' = {}
  /\ UNCHANGED <<stores, client, enrollMutex, locals, gone, bounds>>

\* handleEnrollmentRequest of the root launcher's listener: "launcher enroll" stores a
\* secret unless the device is enrolled.
ListenerStoresSecret ==
  /\ ~gone /\ nodeKey = None /\ ~secret
  /\ secret' = TRUE
  /\ UNCHANGED <<nodeKey, record, config, url, client, enrollMutex, locals, valid, gone, bounds>>

\* The callback worker of the local server is given the URLs and, for a device that is
\* not enrolled, a key: the way to enroll without a secret.
LocalServerEnrolls ==
  /\ At(LocalServer, "idle") /\ ~secret /\ valid = {} /\ issued < MaxKeys
  /\ issued' = issued + 1
  /\ valid' = {issued'}
  /\ save' = [save EXCEPT ![LocalServer] = issued']
  /\ url' = Home
  /\ Goto(LocalServer, IF url = Home THEN "saveKey" ELSE "swap")
  /\ UNCHANGED <<nodeKey, record, secret, config, client, enrollMutex, key, back, again,
                 gone, faults, restarts, requests>>

\* launcher stops at any point and is started again.
Restart ==
  /\ ~gone /\ faults + restarts < MaxFaults
  /\ restarts' = restarts + 1
  /\ client' = url /\ enrollMutex' = None
  /\ pc' = FirstPlace /\ back' = FirstBack
  /\ key' = [t \in Threads |-> None] /\ save' = key'
  /\ again' = [t \in Threads |-> FALSE]
  /\ UNCHANGED <<stores, valid, gone, issued, faults, requests>>

\* The steps of one goroutine, apart from failures on this side.
Step(t) ==
  \/ TakeKey(t) \/ Answered(t) \/ Rejected(t) \/ RequireReenroll(t) \/ DeleteRecord(t)
  \/ EnrollFinds(t) \/ EnrollStarts(t) \/ Enrolled(t) \/ EnrollRefused(t)
  \/ WrongRegion(t) \/ FlagsChanged(t) \/ SaveKey(t) \/ SaveRecord(t)
  \/ EnsureReadsKey(t) \/ EnsureReadsRecord(t)

EnrollmentNext ==
  \/ Invalidate \/ ListenerStoresSecret \/ LocalServerEnrolls \/ Restart
  \/ \E t \in Threads : \/ Step(t) \/ Begin(t) \/ RequestFails(t) \/ SaveFails(t)
                        \/ Uninstall(t)

\* Goroutines run, and osquery keeps asking for its configuration.
EnrollmentFairness ==
  /\ \A t \in Threads : WF_enrollVars(Step(t))
  /\ WF_enrollVars(Begin(ConfigCaller))

EnrollmentSpec == EnrollmentInit /\ [][EnrollmentNext]_enrollVars /\ EnrollmentFairness

-----------------------------------------------------------------------------
\* Whoever holds a node key has a stored enrollment (Execute's comment), once no goroutine
\* is at work and nothing failed to be written: a re-enrollment that removes the record
\* another goroutine has just stored puts it back.
KeyHasRecord ==
  (\A t \in Threads : pc[t] \in {"idle", "done"}) /\ faults = 0 /\ secret
    => (nodeKey # None => record # None)

\* A key that the server no longer accepts does not stay for good: it is removed or
\* replaced, also when several goroutines re-enroll at once (with a secret to do it).
StaleKeyIsReplaced ==
  []<>(gone \/ ~secret \/ nodeKey = None \/ nodeKey \in valid)
=============================================================================
