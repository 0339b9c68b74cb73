--------------------------- MODULE OsqueryRunner ---------------------------
(***************************************************************************)
(* The osquery runner (pkg/osquery/runtime/runner.go) and the instances it *)
(* supervises (osqueryinstance.go, on the goroutine group of               *)
(* ee/errgroup/errgroup.go and the history of runtime/history).            *)
(*                                                                         *)
(* One worker per enrollment launches an instance, waits for it to exit    *)
(* and launches the next one.  An instance is an osqueryd process and a    *)
(* group of goroutines under one context: cancelling the context is what   *)
(* asks the instance to shut down.  Restarts come from any goroutine that  *)
(* changes a flag, wakes the device, changes the KATC configuration or     *)
(* updates osqueryd; Shutdown comes once, from the run group.              *)
(***************************************************************************)
EXTENDS Naturals, FiniteSets

CONSTANTS
    Enrollments,      \* r.enrollmentIds
    Callers,          \* goroutines that call FlagsChanged, Ping or Restart
    MaxRuns,          \* bound: instances created in a behaviour
    MaxConfigs,       \* bound: changes of the configuration
    MaxStandby        \* bound: changes of the InModernStandby flag

Nobody == "nobody"
Interrupter == "interrupter"

ASSUME RunnerAssumption ==
    /\ MaxRuns \in Nat
    /\ MaxConfigs \in Nat
    /\ MaxStandby \in Nat
    /\ {Nobody, Interrupter} \cap Callers = {}

Runs == 1..MaxRuns
NoRun == 0
NoConfig == MaxConfigs + 1

\* The goroutines of an instance's group that matter here: the one that
\* kills osqueryd, registered before there is a process, and the one that
\* waits for it to exit.  The others serve the instance or remove files;
\* WaitShutdown waits for them too, but not for longer than its timeout.
Goroutines == {"kill", "monitor"}

\* Where a worker is: in launchInstanceWithRetries and the Launch it calls,
\* in the loop of runInstance, or in the tail of Run.
LaunchSteps == {"prepare", "command", "start", "socket", "connect"}
WorkerSteps == LaunchSteps \cup
    {"check", "add", "failed", "failedWait", "retry",
     "running", "exited", "waitShutdown", "error", "returned"}

\* Where a caller is: in FlagsChanged, in Ping, in Restart and in the
\* triggerShutdownForInstances that Restart and Shutdown call.
CallerSteps == {"idle", "flagsChanged", "standbyChanged", "restart", "defer",
                "trigger", "wait"}
ShutdownSteps == {"idle", "close", "trigger", "wait", "returned"}

VARIABLES
    interrupted,    \* r.interrupted
    shutdown,       \* r.shutdown has been closed
    shutdownPc,     \* the goroutine in Shutdown
    needsRestart,   \* r.needsRestart
    restartLock,    \* holder of r.restartLock
    instanceLock,   \* holder of r.instanceLock across several steps
    instances,      \* r.instances: the run tracked for an enrollment
    worker,         \* the worker of an enrollment
    caller,         \* the other goroutines
    config,         \* version of the flags and of the osqueryd binary
    inModernStandby,
    standbyChanges,
    runs,           \* instances created so far
    cancelled,      \* runs whose context is done
    group,          \* goroutines of a run that have not returned
    command,        \* version of the configuration i.cmd was made from
    process,        \* the osqueryd process of a run
    history,        \* the run's entry in the osquery instance history
    late            \* runs whose osqueryd was started after cancellation

vars == <<interrupted, shutdown, shutdownPc, needsRestart, restartLock,
          instanceLock, instances, worker, caller, config, inModernStandby,
          standbyChanges, runs, cancelled, group, command, process, history, late>>

runnerVars == <<interrupted, shutdown, shutdownPc, needsRestart, restartLock,
                instanceLock, instances, caller, config, inModernStandby,
                standbyChanges, runs>>
instanceVars == <<cancelled, group, command, process, history, late>>

TypeOK ==
    /\ interrupted \in BOOLEAN
    /\ shutdown \in BOOLEAN
    /\ shutdownPc \in ShutdownSteps
    /\ needsRestart \in BOOLEAN
    /\ restartLock \in Callers \cup {Nobody}
    /\ instanceLock \in Callers \cup {Nobody, Interrupter}
    /\ instances \in [Enrollments -> {NoRun} \cup Runs]
    /\ worker \in [Enrollments -> WorkerSteps]
    /\ caller \in [Callers -> CallerSteps]
    /\ config \in 0..MaxConfigs
    /\ inModernStandby \in BOOLEAN
    /\ standbyChanges \in 0..MaxStandby
    /\ runs \in 0..MaxRuns
    /\ cancelled \in SUBSET Runs
    /\ group \in [Runs -> SUBSET Goroutines]
    /\ command \in [Runs -> 0..NoConfig]
    /\ process \in [Runs -> {"none", "running", "unkillable", "exited"}]
    /\ history \in [Runs -> {"none", "running", "exited"}]
    /\ late \in SUBSET Runs

Init ==
    /\ interrupted = FALSE
    /\ shutdown = FALSE
    /\ shutdownPc = "idle"
    /\ needsRestart = FALSE
    /\ restartLock = Nobody
    /\ instanceLock = Nobody
    /\ instances = [e \in Enrollments |-> NoRun]
    /\ worker = [e \in Enrollments |-> "check"]
    /\ caller = [c \in Callers |-> "idle"]
    /\ config = 0
    /\ inModernStandby = FALSE
    /\ standbyChanges = 0
    /\ runs = 0
    /\ cancelled = {}
    /\ group = [n \in Runs |-> {}]
    /\ command = [n \in Runs |-> NoConfig]
    /\ process = [n \in Runs |-> "none"]
    /\ history = [n \in Runs |-> "none"]
    /\ late = {}

-----------------------------------------------------------------------------
(* Instances. *)

\* The runs that r.instances holds.
Tracked == {instances[e] : e \in Enrollments} \ {NoRun}

\* Mutant of WaitShutdown: waits for the goroutines without a timeout.
WaitShutdownForever(ns) ==
    /\ \A n \in ns : group[n] = {}
    /\ history' = [n \in Runs |-> IF n \in ns /\ history[n] # "none"
                                  THEN "exited" ELSE history[n]]

\* WaitShutdown: the goroutines have returned, or 30 seconds have passed
\* and they may not have; either way the exit is recorded, when NewInstance
\* has made an entry to record it in.
WaitShutdown(ns) ==
    history' = [n \in Runs |-> IF n \in ns /\ history[n] # "none"
                               THEN "exited" ELSE history[n]]

\* BeginShutdown cancels the context of the group.
BeginShutdown(ns) == cancelled' = cancelled \cup ns

\* In a launched instance, an extension server stops by itself or five
\* health checks in a row fail: the error cancels the group.
ServeFails(e) ==
    /\ worker[e] = "running"
    /\ instances[e] \notin cancelled
    /\ cancelled' = cancelled \cup {instances[e]}
    /\ UNCHANGED <<runnerVars, worker, group, command, process, history, late>>

\* The kill_osquery_process goroutine: nothing to do when there is no
\* process (yet); the kill may fail.
KillOsqueryProcess(n) ==
    /\ n \in cancelled
    /\ "kill" \in group[n]
    /\ group' = [group EXCEPT ![n] = @ \ {"kill"}]
    /\ IF process[n] = "running"
       THEN \E p \in {"exited", "unkillable"} :
               process' = [process EXCEPT ![n] = p]
       ELSE UNCHANGED process
    /\ UNCHANGED <<runnerVars, worker, cancelled, command, history, late>>

\* The monitor_osquery_process goroutine returns an error once osqueryd is
\* gone, which cancels the group.
MonitorReturns(n) ==
    /\ "monitor" \in group[n]
    /\ process[n] = "exited"
    /\ group' = [group EXCEPT ![n] = @ \ {"monitor"}]
    /\ cancelled' = cancelled \cup {n}
    /\ UNCHANGED <<runnerVars, worker, command, process, history, late>>

\* osqueryd exits by itself.
OsquerydExits(n) ==
    /\ process[n] \in {"running", "unkillable"}
    /\ process' = [process EXCEPT ![n] = "exited"]
    /\ UNCHANGED <<runnerVars, worker, cancelled, group, command, history,
                   late>>

-----------------------------------------------------------------------------
(* Launch, step by step, for the instance that the worker just tracked. *)

\* The worker of e proceeds from one step to another.
Goto(e, from, to) ==
    /\ worker[e] = from
    /\ worker' = [worker EXCEPT ![e] = to]

\* A goroutine is added to the group of e's instance.
StartGoroutine(e, g) == group' = [group EXCEPT ![instances[e]] = @ \cup {g}]

\* Mutant of LaunchPrepare: nothing is registered to kill the process.
LaunchPrepareNoKill(e) ==
    /\ Goto(e, "prepare", "command")
    /\ UNCHANGED <<runnerVars, instanceVars>>

\* The extension is created and run, the paths are calculated, and the
\* goroutines that clean up on shutdown are registered.
LaunchPrepare(e) ==
    /\ Goto(e, "prepare", "command")
    /\ StartGoroutine(e, "kill")
    /\ UNCHANGED <<runnerVars, cancelled, command, process, history, late>>

\* The osqueryd binary is looked up and the command made from the flags.
LaunchCommand(e) ==
    /\ Goto(e, "command", "start")
    /\ command' = [command EXCEPT ![instances[e]] = config]
    /\ UNCHANGED <<runnerVars, cancelled, group, process, history, late>>

\* startOsquerydProcess, up to the start of the process.
LaunchStart(e) ==
    /\ Goto(e, "start", "socket")
    /\ process' = [process EXCEPT ![instances[e]] = "running"]
    /\ late' = IF instances[e] \in cancelled THEN late \cup {instances[e]}
                                             ELSE late
    /\ UNCHANGED <<runnerVars, cancelled, group, command, history>>

\* Its socket shows up; the run enters the history and its process is
\* monitored.
LaunchSocket(e) ==
    /\ Goto(e, "socket", "connect")
    /\ StartGoroutine(e, "monitor")
    /\ history' = [history EXCEPT ![instances[e]] = "running"]
    /\ UNCHANGED <<runnerVars, cancelled, command, process, late>>

\* The extension client connects to osqueryd, which must be there for it,
\* the extension servers and the health check start, and Launch returns.
LaunchConnect(e) ==
    /\ Goto(e, "connect", "running")
    /\ process[instances[e]] # "exited"
    /\ UNCHANGED <<runnerVars, instanceVars>>

\* Every step of Launch may return an error instead.
LaunchFails(e) ==
    /\ \E s \in LaunchSteps : Goto(e, s, "failed")
    /\ UNCHANGED <<runnerVars, instanceVars>>

Launch(e) ==
    \/ LaunchPrepare(e)
    \/ LaunchCommand(e)
    \/ LaunchStart(e)
    \/ LaunchSocket(e)
    \/ LaunchConnect(e)
    \/ LaunchFails(e)

-----------------------------------------------------------------------------
(* The worker: launchInstanceWithRetries, runInstance and the tail of Run. *)

\* No launch once Shutdown has begun.
CheckInterrupted(e) ==
    /\ Goto(e, "check", IF interrupted THEN "error" ELSE "add")
    /\ UNCHANGED <<runnerVars, instanceVars>>

\* A new instance takes the place of the previous one in r.instances.
AddInstance(e) ==
    /\ runs < MaxRuns
    /\ instanceLock = Nobody
    /\ Goto(e, "add", "prepare")
    /\ runs' = runs + 1
    /\ instances' = [instances EXCEPT ![e] = runs + 1]
    /\ UNCHANGED <<interrupted, shutdown, shutdownPc, needsRestart,
                   restartLock, instanceLock, caller, config, inModernStandby,
                   standbyChanges, instanceVars>>

\* The instance whose Launch failed is shut down ...
LaunchFailed(e) ==
    /\ Goto(e, "failed", "failedWait")
    /\ BeginShutdown({instances[e]})
    /\ UNCHANGED <<runnerVars, group, command, process, history, late>>

\* ... and waited for.
LaunchFailedWait(e) ==
    /\ Goto(e, "failedWait", "retry")
    /\ WaitShutdown({instances[e]})
    /\ UNCHANGED <<runnerVars, cancelled, group, command, process, late>>

\* The select between r.shutdown and the retry delay.
Retry(e) ==
    /\ \/ Goto(e, "retry", "check")
       \/ shutdown /\ Goto(e, "retry", "error")
    /\ UNCHANGED <<runnerVars, instanceVars>>

\* runInstance: <-instance.Exited().
Exited(e) ==
    /\ instances[e] \in cancelled
    /\ Goto(e, "running", "exited")
    /\ UNCHANGED <<runnerVars, instanceVars>>

\* An intentional shutdown of the runner ends the worker.
CheckShutdown(e) ==
    /\ Goto(e, "exited", IF shutdown THEN "returned" ELSE "waitShutdown")
    /\ UNCHANGED <<runnerVars, instanceVars>>

\* Otherwise it waits for the exit to complete and launches again.
WaitExited(e) ==
    /\ Goto(e, "waitShutdown", "check")
    /\ WaitShutdown({instances[e]})
    /\ UNCHANGED <<runnerVars, cancelled, group, command, process, late>>

\* Run: the worker that failed calls Shutdown, which has been called.
ReturnError(e) ==
    /\ interrupted
    /\ Goto(e, "error", "returned")
    /\ UNCHANGED <<runnerVars, instanceVars>>

Worker(e) ==
    \/ CheckInterrupted(e)
    \/ AddInstance(e)
    \/ Launch(e)
    \/ LaunchFailed(e)
    \/ LaunchFailedWait(e)
    \/ Retry(e)
    \/ Exited(e)
    \/ CheckShutdown(e)
    \/ WaitExited(e)
    \/ ReturnError(e)

-----------------------------------------------------------------------------
(* FlagsChanged, Ping and Restart, called by other goroutines. *)

\* The caller c proceeds from one step to another.
Proceed(c, from, to) ==
    /\ caller[c] = from
    /\ caller' = [caller EXCEPT ![c] = to]

\* A watchdog flag changes, and its observers are about to be told.
ChangeFlags(c) ==
    /\ config < MaxConfigs
    /\ Proceed(c, "idle", "flagsChanged")
    /\ config' = config + 1
    /\ UNCHANGED <<interrupted, shutdown, shutdownPc, needsRestart,
                   restartLock, instanceLock, instances, worker,
                   inModernStandby, standbyChanges, runs, instanceVars>>

\* A new osqueryd has been installed: the autoupdater calls Restart.
UpdateOsqueryd(c) ==
    /\ config < MaxConfigs
    /\ Proceed(c, "idle", "restart")
    /\ config' = config + 1
    /\ UNCHANGED <<interrupted, shutdown, shutdownPc, needsRestart,
                   restartLock, instanceLock, instances, worker,
                   inModernStandby, standbyChanges, runs, instanceVars>>

\* The device enters or leaves modern standby.
ChangeStandby(c) ==
    /\ standbyChanges < MaxStandby
    /\ Proceed(c, "idle", "standbyChanged")
    /\ inModernStandby' = ~inModernStandby
    /\ standbyChanges' = standbyChanges + 1
    /\ UNCHANGED <<interrupted, shutdown, shutdownPc, needsRestart,
                   restartLock, instanceLock, instances, worker, config, runs,
                   instanceVars>>

\* Ping: the KATC server of some tracked instance cannot be reloaded in
\* place, so all are restarted.  (A reload in place changes nothing here.)
Ping(c) ==
    /\ instanceLock = Nobody
    /\ Tracked # {}
    /\ Proceed(c, "idle", "restart")
    /\ UNCHANGED <<interrupted, shutdown, shutdownPc, needsRestart,
                   restartLock, instanceLock, instances, worker, config,
                   inModernStandby, standbyChanges, runs, instanceVars>>

\* Mutant of FlagsChanged: reads needsRestart without the restart lock.
FlagsChangedUnlocked(c) ==
    /\ \/ Proceed(c, "flagsChanged", "restart")
       \/ Proceed(c, "standbyChanged", IF needsRestart THEN "restart" ELSE "idle")
    /\ UNCHANGED <<interrupted, shutdown, shutdownPc, needsRestart,
                   restartLock, instanceLock, instances, worker, config,
                   inModernStandby, standbyChanges, runs, instanceVars>>

\* Mutant of FlagsChanged: never acts on a change of the standby flag.
FlagsChangedIgnoresWake(c) ==
    /\ restartLock = Nobody
    /\ \/ Proceed(c, "flagsChanged", "restart")
       \/ Proceed(c, "standbyChanged", "idle")
    /\ UNCHANGED <<interrupted, shutdown, shutdownPc, needsRestart,
                   restartLock, instanceLock, instances, worker, config,
                   inModernStandby, standbyChanges, runs, instanceVars>>

\* FlagsChanged: a change of the standby flag alone, with no restart
\* pending, is nothing to act on.
FlagsChanged(c) ==
    /\ restartLock = Nobody
    /\ \/ Proceed(c, "flagsChanged", "restart")
       \/ Proceed(c, "standbyChanged", IF needsRestart THEN "restart" ELSE "idle")
    /\ UNCHANGED <<interrupted, shutdown, shutdownPc, needsRestart,
                   restartLock, instanceLock, instances, worker, config,
                   inModernStandby, standbyChanges, runs, instanceVars>>

\* Restart, with the restart lock taken: look at the standby flag.
Restart(c) ==
    /\ restartLock = Nobody
    /\ restartLock' = c
    /\ IF inModernStandby
       THEN Proceed(c, "restart", "defer") /\ UNCHANGED needsRestart
       ELSE Proceed(c, "restart", "trigger") /\ needsRestart' = FALSE
    /\ UNCHANGED <<interrupted, shutdown, shutdownPc, instanceLock, instances,
                   worker, config, inModernStandby, standbyChanges, runs,
                   instanceVars>>

\* Restart in standby only notes that one is needed.
RestartDeferred(c) ==
    /\ Proceed(c, "defer", "idle")
    /\ needsRestart' = TRUE
    /\ restartLock' = Nobody
    /\ UNCHANGED <<interrupted, shutdown, shutdownPc, instanceLock, instances,
                   worker, config, inModernStandby, standbyChanges, runs,
                   instanceVars>>

\* triggerShutdownForInstances, called by Restart: under the instance lock
\* every tracked instance is told to shut down ...
RestartTriggers(c) ==
    /\ instanceLock = Nobody
    /\ instanceLock' = c
    /\ Proceed(c, "trigger", "wait")
    /\ BeginShutdown(Tracked)
    /\ UNCHANGED <<interrupted, shutdown, shutdownPc, needsRestart,
                   restartLock, instances, worker, config, inModernStandby,
                   standbyChanges, runs, group, command, process, history,
                   late>>

\* ... and waited for, and both locks are released.
RestartReturns(c) ==
    /\ Proceed(c, "wait", "idle")
    /\ WaitShutdown(Tracked)
    /\ restartLock' = Nobody
    /\ instanceLock' = Nobody
    /\ UNCHANGED <<interrupted, shutdown, shutdownPc, needsRestart, instances,
                   worker, config, inModernStandby, standbyChanges, runs,
                   cancelled, group, command, process, late>>

Caller(c) ==
    \/ FlagsChanged(c)
    \/ Restart(c)
    \/ RestartDeferred(c)
    \/ RestartTriggers(c)
    \/ RestartReturns(c)

-----------------------------------------------------------------------------
(* Shutdown, called by the Interrupt of the run group. *)

\* r.interrupted.Swap(true): only the first call goes on.
Shutdown ==
    /\ shutdownPc = "idle"
    /\ shutdownPc' = "close"
    /\ interrupted' = TRUE
    /\ UNCHANGED <<shutdown, needsRestart, restartLock, instanceLock,
                   instances, worker, caller, config, inModernStandby,
                   standbyChanges, runs, instanceVars>>

ShutdownCloses ==
    /\ shutdownPc = "close"
    /\ shutdownPc' = "trigger"
    /\ shutdown' = TRUE
    /\ UNCHANGED <<interrupted, needsRestart, restartLock, instanceLock,
                   instances, worker, caller, config, inModernStandby,
                   standbyChanges, runs, instanceVars>>

ShutdownTriggers ==
    /\ shutdownPc = "trigger"
    /\ instanceLock = Nobody
    /\ shutdownPc' = "wait"
    /\ instanceLock' = Interrupter
    /\ BeginShutdown(Tracked)
    /\ UNCHANGED <<interrupted, shutdown, needsRestart, restartLock,
                   instances, worker, caller, config, inModernStandby,
                   standbyChanges, runs, group, command, process, history,
                   late>>

ShutdownReturns ==
    /\ shutdownPc = "wait"
    /\ shutdownPc' = "returned"
    /\ instanceLock' = Nobody
    /\ WaitShutdown(Tracked)
    /\ UNCHANGED <<interrupted, shutdown, needsRestart, restartLock,
                   instances, worker, caller, config, inModernStandby,
                   standbyChanges, runs, cancelled, group, command, process,
                   late>>

Next ==
    \/ \E e \in Enrollments : Worker(e) \/ ServeFails(e)
    \/ \E c \in Callers :
          \/ ChangeFlags(c)
          \/ UpdateOsqueryd(c)
          \/ ChangeStandby(c)
          \/ Ping(c)
          \/ Caller(c)
    \/ Shutdown
    \/ ShutdownCloses
    \/ ShutdownTriggers
    \/ ShutdownReturns
    \/ \E n \in Runs :
          \/ KillOsqueryProcess(n)
          \/ MonitorReturns(n)
          \/ OsquerydExits(n)

Spec == Init /\ [][Next]_vars

\* Goroutines that can run do run, waits with a timeout end, and the mutexes
\* starve nobody (sync.Mutex hands over to the longest waiter).  Nothing
\* is assumed of the environment: osqueryd and the servers need not fail,
\* flags need not change, Shutdown need not be called.
Fairness ==
    /\ \A e \in Enrollments : WF_vars(Worker(e)) /\ SF_vars(AddInstance(e))
    /\ \A c \in Callers : SF_vars(FlagsChanged(c) \/ Restart(c))
                       /\ SF_vars(RestartTriggers(c))
                       /\ WF_vars(RestartDeferred(c) \/ RestartReturns(c))
    /\ WF_vars(ShutdownCloses)
    /\ SF_vars(ShutdownTriggers)
    /\ WF_vars(ShutdownReturns)
    /\ \A n \in Runs : WF_vars(KillOsqueryProcess(n) \/ MonitorReturns(n))

FairSpec == Spec /\ Fairness

-----------------------------------------------------------------------------
(* Properties. *)

\* An instance leaves r.instances only after its context has been
\* cancelled, and with its exit in the history: launchInstanceWithRetries
\* replaces it when its Launch failed or when it exited, never a live one.
ReplacedAreShutDown ==
    \A n \in 1..runs : n \notin Tracked => /\ n \in cancelled
                                           /\ history[n] \in {"none", "exited"}

\* "We only receive an error on launch if the runner has been shut down"
\* (runInstance): the Shutdown that Run then calls never has to do anything.
LaunchErrorMeansShutdown ==
    \A e \in Enrollments : worker[e] = "error" => interrupted

\* Goroutines on their way to triggerShutdownForInstances.
Restarting == {c \in Callers : caller[c] \in {"flagsChanged", "restart",
                                             "defer", "trigger"}}

\* A tracked instance that nobody has told to shut down runs with the
\* current flags and osqueryd, or a restart is on its way: Restart never
\* misses an instance that a worker is launching at the same time.
NoStaleConfig ==
    \A n \in Tracked \ cancelled :
        \/ command[n] \in {config, NoConfig}
        \/ needsRestart
        \/ Restarting # {}

\* A restart put off by modern standby is not lost when the device wakes up
\* while Restart is putting it off: a FlagsChanged that will see it is
\* still to come (the restart lock is there for this).
RestartNotLost ==
    needsRestart /\ ~inModernStandby =>
        \E c \in Callers : caller[c] \in {"standbyChanged", "restart"}

\* A running osqueryd has a goroutine left that kills it on shutdown,
\* unless it was started after its instance had been told to shut down.
RunningIsKillable ==
    \A n \in Runs : process[n] = "running" => "kill" \in group[n] \/ n \in late

\* Every instance is accounted for, whatever Restart, Shutdown and the workers
\* do at the same time: the replaced, the failed, the running and the stale.
InstancesAccounted ==
    /\ ReplacedAreShutDown
    /\ LaunchErrorMeansShutdown
    /\ RunningIsKillable
    /\ NoStaleConfig

\* Once Shutdown has begun, the worker of an instance that has been told to
\* shut down returns, wherever it is (except for the window between the
\* check of r.interrupted and the entry in r.instances).
ShutdownEndsWorker ==
    \A e \in Enrollments :
        (interrupted /\ instances[e] \in cancelled /\ worker[e] # "add")
            ~> (worker[e] = "returned")

\* A worker whose instance exited is never stuck behind it: it comes to
\* launch the next one, or returns.
Relaunches ==
    \A e \in Enrollments :
        (instances[e] \in cancelled) ~> (worker[e] \in {"add", "returned"})

\* The workers go on after an instance: to the next one, or to their end.
WorkersMoveOn == ShutdownEndsWorker /\ Relaunches

\* If the device stays awake, a change of flags or of osqueryd is applied:
\* no live instance keeps running with the configuration of before.
ConfigApplied ==
    <>[]~inModernStandby =>
        []<>(\A n \in Tracked \ cancelled : command[n] \in {config, NoConfig})

\* Violated by the code.  Shutdown "permanently stop[s] the running
\* instance": when it and the workers have returned, every osqueryd is gone,
\* or about to be killed, or could not be killed.
ShutdownStopsOsquery ==
    shutdownPc = "returned" /\ (\A e \in Enrollments : worker[e] = "returned")
        => \A n \in Runs : process[n] = "running" => "kill" \in group[n]

=============================================================================
