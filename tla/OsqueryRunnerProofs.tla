------------------------ MODULE OsqueryRunnerProofs ------------------------
(***************************************************************************)
(* The safety properties of OsqueryRunner, for any set of enrollments, any *)
(* set of calling goroutines and any bounds.                               *)
(*                                                                         *)
(* The inductive invariant is built from five parts, each preserved by     *)
(* every step given the types and, where said, the parts before it:        *)
(*   ShutdownInv  who may have seen r.interrupted and r.shutdown set;      *)
(*   WakeInv      what the restart lock protects;                          *)
(*   RunsInv      which run belongs to which worker, and that a run not    *)
(*                yet created is blank;                                    *)
(*   KillInv      what stands between an osqueryd and its kill goroutine;  *)
(*   ExitInv      what has been done to an instance before it is replaced. *)
(* NoStaleConfig is inductive given RunsInv.                               *)
(***************************************************************************)
EXTENDS OsqueryRunner, TLAPS

\* Shutdown sets r.interrupted first, and every other trace of it later.
ShutdownInv ==
    /\ shutdownPc # "idle" => interrupted
    /\ shutdown => interrupted
    /\ LaunchErrorMeansShutdown

\* A Restart past its first step holds the restart lock; while it is putting
\* the restart off, a wake-up has its FlagsChanged still to come.
WakeInv ==
    /\ \A c \in Callers : caller[c] \in {"defer", "trigger", "wait"} => restartLock = c
    /\ ~inModernStandby /\ (needsRestart \/ \E c \in Callers : caller[c] = "defer")
         => \E c \in Callers : caller[c] \in {"standbyChanged", "restart"}

\* The steps of a worker that has an instance of its own in r.instances.
HasInstance == LaunchSteps \cup
    {"failed", "failedWait", "retry", "running", "exited", "waitShutdown"}

RunsInv ==
    /\ \A e \in Enrollments : instances[e] \in 0..runs
    /\ \A e \in Enrollments : worker[e] \in HasInstance => instances[e] \in Runs
    /\ \A e, f \in Enrollments :
          instances[e] = instances[f] => e = f \/ instances[e] = NoRun
    /\ \A n \in Runs : n > runs => process[n] = "none" /\ command[n] = NoConfig

\* Until a process is started, the goroutine that is to kill it has either
\* not run or found the context cancelled before the start.
KillInv ==
    /\ RunningIsKillable
    /\ \A e \in Enrollments :
          worker[e] \in {"prepare", "command", "start"} => process[instances[e]] = "none"
    /\ \A e \in Enrollments :
          worker[e] \in {"command", "start"} =>
              "kill" \in group[instances[e]] \/ instances[e] \in cancelled

Settled(n) == n \in cancelled /\ history[n] \in {"none", "exited"}

\* A worker on its way to the next launch leaves a settled instance behind.
ExitInv ==
    /\ \A n \in 1..runs : n \notin Tracked => Settled(n)
    /\ \A e \in Enrollments :
          worker[e] \in {"failedWait", "exited", "waitShutdown"} => instances[e] \in cancelled
    /\ \A e \in Enrollments :
          worker[e] \in {"retry", "check", "add"} =>
              instances[e] = NoRun \/ Settled(instances[e])

IInv == /\ TypeOK /\ ShutdownInv /\ WakeInv /\ RunsInv
        /\ KillInv /\ ExitInv /\ NoStaleConfig

-----------------------------------------------------------------------------

\* What r.instances holds are runs.
LEMMA TrackedRuns == TypeOK => Tracked \subseteq Runs
BY DEF TypeOK, Tracked

\* In the initial state nothing is launched and nobody is calling.
LEMMA InitIInv == Init => IInv
<1> SUFFICES ASSUME Init PROVE IInv
  OBVIOUS
<1> USE RunnerAssumption DEF Init, Runs, NoRun, NoConfig
<1>1. TypeOK
  <2>1. /\ interrupted \in BOOLEAN /\ shutdown \in BOOLEAN
        /\ needsRestart \in BOOLEAN /\ inModernStandby \in BOOLEAN
    BY ZenonT(30)
  <2>2. /\ shutdownPc \in ShutdownSteps
        /\ worker \in [Enrollments -> WorkerSteps]
        /\ caller \in [Callers -> CallerSteps]
    BY DEF WorkerSteps, CallerSteps, ShutdownSteps
  <2>3. /\ config \in 0..MaxConfigs /\ standbyChanges \in 0..MaxStandby
        /\ runs \in 0..MaxRuns
        /\ command \in [Runs -> 0..NoConfig]
    OBVIOUS
  <2>4. /\ restartLock \in Callers \cup {Nobody}
        /\ instanceLock \in Callers \cup {Nobody, Interrupter}
        /\ instances \in [Enrollments -> {NoRun} \cup Runs]
        /\ cancelled \in SUBSET Runs /\ late \in SUBSET Runs
        /\ group \in [Runs -> SUBSET Goroutines]
        /\ process \in [Runs -> {"none", "running", "unkillable", "exited"}]
        /\ history \in [Runs -> {"none", "running", "exited"}]
    OBVIOUS
  <2> QED
    BY <2>1, <2>2, <2>3, <2>4 DEF TypeOK
<1>2. ShutdownInv
  BY DEF ShutdownInv, LaunchErrorMeansShutdown
<1>3. WakeInv
  BY DEF WakeInv
<1>4. RunsInv
  BY DEF RunsInv, HasInstance, LaunchSteps
<1>5. KillInv
  BY DEF KillInv, RunningIsKillable
<1>6. ExitInv
  BY DEF ExitInv
<1>7. NoStaleConfig
  BY DEF NoStaleConfig, Tracked
<1> QED
  BY <1>1, <1>2, <1>3, <1>4, <1>5, <1>6, <1>7 DEF IInv

\* Every step keeps the types.  That a worker past AddInstance has a run is
\* part of RunsInv.
LEMMA TypeStep ==
    ASSUME TypeOK, RunsInv, [Next]_vars PROVE TypeOK'
<1> USE RunnerAssumption DEF TypeOK, RunsInv, HasInstance, Runs, NoRun,
            NoConfig, Goroutines, LaunchSteps, WorkerSteps, CallerSteps,
            ShutdownSteps, BeginShutdown, WaitShutdown, Goto, Proceed,
            StartGoroutine, runnerVars, instanceVars
<1>1. ASSUME NEW e \in Enrollments, CheckInterrupted(e) PROVE TypeOK'
  BY <1>1 DEF CheckInterrupted
<1>2. ASSUME NEW e \in Enrollments, AddInstance(e) PROVE TypeOK'
  BY <1>2 DEF AddInstance
<1>3. ASSUME NEW e \in Enrollments, LaunchPrepare(e) PROVE TypeOK'
  BY <1>3 DEF LaunchPrepare
<1>4. ASSUME NEW e \in Enrollments, LaunchCommand(e) PROVE TypeOK'
  BY <1>4 DEF LaunchCommand
<1>5. ASSUME NEW e \in Enrollments, LaunchStart(e) PROVE TypeOK'
  BY ZenonT(30), <1>5 DEF LaunchStart
<1>6. ASSUME NEW e \in Enrollments, LaunchSocket(e) PROVE TypeOK'
  BY <1>6 DEF LaunchSocket
<1>7. ASSUME NEW e \in Enrollments, LaunchConnect(e) PROVE TypeOK'
  BY <1>7 DEF LaunchConnect
<1>8. ASSUME NEW e \in Enrollments, LaunchFails(e) PROVE TypeOK'
  BY <1>8 DEF LaunchFails
<1>9. ASSUME NEW e \in Enrollments, LaunchFailed(e) PROVE TypeOK'
  BY ZenonT(30), <1>9 DEF LaunchFailed
<1>10. ASSUME NEW e \in Enrollments, LaunchFailedWait(e) PROVE TypeOK'
  BY SMTT(30), <1>10 DEF LaunchFailedWait
<1>11. ASSUME NEW e \in Enrollments, Retry(e) PROVE TypeOK'
  BY ZenonT(30), <1>11 DEF Retry
<1>12. ASSUME NEW e \in Enrollments, Exited(e) PROVE TypeOK'
  BY <1>12 DEF Exited
<1>13. ASSUME NEW e \in Enrollments, CheckShutdown(e) PROVE TypeOK'
  BY <1>13 DEF CheckShutdown
<1>14. ASSUME NEW e \in Enrollments, WaitExited(e) PROVE TypeOK'
  BY SMTT(30), <1>14 DEF WaitExited
<1>15. ASSUME NEW e \in Enrollments, ReturnError(e) PROVE TypeOK'
  BY <1>15 DEF ReturnError
<1>16. ASSUME NEW e \in Enrollments, ServeFails(e) PROVE TypeOK'
  BY ZenonT(30), <1>16 DEF ServeFails
<1>17. ASSUME NEW c \in Callers, ChangeFlags(c) PROVE TypeOK'
  BY <1>17 DEF ChangeFlags
<1>18. ASSUME NEW c \in Callers, UpdateOsqueryd(c) PROVE TypeOK'
  BY <1>18 DEF UpdateOsqueryd
<1>19. ASSUME NEW c \in Callers, ChangeStandby(c) PROVE TypeOK'
  BY <1>19 DEF ChangeStandby
<1>20. ASSUME NEW c \in Callers, Ping(c) PROVE TypeOK'
  BY <1>20 DEF Ping
<1>21. ASSUME NEW c \in Callers, FlagsChanged(c) PROVE TypeOK'
  BY <1>21 DEF FlagsChanged
<1>22. ASSUME NEW c \in Callers, Restart(c) PROVE TypeOK'
  BY ZenonT(30), <1>22 DEF Restart
<1>23. ASSUME NEW c \in Callers, RestartDeferred(c) PROVE TypeOK'
  BY <1>23 DEF RestartDeferred
<1>24. ASSUME NEW c \in Callers, RestartTriggers(c) PROVE TypeOK'
  BY ZenonT(30), <1>24, TrackedRuns DEF RestartTriggers
<1>25. ASSUME NEW c \in Callers, RestartReturns(c) PROVE TypeOK'
  BY <1>25 DEF RestartReturns
<1>26. CASE Shutdown
  BY <1>26 DEF Shutdown
<1>27. CASE ShutdownCloses
  BY <1>27 DEF ShutdownCloses
<1>28. CASE ShutdownTriggers
  BY ZenonT(30), <1>28, TrackedRuns DEF ShutdownTriggers
<1>29. CASE ShutdownReturns
  BY <1>29 DEF ShutdownReturns
<1>30. ASSUME NEW n \in Runs, KillOsqueryProcess(n) PROVE TypeOK'
  BY SMTT(30), <1>30 DEF KillOsqueryProcess
<1>31. ASSUME NEW n \in Runs, MonitorReturns(n) PROVE TypeOK'
  BY <1>31 DEF MonitorReturns
<1>32. ASSUME NEW n \in Runs, OsquerydExits(n) PROVE TypeOK'
  BY SMTT(30), <1>32 DEF OsquerydExits
<1>33. CASE UNCHANGED vars
  BY <1>33 DEF vars
<1> QED
  BY ZenonT(30), <1>1, <1>2, <1>3, <1>4, <1>5, <1>6, <1>7, <1>8, <1>9, <1>10, <1>11,
     <1>12, <1>13, <1>14, <1>15, <1>16, <1>17, <1>18, <1>19, <1>20, <1>21,
     <1>22, <1>23, <1>24, <1>25, <1>26, <1>27, <1>28, <1>29, <1>30, <1>31,
     <1>32, <1>33
  DEF Next, Worker, Launch, Caller

\* r.interrupted, once set, stays set; what follows it finds it set.
LEMMA ShutdownStep ==
    ASSUME TypeOK, ShutdownInv, [Next]_vars PROVE ShutdownInv'
<1> USE DEF TypeOK, ShutdownInv, LaunchErrorMeansShutdown, LaunchSteps, Goto,
            Proceed, StartGoroutine, runnerVars, instanceVars
<1>1. ASSUME NEW e \in Enrollments, CheckInterrupted(e) PROVE ShutdownInv'
  BY <1>1 DEF CheckInterrupted
<1>2. ASSUME NEW e \in Enrollments, AddInstance(e) PROVE ShutdownInv'
  BY <1>2 DEF AddInstance
<1>3. ASSUME NEW e \in Enrollments, LaunchPrepare(e) PROVE ShutdownInv'
  BY <1>3 DEF LaunchPrepare
<1>4. ASSUME NEW e \in Enrollments, LaunchCommand(e) PROVE ShutdownInv'
  BY <1>4 DEF LaunchCommand
<1>5. ASSUME NEW e \in Enrollments, LaunchStart(e) PROVE ShutdownInv'
  BY <1>5 DEF LaunchStart
<1>6. ASSUME NEW e \in Enrollments, LaunchSocket(e) PROVE ShutdownInv'
  BY <1>6 DEF LaunchSocket
<1>7. ASSUME NEW e \in Enrollments, LaunchConnect(e) PROVE ShutdownInv'
  BY <1>7 DEF LaunchConnect
<1>8. ASSUME NEW e \in Enrollments, LaunchFails(e) PROVE ShutdownInv'
  BY <1>8 DEF LaunchFails
<1>9. ASSUME NEW e \in Enrollments, LaunchFailed(e) PROVE ShutdownInv'
  BY <1>9 DEF LaunchFailed
<1>10. ASSUME NEW e \in Enrollments, LaunchFailedWait(e) PROVE ShutdownInv'
  BY <1>10 DEF LaunchFailedWait
<1>11. ASSUME NEW e \in Enrollments, Retry(e) PROVE ShutdownInv'
  BY <1>11 DEF Retry
<1>12. ASSUME NEW e \in Enrollments, Exited(e) PROVE ShutdownInv'
  BY <1>12 DEF Exited
<1>13. ASSUME NEW e \in Enrollments, CheckShutdown(e) PROVE ShutdownInv'
  BY <1>13 DEF CheckShutdown
<1>14. ASSUME NEW e \in Enrollments, WaitExited(e) PROVE ShutdownInv'
  BY <1>14 DEF WaitExited
<1>15. ASSUME NEW e \in Enrollments, ReturnError(e) PROVE ShutdownInv'
  BY <1>15 DEF ReturnError
<1>16. ASSUME NEW e \in Enrollments, ServeFails(e) PROVE ShutdownInv'
  BY <1>16 DEF ServeFails
<1>17. ASSUME NEW c \in Callers, ChangeFlags(c) PROVE ShutdownInv'
  BY <1>17 DEF ChangeFlags
<1>18. ASSUME NEW c \in Callers, UpdateOsqueryd(c) PROVE ShutdownInv'
  BY <1>18 DEF UpdateOsqueryd
<1>19. ASSUME NEW c \in Callers, ChangeStandby(c) PROVE ShutdownInv'
  BY <1>19 DEF ChangeStandby
<1>20. ASSUME NEW c \in Callers, Ping(c) PROVE ShutdownInv'
  BY <1>20 DEF Ping
<1>21. ASSUME NEW c \in Callers, FlagsChanged(c) PROVE ShutdownInv'
  BY <1>21 DEF FlagsChanged
<1>22. ASSUME NEW c \in Callers, Restart(c) PROVE ShutdownInv'
  BY <1>22 DEF Restart
<1>23. ASSUME NEW c \in Callers, RestartDeferred(c) PROVE ShutdownInv'
  BY <1>23 DEF RestartDeferred
<1>24. ASSUME NEW c \in Callers, RestartTriggers(c) PROVE ShutdownInv'
  BY <1>24 DEF RestartTriggers
<1>25. ASSUME NEW c \in Callers, RestartReturns(c) PROVE ShutdownInv'
  BY <1>25 DEF RestartReturns
<1>26. CASE Shutdown
  BY <1>26 DEF Shutdown
<1>27. CASE ShutdownCloses
  BY <1>27 DEF ShutdownCloses
<1>28. CASE ShutdownTriggers
  BY <1>28 DEF ShutdownTriggers
<1>29. CASE ShutdownReturns
  BY <1>29 DEF ShutdownReturns
<1>30. ASSUME NEW n \in Runs, KillOsqueryProcess(n) PROVE ShutdownInv'
  BY <1>30 DEF KillOsqueryProcess
<1>31. ASSUME NEW n \in Runs, MonitorReturns(n) PROVE ShutdownInv'
  BY <1>31 DEF MonitorReturns
<1>32. ASSUME NEW n \in Runs, OsquerydExits(n) PROVE ShutdownInv'
  BY <1>32 DEF OsquerydExits
<1>33. CASE UNCHANGED vars
  BY SMTT(30), <1>33 DEF vars
<1> QED
  BY <1>1, <1>2, <1>3, <1>4, <1>5, <1>6, <1>7, <1>8, <1>9, <1>10, <1>11,
     <1>12, <1>13, <1>14, <1>15, <1>16, <1>17, <1>18, <1>19, <1>20, <1>21,
     <1>22, <1>23, <1>24, <1>25, <1>26, <1>27, <1>28, <1>29, <1>30, <1>31,
     <1>32, <1>33
  DEF Next, Worker, Launch, Caller

\* A FlagsChanged that has to see the pending restart waits for the lock of
\* the Restart that is putting it off.
LEMMA WakeStep ==
    ASSUME TypeOK, WakeInv, [Next]_vars PROVE WakeInv'
<1> USE RunnerAssumption DEF TypeOK, WakeInv, Goto, Proceed, StartGoroutine,
            runnerVars, instanceVars
<1>1. ASSUME NEW e \in Enrollments, CheckInterrupted(e) PROVE WakeInv'
  BY <1>1 DEF CheckInterrupted
<1>2. ASSUME NEW e \in Enrollments, AddInstance(e) PROVE WakeInv'
  BY <1>2 DEF AddInstance
<1>3. ASSUME NEW e \in Enrollments, LaunchPrepare(e) PROVE WakeInv'
  BY <1>3 DEF LaunchPrepare
<1>4. ASSUME NEW e \in Enrollments, LaunchCommand(e) PROVE WakeInv'
  BY <1>4 DEF LaunchCommand
<1>5. ASSUME NEW e \in Enrollments, LaunchStart(e) PROVE WakeInv'
  BY <1>5 DEF LaunchStart
<1>6. ASSUME NEW e \in Enrollments, LaunchSocket(e) PROVE WakeInv'
  BY <1>6 DEF LaunchSocket
<1>7. ASSUME NEW e \in Enrollments, LaunchConnect(e) PROVE WakeInv'
  BY <1>7 DEF LaunchConnect
<1>8. ASSUME NEW e \in Enrollments, LaunchFails(e) PROVE WakeInv'
  BY <1>8 DEF LaunchFails
<1>9. ASSUME NEW e \in Enrollments, LaunchFailed(e) PROVE WakeInv'
  BY <1>9 DEF LaunchFailed
<1>10. ASSUME NEW e \in Enrollments, LaunchFailedWait(e) PROVE WakeInv'
  BY <1>10 DEF LaunchFailedWait
<1>11. ASSUME NEW e \in Enrollments, Retry(e) PROVE WakeInv'
  BY <1>11 DEF Retry
<1>12. ASSUME NEW e \in Enrollments, Exited(e) PROVE WakeInv'
  BY <1>12 DEF Exited
<1>13. ASSUME NEW e \in Enrollments, CheckShutdown(e) PROVE WakeInv'
  BY <1>13 DEF CheckShutdown
<1>14. ASSUME NEW e \in Enrollments, WaitExited(e) PROVE WakeInv'
  BY <1>14 DEF WaitExited
<1>15. ASSUME NEW e \in Enrollments, ReturnError(e) PROVE WakeInv'
  BY <1>15 DEF ReturnError
<1>16. ASSUME NEW e \in Enrollments, ServeFails(e) PROVE WakeInv'
  BY <1>16 DEF ServeFails
<1>17. ASSUME NEW c \in Callers, ChangeFlags(c) PROVE WakeInv'
  BY <1>17 DEF ChangeFlags
<1>18. ASSUME NEW c \in Callers, UpdateOsqueryd(c) PROVE WakeInv'
  BY <1>18 DEF UpdateOsqueryd
<1>19. ASSUME NEW c \in Callers, ChangeStandby(c) PROVE WakeInv'
  BY <1>19 DEF ChangeStandby
<1>20. ASSUME NEW c \in Callers, Ping(c) PROVE WakeInv'
  BY <1>20 DEF Ping
<1>21. ASSUME NEW c \in Callers, FlagsChanged(c) PROVE WakeInv'
  BY <1>21 DEF FlagsChanged
<1>22. ASSUME NEW c \in Callers, Restart(c) PROVE WakeInv'
  BY <1>22 DEF Restart
<1>23. ASSUME NEW c \in Callers, RestartDeferred(c) PROVE WakeInv'
  BY <1>23 DEF RestartDeferred
<1>24. ASSUME NEW c \in Callers, RestartTriggers(c) PROVE WakeInv'
  BY <1>24 DEF RestartTriggers
<1>25. ASSUME NEW c \in Callers, RestartReturns(c) PROVE WakeInv'
  BY <1>25 DEF RestartReturns
<1>26. CASE Shutdown
  BY <1>26 DEF Shutdown
<1>27. CASE ShutdownCloses
  BY <1>27 DEF ShutdownCloses
<1>28. CASE ShutdownTriggers
  BY <1>28 DEF ShutdownTriggers
<1>29. CASE ShutdownReturns
  BY <1>29 DEF ShutdownReturns
<1>30. ASSUME NEW n \in Runs, KillOsqueryProcess(n) PROVE WakeInv'
  BY <1>30 DEF KillOsqueryProcess
<1>31. ASSUME NEW n \in Runs, MonitorReturns(n) PROVE WakeInv'
  BY <1>31 DEF MonitorReturns
<1>32. ASSUME NEW n \in Runs, OsquerydExits(n) PROVE WakeInv'
  BY <1>32 DEF OsquerydExits
<1>33. CASE UNCHANGED vars
  BY <1>33 DEF vars
<1> QED
  BY SMTT(30), <1>1, <1>2, <1>3, <1>4, <1>5, <1>6, <1>7, <1>8, <1>9, <1>10, <1>11,
     <1>12, <1>13, <1>14, <1>15, <1>16, <1>17, <1>18, <1>19, <1>20, <1>21,
     <1>22, <1>23, <1>24, <1>25, <1>26, <1>27, <1>28, <1>29, <1>30, <1>31,
     <1>32, <1>33
  DEF Next, Worker, Launch, Caller

\* Only AddInstance creates a run, under a new number.
LEMMA RunsStep ==
    ASSUME TypeOK, RunsInv, [Next]_vars PROVE RunsInv'
<1> USE RunnerAssumption DEF TypeOK, RunsInv, HasInstance, LaunchSteps, Runs,
            NoRun, NoConfig, Goto, Proceed, StartGoroutine, runnerVars,
            instanceVars
<1>1. ASSUME NEW e \in Enrollments, CheckInterrupted(e) PROVE RunsInv'
  BY <1>1 DEF CheckInterrupted
<1>2. ASSUME NEW e \in Enrollments, AddInstance(e) PROVE RunsInv'
  BY <1>2 DEF AddInstance
<1>3. ASSUME NEW e \in Enrollments, LaunchPrepare(e) PROVE RunsInv'
  BY <1>3 DEF LaunchPrepare
<1>4. ASSUME NEW e \in Enrollments, LaunchCommand(e) PROVE RunsInv'
  BY <1>4 DEF LaunchCommand
<1>5. ASSUME NEW e \in Enrollments, LaunchStart(e) PROVE RunsInv'
  BY <1>5 DEF LaunchStart
<1>6. ASSUME NEW e \in Enrollments, LaunchSocket(e) PROVE RunsInv'
  BY <1>6 DEF LaunchSocket
<1>7. ASSUME NEW e \in Enrollments, LaunchConnect(e) PROVE RunsInv'
  BY <1>7 DEF LaunchConnect
<1>8. ASSUME NEW e \in Enrollments, LaunchFails(e) PROVE RunsInv'
  BY <1>8 DEF LaunchFails
<1>9. ASSUME NEW e \in Enrollments, LaunchFailed(e) PROVE RunsInv'
  BY <1>9 DEF LaunchFailed
<1>10. ASSUME NEW e \in Enrollments, LaunchFailedWait(e) PROVE RunsInv'
  BY <1>10 DEF LaunchFailedWait
<1>11. ASSUME NEW e \in Enrollments, Retry(e) PROVE RunsInv'
  BY <1>11 DEF Retry
<1>12. ASSUME NEW e \in Enrollments, Exited(e) PROVE RunsInv'
  BY <1>12 DEF Exited
<1>13. ASSUME NEW e \in Enrollments, CheckShutdown(e) PROVE RunsInv'
  BY <1>13 DEF CheckShutdown
<1>14. ASSUME NEW e \in Enrollments, WaitExited(e) PROVE RunsInv'
  BY <1>14 DEF WaitExited
<1>15. ASSUME NEW e \in Enrollments, ReturnError(e) PROVE RunsInv'
  BY <1>15 DEF ReturnError
<1>16. ASSUME NEW e \in Enrollments, ServeFails(e) PROVE RunsInv'
  BY <1>16 DEF ServeFails
<1>17. ASSUME NEW c \in Callers, ChangeFlags(c) PROVE RunsInv'
  BY <1>17 DEF ChangeFlags
<1>18. ASSUME NEW c \in Callers, UpdateOsqueryd(c) PROVE RunsInv'
  BY <1>18 DEF UpdateOsqueryd
<1>19. ASSUME NEW c \in Callers, ChangeStandby(c) PROVE RunsInv'
  BY <1>19 DEF ChangeStandby
<1>20. ASSUME NEW c \in Callers, Ping(c) PROVE RunsInv'
  BY <1>20 DEF Ping
<1>21. ASSUME NEW c \in Callers, FlagsChanged(c) PROVE RunsInv'
  BY <1>21 DEF FlagsChanged
<1>22. ASSUME NEW c \in Callers, Restart(c) PROVE RunsInv'
  BY <1>22 DEF Restart
<1>23. ASSUME NEW c \in Callers, RestartDeferred(c) PROVE RunsInv'
  BY <1>23 DEF RestartDeferred
<1>24. ASSUME NEW c \in Callers, RestartTriggers(c) PROVE RunsInv'
  BY <1>24 DEF RestartTriggers
<1>25. ASSUME NEW c \in Callers, RestartReturns(c) PROVE RunsInv'
  BY <1>25 DEF RestartReturns
<1>26. CASE Shutdown
  BY <1>26 DEF Shutdown
<1>27. CASE ShutdownCloses
  BY <1>27 DEF ShutdownCloses
<1>28. CASE ShutdownTriggers
  BY <1>28 DEF ShutdownTriggers
<1>29. CASE ShutdownReturns
  BY <1>29 DEF ShutdownReturns
<1>30. ASSUME NEW n \in Runs, KillOsqueryProcess(n) PROVE RunsInv'
  BY <1>30 DEF KillOsqueryProcess
<1>31. ASSUME NEW n \in Runs, MonitorReturns(n) PROVE RunsInv'
  BY <1>31 DEF MonitorReturns
<1>32. ASSUME NEW n \in Runs, OsquerydExits(n) PROVE RunsInv'
  BY <1>32 DEF OsquerydExits
<1>33. CASE UNCHANGED vars
  BY <1>33 DEF vars
<1> QED
  BY ZenonT(30), <1>1, <1>2, <1>3, <1>4, <1>5, <1>6, <1>7, <1>8, <1>9, <1>10, <1>11,
     <1>12, <1>13, <1>14, <1>15, <1>16, <1>17, <1>18, <1>19, <1>20, <1>21,
     <1>22, <1>23, <1>24, <1>25, <1>26, <1>27, <1>28, <1>29, <1>30, <1>31,
     <1>32, <1>33
  DEF Next, Worker, Launch, Caller

\* The kill goroutine goes only once the context is cancelled.
LEMMA KillStep ==
    ASSUME TypeOK, RunsInv, KillInv, [Next]_vars PROVE KillInv'
<1> USE RunnerAssumption DEF TypeOK, RunsInv, HasInstance, LaunchSteps, Runs,
            NoRun, KillInv, RunningIsKillable, BeginShutdown, Goto, Proceed,
            StartGoroutine, runnerVars, instanceVars
<1>1. ASSUME NEW e \in Enrollments, CheckInterrupted(e) PROVE KillInv'
  BY <1>1 DEF CheckInterrupted
<1>2. ASSUME NEW e \in Enrollments, AddInstance(e) PROVE KillInv'
  BY <1>2 DEF AddInstance
<1>3. ASSUME NEW e \in Enrollments, LaunchPrepare(e) PROVE KillInv'
  BY <1>3 DEF LaunchPrepare
<1>4. ASSUME NEW e \in Enrollments, LaunchCommand(e) PROVE KillInv'
  BY <1>4 DEF LaunchCommand
<1>5. ASSUME NEW e \in Enrollments, LaunchStart(e) PROVE KillInv'
  BY <1>5 DEF LaunchStart
<1>6. ASSUME NEW e \in Enrollments, LaunchSocket(e) PROVE KillInv'
  BY <1>6 DEF LaunchSocket
<1>7. ASSUME NEW e \in Enrollments, LaunchConnect(e) PROVE KillInv'
  BY <1>7 DEF LaunchConnect
<1>8. ASSUME NEW e \in Enrollments, LaunchFails(e) PROVE KillInv'
  BY <1>8 DEF LaunchFails
<1>9. ASSUME NEW e \in Enrollments, LaunchFailed(e) PROVE KillInv'
  BY <1>9 DEF LaunchFailed
<1>10. ASSUME NEW e \in Enrollments, LaunchFailedWait(e) PROVE KillInv'
  BY <1>10 DEF LaunchFailedWait
<1>11. ASSUME NEW e \in Enrollments, Retry(e) PROVE KillInv'
  BY <1>11 DEF Retry
<1>12. ASSUME NEW e \in Enrollments, Exited(e) PROVE KillInv'
  BY <1>12 DEF Exited
<1>13. ASSUME NEW e \in Enrollments, CheckShutdown(e) PROVE KillInv'
  BY <1>13 DEF CheckShutdown
<1>14. ASSUME NEW e \in Enrollments, WaitExited(e) PROVE KillInv'
  BY <1>14 DEF WaitExited
<1>15. ASSUME NEW e \in Enrollments, ReturnError(e) PROVE KillInv'
  BY <1>15 DEF ReturnError
<1>16. ASSUME NEW e \in Enrollments, ServeFails(e) PROVE KillInv'
  BY <1>16 DEF ServeFails
<1>17. ASSUME NEW c \in Callers, ChangeFlags(c) PROVE KillInv'
  BY <1>17 DEF ChangeFlags
<1>18. ASSUME NEW c \in Callers, UpdateOsqueryd(c) PROVE KillInv'
  BY <1>18 DEF UpdateOsqueryd
<1>19. ASSUME NEW c \in Callers, ChangeStandby(c) PROVE KillInv'
  BY <1>19 DEF ChangeStandby
<1>20. ASSUME NEW c \in Callers, Ping(c) PROVE KillInv'
  BY <1>20 DEF Ping
<1>21. ASSUME NEW c \in Callers, FlagsChanged(c) PROVE KillInv'
  BY <1>21 DEF FlagsChanged
<1>22. ASSUME NEW c \in Callers, Restart(c) PROVE KillInv'
  BY <1>22 DEF Restart
<1>23. ASSUME NEW c \in Callers, RestartDeferred(c) PROVE KillInv'
  BY <1>23 DEF RestartDeferred
<1>24. ASSUME NEW c \in Callers, RestartTriggers(c) PROVE KillInv'
  BY <1>24 DEF RestartTriggers
<1>25. ASSUME NEW c \in Callers, RestartReturns(c) PROVE KillInv'
  BY <1>25 DEF RestartReturns
<1>26. CASE Shutdown
  BY <1>26 DEF Shutdown
<1>27. CASE ShutdownCloses
  BY <1>27 DEF ShutdownCloses
<1>28. CASE ShutdownTriggers
  BY <1>28 DEF ShutdownTriggers
<1>29. CASE ShutdownReturns
  BY <1>29 DEF ShutdownReturns
<1>30. ASSUME NEW n \in Runs, KillOsqueryProcess(n) PROVE KillInv'
  BY SMTT(30), <1>30 DEF KillOsqueryProcess
<1>31. ASSUME NEW n \in Runs, MonitorReturns(n) PROVE KillInv'
  BY <1>31 DEF MonitorReturns
<1>32. ASSUME NEW n \in Runs, OsquerydExits(n) PROVE KillInv'
  BY <1>32 DEF OsquerydExits
<1>33. CASE UNCHANGED vars
  BY <1>33 DEF vars
<1> QED
  BY ZenonT(30), <1>1, <1>2, <1>3, <1>4, <1>5, <1>6, <1>7, <1>8, <1>9, <1>10, <1>11,
     <1>12, <1>13, <1>14, <1>15, <1>16, <1>17, <1>18, <1>19, <1>20, <1>21,
     <1>22, <1>23, <1>24, <1>25, <1>26, <1>27, <1>28, <1>29, <1>30, <1>31,
     <1>32, <1>33
  DEF Next, Worker, Launch, Caller

\* An instance is settled before its worker comes to replace it.
LEMMA ExitStep ==
    ASSUME TypeOK, RunsInv, ExitInv, [Next]_vars PROVE ExitInv'
<1> USE RunnerAssumption DEF TypeOK, RunsInv, HasInstance, LaunchSteps, Runs,
            NoRun, ExitInv, Settled, Tracked, BeginShutdown, WaitShutdown,
            Goto, Proceed, StartGoroutine, runnerVars, instanceVars
<1>1. ASSUME NEW e \in Enrollments, CheckInterrupted(e) PROVE ExitInv'
  BY SMTT(30), <1>1 DEF CheckInterrupted
<1>2. ASSUME NEW e \in Enrollments, AddInstance(e) PROVE ExitInv'
  BY SMTT(30), <1>2 DEF AddInstance
<1>3. ASSUME NEW e \in Enrollments, LaunchPrepare(e) PROVE ExitInv'
  BY SMTT(30), <1>3 DEF LaunchPrepare
<1>4. ASSUME NEW e \in Enrollments, LaunchCommand(e) PROVE ExitInv'
  BY SMTT(30), <1>4 DEF LaunchCommand
<1>5. ASSUME NEW e \in Enrollments, LaunchStart(e) PROVE ExitInv'
  BY SMTT(30), <1>5 DEF LaunchStart
<1>6. ASSUME NEW e \in Enrollments, LaunchSocket(e) PROVE ExitInv'
  BY SMTT(30), <1>6 DEF LaunchSocket
<1>7. ASSUME NEW e \in Enrollments, LaunchConnect(e) PROVE ExitInv'
  BY SMTT(30), <1>7 DEF LaunchConnect
<1>8. ASSUME NEW e \in Enrollments, LaunchFails(e) PROVE ExitInv'
  BY SMTT(30), <1>8 DEF LaunchFails
<1>9. ASSUME NEW e \in Enrollments, LaunchFailed(e) PROVE ExitInv'
  BY SMTT(30), <1>9 DEF LaunchFailed
<1>10. ASSUME NEW e \in Enrollments, LaunchFailedWait(e) PROVE ExitInv'
  BY SMTT(30), <1>10 DEF LaunchFailedWait
<1>11. ASSUME NEW e \in Enrollments, Retry(e) PROVE ExitInv'
  BY SMTT(30), <1>11 DEF Retry
<1>12. ASSUME NEW e \in Enrollments, Exited(e) PROVE ExitInv'
  BY SMTT(30), <1>12 DEF Exited
<1>13. ASSUME NEW e \in Enrollments, CheckShutdown(e) PROVE ExitInv'
  BY SMTT(30), <1>13 DEF CheckShutdown
<1>14. ASSUME NEW e \in Enrollments, WaitExited(e) PROVE ExitInv'
  BY SMTT(30), <1>14 DEF WaitExited
<1>15. ASSUME NEW e \in Enrollments, ReturnError(e) PROVE ExitInv'
  BY SMTT(30), <1>15 DEF ReturnError
<1>16. ASSUME NEW e \in Enrollments, ServeFails(e) PROVE ExitInv'
  BY SMTT(30), <1>16 DEF ServeFails
<1>17. ASSUME NEW c \in Callers, ChangeFlags(c) PROVE ExitInv'
  BY SMTT(30), <1>17 DEF ChangeFlags
<1>18. ASSUME NEW c \in Callers, UpdateOsqueryd(c) PROVE ExitInv'
  BY SMTT(30), <1>18 DEF UpdateOsqueryd
<1>19. ASSUME NEW c \in Callers, ChangeStandby(c) PROVE ExitInv'
  BY SMTT(30), <1>19 DEF ChangeStandby
<1>20. ASSUME NEW c \in Callers, Ping(c) PROVE ExitInv'
  BY SMTT(30), <1>20 DEF Ping
<1>21. ASSUME NEW c \in Callers, FlagsChanged(c) PROVE ExitInv'
  BY SMTT(30), <1>21 DEF FlagsChanged
<1>22. ASSUME NEW c \in Callers, Restart(c) PROVE ExitInv'
  BY SMTT(30), <1>22 DEF Restart
<1>23. ASSUME NEW c \in Callers, RestartDeferred(c) PROVE ExitInv'
  BY SMTT(30), <1>23 DEF RestartDeferred
<1>24. ASSUME NEW c \in Callers, RestartTriggers(c) PROVE ExitInv'
  BY SMTT(30), <1>24 DEF RestartTriggers
<1>25. ASSUME NEW c \in Callers, RestartReturns(c) PROVE ExitInv'
  BY SMTT(30), <1>25 DEF RestartReturns
<1>26. CASE Shutdown
  BY SMTT(30), <1>26 DEF Shutdown
<1>27. CASE ShutdownCloses
  BY SMTT(30), <1>27 DEF ShutdownCloses
<1>28. CASE ShutdownTriggers
  BY SMTT(30), <1>28 DEF ShutdownTriggers
<1>29. CASE ShutdownReturns
  BY SMTT(30), <1>29 DEF ShutdownReturns
<1>30. ASSUME NEW n \in Runs, KillOsqueryProcess(n) PROVE ExitInv'
  BY SMTT(30), <1>30 DEF KillOsqueryProcess
<1>31. ASSUME NEW n \in Runs, MonitorReturns(n) PROVE ExitInv'
  BY SMTT(30), <1>31 DEF MonitorReturns
<1>32. ASSUME NEW n \in Runs, OsquerydExits(n) PROVE ExitInv'
  BY SMTT(30), <1>32 DEF OsquerydExits
<1>33. CASE UNCHANGED vars
  BY SMTT(30), <1>33 DEF vars
<1> QED
  BY ZenonT(30), <1>1, <1>2, <1>3, <1>4, <1>5, <1>6, <1>7, <1>8, <1>9, <1>10, <1>11,
     <1>12, <1>13, <1>14, <1>15, <1>16, <1>17, <1>18, <1>19, <1>20, <1>21,
     <1>22, <1>23, <1>24, <1>25, <1>26, <1>27, <1>28, <1>29, <1>30, <1>31,
     <1>32, <1>33
  DEF Next, Worker, Launch, Caller

\* What a step must leave alone for NoStaleConfig to be kept: it cancels
\* what it likes, but lets go of no restart.
LEMMA ConfigFrame ==
    ASSUME NoStaleConfig,
           UNCHANGED <<instances, command, config>>,
           needsRestart => needsRestart',
           cancelled \subseteq cancelled',
           Restarting \subseteq Restarting'
    PROVE  NoStaleConfig'
BY DEF NoStaleConfig, Tracked

\* A change of the configuration brings a restart with it, and a restart
\* cancels whatever was tracked when it took the instance lock.
LEMMA ConfigStep ==
    ASSUME TypeOK, RunsInv, NoStaleConfig, [Next]_vars PROVE NoStaleConfig'
<1> USE DEF BeginShutdown, Goto, Proceed, StartGoroutine, runnerVars,
            instanceVars
<1>1. ASSUME NEW e \in Enrollments, CheckInterrupted(e) PROVE NoStaleConfig'
  BY <1>1, ConfigFrame DEF CheckInterrupted, Restarting
<1>2. ASSUME NEW e \in Enrollments, AddInstance(e) PROVE NoStaleConfig'
  <2>1. runs + 1 \in Runs /\ command[runs + 1] = NoConfig
    BY <1>2, RunnerAssumption DEF AddInstance, RunsInv, Runs, TypeOK
  <2>2. Tracked' \subseteq Tracked \cup {runs + 1}
    BY <1>2 DEF AddInstance, Tracked, TypeOK
  <2>3. /\ UNCHANGED <<command, config, needsRestart, cancelled>>
        /\ Restarting' = Restarting
    BY <1>2 DEF AddInstance, Restarting
  <2> QED
    BY <2>1, <2>2, <2>3 DEF NoStaleConfig
<1>3. ASSUME NEW e \in Enrollments, LaunchPrepare(e) PROVE NoStaleConfig'
  BY <1>3, ConfigFrame DEF LaunchPrepare, Restarting
<1>4. ASSUME NEW e \in Enrollments, LaunchCommand(e) PROVE NoStaleConfig'
  BY SMTT(30), <1>4 DEF LaunchCommand, RunsInv, HasInstance, LaunchSteps, TypeOK, NoStaleConfig, Restarting, Tracked
<1>5. ASSUME NEW e \in Enrollments, LaunchStart(e) PROVE NoStaleConfig'
  BY SMTT(30), <1>5, ConfigFrame DEF LaunchStart, Restarting
<1>6. ASSUME NEW e \in Enrollments, LaunchSocket(e) PROVE NoStaleConfig'
  BY <1>6, ConfigFrame DEF LaunchSocket, Restarting
<1>7. ASSUME NEW e \in Enrollments, LaunchConnect(e) PROVE NoStaleConfig'
  BY <1>7, ConfigFrame DEF LaunchConnect, Restarting
<1>8. ASSUME NEW e \in Enrollments, LaunchFails(e) PROVE NoStaleConfig'
  BY <1>8, ConfigFrame DEF LaunchFails, Restarting
<1>9. ASSUME NEW e \in Enrollments, LaunchFailed(e) PROVE NoStaleConfig'
  BY <1>9, ConfigFrame DEF LaunchFailed, Restarting
<1>10. ASSUME NEW e \in Enrollments, LaunchFailedWait(e) PROVE NoStaleConfig'
  BY <1>10, ConfigFrame DEF LaunchFailedWait, Restarting
<1>11. ASSUME NEW e \in Enrollments, Retry(e) PROVE NoStaleConfig'
  BY <1>11, ConfigFrame DEF Retry, Restarting
<1>12. ASSUME NEW e \in Enrollments, Exited(e) PROVE NoStaleConfig'
  BY <1>12, ConfigFrame DEF Exited, Restarting
<1>13. ASSUME NEW e \in Enrollments, CheckShutdown(e) PROVE NoStaleConfig'
  BY <1>13, ConfigFrame DEF CheckShutdown, Restarting
<1>14. ASSUME NEW e \in Enrollments, WaitExited(e) PROVE NoStaleConfig'
  BY <1>14, ConfigFrame DEF WaitExited, Restarting
<1>15. ASSUME NEW e \in Enrollments, ReturnError(e) PROVE NoStaleConfig'
  BY <1>15, ConfigFrame DEF ReturnError, Restarting
<1>16. ASSUME NEW e \in Enrollments, ServeFails(e) PROVE NoStaleConfig'
  BY <1>16, ConfigFrame DEF ServeFails, Restarting
<1>17. ASSUME NEW c \in Callers, ChangeFlags(c) PROVE NoStaleConfig'
  BY <1>17 DEF ChangeFlags, TypeOK, NoStaleConfig, Restarting, Tracked
<1>18. ASSUME NEW c \in Callers, UpdateOsqueryd(c) PROVE NoStaleConfig'
  BY <1>18 DEF UpdateOsqueryd, TypeOK, NoStaleConfig, Restarting, Tracked
<1>19. ASSUME NEW c \in Callers, ChangeStandby(c) PROVE NoStaleConfig'
  <2>1. Restarting \subseteq Restarting'
    BY <1>19 DEF ChangeStandby, Restarting, TypeOK
  <2> QED
    BY <1>19, <2>1, ConfigFrame DEF ChangeStandby
<1>20. ASSUME NEW c \in Callers, Ping(c) PROVE NoStaleConfig'
  <2>1. Restarting \subseteq Restarting'
    BY <1>20 DEF Ping, Restarting, TypeOK
  <2> QED
    BY <1>20, <2>1, ConfigFrame DEF Ping
<1>21. ASSUME NEW c \in Callers, FlagsChanged(c) PROVE NoStaleConfig'
  <2>1. Restarting \subseteq Restarting'
    BY <1>21 DEF FlagsChanged, Restarting, TypeOK
  <2> QED
    BY <1>21, <2>1, ConfigFrame DEF FlagsChanged
<1>22. ASSUME NEW c \in Callers, Restart(c) PROVE NoStaleConfig'
  BY <1>22 DEF Restart, TypeOK, NoStaleConfig, Restarting, Tracked
<1>23. ASSUME NEW c \in Callers, RestartDeferred(c) PROVE NoStaleConfig'
  BY <1>23 DEF RestartDeferred, TypeOK, NoStaleConfig, Restarting, Tracked
<1>24. ASSUME NEW c \in Callers, RestartTriggers(c) PROVE NoStaleConfig'
  BY ZenonT(30), <1>24 DEF RestartTriggers, NoStaleConfig, Tracked
<1>25. ASSUME NEW c \in Callers, RestartReturns(c) PROVE NoStaleConfig'
  <2>1. Restarting \subseteq Restarting'
    BY <1>25 DEF RestartReturns, Restarting, TypeOK
  <2> QED
    BY <1>25, <2>1, ConfigFrame DEF RestartReturns
<1>26. CASE Shutdown
  BY <1>26, ConfigFrame DEF Shutdown, Restarting
<1>27. CASE ShutdownCloses
  BY <1>27, ConfigFrame DEF ShutdownCloses, Restarting
<1>28. CASE ShutdownTriggers
  BY <1>28 DEF ShutdownTriggers, NoStaleConfig, Tracked
<1>29. CASE ShutdownReturns
  BY <1>29, ConfigFrame DEF ShutdownReturns, Restarting
<1>30. ASSUME NEW n \in Runs, KillOsqueryProcess(n) PROVE NoStaleConfig'
  BY <1>30, ConfigFrame DEF KillOsqueryProcess, Restarting
<1>31. ASSUME NEW n \in Runs, MonitorReturns(n) PROVE NoStaleConfig'
  BY <1>31, ConfigFrame DEF MonitorReturns, Restarting
<1>32. ASSUME NEW n \in Runs, OsquerydExits(n) PROVE NoStaleConfig'
  BY <1>32, ConfigFrame DEF OsquerydExits, Restarting
<1>33. CASE UNCHANGED vars
  BY <1>33, ConfigFrame DEF vars, Restarting
<1> QED
  BY <1>1, <1>2, <1>3, <1>4, <1>5, <1>6, <1>7, <1>8, <1>9, <1>10, <1>11,
     <1>12, <1>13, <1>14, <1>15, <1>16, <1>17, <1>18, <1>19, <1>20, <1>21,
     <1>22, <1>23, <1>24, <1>25, <1>26, <1>27, <1>28, <1>29, <1>30, <1>31,
     <1>32, <1>33
  DEF Next, Worker, Launch, Caller

\* The three parts of the argument: initially, at every step, and what the
\* invariant says.
LEMMA NextIInv == IInv /\ [Next]_vars => IInv'
BY TypeStep, ShutdownStep, WakeStep, RunsStep, KillStep, ExitStep, ConfigStep
   DEF IInv

\* What the invariant says about the properties.
LEMMA IInvImplies ==
    IInv => /\ TypeOK
            /\ ReplacedAreShutDown
            /\ LaunchErrorMeansShutdown
            /\ NoStaleConfig
            /\ RestartNotLost
            /\ RunningIsKillable
BY DEF IInv, ShutdownInv, WakeInv, KillInv, ExitInv, Settled,
       ReplacedAreShutDown, RestartNotLost

\* The values keep their types (runner.go and osqueryinstance.go as modelled).
THEOREM OsqueryRunnerTypes == Spec => []TypeOK
<1>1. IInv => TypeOK
  BY DEF IInv
<1> QED
  BY InitIInv, NextIInv, <1>1, PTL DEF Spec

\* What the runner guarantees whoever calls it and in whatever order: an
\* instance is replaced only once shut down and recorded, a launch error
\* means shutdown, no live instance is left with an old configuration, and
\* a running osqueryd can be killed unless it was started after its
\* shutdown was requested.
THEOREM OsqueryRunnerSafety == Spec => []InstancesAccounted
<1>1. IInv => InstancesAccounted
  BY IInvImplies DEF InstancesAccounted
<1> QED
  BY InitIInv, NextIInv, <1>1, PTL DEF Spec

\* A restart that Restart put off in modern standby is not lost: once the
\* device is awake a FlagsChanged that will see it, or a Restart, is under way.
THEOREM OsqueryRunnerRestarts == Spec => []RestartNotLost
<1>1. IInv => RestartNotLost
  BY IInvImplies
<1> QED
  BY InitIInv, NextIInv, <1>1, PTL DEF Spec

=============================================================================
