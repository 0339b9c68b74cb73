----------------------------- MODULE MCProcess -----------------------------
(* How launcher's process runs and stops its actors, for TLC: the group that *)
(* runs them, each actor with its Interrupt, the desktop runner in full, and *)
(* the errgroup of an osquery instance.  They share no state here, so a      *)
(* behaviour is one of any: part says which, and the others stay as they     *)
(* begin.                                                                    *)
EXTENDS RunGroup, Actors, Desktop

CONSTANTS Plain, Repeated, OnShutdown, StuckGoroutines

VARIABLES part, state, err, doneCtx, asked, failed, wait, result

EG == INSTANCE LoggedErrgroup WITH Stuck <- StuckGoroutines

errgroupVars == <<state, err, doneCtx, asked, failed, wait, result>>

ProcessInit ==
  /\ Init /\ ActorsInit /\ DesktopInit /\ EG!Init
  /\ part \in {"group", "actors", "desktop", "errgroup"}
  /\ part = "actors" \/ act.a = "logShipper"
  /\ part = "desktop" \/ (consoleUsers = {} /\ desktopEnabled)

ProcessNext ==
  /\ UNCHANGED part
  /\ \/ part = "group" /\ Next /\ UNCHANGED <<act, desktopVars, errgroupVars>>
     \/ part = "actors" /\ ActorsNext /\ UNCHANGED <<vars, desktopVars, errgroupVars>>
     \/ part = "desktop" /\ DesktopNext /\ UNCHANGED <<vars, act, errgroupVars>>
     \/ part = "errgroup" /\ EG!Next /\ UNCHANGED <<vars, act, desktopVars>>

(* The fairness of each, for the part that moves. *)
GroupFairness ==
  /\ WF_vars(part = "group" /\ (ReceiveFirst \/ InterruptAll \/ InterruptsAwaited \/ Collect \/ Timeout \/ Return))
  /\ \A a \in Actors \ Stuck :
        /\ WF_vars(part = "group" /\ InterruptReturns(a))
        /\ WF_vars(part = "group" /\ interrupt[a] # "idle" /\ ExecuteReturns(a))

DesksFairness ==
  /\ WF_desktopVars(part = "desktop" /\ ExecuteLoop)
  /\ \A t \in {"loop", "flags", "interrupt"} : WF_desktopVars(part = "desktop" /\ DeskKilling(t))
  /\ WF_desktopVars(part = "desktop" /\ ShowDesktop) /\ WF_desktopVars(part = "desktop" /\ RunnerServerShutdown)
  /\ WF_desktopVars(part = "desktop" /\ desktopStandby /\ DesktopStandby)
  /\ \A p \in DeskIds :
        /\ WF_desktopVars(part = "desktop" /\ DesktopProcess(p))
        /\ WF_desktopVars(part = "desktop" /\ killDesktopProcess(p))

ErrgroupFairness ==
  /\ WF_errgroupVars(part = "errgroup" /\ (EG!WaitReturns \/ EG!WaitTimesOut))
  /\ \A g \in EG!Goroutines :
        WF_errgroupVars(part = "errgroup" /\ EG!SeesDone(g)) /\ WF_errgroupVars(part = "errgroup" /\ EG!Turn(g))
  /\ \A g \in Repeated : SF_errgroupVars(part = "errgroup" /\ EG!SeesDone(g))
  /\ \A g \in EG!Goroutines \ StuckGoroutines :
        WF_errgroupVars(part = "errgroup" /\ (EG!ReturnsError(g) \/ EG!ReturnsNil(g) \/ EG!Panics(g)))

ProcessSpec ==
  /\ ProcessInit /\ [][ProcessNext]_<<vars, act, desktopVars, errgroupVars, part>>
  /\ GroupFairness /\ WF_act(part = "actors" /\ ActorSteps) /\ DesksFairness /\ ErrgroupFairness

-----------------------------------------------------------------------------
\* The errgroup keeps the error of the goroutine that failed first, its Wait leaves no
\* goroutine behind unless it times out, and once the group is done every goroutine that
\* is not stuck exits (Exit, Wait, StartRepeatedGoroutine, AddShutdownGoroutine).
ErrgroupSound == [](EG!TypeOK /\ EG!InitialErrorKept /\ EG!WaitMeansExited) /\ EG!DoneStopsAll
=============================================================================
