------------------------------- MODULE Desktop -------------------------------
(***************************************************************************)
(* The desktop runner, ee/desktop/runner/runner.go, with its server, and    *)
(* the desktop process of a console user, cmd/launcher/desktop.go with      *)
(* ee/desktop/user/server.  The loop of Execute spawns a process for every  *)
(* console user that has none, without uidProcsLock; a change of a flag, a  *)
(* new version of the operating system, a broken systray and the interrupt  *)
(* stop processes under the lock.  A process exits when it is told to, when *)
(* it is killed, or when the runner's server does not recognise it any more.*)
(***************************************************************************)
EXTENDS Naturals, FiniteSets

CONSTANTS Users, NoDesk,           \* console users; no process, no owner of a lock
          MaxDesktops,            \* bound on the processes known at a time
          MaxErrCount,            \* failed health checks a process survives, plus one
          MaxDesktopEvents        \* bound on what the environment does

ASSUME DesktopAssumption ==
  /\ NoDesk \notin Nat \cup Users
  /\ MaxDesktops \in Nat /\ MaxErrCount \in Nat \ {0} /\ MaxDesktopEvents \in Nat

VARIABLES
  consoleUsers, desktopEnabled, desktopStandby,   \* what the runner is told
  uidProcs,       \* the process recorded for each user
  authTokens,     \* the process whose token the runner's server accepts
  serverUp,       \* the runner's server answers
  desktops,       \* the processes
  uidProcsLock,
  deskThread,         \* where the loop, the call of FlagsChanged and the interrupt are
  spawn,          \* the loop's locals: users to look at, the one at hand, its process
  raced,          \* history: DesktopEnabled changed while the loop was spawning
  desktopEvents

desktopVars == <<consoleUsers, desktopEnabled, desktopStandby, uidProcs, authTokens,
                 serverUp, desktops, uidProcsLock, deskThread, spawn, raced, desktopEvents>>
deskTold == <<consoleUsers, desktopEnabled, desktopStandby>>

DeskIds == 1..MaxDesktops
DeskAlive(p) == desktops[p].at \in {"starting", "serving", "leaving"}
DeskRecorded == {uidProcs[u] : u \in Users} \ {NoDesk}
NoDesktop == [uid |-> NoDesk, at |-> "gone", shown |-> FALSE, misses |-> 0, systray |-> "ok"]
DeskFree(p) == /\ desktops[p].at = "gone" /\ desktops[p].systray # "broken"
           /\ \A u \in Users : uidProcs[u] # p /\ (authTokens[u] # p \/ u = spawn.uid)

\* New, and Execute up to its loop.
DesktopInit ==
  /\ consoleUsers \in SUBSET Users /\ desktopEnabled \in BOOLEAN /\ desktopStandby = FALSE
  /\ uidProcs = [u \in Users |-> NoDesk] /\ authTokens = uidProcs /\ serverUp = TRUE
  /\ desktops = [p \in DeskIds |-> NoDesktop]
  /\ uidProcsLock = NoDesk
  /\ deskThread = [loop |-> "check", flags |-> "idle", interrupt |-> "idle"]
  /\ spawn = [todo |-> {}, uid |-> NoDesk, proc |-> NoDesk, show |-> FALSE]
  /\ raced = FALSE /\ desktopEvents = 0

DeskAt(t, place) == deskThread[t] = place
DeskGo(t, place) == deskThread' = [deskThread EXCEPT ![t] = place]
DeskEvent == desktopEvents < MaxDesktopEvents /\ desktopEvents' = desktopEvents + 1
DeskEnded(d) == IF d.systray = "broken" THEN [d EXCEPT !.at = "gone", !.shown = FALSE, !.misses = 0]
            ELSE NoDesktop
DeskKilled(p) == [desktops EXCEPT ![p] = DeskEnded(@)]

\* The runner's server: the token of a process is accepted from RegisterClient on, until
\* another is registered for the user or DeRegisterClient is called.
RegisterClient(u, p) == [authTokens EXCEPT ![u] = p]
DeRegisterClient(us) == [u \in Users |-> IF u \in us THEN NoDesk ELSE authTokens[u]]
isAuthTokenValid(p) == authTokens[desktops[p].uid] = p

-----------------------------------------------------------------------------
(* runConsoleUserDesktop, step by step.                                    *)

\* The console users are read, unless launcher is in modern standby or it fails.
runConsoleUserDesktop ==
  /\ DeskAt("loop", "check")
  /\ \/ /\ ~desktopStandby /\ DeskGo("loop", "users")
        /\ spawn' = [spawn EXCEPT !.todo = consoleUsers] /\ UNCHANGED desktopEvents
     \/ /\ desktopStandby /\ DeskGo("loop", "select") /\ UNCHANGED <<spawn, desktopEvents>>
     \/ DeskEvent /\ DeskGo("loop", "select") /\ UNCHANGED spawn
  /\ UNCHANGED <<deskTold, uidProcs, authTokens, serverUp, desktops, uidProcsLock, raced>>

AllUsersChecked ==
  /\ DeskAt("loop", "users") /\ spawn.todo = {} /\ DeskGo("loop", "select")
  /\ UNCHANGED <<deskTold, uidProcs, authTokens, serverUp, desktops, uidProcsLock, spawn,
                 raced, desktopEvents>>

\* The next user has a process that runs and has its socket.  One without its socket is
\* killed and forgotten; a record of one that is gone stays until it is replaced.
userHasDesktopProcess(u) ==
  /\ DeskAt("loop", "users") /\ u \in spawn.todo /\ uidProcsLock = NoDesk
  /\ LET p == uidProcs[u]
         has == p # NoDesk /\ desktops[p].at = "serving"
         lost == p # NoDesk /\ desktops[p].at = "leaving"
     IN /\ desktops' = IF lost THEN DeskKilled(p) ELSE desktops
        /\ uidProcs' = IF lost THEN [uidProcs EXCEPT ![u] = NoDesk] ELSE uidProcs
        /\ spawn' = [spawn EXCEPT !.todo = @ \ {u}, !.uid = u]
        /\ DeskGo("loop", IF has THEN "users" ELSE "spawn")
  /\ UNCHANGED <<deskTold, authTokens, serverUp, uidProcsLock, raced, desktopEvents>>

\* spawnForUser: the server forgets the process before, a new one gets a token and is
\* started, showing its menu at once when the flag says so.
SpawnStarts ==
  /\ DeskAt("loop", "spawn")
  /\ \E p \in DeskIds :
       /\ DeskFree(p) /\ \A q \in DeskIds : DeskFree(q) => p <= q
       /\ authTokens' = RegisterClient(spawn.uid, p)
       /\ desktops' = [desktops EXCEPT ![p] =
                         [NoDesktop EXCEPT !.uid = spawn.uid, !.at = "starting",
                                           !.shown = desktopEnabled]]
       /\ spawn' = [spawn EXCEPT !.proc = p]
  /\ DeskGo("loop", "ping")
  /\ UNCHANGED <<deskTold, uidProcs, serverUp, uidProcsLock, raced, desktopEvents>>

\* A step before the start fails: the remaining users wait for the next tick.
SpawnFails ==
  /\ DeskAt("loop", "spawn")
  /\ DeskEvent
  /\ authTokens' = DeRegisterClient({spawn.uid})
  /\ DeskGo("loop", "select")
  /\ UNCHANGED <<deskTold, uidProcs, serverUp, desktops, uidProcsLock, spawn, raced>>

\* The call that shows the process to respond is chosen by the flag as it is now ...
SpawnPings ==
  /\ DeskAt("loop", "ping")
  /\ spawn' = [spawn EXCEPT !.show = desktopEnabled]
  /\ DeskGo("loop", "pinged")
  /\ UNCHANGED <<deskTold, uidProcs, authTokens, serverUp, desktops, uidProcsLock, raced,
                 desktopEvents>>

\* ... and repeated until it does.
SpawnAnswered ==
  /\ DeskAt("loop", "pinged") /\ desktops[spawn.proc].at = "serving"
  /\ desktops' = [desktops EXCEPT ![spawn.proc].shown = @ \/ spawn.show]
  /\ DeskGo("loop", "record")
  /\ UNCHANGED <<deskTold, uidProcs, authTokens, serverUp, uidProcsLock, spawn, raced,
                 desktopEvents>>

\* It does not within ten seconds.
SpawnUnanswered ==
  /\ DeskAt("loop", "pinged")
  /\ \/ ~DeskAlive(spawn.proc) /\ UNCHANGED desktopEvents
     \/ desktops[spawn.proc].at \in {"starting", "leaving"} /\ DeskEvent
  /\ authTokens' = DeRegisterClient({spawn.uid})
  /\ desktops' = DeskKilled(spawn.proc)
  /\ DeskGo("loop", "select")
  /\ UNCHANGED <<deskTold, uidProcs, serverUp, uidProcsLock, spawn, raced>>

\* addProcessTrackingRecordForUser; without the record the process is left to itself.
addProcessTrackingRecordForUser ==
  /\ DeskAt("loop", "record")
  /\ \/ /\ DeskAlive(spawn.proc) /\ uidProcsLock = NoDesk
        /\ uidProcs' = [uidProcs EXCEPT ![spawn.uid] = spawn.proc]
        /\ DeskGo("loop", "users") /\ UNCHANGED desktopEvents
     \/ /\ ~DeskAlive(spawn.proc) /\ DeskGo("loop", "select") /\ UNCHANGED <<uidProcs, desktopEvents>>
     \/ DeskEvent /\ DeskGo("loop", "select") /\ UNCHANGED uidProcs
  /\ UNCHANGED <<deskTold, authTokens, serverUp, desktops, uidProcsLock, spawn, raced>>

\* The update ticker, and the menu's: a refresh reaches every recorded process.
DesktopTick ==
  /\ DeskAt("loop", "select") /\ uidProcsLock = NoDesk
  /\ DeskGo("loop", "check")
  /\ UNCHANGED <<deskTold, uidProcs, authTokens, serverUp, desktops, uidProcsLock, spawn,
                 raced, desktopEvents>>

\* checkOsUpdate.
checkOsUpdate ==
  /\ DeskAt("loop", "select") /\ DeskEvent
  /\ DeskGo("loop", "kill")
  /\ UNCHANGED <<deskTold, uidProcs, authTokens, serverUp, desktops, uidProcsLock, spawn, raced>>

-----------------------------------------------------------------------------
(* killDesktopProcesses, from the loop, FlagsChanged and Interrupt.  It     *)
(* holds the lock until all processes have gone or the time is over.       *)

Serves(p) == desktops[p].at = "serving"

killDesktopProcesses(t) ==
  /\ DeskAt(t, "kill") /\ uidProcsLock = NoDesk
  /\ uidProcsLock' = t
  /\ authTokens' = DeRegisterClient({u \in Users : uidProcs[u] # NoDesk})
  /\ \E failing \in SUBSET DeskRecorded :
       /\ IF failing = {} THEN UNCHANGED desktopEvents ELSE DeskEvent
       /\ desktops' = [p \in DeskIds |-> IF p \in DeskRecorded \ failing /\ Serves(p)
                                       THEN [desktops[p] EXCEPT !.at = "leaving"]
                                       ELSE desktops[p]]
  /\ DeskGo(t, "wait")
  /\ UNCHANGED <<deskTold, uidProcs, serverUp, spawn, raced>>

AfterKill(t) == CASE t = "loop" -> "check" [] t = "flags" -> "idle" [] OTHER -> "shutdown"

AllGone(t) ==
  /\ DeskAt(t, "wait") /\ \A p \in DeskIds : ~DeskAlive(p)
  /\ uidProcs' = [u \in Users |-> NoDesk]
  /\ uidProcsLock' = NoDesk
  /\ DeskGo(t, AfterKill(t))
  /\ UNCHANGED <<deskTold, authTokens, serverUp, desktops, spawn, raced, desktopEvents>>

KillTimesOut(t) ==
  /\ DeskAt(t, "wait") /\ \E p \in DeskIds : DeskAlive(p)
  /\ desktops' = [p \in DeskIds |-> IF p \in DeskRecorded THEN DeskEnded(desktops[p]) ELSE desktops[p]]
  /\ uidProcsLock' = NoDesk
  /\ DeskGo(t, AfterKill(t))
  /\ UNCHANGED <<deskTold, uidProcs, authTokens, serverUp, spawn, raced, desktopEvents>>

-----------------------------------------------------------------------------
(* FlagsChanged and Interrupt.                                             *)

\* DesktopEnabled is set, which calls FlagsChanged.
SetDesktopEnabled ==
  /\ DeskAt("flags", "idle") /\ DeskEvent
  /\ desktopEnabled' = ~desktopEnabled
  /\ raced' = (raced \/ deskThread["loop"] \in {"ping", "pinged", "record"})
  /\ DeskGo("flags", IF desktopEnabled' THEN "show" ELSE "kill")
  /\ UNCHANGED <<consoleUsers, desktopStandby, uidProcs, authTokens, serverUp, desktops,
                 uidProcsLock, spawn>>

\* DesktopGoMaxProcs is set: the processes are to start again with it.
SetDesktopGoMaxProcs ==
  /\ DeskAt("flags", "idle") /\ DeskEvent
  /\ DeskGo("flags", "kill")
  /\ UNCHANGED <<deskTold, uidProcs, authTokens, serverUp, desktops, uidProcsLock, spawn, raced>>

\* Every recorded process is told to show its menu.
ShowDesktop ==
  /\ DeskAt("flags", "show") /\ uidProcsLock = NoDesk
  /\ desktops' = [p \in DeskIds |-> IF p \in DeskRecorded /\ Serves(p)
                                  THEN [desktops[p] EXCEPT !.shown = TRUE] ELSE desktops[p]]
  /\ DeskGo("flags", "idle")
  /\ UNCHANGED <<deskTold, uidProcs, authTokens, serverUp, uidProcsLock, spawn, raced,
                 desktopEvents>>

\* Interrupt hands its signal to the loop, which takes it in its select only.
DesktopInterrupt ==
  /\ DeskAt("interrupt", "idle") /\ DeskEvent
  /\ DeskGo("interrupt", "send")
  /\ UNCHANGED <<deskTold, uidProcs, authTokens, serverUp, desktops, uidProcsLock, spawn, raced>>

InterruptReceived ==
  /\ DeskAt("interrupt", "send") /\ DeskAt("loop", "select")
  /\ deskThread' = [deskThread EXCEPT !["interrupt"] = "kill", !["loop"] = "returned"]
  /\ UNCHANGED <<deskTold, uidProcs, authTokens, serverUp, desktops, uidProcsLock, spawn,
                 raced, desktopEvents>>

RunnerServerShutdown ==
  /\ DeskAt("interrupt", "shutdown")
  /\ serverUp' = FALSE
  /\ DeskGo("interrupt", "done")
  /\ UNCHANGED <<deskTold, uidProcs, authTokens, desktops, uidProcsLock, spawn, raced, desktopEvents>>

-----------------------------------------------------------------------------
(* A desktop process.                                                      *)

\* runDesktop: the user server listens.
runDesktop(p) ==
  /\ desktops[p].at = "starting"
  /\ desktops' = [desktops EXCEPT ![p].at = "serving"]
  /\ UNCHANGED <<deskTold, uidProcs, authTokens, serverUp, uidProcsLock, deskThread, spawn, raced,
                 desktopEvents>>

Healthy(p) == serverUp /\ isAuthTokenValid(p)

\* Mutant of monitorParentProcess: failed checks are not counted.
monitorParentProcessPatient(p) ==
  /\ desktops[p].at \in {"starting", "serving"} /\ Healthy(p) /\ desktops[p].misses > 0
  /\ desktops' = [desktops EXCEPT ![p].misses = 0]
  /\ UNCHANGED <<deskTold, uidProcs, authTokens, serverUp, uidProcsLock, deskThread, spawn, raced,
                 desktopEvents>>

\* monitorParentProcess: one health check, after MaxErrCount failed ones the process exits.
monitorParentProcess(p) ==
  /\ desktops[p].at \in {"starting", "serving"}
  /\ LET missed == desktops[p].misses + 1 IN
     \/ /\ Healthy(p) /\ desktops[p].misses > 0
        /\ desktops' = [desktops EXCEPT ![p].misses = 0]
     \/ /\ ~Healthy(p)
        /\ desktops' = [desktops EXCEPT ![p] =
             [@ EXCEPT !.misses = missed, !.at = IF missed = MaxErrCount THEN "leaving" ELSE @]]
  /\ UNCHANGED <<deskTold, uidProcs, authTokens, serverUp, uidProcsLock, deskThread, spawn, raced,
                 desktopEvents>>

\* It has been told to leave: its run group ends, the socket is removed.
DesktopExits(p) ==
  /\ desktops[p].at = "leaving"
  /\ desktops' = DeskKilled(p)
  /\ UNCHANGED <<deskTold, uidProcs, authTokens, serverUp, uidProcsLock, deskThread, spawn, raced,
                 desktopEvents>>

\* It crashes, or is ended with its user's session.
DesktopDies(p) ==
  /\ DeskAlive(p) /\ DeskEvent
  /\ desktops' = DeskKilled(p)
  /\ UNCHANGED <<deskTold, uidProcs, authTokens, serverUp, uidProcsLock, deskThread, spawn, raced>>

-----------------------------------------------------------------------------
(* processLogs: systray reports, as the process starts, that it is broken.  *)

SystrayBreaks(p) ==
  /\ DeskAlive(p) /\ desktops[p].systray = "ok" /\ p \notin DeskRecorded /\ DeskEvent
  /\ desktops' = [desktops EXCEPT ![p].systray = "broken"]
  /\ UNCHANGED <<deskTold, uidProcs, authTokens, serverUp, uidProcsLock, deskThread, spawn, raced>>

\* Five seconds later killDesktopProcess stops whatever is recorded for the user; when
\* nothing is, or it cannot be killed, the error is logged and not tried again.
killDesktopProcess(p) ==
  /\ desktops[p].systray = "broken" /\ uidProcsLock = NoDesk
  /\ LET u == desktops[p].uid
         q == uidProcs[u]
         seen == [desktops EXCEPT ![p].systray = "seen"]
     IN IF q = NoDesk
          THEN desktops' = seen /\ UNCHANGED <<uidProcs, authTokens>>
          ELSE /\ desktops' = [seen EXCEPT ![q] = IF @.at = "serving" THEN [@ EXCEPT !.at = "leaving"]
                                                               ELSE DeskEnded(@)]
               /\ uidProcs' = [uidProcs EXCEPT ![u] = NoDesk]
               /\ authTokens' = DeRegisterClient({u})
  /\ UNCHANGED <<deskTold, serverUp, uidProcsLock, deskThread, spawn, raced, desktopEvents>>

-----------------------------------------------------------------------------
\* Users log in and out; the machine goes to modern standby and back.
ChangeUsers ==
  /\ DeskEvent
  /\ \E u \in Users : consoleUsers' = IF u \in consoleUsers THEN consoleUsers \ {u}
                                                            ELSE consoleUsers \cup {u}
  /\ UNCHANGED <<desktopEnabled, desktopStandby, uidProcs, authTokens, serverUp, desktops,
                 uidProcsLock, deskThread, spawn, raced>>

DesktopStandby ==
  /\ IF desktopStandby THEN UNCHANGED desktopEvents ELSE DeskEvent
  /\ desktopStandby' = ~desktopStandby
  /\ UNCHANGED <<consoleUsers, desktopEnabled, uidProcs, authTokens, serverUp, desktops,
                 uidProcsLock, deskThread, spawn, raced>>

DeskSpawning == SpawnStarts \/ SpawnFails \/ SpawnPings \/ SpawnAnswered \/ SpawnUnanswered
            \/ addProcessTrackingRecordForUser

ExecuteLoop ==
  \/ runConsoleUserDesktop \/ AllUsersChecked \/ DeskSpawning \/ DesktopTick
  \/ \E u \in Users : userHasDesktopProcess(u)

DeskKilling(t) == killDesktopProcesses(t) \/ AllGone(t) \/ KillTimesOut(t)

DesktopProcess(p) == runDesktop(p) \/ monitorParentProcess(p) \/ DesktopExits(p)

DesktopNext ==
  \/ ExecuteLoop \/ checkOsUpdate \/ SetDesktopEnabled \/ SetDesktopGoMaxProcs \/ ShowDesktop
  \/ DesktopInterrupt \/ InterruptReceived \/ RunnerServerShutdown
  \/ ChangeUsers \/ DesktopStandby
  \/ \E t \in {"loop", "flags", "interrupt"} : DeskKilling(t)
  \/ \E p \in DeskIds : DesktopProcess(p) \/ DesktopDies(p) \/ SystrayBreaks(p) \/ killDesktopProcess(p)

\* The loop, the calls and the processes run; standby ends.
DesktopFairness ==
  /\ WF_desktopVars(ExecuteLoop)
  /\ \A t \in {"loop", "flags", "interrupt"} : WF_desktopVars(DeskKilling(t))
  /\ WF_desktopVars(ShowDesktop) /\ WF_desktopVars(RunnerServerShutdown)
  /\ WF_desktopVars(desktopStandby /\ DesktopStandby)
  /\ \A p \in DeskIds : WF_desktopVars(DesktopProcess(p)) /\ WF_desktopVars(killDesktopProcess(p))

DesktopSpec == DesktopInit /\ [][DesktopNext]_desktopVars /\ DesktopFairness

-----------------------------------------------------------------------------
DeskInterrupted == deskThread["interrupt"] # "idle"

\* A process that the runner has no record of and is not about to record does not stay:
\* after a failed spawn, a replaced record, or the end of launcher its health checks fail.
\* Only when its user is no console user any more is it left to the end of the session.
DeskStray(p) == /\ DeskAlive(p) /\ (serverUp => p \notin DeskRecorded)
            /\ ~(p = spawn.proc /\ deskThread["loop"] \in {"ping", "pinged", "record"})
            /\ ~(desktops[p].uid \notin consoleUsers /\ Healthy(p))

\* Every console user has a process that serves.
DeskServed == \A u \in consoleUsers : uidProcs[u] # NoDesk /\ Serves(uidProcs[u])

\* The recorded processes show their menu exactly when DesktopEnabled is set, except after
\* the flag changed while the loop was between starting a process and recording it: then
\* FlagsChanged does not know of the process.
DeskMenusShown == raced \/ \A p \in DeskRecorded : Serves(p) => desktops[p].shown = desktopEnabled

\* The desktops settle, over and over, whatever users, processes and flags do in between:
\* no stray is left, and unless launcher was interrupted every console user has a process
\* that serves and the menus follow the flag (Execute, runConsoleUserDesktop,
\* monitorParentProcess, FlagsChanged).
DesktopsSettle ==
  []<>(/\ \A p \in DeskIds : ~DeskStray(p)
       /\ DeskInterrupted \/ (DeskServed /\ DeskMenusShown))
=============================================================================
