------------------------------- MODULE Actors -------------------------------
(***************************************************************************)
(* The actors of launcher's rungroup and of the desktop process's: how the  *)
(* Interrupt of each of them reaches its Execute.  The group calls          *)
(* Interrupt once, as soon as any actor has returned: before this actor's   *)
(* Execute has begun, while it is busy, or after it has returned by itself. *)
(*                                                                         *)
(* A behaviour is that of one actor.  What another actor does for it is     *)
(* that sigChannel's Interrupt cancels the context of runLauncher.          *)
(***************************************************************************)
EXTENDS Naturals

CONSTANT MaxTicks          \* bound on the times an Execute loop goes round

(***************************************************************************)
(* kind: how Interrupt signals, cap: the capacity of its channel, loops:    *)
(* Execute works now and then, leaves: it may return by itself, ctx: it     *)
(* also ends with the context of runLauncher, gate: it waits, before it can *)
(* be stopped, for a channel.                                               *)
(***************************************************************************)
Actor(kind, cap) == [kind |-> kind, cap |-> cap, loops |-> TRUE, leaves |-> FALSE, ctx |-> FALSE, gate |-> FALSE]
Sends(cap) == Actor("send", cap)
Waits(a) == [a EXCEPT !.loops = FALSE]
Leaving(a) == [a EXCEPT !.leaves = TRUE]
WithContext(a) == [a EXCEPT !.ctx = TRUE]

logShipper == [Actor("cancelIfSet", 0) EXCEPT !.gate = TRUE]
telemetryExporter == Waits(Actor("cancel", 0))

\* Mutant of multislogger: Execute does not look at the context.
multisloggerAlone == Waits(Actor("reopens", 0))

multislogger == Waits(WithContext(Actor("reopens", 0)))
dbBackupSaver == Sends(1)
logcheckpoint == Sends(1)
performanceMonitor == Sends(0)
watchdogController == Sends(1)
sigChannel == Waits(Leaving(Actor("close", 0)))
hardwareChangeDetector == Waits(Leaving(Sends(0)))
powerEventWatcher == Waits(Sends(0))
windowsUpdatesCacher == Sends(1)
noOpWindowsUpdatesCacher == Waits(Sends(0))
rootLauncherListener == Actor("sendAndClose", 1)
controlService == WithContext(Actor("cancelIfSet", 0))
filewalkManager == Waits(Sends(10))
secureEnclaveRunner == Leaving(Sends(0))
tpmRunner == Sends(0)
desktopRunner == Sends(0)
actionsQueue == WithContext(Actor("close", 0))
remoteRestart == Waits(Leaving(Sends(1)))
localserver == Waits(Leaving(Actor("close", 0)))
tufAutoupdater == Leaving(Sends(10))
macNotifier == Waits(Sends(0))
windowsNotifier == Waits(Sends(0))
dbusNotifier == Leaving(Sends(0))
universalLinkHandler == Sends(0)
noopUniversalLinkHandler == Waits(Sends(0))
desktopServer == Waits(Leaving(Actor("close", 0)))
desktopListeners == Waits(Leaving(Actor("none", 0)))

AllActors ==
  [logShipper |-> logShipper, telemetryExporter |-> telemetryExporter, multislogger |-> multislogger,
   dbBackupSaver |-> dbBackupSaver, logcheckpoint |-> logcheckpoint, performanceMonitor |-> performanceMonitor,
   watchdogController |-> watchdogController, sigChannel |-> sigChannel,
   hardwareChangeDetector |-> hardwareChangeDetector, powerEventWatcher |-> powerEventWatcher,
   windowsUpdatesCacher |-> windowsUpdatesCacher, noOpWindowsUpdatesCacher |-> noOpWindowsUpdatesCacher,
   rootLauncherListener |-> rootLauncherListener, controlService |-> controlService,
   filewalkManager |-> filewalkManager, secureEnclaveRunner |-> secureEnclaveRunner, tpmRunner |-> tpmRunner,
   desktopRunner |-> desktopRunner, actionsQueue |-> actionsQueue, remoteRestart |-> remoteRestart,
   localserver |-> localserver, tufAutoupdater |-> tufAutoupdater, macNotifier |-> macNotifier,
   windowsNotifier |-> windowsNotifier, dbusNotifier |-> dbusNotifier,
   universalLinkHandler |-> universalLinkHandler, noopUniversalLinkHandler |-> noopUniversalLinkHandler,
   desktopServer |-> desktopServer, desktopListeners |-> desktopListeners]

\* exec, intr: how far Execute and Interrupt are; tokens in the channel;
\* signalled: a channel closed or a context cancelled; set: the cancel function
\* is stored; ctx: runLauncher's context is done; open: the gate; restart: the
\* goroutine of a remote restart; left, missed: histories, Execute returned by
\* itself, Interrupt found nothing to cancel.
VARIABLE act

This == AllActors[act.a]

ActorsInit ==
  \E a \in DOMAIN AllActors :
    act = [a |-> a, exec |-> "new", intr |-> "idle", tokens |-> 0, signalled |-> FALSE, set |-> FALSE, ctx |-> FALSE,
           open |-> FALSE, restart |-> "none", ticks |-> 0, left |-> FALSE, missed |-> FALSE]

\* A multislogger that was stopped before starts anew; what stores its cancel
\* function does so at once, or behind the gate.
ExecuteBegins ==
  /\ act.exec = "new"
  /\ act' = [act EXCEPT !.exec = IF This.gate THEN "gate" ELSE "busy", !.set = ~This.gate,
                        !.signalled = @ /\ This.kind # "reopens"]
GateOpens == This.gate /\ ~act.open /\ act' = [act EXCEPT !.open = TRUE]
ExecutePasses == act.exec = "gate" /\ act.open /\ act' = [act EXCEPT !.exec = "busy", !.set = TRUE]

ExecuteListens == act.exec = "busy" /\ act' = [act EXCEPT !.exec = "waiting"]
ExecuteTicks ==
  /\ This.loops /\ act.exec = "waiting" /\ act.ticks < MaxTicks
  /\ act' = [act EXCEPT !.exec = "busy", !.ticks = @ + 1]

\* A remote restart leaves only when its goroutine has signalled.
ExecuteLeaves ==
  /\ This.leaves /\ act.exec \in {"busy", "waiting"}
  /\ act.a = "remoteRestart" => act.exec = "waiting" /\ act.restart = "signals"
  /\ act' = [act EXCEPT !.exec = "returned", !.left = TRUE]

Stopped ==
  \/ This.kind = "send" /\ act.tokens > 0
  \/ This.kind = "sendAndClose" /\ act.tokens > 0 /\ act.signalled
  \/ This.kind \in {"close", "cancel", "cancelIfSet", "reopens"} /\ act.signalled
  \/ This.ctx /\ act.ctx
ExecuteStops == act.exec = "waiting" /\ Stopped /\ act' = [act EXCEPT !.exec = "returned", !.tokens = 0]

\* Interrupt sends, closes, or cancels what Execute has stored by now.
InterruptBegins ==
  /\ act.intr = "idle"
  /\ act' = CASE This.kind \in {"send", "sendAndClose"} -> [act EXCEPT !.intr = "sends"]
              [] This.kind \in {"close", "cancel", "reopens"} -> [act EXCEPT !.intr = "returned", !.signalled = TRUE]
              [] This.kind = "cancelIfSet" -> [act EXCEPT !.intr = "returned", !.signalled = act.set, !.missed = ~act.set]
              [] This.kind = "none" -> [act EXCEPT !.intr = "returned"]

\* Without a buffer the send needs an Execute that is receiving.
InterruptSends ==
  /\ act.intr = "sends"
  /\ \/ /\ This.cap > act.tokens
        /\ act' = [act EXCEPT !.intr = IF This.kind = "send" THEN "returned" ELSE "closes", !.tokens = @ + 1]
     \/ /\ This.cap = 0 /\ act.exec = "waiting"
        /\ act' = [act EXCEPT !.intr = "returned", !.exec = "returned"]
InterruptCloses == act.intr = "closes" /\ act' = [act EXCEPT !.intr = "returned", !.signalled = TRUE]

\* The Interrupt of sigChannel, which the group calls with all the others.
ContextCancelled == act.intr # "idle" /\ ~act.ctx /\ act' = [act EXCEPT !.ctx = TRUE]

\* Do of the remote restart consumer: its goroutine waits for the delay before
\* the restart, and for the interrupt, on the channel that Execute receives from.
Do == act.a = "remoteRestart" /\ act.restart = "none" /\ act' = [act EXCEPT !.restart = "delays"]
DoSignals == act.restart = "delays" /\ act' = [act EXCEPT !.restart = "signals"]
DoInterrupted ==
  /\ act.restart = "delays" /\ act.tokens > 0
  /\ act' = [act EXCEPT !.restart = "interrupted", !.tokens = 0]

ActorSteps ==
  \/ ExecuteBegins \/ ExecutePasses \/ ExecuteListens \/ ExecuteStops
  \/ InterruptSends \/ InterruptCloses \/ ContextCancelled \/ DoSignals
ActorsNext ==
  ActorSteps \/ GateOpens \/ ExecuteTicks \/ ExecuteLeaves \/ InterruptBegins \/ Do \/ DoInterrupted

(***************************************************************************)
(* An actor that is interrupted stops, and its Interrupt returns, however   *)
(* the two race, except: the channel of an actor without a buffer blocks    *)
(* the Interrupt of one that has left; the log shipper cannot be stopped    *)
(* before it is told to ship; the goroutine of a remote restart may take    *)
(* the only interrupt; the listeners of the desktop process are not told.   *)
(***************************************************************************)
Excused ==
  \/ This.kind = "send" /\ This.cap = 0 /\ act.left
  \/ This.gate /\ (act.missed \/ ~act.open)
  \/ act.restart = "interrupted"
  \/ This.kind = "none"
ActorsStop == []<>(act.intr = "idle" \/ (act.exec = "returned" /\ act.intr = "returned") \/ Excused)
=============================================================================
