----------------------------- MODULE Autoupdate -----------------------------
(***************************************************************************)
(* The TUF autoupdater (ee/tuf): the run loop of TufAutoupdater, its two   *)
(* other entry points (Do, called by the action queue, and FlagsChanged),  *)
(* the update library on disk, and the lookup by which launcher and        *)
(* osqueryd choose the version to run.                                     *)
(*                                                                         *)
(* A directory of the library is a number: 2v holds version v, and 2v - 1  *)
(* is a directory "<v>-<micros>" in which v was being validated when       *)
(* launcher died.  The latter name is a semver prerelease of v, so it      *)
(* sorts just below v, as the numbers do.  Directory 0 is the installed    *)
(* binary, which is outside the library.                                   *)
(***************************************************************************)
EXTENDS Integers, FiniteSets, FiniteSetsExt

CONSTANTS Channels, Stable,  \* update channels; Stable is "stable"
          Published,         \* the versions the TUF repository has targets for
          PinValues,         \* values of the pinned-version flags; Unset is ""
          Unset,
          Installed,         \* the version that was packaged with launcher
          TufMinimum,        \* tufVersionMinimum
          MaxEvents          \* bound on releases, requests, flag changes, faults

ASSUME AutoupdateAssumption ==
    /\ Stable \in Channels
    /\ Published \subseteq Nat \ {0}
    /\ Installed \in Published
    /\ Unset \in PinValues \ Published

Binaries == {"launcher", "osqueryd"}
Settings == [channel : Channels, pin : [Binaries -> PinValues]]

Dir(v) == 2 * v
Leftover(v) == 2 * v - 1
VersionIn(d) == IF d = 0 THEN Installed ELSE (d + 1) \div 2
Dirs == {Dir(v) : v \in Published} \union {Leftover(v) : v \in Published}

VARIABLES
    releases,   \* what the TUF server currently serves
    meta,      \* the local TUF repository, Unset before the first refresh
    lib,       \* per binary, the directories whose executable passes the check
    broken,    \* per binary, the directories whose executable does not
    runs,   \* per binary, the directory it runs from, Unset when down
    lastVersion,   \* version of the latest instance in the osquery history
    settings,      \* the update settings held by the knapsack
    ta,        \* the copies in TufAutoupdater: updateChannel, pinnedVersions
    startup,   \* the copies in the startup settings database
    unseen,    \* observers that have still to be told of a flag change
    inDelay,   \* now is before initialDelayEnd
    initialDelayTimer,     \* initialDelayTimer
    pendingRestart,   \* binaries whose restart waits for the end of the delay
    signalRestart,    \* signalRestart has a LauncherReloadNeeded
    tufAt,        \* where the run loop and the request goroutine are
    tufArgs,      \* the arguments of their calls of checkForUpdate
    binariesToCheck, updatesDownloaded,
    updateErrors, \* locals of the checkForUpdate that holds updateLock
    splayed,   \* binaries whose release is still inside its splay delay
    standby,   \* InModernStandby
    tufEvents       \* releases, flag changes, requests and faults so far

tufVars == <<releases, meta, lib, broken, runs, lastVersion, settings, ta,
             startup, unseen, inDelay, initialDelayTimer, pendingRestart,
             signalRestart, tufAt, tufArgs, binariesToCheck, updatesDownloaded,
             updateErrors, splayed, standby, tufEvents>>
delayVars == <<inDelay, initialDelayTimer>>
restartVars == <<pendingRestart, signalRestart>>
checkVars == <<binariesToCheck, updatesDownloaded, updateErrors>>
callVars == <<tufAt, tufArgs>>
libraryVars == <<lib, broken>>
outsideVars == <<releases, settings, splayed, standby>>
tufProcess == <<ta, unseen, inDelay, initialDelayTimer, pendingRestart,
                signalRestart, tufAt, tufArgs, binariesToCheck,
                updatesDownloaded, updateErrors>>
tufDisk == <<meta, lib, broken, lastVersion, startup>>
tufWorld == <<releases, settings, splayed, standby, tufEvents>>

TufThreads == {"loop", "request"}
NoCheck == [bins |-> {}, splay |-> FALSE, bypass |-> FALSE]
CheckArgs(bins, splay, bypass) == [bins |-> bins, splay |-> splay, bypass |-> bypass]

\* Something from outside happens: it takes one of the MaxEvents.
TufEvent == tufEvents < MaxEvents /\ tufEvents' = tufEvents + 1

-----------------------------------------------------------------------------
(* Choosing a version. *)

\* findTarget: a pinned version the repository has a target for, and otherwise
\* the release of the channel.
findTarget(m, s, b) == IF s.pin[b] \in Published THEN s.pin[b] ELSE m[s.channel][b]

\* Available: the target's directory is in the library and its executable runs.
Available(b, v) == Dir(v) \in lib[b]

\* mostRecentVersion: the last of sortedVersionsInLibrary.  On the stable
\* channel a launcher older than TUF support is refused.
mostRecentVersion(b, s) ==
    LET newest == Max(lib[b])
    IN  IF lib[b] = {} THEN Unset
        ELSE IF b = "launcher" /\ s.channel = Stable /\ newest < Dir(TufMinimum)
             THEN Unset ELSE newest

\* CheckOutLatest: the target of the local metadata when it is in the library
\* and executable, else the most recent version there.
CheckOutLatest(b, s) ==
    IF meta # Unset /\ Available(b, findTarget(meta, s, b))
    THEN Dir(findTarget(meta, s, b))
    ELSE mostRecentVersion(b, s)

\* latestLauncherPath with what main does about it: a launcher running from cur
\* execs the checked-out launcher unless its version or its path is cur's.
latestLauncherPath(cur) ==
    LET d == CheckOutLatest("launcher", startup)
    IN  IF d \in {Unset, Dir(VersionIn(cur)), cur} THEN cur ELSE d

\* LatestOsquerydPath: the knapsack falls back to the installed osqueryd.
LatestOsquerydPath ==
    LET d == CheckOutLatest("osqueryd", settings) IN IF d = Unset THEN 0 ELSE d

\* currentRunningVersion: launcher's own version; for osqueryd the version of
\* the latest instance in the history, or what LatestOsquerydPath reports.
currentRunningVersion(b) ==
    IF b = "launcher" THEN VersionIn(runs["launcher"])
    ELSE IF lastVersion # Unset THEN lastVersion
    ELSE VersionIn(LatestOsquerydPath)

-----------------------------------------------------------------------------
(* A launcher process. *)

\* A new process running launcher from d: main has chosen it, NewTufAutoupdater
\* has read the settings, and Execute has not begun.  osqueryd is down.
NewProcess(d) ==
    /\ runs' = [launcher |-> d, osqueryd |-> Unset]
    /\ ta' = settings
    /\ unseen' = unseen \ {"tuf"}
    /\ inDelay' = TRUE
    /\ initialDelayTimer' = "none"
    /\ pendingRestart' = {}
    /\ signalRestart' = FALSE
    /\ tufAt' = [loop |-> "tidy", request |-> "idle"]
    /\ tufArgs' = [t \in TufThreads |-> NoCheck]
    /\ binariesToCheck' = {} /\ updatesDownloaded' = {} /\ updateErrors' = FALSE

\* An AddToLibrary cut short leaves the directory it unpacked the update in:
\* with a good executable (validated, not yet renamed) or with a bad one.
CutShort ==
    \/ UNCHANGED libraryVars
    \/ \E b \in binariesToCheck :
         LET v == findTarget(meta, ta, b)
         IN  /\ v # currentRunningVersion(b)
             /\ Dir(v) \notin lib[b]
             /\ \/ lib' = [lib EXCEPT ![b] = @ \union {Leftover(v)}] /\ UNCHANGED broken
                \/ broken' = [broken EXCEPT ![b] = @ \union {Leftover(v)}] /\ UNCHANGED lib

\* Execute returned LauncherReloadNeeded: the run group stops everything and
\* main execs the newer launcher, or the current one again.
Reload ==
    /\ tufAt["loop"] = "reload"
    /\ NewProcess(latestLauncherPath(runs["launcher"]))
    /\ CutShort
    /\ UNCHANGED <<tufWorld, meta, lastVersion, startup>>

\* Launcher dies and the service manager starts the installed binary again.
TufDies ==
    /\ TufEvent
    /\ NewProcess(latestLauncherPath(0))
    /\ CutShort
    /\ UNCHANGED <<outsideVars, meta, lastVersion, startup>>

\* An osquery instance is launched (and added to the history without version).
Launched == /\ runs' = [runs EXCEPT !["osqueryd"] = LatestOsquerydPath]
            /\ lastVersion' = Unset

StartOsquery ==
    /\ runs["osqueryd"] = Unset
    /\ Launched
    /\ UNCHANGED <<tufWorld, meta, libraryVars, tufProcess, startup>>

\* SetConnected records the version the instance reports.
OsqueryConnected ==
    /\ runs["osqueryd"] # Unset
    /\ lastVersion = Unset
    /\ lastVersion' = VersionIn(runs["osqueryd"])
    /\ UNCHANGED <<tufWorld, meta, libraryVars, runs, tufProcess, startup>>

-----------------------------------------------------------------------------
(* The run loop, Execute. *)

\* What TidyLibrary leaves of the valid directories: nothing is removed up to
\* two; beyond, the directory of the current version and one other.
Tidied(dirs, current) ==
    LET others == dirs \ {Dir(current)}
    IN  IF Cardinality(dirs) <= 2 THEN dirs
        ELSE (dirs \intersect {Dir(current)}) \union {Max(others)}

\* tidyLibrary: both libraries, and what cannot be validated is removed.
tidyLibrary ==
    /\ tufAt["loop"] = "tidy"
    /\ lib' = [b \in Binaries |-> Tidied(lib[b], currentRunningVersion(b))]
    /\ broken' = [b \in Binaries |-> {}]
    /\ tufAt' = [tufAt EXCEPT !["loop"] = "delay"]
    /\ UNCHANGED <<tufWorld, meta, runs, lastVersion, ta, startup, unseen,
                   delayVars, restartVars, tufArgs, checkVars>>

\* Execute reads initialDelayEnd ...
ReadDelayEnd ==
    /\ tufAt["loop"] = "delay"
    /\ tufAt' = [tufAt EXCEPT !["loop"] = "timer"]
    /\ initialDelayTimer' = "created"
    /\ UNCHANGED <<tufWorld, tufDisk, runs, ta, unseen, inDelay, restartVars,
                   tufArgs, checkVars>>

\* ... and stores the timer it made of it, where FlagsChanged can reset it.
\* The first routine check follows.
StoreTimer ==
    /\ tufAt["loop"] = "timer"
    /\ initialDelayTimer' = IF initialDelayTimer = "created" THEN "armed" ELSE initialDelayTimer
    /\ tufAt' = [tufAt EXCEPT !["loop"] = "check"]
    /\ tufArgs' = [tufArgs EXCEPT !["loop"] = CheckArgs(Binaries, TRUE, FALSE)]
    /\ UNCHANGED <<tufWorld, tufDisk, runs, ta, unseen, inDelay, restartVars,
                   checkVars>>

DelayEnds ==
    /\ inDelay
    /\ inDelay' = FALSE
    /\ UNCHANGED <<tufWorld, tufDisk, runs, ta, unseen, initialDelayTimer,
                   restartVars, callVars, checkVars>>

\* A timer made of an end that was moved afterwards fires at the old end.
TimerFires ==
    /\ tufAt["loop"] \notin {"tidy", "delay", "timer"}
    /\ \/ initialDelayTimer = "armed" /\ ~inDelay
       \/ initialDelayTimer = "early"
    /\ initialDelayTimer' = "fired"
    /\ UNCHANGED <<tufWorld, tufDisk, runs, ta, unseen, inDelay, restartVars,
                   callVars, checkVars>>

\* The ticker case of the select: the next routine check.
TufTick ==
    /\ tufAt["loop"] = "select"
    /\ tufAt' = [tufAt EXCEPT !["loop"] = "check"]
    /\ tufArgs' = [tufArgs EXCEPT !["loop"] = CheckArgs(Binaries, TRUE, FALSE)]
    /\ UNCHANGED <<tufWorld, tufDisk, runs, ta, unseen, delayVars, restartVars,
                   checkVars>>

\* The signalRestart case: Execute returns the error.
ReceiveSignal ==
    /\ tufAt["loop"] = "select"
    /\ signalRestart
    /\ signalRestart' = FALSE
    /\ tufAt' = [tufAt EXCEPT !["loop"] = "reload"]
    /\ UNCHANGED <<tufWorld, tufDisk, runs, ta, unseen, delayVars,
                   pendingRestart, tufArgs, checkVars>>

\* A call of the osqueryd restart function; its failure is only logged.
RestartOsquery ==
    \/ Launched /\ UNCHANGED tufEvents
    \/ TufEvent /\ UNCHANGED <<runs, lastVersion>>

\* The initialDelayTimer case, with restartIfPending.
restartIfPending ==
    /\ tufAt["loop"] = "select"
    /\ initialDelayTimer = "fired"
    /\ initialDelayTimer' = "done"
    /\ \/ /\ "launcher" \in pendingRestart
          /\ pendingRestart' = pendingRestart \ {"launcher"}
          /\ tufAt' = [tufAt EXCEPT !["loop"] = "reload"]
          /\ UNCHANGED <<runs, lastVersion, tufArgs, tufEvents>>
       \/ /\ "launcher" \notin pendingRestart
          /\ pendingRestart' = {}
          /\ tufAt' = [tufAt EXCEPT !["loop"] = "check"]
          /\ tufArgs' = [tufArgs EXCEPT !["loop"] = CheckArgs(Binaries, TRUE, FALSE)]
          /\ IF pendingRestart = {} THEN UNCHANGED <<runs, lastVersion,
                                                     tufEvents>>
             ELSE RestartOsquery
    /\ UNCHANGED <<outsideVars, meta, libraryVars, ta, startup, unseen, inDelay,
                   signalRestart, checkVars>>

-----------------------------------------------------------------------------
(* checkForUpdate, called by t with args[t]. *)

CheckReturned(t) == tufAt' = [tufAt EXCEPT ![t] = IF t = "loop" THEN "select" ELSE "idle"]
Holding(t) == tufAt[t] = "download"

\* It takes updateLock, returns at once in modern standby or when the metadata
\* cannot be refreshed, and else has the local repository follow the server.
CheckBegins(t) ==
    /\ tufAt[t] = "check"
    /\ \A u \in TufThreads : ~Holding(u)
    /\ \/ /\ standby
          /\ CheckReturned(t) /\ tufArgs' = [tufArgs EXCEPT ![t] = NoCheck]
          /\ UNCHANGED <<meta, checkVars, tufEvents>>
       \/ /\ ~standby /\ TufEvent
          /\ CheckReturned(t) /\ tufArgs' = [tufArgs EXCEPT ![t] = NoCheck]
          /\ UNCHANGED <<meta, checkVars>>
       \/ /\ ~standby
          /\ meta' = releases
          /\ tufAt' = [tufAt EXCEPT ![t] = "download"]
          /\ binariesToCheck' = tufArgs[t].bins /\ updatesDownloaded' = {} /\ updateErrors' = FALSE
          /\ UNCHANGED <<tufArgs, tufEvents>>
    /\ UNCHANGED <<outsideVars, libraryVars, runs, lastVersion, ta, startup,
                   unseen, delayVars, restartVars>>

Next1(bins) == IF "launcher" \in bins THEN "launcher" ELSE "osqueryd"

\* shouldDelayDownload: routine checks leave a release alone until the delay
\* drawn for it within the splay window has passed.
shouldDelayDownload(t, b) == tufArgs[t].splay /\ b \in splayed

\* AddToLibrary: the archive is staged, verified, unpacked, its executable tried,
\* and its directory renamed into place.  Any of these can fail, and the rename
\* cannot replace a broken directory of that version.
AddToLibrary(b, v) ==
    \/ /\ Dir(v) \notin broken[b]
       /\ lib' = [lib EXCEPT ![b] = @ \union {Dir(v)}]
       /\ updatesDownloaded' = updatesDownloaded \union {b}
       /\ UNCHANGED <<updateErrors, tufEvents>>
    \/ /\ IF Dir(v) \in broken[b] THEN UNCHANGED tufEvents ELSE TufEvent
       /\ updateErrors' = TRUE
       /\ UNCHANGED <<lib, updatesDownloaded>>

\* Mutant: a version that is in the library already is not reported.
downloadUpdateOnlyNew(t) ==
    /\ tufAt[t] = "download"
    /\ binariesToCheck # {}
    /\ LET b == Next1(binariesToCheck)
           target == findTarget(meta, ta, b)
       IN  /\ binariesToCheck' = binariesToCheck \ {b}
           /\ IF Available(b, target) \/ currentRunningVersion(b) = target
              THEN UNCHANGED <<lib, updatesDownloaded, updateErrors, tufEvents>>
              ELSE AddToLibrary(b, target)
    /\ UNCHANGED <<outsideVars, meta, broken, runs, lastVersion, ta, startup,
                   unseen, delayVars, restartVars, callVars>>

\* downloadUpdate for the next binary.  The version it runs needs nothing; one
\* already in the library is reported as an update; any other is downloaded,
\* unless this check delays it.
downloadUpdate(t) ==
    /\ tufAt[t] = "download"
    /\ binariesToCheck # {}
    /\ LET b == Next1(binariesToCheck)
           target == findTarget(meta, ta, b)
           new == currentRunningVersion(b) # target
       IN  /\ binariesToCheck' = binariesToCheck \ {b}
           /\ \/ /\ ~new \/ (~Available(b, target) /\ shouldDelayDownload(t, b))
                 /\ UNCHANGED <<lib, updatesDownloaded, updateErrors,
                                tufEvents>>
              \/ /\ new /\ Available(b, target)
                 /\ updatesDownloaded' = updatesDownloaded \union {b}
                 /\ UNCHANGED <<lib, updateErrors, tufEvents>>
              \/ /\ new /\ ~Available(b, target) /\ ~shouldDelayDownload(t, b)
                 /\ AddToLibrary(b, target)
    /\ UNCHANGED <<outsideVars, meta, broken, runs, lastVersion, ta, startup,
                   unseen, delayVars, restartVars, callVars>>

\* Any failure ends the check before anything is restarted.  Otherwise a new
\* launcher comes first (osqueryd is restarted with it), and inside the initial
\* delay the restart is only noted as pending.
CheckEnds(t) ==
    /\ tufAt[t] = "download"
    /\ binariesToCheck = {}
    /\ LET defer == inDelay /\ ~tufArgs[t].bypass
       IN  IF updateErrors \/ updatesDownloaded = {} THEN UNCHANGED <<runs,
                                                                      lastVersion,
                                                                      restartVars,
                                                                      tufEvents>>
           ELSE IF "launcher" \in updatesDownloaded
                THEN /\ pendingRestart' = IF defer THEN pendingRestart \union {"launcher"} ELSE pendingRestart
                     /\ signalRestart' = (signalRestart \/ ~defer)
                     /\ UNCHANGED <<runs, lastVersion, tufEvents>>
                ELSE /\ UNCHANGED signalRestart
                     /\ IF defer
                        THEN /\ pendingRestart' = pendingRestart \union {"osqueryd"}
                             /\ UNCHANGED <<runs, lastVersion, tufEvents>>
                        ELSE RestartOsquery /\ UNCHANGED pendingRestart
    /\ CheckReturned(t)
    /\ tufArgs' = [tufArgs EXCEPT ![t] = NoCheck]
    /\ updatesDownloaded' = {} /\ updateErrors' = FALSE
    /\ UNCHANGED <<outsideVars, meta, libraryVars, ta, startup, unseen,
                   delayVars, binariesToCheck>>

-----------------------------------------------------------------------------
(* The request goroutine: the action queue calls Do, the flag controller calls *)
(* FlagsChanged.                                                               *)

\* Do: a request for known binaries; inside the initial delay it is discarded
\* unless it says to bypass the delay.  (A malformed request, or one for no
\* known binary, does nothing.)  The action queue retries what fails.
TufDo(bins, bypass) ==
    /\ tufAt["request"] = "idle"
    /\ TufEvent
    /\ ~inDelay \/ bypass
    /\ tufAt' = [tufAt EXCEPT !["request"] = "check"]
    /\ tufArgs' = [tufArgs EXCEPT !["request"] = CheckArgs(bins, FALSE, bypass)]
    /\ UNCHANGED <<outsideVars, tufDisk, runs, ta, unseen, delayVars,
                   restartVars, checkVars>>

\* The control server changes the channel or a pinned version; the autoupdater
\* and the startup settings writer have still to hear of it.
ChangeSettings(s) ==
    /\ TufEvent
    /\ s # settings
    /\ settings' = s
    /\ unseen' = {"tuf", "startup"}
    /\ UNCHANGED <<releases, tufDisk, runs, ta, delayVars, restartVars,
                   callVars, checkVars, splayed, standby>>

\* WriteSettings of the startup settings writer, from FlagsChanged.
WriteSettings ==
    /\ "startup" \in unseen
    /\ startup' = settings
    /\ unseen' = unseen \ {"startup"}
    /\ UNCHANGED <<tufWorld, meta, libraryVars, runs, lastVersion, ta,
                   delayVars, restartVars, callVars, checkVars>>

\* FlagsChanged of the autoupdater: it copies the settings, without a lock, and
\* outside the initial delay checks the binaries they concern.
TufFlagsChanged ==
    /\ "tuf" \in unseen
    /\ tufAt["request"] = "idle"
    /\ unseen' = unseen \ {"tuf"}
    /\ ta' = settings
    /\ LET bins == {b \in Binaries : \/ settings.channel # ta.channel
                                    \/ settings.pin[b] # ta.pin[b]}
       IN  IF bins = {} \/ inDelay THEN UNCHANGED callVars
           ELSE /\ tufAt' = [tufAt EXCEPT !["request"] = "check"]
                /\ tufArgs' = [tufArgs EXCEPT !["request"] = CheckArgs(bins, FALSE, FALSE)]
    /\ UNCHANGED <<tufWorld, tufDisk, runs, delayVars, restartVars, checkVars>>

\* FlagsChanged for AutoupdateInterval: outside the delay, everything is checked.
IntervalChanged ==
    /\ tufAt["request"] = "idle"
    /\ tufAt["loop"] \notin {"tidy", "delay"}
    /\ ~inDelay
    /\ TufEvent
    /\ tufAt' = [tufAt EXCEPT !["request"] = "check"]
    /\ tufArgs' = [tufArgs EXCEPT !["request"] = CheckArgs(Binaries, FALSE, FALSE)]
    /\ UNCHANGED <<outsideVars, tufDisk, runs, ta, unseen, delayVars,
                   restartVars, checkVars>>

\* FlagsChanged for AutoupdateInitialDelay, during the delay: the end moves to
\* later, or to a time already past.  The timer follows when it is stored; one
\* created but not yet stored keeps the old end.
InitialDelayChanged(later) ==
    /\ inDelay
    /\ TufEvent
    /\ inDelay' = later
    /\ initialDelayTimer' = IF later /\ initialDelayTimer = "created" THEN "early" ELSE
                IF later /\ initialDelayTimer = "early" /\ tufAt["loop"] # "timer" THEN "armed" ELSE initialDelayTimer
    /\ UNCHANGED <<outsideVars, tufDisk, runs, ta, unseen, restartVars,
                   callVars, checkVars>>

-----------------------------------------------------------------------------
(* The world outside. *)

\* A release of a channel is promoted (or rolled back).  The splay delay of its
\* download starts, if there is one.
Promote(c, b, v) ==
    /\ TufEvent
    /\ v # releases[c][b]
    /\ releases' = [releases EXCEPT ![c][b] = v]
    /\ splayed' \in {splayed, splayed \union {b}}
    /\ UNCHANGED <<tufDisk, runs, settings, tufProcess, standby>>

SplayEnds(b) ==
    /\ b \in splayed
    /\ splayed' = splayed \ {b}
    /\ UNCHANGED <<releases, tufDisk, runs, settings, tufProcess, standby,
                   tufEvents>>

\* Windows enters or leaves modern standby.
Standby ==
    /\ \/ standby /\ UNCHANGED tufEvents
       \/ ~standby /\ TufEvent
    /\ standby' = ~standby
    /\ UNCHANGED <<releases, tufDisk, runs, settings, tufProcess, splayed>>

\* An executable in the library is damaged or quarantined.
Corrupt(b, d) ==
    /\ TufEvent
    /\ d \in lib[b]
    /\ lib' = [lib EXCEPT ![b] = @ \ {d}]
    /\ broken' = [broken EXCEPT ![b] = @ \union {d}]
    /\ UNCHANGED <<outsideVars, meta, runs, lastVersion, tufProcess, startup>>

-----------------------------------------------------------------------------
TufInit ==
    /\ releases = [c \in Channels |-> [b \in Binaries |-> Installed]]
    /\ meta = Unset
    /\ lib = [b \in Binaries |-> {}] /\ broken = [b \in Binaries |-> {}]
    /\ runs = [launcher |-> 0, osqueryd |-> Unset]
    /\ lastVersion = Unset
    /\ settings = [channel |-> Stable, pin |-> [b \in Binaries |-> Unset]]
    /\ ta = settings /\ startup = settings /\ unseen = {}
    /\ inDelay = TRUE /\ initialDelayTimer = "none" /\ pendingRestart = {} /\ signalRestart = FALSE
    /\ tufAt = [loop |-> "tidy", request |-> "idle"]
    /\ tufArgs = [t \in TufThreads |-> NoCheck]
    /\ binariesToCheck = {} /\ updatesDownloaded = {} /\ updateErrors = FALSE
    /\ splayed = {} /\ standby = FALSE
    /\ tufEvents = 0

TufStarts == Reload \/ tidyLibrary \/ ReadDelayEnd \/ StoreTimer
Checks(t) == downloadUpdate(t) \/ CheckEnds(t)

TufNext ==
    \/ TufStarts \/ TufTick \/ ReceiveSignal \/ restartIfPending
    \/ \E t \in TufThreads : CheckBegins(t) \/ Checks(t)
    \/ DelayEnds \/ TimerFires \/ StartOsquery \/ OsqueryConnected
    \/ WriteSettings \/ TufFlagsChanged \/ IntervalChanged
    \/ \E later \in BOOLEAN : InitialDelayChanged(later)
    \/ \E bins \in SUBSET Binaries \ {{}}, bypass \in BOOLEAN : TufDo(bins, bypass)
    \/ \E s \in Settings : ChangeSettings(s)
    \/ \E c \in Channels, b \in Binaries, v \in Published : Promote(c, b, v)
    \/ \E b \in Binaries : SplayEnds(b)
    \/ Standby \/ TufDies
    \/ \E b \in Binaries, d \in Dirs : Corrupt(b, d)

\* Goroutines run on; a mutex asked for is obtained in the end (sync.Mutex hands
\* itself to a starving waiter); a select that can receive the same thing again
\* and again does (the case is chosen at random); time passes, osquery starts
\* and connects, observers are told, sleep ends.
TufFairness ==
    /\ WF_tufVars(TufStarts) /\ WF_tufVars(TufTick)
    /\ \A t \in TufThreads : SF_tufVars(CheckBegins(t)) /\ WF_tufVars(Checks(t))
    /\ SF_tufVars(ReceiveSignal) /\ SF_tufVars(restartIfPending)
    /\ WF_tufVars(DelayEnds) /\ WF_tufVars(TimerFires)
    /\ WF_tufVars(StartOsquery) /\ WF_tufVars(OsqueryConnected)
    /\ WF_tufVars(WriteSettings) /\ SF_tufVars(TufFlagsChanged)
    /\ WF_tufVars(\E b \in Binaries : SplayEnds(b))
    /\ WF_tufVars(standby /\ Standby)

TufSpec == TufInit /\ [][TufNext]_tufVars /\ TufFairness

-----------------------------------------------------------------------------
\* What each binary should run.
Wanted(b) == findTarget(releases, settings, b)

\* Once releases and settings settle, launcher and osqueryd end up running the
\* version the settings select, and stay on it: no download, deferred restart
\* or settings change is lost, and no pair of lookups makes launcher restart
\* for ever (Execute, checkForUpdate, restartIfPending, FlagsChanged, main).
\* The library must not keep a broken directory where that version belongs:
\* AddToLibrary cannot replace one, only TidyLibrary at the next start does.
UpdatesRun ==
    (\A b \in Binaries : <>[](Dir(Wanted(b)) \notin broken[b]))
        => \A b \in Binaries : <>[](/\ runs[b] # Unset
                                   /\ VersionIn(runs[b]) = Wanted(b))
=============================================================================
