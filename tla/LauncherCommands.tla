--------------------------- MODULE LauncherCommands ---------------------------
(***************************************************************************)
(* cmd/launcher as Steps: the entry point, the start-up of launcher, its   *)
(* subcommands, and the check of the Windows service's configuration.      *)
(***************************************************************************)
EXTENDS Steps

(***************************************************************************)
(* main.go                                                                 *)
(***************************************************************************)
latestLauncherPath == <<Must("check out latest launcher")>>

\* A newer launcher runs in place of this one; its end is the end of this one.
startNewer ==
  WhenNot("skip updates", <<TryCall("latestLauncherPath")>> \o When("newer launcher", <<Must("exec newer launcher")>> \o Return))

\* runLauncher's error asks for a restart, or ends launcher with status 1.
afterLauncher ==
  WhenErr(WhenNot("restart requested", Fail)
          \o When("reload needed", <<Call("runNewerLauncherIfAvailable")>>)
          \o <<Must("current executable"), Must("exec launcher")>>)

\* Options that cannot be parsed, and a panic, end with status 0.
runMain ==
  When("native messaging", <<Try("read native messages")>> \o Return)
  \o <<Open("system log"), Defer("system log"), Hold("context"), Defer("context")>>
  \o startNewer
  \o When("subcommand", <<Call("runSubcommands")>> \o Return)
  \o <<Quit("parse options"), Recover, TryCall("runLauncher")>>
  \o afterLauncher

\* An exec that comes back without an error is an error too.
runNewerLauncherIfAvailable ==
  <<QuitCall("latestLauncherPath")>> \o WhenNot("newer launcher", Return) \o <<Must("exec newer launcher")>> \o Fail

runSubcommands ==
  OneOf(<<"runDoctor", "runFlare", "runWindowsSvc", "runWindowsSvcForeground", "runVersion", "runCompactDb", "runInteractive",
          "runDesktop", "runDownload", "runDownloadOsquery", "runUninstall", "RunWatchdogTask", "runQueryWindowsUpdates",
          "RunDisclaimed", "runEnroll", "runSpecs">>) \o Fail

runVersion == <<Open("console"), Try("print version"), Close("console")>>

(***************************************************************************)
(* launcher.go.  A temporary root directory is meant to stay.              *)
(***************************************************************************)
startRoot ==
  <<Try("wait for DNS")>>
  \o When("no root directory", <<Open("temporary root directory"), Keep("temporary root directory")>>)
  \o <<Must("make root directory"), Must("chmod root directory")>>
  \o When("default parent directory", <<Must("chmod parent directory")>>)
  \o <<Must("detect platform")>>

startStores ==
  When("debug", <<TryOpen("debug_addr"), Defer("debug_addr")>>)
  \o <<Try("use backup database"), Open("database"), Defer("database"), Try("restrict file access"), Call("writePidFile"),
       Call("MakeStores"), Call("initLauncherHistory")>>

writePidFile == <<Must("write pid file")>>

initLauncherHistory ==
  <<Try("set process start time"), Try("get first recorded version")>>
  \o When("no first version", <<Try("set first recorded version")>>)
  \o <<Try("get first recorded run time")>>
  \o When("no first run time", <<Try("set first recorded run time")>>)

runOsqueryVersionCheckAndAddToKnapsack ==
  <<Quit("new osquery process"), Hold("version context"), Defer("version context"), Quit("run version")>>

\* The log shipper and the exporter exist only if there is a control server.
startLogs ==
  <<Go("runOsqueryVersionCheckAndAddToKnapsack")>> \o When("two minutes passed", <<Go("AddExclusions")>>)
  \o When("control server", <<Open("logShipper"), Keep("logShipper"), TryOpen("telemetryExporter"), Keep("telemetryExporter")>>)

startServices ==
  <<Open("startupSettingsWriter"), Defer("startupSettingsWriter"), Try("write settings"), TryCall("RecordLauncherVersion"),
    Try("new watchdog controller"), TryOpen("powerEventWatcher"), Keep("powerEventWatcher"),
    Call("SetupKeys"), Go("collectEnrollmentDetails"), Must("init osquery history"),
    Open("logPublishClient"), Defer("logPublishClient"), Open("launcherListener"), Keep("launcherListener")>>

\* The log shipper is told about the serial number.
collectEnrollmentDetails == <<Try("collect enrollment details"), Use("logShipper")>>

createHTTPClient == <<Must("new control HTTP client")>>
createControlService == <<Call("createHTTPClient")>>

startControl ==
  When("control server",
    <<Call("createControlService"), Must("new localization consumer"), Open("runner"), Keep("runner"),
      Call("SetHardwareKeysRunner"), Open("actionsQueue"), Keep("actionsQueue"), Must("new notify consumer"),
      Must("register auth token consumer")>>
    \o WhenSet("logShipper", <<Use("logShipper")>>) \o WhenSet("telemetryExporter", <<Use("telemetryExporter")>>)
    \o <<Use("logPublishClient"), Call("PingMetadata"), Must("register dt4a consumer"), Must("register zta consumer")>>)

\* An error of localserver.New is logged, and the server used all the same.
startLocalServer ==
  When("run EE code",
    <<TryOpen("localserver"), Keep("localserver"), Use("localserver"), TryCall("WriteNativeMessagingManifest")>>)

startUpdates ==
  When("autoupdate",
    <<Open("tufAutoupdater"), Keep("tufAutoupdater")>>
    \o WhenSet("actionsQueue", <<Use("actionsQueue")>>)
    \o When("no osqueryd", <<Try("download osqueryd")>>))
  \o <<Must("run group")>>

runLauncher == startRoot \o startStores \o startLogs \o startServices \o startControl \o startLocalServer \o startUpdates

(***************************************************************************)
(* internal                                                                *)
(***************************************************************************)
RecordLauncherVersion ==
  <<Must("glob version files")>>
  \o When("only this version", Return)
  \o When("no version", <<Must("touch version file")>> \o Return)
  \o ForEach(WhenNot("", <<Must("remove old version file")>>))
  \o WhenNot("version found", <<Must("touch version file")>>)

currentRecordedMetadata == <<Quit("metadata exists"), Quit("read metadata"), Quit("unmarshal metadata")>>
populateLatestServerData == <<Must("store exists")>> \o ForEach(<<Try("get server data")>>)
recordMetadata ==
  <<Must("marshal"), Must("write metadata.json")>> \o WhenNot("darwin", Return) \o <<Must("marshal plist"), Must("write metadata.plist")>>
PingMetadata == <<Call("currentRecordedMetadata"), TryCall("populateLatestServerData"), TryCall("recordMetadata")>>

(***************************************************************************)
(* Subcommands                                                             *)
(***************************************************************************)
runDoctor == <<Open("console"), Defer("console"), Must("parse options"), Call("RunDoctor")>>

\* RunFlare closes what it is given, whether it fails or not.
runFlare ==
  <<Open("console"), Defer("console"), Must("parse flags"), Must("parse options")>>
  \o When("upload", <<Open("flare stream"), Call("RunFlare")>> \o Return)
  \o When("local", <<Open("flare stream"), Defer("flare stream"), Call("RunFlare")>> \o Return)
  \o Fail

\* Wait fails for a process that is gone.
runInteractive ==
  <<Must("parse options"), Try("check out osqueryd"), Must("osqueryd path"), Open("interactive root"), Defer("interactive root")>>
  \o WhenNot("tls certs given", <<Must("install CA certs")>>)
  \o <<Call("StartProcess"), Defer("extension server"), Close("osqueryd process"), Must("wait for osqueryd")>>

runEnroll ==
  <<Open("console"), Defer("console"), Must("parse flags"), Must("parse options"), Must("token given"),
    Open("listener connection"), Defer("listener connection"), Must("enroll")>>

runDownload ==
  <<Must("parse flags"), Hold("download context"), Defer("download context")>>
  \o When("no binary named", <<Must("list targets")>> \o Return)
  \o <<Must("download")>>
  \o When("raw", <<Must("make directory"), Must("write tarball")>> \o Return)
  \o <<Must("make directory"), Call("extractTarGz")>>
runDownloadOsquery == <<Call("runDownload")>>

extractTarGz ==
  <<Open("gzip reader"), Defer("gzip reader")>>
  \o ForEach(<<Must("next header"), Must("name without ..")>>
             \o When("", <<Must("make directory")>>)
             \o When("", <<Must("make parent directory"), Call("extractFile")>>))

extractFile == <<Open("extracted file"), Defer("extracted file"), Must("copy")>>

runCompactDb ==
  <<Must("parse flags"), Must("parse options"), Must("root directory set")>>
  \o When("file named", <<Must("is a launcher database"), Must("in root directory")>>)
  \o <<Call("DbCompact")>>

runUninstall ==
  <<Must("parse flags"), Must("parse options"), TryCall("RemoveNativeMessagingManifest"), Hold("uninstall context"), Defer("uninstall context")>>
  \o When("darwin", <<Call("removeLauncherDarwin")>> \o Return)
  \o When("linux", <<Call("removeLauncherLinux")>> \o Return)
  \o Fail

\* On macOS a path that stays behind ends the removal, without an error.
removeLauncherDarwin ==
  <<Hold("launchctl context"), Defer("launchctl context"), Must("find launchctl"), Must("unload daemon")>>
  \o ForEach(<<Try("remove path")>>)
  \o When("a path was not removed", Return)
  \o <<Hold("pkgutil context"), Defer("pkgutil context"), Must("find pkgutil"), Quit("forget package")>>

removeLauncherLinux ==
  <<Must("find systemctl"), Try("disable service")>>
  \o When("dpkg", <<Try("purge package")>>)
  \o WhenNot("dpkg", <<Must("find rpm"), Try("erase package")>>)
  \o ForEach(<<Try("remove path")>>)

runDesktop ==
  <<Must("parse flags"), Call("applyGomaxprocs"), Try("current user"), Must("new user server"), Go("runDesktopGroup")>>
runDesktopGroup == <<Try("run group")>>
applyGomaxprocs == <<Quit("GOMAXPROCS set"), Quit("parse GOMAXPROCS")>>

\* The body of every answer is closed, an error's too.
makeGetRequest == <<Hold("request context"), Defer("request context"), Must("new request"), Open("response"), Give("response")>>
notifyRunnerServerMenuOpened == ForEach(<<TryCall("makeGetRequest"), Close("response")>>)

(***************************************************************************)
(* specs.go and query_windowsupdates_windows.go                            *)
(***************************************************************************)
runSpecs ==
  <<Must("parse flags")>>
  \o When("merge", <<Call("runMergeSpecs")>> \o Return)
  \o ForEach(<<Must("known field")>>)
  \o When("output named", <<Open("output file"), Defer("output file")>>)
  \o ForEach(<<Skip("is a table"), Skip("marshal spec"), Try("required fields present")>>)
  \o <<Must("all valid"), Must("none missing")>>

runMergeSpecs ==
  <<Must("files given")>>
  \o ForEach(<<Call("mergeSpecFile")>>)
  \o <<Must("no conflicts"), Must("marshal")>>
  \o When("output named", <<Open("output file"), Defer("output file")>>)
  \o <<Must("write specs")>>

mergeSpecFile == <<Open("spec file"), Defer("spec file"), Call("readSpecs")>>

readSpecs ==
  <<Must("read input")>>
  \o When("empty", Return)
  \o When("array", <<Must("decode array")>> \o Return)
  \o ForEach(<<Must("decode spec")>>)

runQueryWindowsUpdates == <<Must("parse flags"), TryCall("searchLocale"), Must("marshal results"), Must("write results")>>

\* TryAdd counts even when it fails, so its failure is undone as well.
searchLocale ==
  <<Hold("comshim count"), Try("set up comshim")>>
  \o WhenErr(<<Close("comshim count")>> \o Fail)
  \o <<Defer("comshim count"), Call("getSearcher"), Must("known table mode"), Must("query"), Must("marshal")>>

getSearcher ==
  <<Must("new session")>>
  \o WhenNot("default locale", <<Must("parse locale"), Must("set locale")>>)
  \o <<Must("get locale"), Must("locale was set"), Must("create searcher")>>

(***************************************************************************)
(* pkg/osquery/interactive, ee/disclaim, ee/uninstall, ee/watchdog         *)
(***************************************************************************)
StartProcess ==
  <<Must("make root directory")>>
  \o WhenNot("windows", <<Must("make lens directory"), Must("install lenses")>>)
  \o WhenNot("config path given", <<TryCall("generateConfigPlugin")>>)
  \o <<Open("osqueryd process"), Give("osqueryd process"), TryCall("waitForFile")>>
  \o WhenErr(<<Close("osqueryd process")>> \o Fail)
  \o <<TryCall("loadExtensionsAndStartServer")>>
  \o WhenErr(<<Close("osqueryd process")>> \o Fail)

waitForFile == <<Hold("ticker"), Defer("ticker"), Hold("timer"), Defer("timer"), Must("file exists in time")>>

\* The server owns the client, once there is a server that has started.
loadExtensionsAndStartServer ==
  <<Open("extension client"), Must("new server"), Must("start server"), Close("extension client"), Open("extension server"), Give("extension server")>>

generateConfigPlugin == <<Open("settings reader"), Defer("settings reader"), Must("get tables"), Must("tables set")>>

RunDisclaimed ==
  <<Quit("command present"), Call("commandToDisclaim"), Open("C path"), Defer("C path"), Open("C arguments"), Defer("C arguments"),
    Open("C environment"), Defer("C environment"), Must("spawn")>>

commandToDisclaim ==
  <<Must("arguments"), Call("getCmdGenerator")>> \o ForEach(<<Must("allowed option")>>)
  \o When("brew", <<Call("generateBrewCommand")>> \o Return) \o <<Must("generate command")>>
getCmdGenerator == <<Must("supported command")>>
generateBrewCommand == <<Must("find brew"), Must("current user")>>

Uninstall ==
  <<TryCall("removeEnrollSecretFile"), Try("reset database")>>
  \o ForEach(<<Try("remove backup")>>)
  \o <<TryCall("RemoveNativeMessagingManifest")>>
  \o WhenNot("exit on completion", Return)
  \o When("windows", <<TryCall("disableAutoStartWindows")>>)
  \o When("darwin", <<TryCall("disableAutoStartDarwin")>>)
  \o When("linux", <<TryCall("disableAutoStartLinux")>>)
removeEnrollSecretFile == <<Must("path set"), Must("remove secret")>>
disableAutoStartWindows ==
  <<Open("service manager"), Defer("service manager"), Open("service"), Defer("service"), Must("get config"), Must("update config"),
    Must("remove watchdog task")>>
disableAutoStartDarwin == <<Hold("launchctl context"), Defer("launchctl context"), Must("find launchctl"), Must("unload daemon")>>
disableAutoStartLinux == <<Must("find systemctl"), Must("disable service")>>

RunWatchdogTask ==
  <<Must("parse options")>>
  \o When("root directory set", <<Open("watchdog log"), Defer("watchdog log")>>)
  \o When("install", <<Must("install task")>> \o Return)
  \o When("remove", <<Must("remove task")>> \o Return)
  \o <<TryCall("ensureServiceRunning")>>

ensureServiceRunning ==
  <<Open("service manager"), Defer("service manager"), Open("service"), Defer("service"), Must("query status")>>
  \o When("stopped", <<Must("start service")>>)

(***************************************************************************)
(* svc_windows.go and svc_config_windows.go                                *)
(***************************************************************************)
runWindowsSvc == <<Must("parse options"), Recover, Must("run service")>>
runWindowsSvcForeground == <<Open("console"), Defer("console"), Must("parse options"), Must("run service")>>

checkServiceConfiguration ==
  WhenNot("hosted server", Return)
  \o <<QuitOpen("service key"), Defer("service key"), Call("checkDelayedAutostart"), Call("checkDependOnService"),
       QuitOpen("service manager"), Defer("service manager"), QuitOpen("service"), Defer("service"),
       Call("checkRestartActions"), Call("checkRecoveryActions"), Call("checkCurrentVersionMetadata"), Call("checkRootDirACLs"),
       Try("find backups")>>
  \o ForEach(<<Call("checkRestrictedFileACLs")>>)

checkDelayedAutostart == <<Quit("get value")>> \o When("already disabled", Return) \o <<Try("disable")>>
checkDependOnService ==
  <<Try("get services")>>
  \o WhenErr(When("not in registry", <<Try("set services")>>) \o Return)
  \o ForEach(When("", Return))
  \o <<Try("add service")>>
checkRestartActions == <<Quit("get flag")>> \o When("flag set", Return) \o <<Quit("set flag")>>
checkRecoveryActions == <<Quit("get actions")>> \o When("actions set", Return) \o <<Try("set actions")>>
checkCurrentVersionMetadata == <<QuitOpen("version key"), Defer("version key")>> \o When("current version", Return) \o <<Quit("set version")>>
checkRootDirACLs ==
  <<Quit("root directory set"), Quit("users SID"), Quit("admins SID"), Quit("owner SID"), Quit("system SID"), Quit("new DACL"), Quit("set DACL")>>
checkRestrictedFileACLs == <<Quit("file exists"), Try("restrict file access")>>
=============================================================================
