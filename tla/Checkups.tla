------------------------------- MODULE Checkups -------------------------------
(***************************************************************************)
(* ee/debug as Steps: what doctor, flare and the hourly log do with a      *)
(* checkup, and the Run method of every checkup, which either returns an   *)
(* error or gives the checkup a status.  Status methods that do not depend *)
(* on Run are the Report at the top.  The bundle and its entries are zip   *)
(* writers; writing text to one is not a step.                             *)
(***************************************************************************)
EXTENDS Steps

(***************************************************************************)
(* The framework: a checkup's Run is a root of its own.                    *)
(***************************************************************************)
checkupsFor == ForEach(When("", <<Set("checkups")>>))
doctorCheckup == <<Must("run checkup")>>
runDoctorCheckup == <<Hold("checkup context"), Defer("checkup context"), TryCall("doctorCheckup")>>
RunDoctor == <<Call("checkupsFor")>> \o WhenSet("checkups", ForEach(<<TryCall("runDoctorCheckup")>>))

\* The summary is added to the bundle on every way out.
flareCheckup ==
  When("extra file", <<Quit("create extra file")>>)
  \o <<Quit("run checkup")>>
  \o When("checkup data", <<Quit("create data.json"), Quit("encode data")>>)

RunFlare ==
  <<Hold("flare zip"), TryCall("writeFlareEnv")>>
  \o WhenErr(<<TryCall("finalize")>> \o Fail)
  \o ForEach(<<TryCall("flareCheckup"), Try("flush")>> \o WhenErr(<<TryCall("finalize")>> \o Fail))
  \o <<TryCall("noteMultipleInstallations"), Call("finalize")>>
finalize ==
  <<Try("create doctor.log")>> \o WhenErr(<<Close("flare zip"), Close("flare stream")>> \o Fail)
  \o <<Try("write doctor.log")>> \o WhenErr(<<Close("flare zip"), Close("flare stream")>> \o Fail)
  \o <<Close("flare zip"), Close("flare stream"), Must("close bundle")>>
writeFlareEnv == <<Must("create note"), Must("create metadata.json"), Must("encode environment")>>
noteMultipleInstallations == <<Quit("read installations")>> \o WhenNot("several installations", Return) \o <<Quit("create note of installations")>>

\* The hourly log: a checkup that returns an error is logged by its status.
CheckupsOnce == ForEach(<<Try("run checkup")>>)
LogCheckupsOnStartup == ForEach(<<Try("run checkup")>>)

(***************************************************************************)
(* util.go                                                                 *)
(***************************************************************************)
\* An error of stat other than "not found" and "no permission" leaves no file
\* information to describe.
addFileToZip ==
  <<Must("create metadata entry"), TryOpen("file information"), Close("file information")>>
  \o WhenErr(When("not found or no permission", Return))
  \o <<Use("file information"), Must("marshal information"), Must("indent information"), Must("write information"),
       QuitOpen("zipped file"), Defer("zipped file"), Must("file header"), Must("create entry"), Must("copy file")>>
addStreamToZip ==
  <<Must("create metadata entry"), Must("marshal information"), Must("indent information"), Must("write information"),
    Must("create entry"), Must("copy stream")>>
recursiveDirectoryContents == <<Must("walk directory")>>
runCmdMarkdownLogged == <<Must("run command")>>
parseUrl == <<Must("parse URL")>>

(***************************************************************************)
(* The checkups, in the order of checkupsFor                               *)
(***************************************************************************)
Platform ==
  <<Report("Informational")>> \o WhenNot("flare", Return)
  \o <<Hold("zip"), Defer("zip")>> \o ForEach(<<Call("addFileToZip")>>)

hostInfoCheckup == <<TryCall("bboltDbSize"), Try("enrollment status"), Try("uptime"), Report("Informational")>>
bboltDbSize == <<Must("database open"), Call("GetStats")>>

Version == Or(Try("parse version"), "Failing") \o <<Report("Passing")>>
VersionData ==
  When("history store", <<TryCall("getTimeFromStore"), Try("get first version")>>)
getTimeFromStore == <<Must("get time")>> \o When("no time", Return) \o <<Must("parse time")>>

Processes ==
  <<Report("Failing"), Must("list processes")>>
  \o ForEach(<<Try("encode process")>> \o When("", <<Set("kolide process")>> \o When("", <<Set("runs as root")>>)))
  \o WhenSet("runs as root", When("two processes", <<Report("Passing")>>))

\* Both directory checkups: what the walk found.
ReportsContents ==
  <<TryCall("recursiveDirectoryContents")>>
  \o WhenErr(When("directory missing", <<Report("Failing")>> \o Return) \o <<Report("Erroring")>> \o Return)
  \o When("directory empty", <<Report("Warning")>> \o Return)
  \o <<Report("Passing")>>
RootDirectory == ReportsContents
BinaryDirectory == <<Must("a bin directory")>> \o ReportsContents
getBinDirOnNixOS == <<Quit("find bin directories")>> \o When("one bin directory", Return) \o ForEach(<<Skip("stat bin directory")>>)

Connectivity ==
  WhenNot("kolide hosted", <<Report("Unknown")>> \o Return)
  \o ForEach(When("", Continue)                            \* not in the knapsack
             \o <<TryCall("parseUrl")>> \o WhenErr(<<Set("failing host")>> \o Continue)
             \o When("", Continue)                         \* asked already
             \o <<TryCall("checkKolideServer")>> \o WhenErr(<<Set("failing host")>> \o Continue))
  \o WhenSet("failing host", <<Report("Failing")>> \o Return)
  \o <<Report("Passing")>>
checkKolideServer ==
  <<Hold("request context"), Defer("request context"), Must("new request"), Open("response body"), Defer("response body"),
    Must("status OK"), Must("read body")>>

CheckupLogs ==
  Or(Try("stat debug log"), "Failing") \o <<Report("Passing")>>
  \o WhenNot("flare", Return)
  \o <<Hold("zip"), Defer("zip")>> \o ForEach(<<Call("addFileToZip")>>)

InitLogs == <<Report("Passing")>> \o WhenNot("flare", Return) \o <<Hold("zip"), Defer("zip"), Call("writeInitLogs")>>
writeInitLogs ==
  When("darwin", <<Must("find logs")>> \o ForEach(<<TryCall("addFileToZip")>>) \o <<Must("all added")>> \o Return)
  \o <<Must("log command"), Must("command output"), Call("addStreamToZip")>>

launchdCheckup ==
  <<Hold("zip"), Defer("zip")>>
  \o When("flare", <<TryCall("gatherLaunchdLogs")>> \o When("", <<TryCall("addStreamToZip")>>))
  \o Or(Try("plist exists"), "Failing")
  \o Or(TryCall("addFileToZip"), "Erroring")
  \o Or(Try("find launchctl"), "Erroring")
  \o Or(Try("launchctl print"), "Failing")
  \o Or(TryCall("addStreamToZip"), "Erroring")
  \o Or(Try("state running"), "Failing")
  \o <<Report("Passing")>>
gatherLaunchdLogs ==
  <<Must("find launchd logs")>>
  \o ForEach(<<Open("launchd log"), Try("scan log")>> \o WhenErr(<<Close("launchd log")>> \o Fail) \o <<Close("launchd log")>>)

runtimeCheckup ==
  <<Report("Informational")>> \o WhenNot("flare", Return)
  \o <<Hold("zip"), Defer("zip"), Call("gatherMemStats"), Call("gatherStack"), Call("gatherPprofMemory"), Call("gatherPprofCpu"), Call("gatherDesktopProfiles")>>
gatherMemStats == <<Must("create entry"), Must("encode statistics")>>
gatherStack == <<Must("create entry"), Must("write stack")>>
gatherPprofMemory == <<Must("create entry"), Must("write heap profile")>>
\* The profile is stopped by a goroutine of its own.
gatherPprofCpu == <<Must("create entry"), Open("CPU profile"), Go("StopCpuProfile"), Must("profile in time")>>
StopCpuProfile == <<Close("CPU profile")>>
gatherDesktopProfiles ==
  <<Must("request CPU profiles"), Must("request memory profiles")>>
  \o ForEach(<<SkipCall("addFileToZip"), Try("remove profile")>>)
  \o ForEach(<<SkipCall("addFileToZip"), Try("remove profile")>>)

\* The first path's status, unless some path passes.
enrollSecretCheckup ==
  ForEach(<<TryCall("parseSecret")>>
          \o WhenErr(WhenUnset("secret status", <<Report("Failing")>> \o When("", <<Report("Informational")>>) \o When("", <<Report("Erroring")>>))
                     \o <<Set("secret status")>> \o Continue)
          \o <<Set("secret status"), Set("secret passes")>>)
  \o WhenSet("secret passes", <<Report("Passing")>> \o Return)
  \o WhenSet("secret status", Return)
  \o <<Report("Erroring")>>
parseSecret == <<Open("secret file"), Defer("secret file"), Must("read secret"), Must("parse token"), Must("claims"), Try("encode claims"), Must("organization")>>

bboltdbCheckup ==
  <<Report("Informational")>> \o WhenNot("database open", Return)
  \o <<Call("GetStats")>> \o WhenNot("flare", Return) \o <<QuitCall("backupStats"), Quit("encode statistics")>>
backupStats == ForEach(<<Skip("stat backup"), Call("backupStatsFromDb")>>)
backupStatsFromDb == <<Open("backup database"), Defer("backup database"), Call("GetStats")>>

networkCheckup ==
  <<TryOpen("test listener")>> \o WhenErr(<<Report("Failing")>>)
  \o WhenSet("test listener", <<Close("test listener"), Report("Passing")>>)
  \o WhenNot("flare", Return)
  \o <<Hold("zip"), Defer("zip"), Must("create commands.md")>>
  \o ForEach(<<TryCall("runCommand")>>) \o ForEach(<<TryCall("addFileToZip")>>)
runCommand == <<Hold("command context"), Defer("command context"), Quit("allowed command"), TryCall("runCmdMarkdownLogged")>>

installCheckup == <<Report("Informational"), Hold("zip"), Defer("zip"), Call("gatherInstallationLogs"), Call("gatherInstallerInfo")>>
gatherInstallationLogs == WhenNot("darwin", Return) \o <<Call("addFileToZip")>>
gatherInstallerInfo ==
  WhenNot("windows", <<Call("addFileToZip")>> \o Return)
  \o ForEach(<<TryCall("getDefaultRegistryValue")>>) \o <<Must("marshal info"), Call("addStreamToZip")>>
getDefaultRegistryValue == <<Open("registry key"), Defer("registry key"), Must("get value")>>

\* The service manager is never disconnected.
servicesCheckup ==
  <<Report("Failing"), Open("service manager"), Open("service"), Defer("service"), Try("query service")>>
  \o WhenErr(<<Set("no service state")>>)
  \o <<Try("query config")>>
  \o WhenUnset("no service state", When("service running", <<Report("Passing")>>))
  \o WhenNot("flare", Return)
  \o <<Hold("zip"), Defer("zip"), Call("gatherServices"), Call("gatherServiceManagerEventLogs"), Call("gatherServiceManagerEvents")>>
gatherServices == <<Must("list services"), Must("create entry"), Must("marshal services"), Must("write services")>>
gatherServiceManagerEvents == <<Must("create entry"), Must("find powershell"), Must("run Get-WinEvent")>>
gatherServiceManagerEventLogs == <<Must("create entry"), Must("find powershell"), Must("run Get-EventLog")>>

powerCheckup ==
  <<Report("Informational"), Hold("report file"), Defer("report file"), Must("find powercfg"), Must("run powercfg"), Hold("zip"), Defer("zip"),
    Call("addFileToZip"), Must("find powercfg"), Must("sleep states"), Call("addStreamToZip"), Must("find powershell"),
    Must("power events"), Call("addStreamToZip")>>

osqueryCheckup == <<TryCall("osqueryVersion")>> \o WhenErr(<<Report("Failing")>> \o Fail) \o <<Report("Passing")>>
osqueryVersion == <<Hold("command context"), Defer("command context"), Must("run osqueryd")>>

\* Mutant of launcherFlags: a flags file that does not parse has no status.
launcherFlagsSetLate ==
  <<Quit("stat file"), QuitOpen("checked file"), Defer("checked file"), Quit("copy file"), Quit("parse options"), Report("Passing")>>

\* Failing until the last step.
launcherFlags ==
  <<Report("Failing"), Quit("stat file"), QuitOpen("checked file"), Defer("checked file"), Quit("copy file"), Quit("parse options"), Report("Passing")>>
desktopMenu ==
  <<Report("Failing"), Quit("stat file"), QuitOpen("checked file"), Defer("checked file"), Quit("read file"), Quit("copy file"),
    Quit("unmarshal menu"), Report("Passing")>>

gnomeExtensions ==
  <<Must("current user")>> \o When("root", <<Must("console users")>>)
  \o ForEach(<<Must("find gnome-extensions")>> \o When("root", <<Must("uid"), Must("gid")>>)
             \o <<Skip("list extensions"), Set("gnome user")>> \o When("", <<Set("all extensions")>>))
  \o WhenUnset("gnome user", <<Report("Unknown")>> \o Return)
  \o WhenUnset("all extensions", <<Report("Failing")>> \o Return)
  \o <<Report("Passing")>>

quarantine ==
  <<TryCall("logMeddlesomeProccesses"), TryCall("quarantinedAppBundles")>>
  \o ForEach(<<Skip("stat path"), Skip("is directory"), TryCall("checkDirs")>>)
  \o WhenUnset("quarantined file", WhenUnset("quarantined bundle", <<Report("Passing")>> \o Return))
  \o <<Report("Warning")>>
checkDirs == <<Quit("depth left"), Quit("read directory")>> \o ForEach(When("", <<Set("quarantined file")>>))
logMeddlesomeProccesses == <<Must("list processes")>> \o ForEach(When("", <<Try("describe process")>>))
quarantinedAppBundles ==
  <<Try("find launcher updates"), Try("find osqueryd updates")>>
  \o ForEach(<<SkipCall("quarantineXattrSet")>> \o When("", <<Set("quarantined bundle")>>)) \o <<Must("no errors")>>
quarantineXattrSet == <<Must("find xattr")>>

systemTime ==
  ForEach(<<SkipCall("getTimeFromDateHeader")>>
          \o When("", <<Report("Warning")>> \o Return)        \* more than maxDiff apart
          \o <<Report("Passing")>> \o Return)
  \o <<Report("Erroring")>>
getTimeFromDateHeader == <<Must("new request"), Open("response body"), Defer("response body"), Must("date header"), Must("parse date")>>

dnsCheckup ==
  ForEach(When("", Continue) \o <<SkipCall("parseUrl"), TryCall("resolveHost")>>
          \o WhenErr(<<Set("unresolved host")>> \o Continue) \o <<Set("resolved host")>>)
  \o WhenUnset("unresolved host", <<Report("Passing")>> \o Return)
  \o WhenSet("resolved host", <<Report("Warning")>> \o Return)
  \o <<Report("Failing")>>
resolveHost == <<Hold("lookup context"), Defer("lookup context"), Must("look up host"), Must("any address")>>

tufCheckup ==
  WhenNot("kolide hosted", <<Report("Unknown")>> \o Return) \o WhenNot("autoupdate", <<Report("Unknown")>> \o Return)
  \o <<Call("parseUrl")>>
  \o Or(TryCall("remoteTufMetadata"), "Erroring") \o Or(Try("release version"), "Failing")
  \o <<Report("Passing")>> \o WhenNot("flare", Return)
  \o <<TryCall("localTufMetadata"), Try("find launcher versions"), Try("find osqueryd versions"), TryCall("selectedVersions"), Try("encode data")>>
remoteTufMetadata == <<Must("new request"), Open("response body"), Defer("response body"), Must("decode targets"), Must("release target")>>
localTufMetadata == <<Must("read targets"), Must("unmarshal targets")>>
selectedVersions == <<Try("check out launcher"), Try("check out osqueryd")>>

osqConfigConflictCheckup ==
  ForEach(<<Try("read directory")>>
          \o WhenErr(When("", <<Set("unreadable directory")>>) \o Continue)
          \o When("", <<Set("empty directory")>> \o Continue)
          \o <<Set("osquery files")>>)
  \o WhenSet("osquery files", <<Report("Warning")>> \o Return)
  \o WhenSet("unreadable directory", <<Report("Erroring")>> \o Return)
  \o WhenSet("empty directory", <<Report("Informational")>> \o Return)
  \o <<Report("Passing")>>

serverDataCheckup ==
  <<TryCall("addMetadata")>> \o WhenErr(<<Report("Warning")>> \o Fail)
  \o WhenNot("data store", <<Report("Informational")>> \o Return)
  \o <<Report("Failing")>> \o ForEach(<<Skip("get value")>> \o When("", <<Report("Passing")>>))
addMetadata == <<Open("metadata file"), Defer("metadata file"), Must("copy metadata")>>

osqDataCollector == Or(TryCall("queryData"), "Erroring") \o <<Report("Passing")>>
queryData ==
  <<Hold("osquery context"), Defer("osquery context"), Must("new process"), Must("run in time"), Must("run SQL"), Must("unmarshal rows"), Must("a row")>>

intuneCheckup ==
  WhenNot("windows", Return)
  \o <<Report("Informational"), Hold("zip"), Defer("zip"), TryCall("intuneLogs"), TryCall("intuneLogs")>>
intuneLogs == <<Must("find logs")>> \o ForEach(<<Call("addFileToZip")>>)

osqRestartCheckup ==
  WhenNot("osquery history", <<Report("Informational")>> \o Return)
  \o <<Try("get history")>>
  \o WhenErr(When("no instances", <<Report("Informational")>> \o Return) \o <<Report("Erroring")>> \o Return)
  \o <<Report("Passing")>>

uninstallHistoryCheckup ==
  <<TryCall("GetResetRecords")>>
  \o WhenErr(When("storage not set up", <<Report("Informational")>> \o Return) \o <<Report("Erroring")>> \o Return)
  \o <<Report("Informational")>>

coredumpCheckup ==
  <<Report("Passing")>>
  \o ForEach(<<SkipCall("coredumpList")>> \o When("", Continue) \o <<Report("Warning"), Set("coredump")>>)
  \o WhenNot("flare", Return) \o WhenUnset("coredump", Return)
  \o <<Hold("zip"), Defer("zip")>> \o ForEach(<<TryCall("writeCoredumpInfo")>>)
coredumpList == <<Must("find coredumpctl")>> \o When("", Return) \o <<Must("list coredumps")>>
writeCoredumpInfo ==
  <<Must("find coredumpctl"), Must("coredump info"), Must("create entry"), Must("write info"), Open("temporary directory"), Defer("temporary directory"),
    Must("find coredumpctl"), Must("dump core"), Call("addFileToZip")>>

downloadDirectory ==
  <<TryCall("getDownloadDirs")>> \o WhenUnset("download directory", <<Report("Erroring")>> \o Return)
  \o ForEach(<<Skip("find installers")>> \o ForEach(<<Try("stat installer")>>)) \o <<Report("Informational")>>
getDownloadDirs == <<Quit("read home directories")>> \o ForEach(<<Skip("is directory"), Skip("stat downloads"), Set("download directory")>>)

perfCheckup ==
  <<Try("process statistics")>> \o WhenErr(<<Report("Erroring")>> \o Fail)
  \o <<Try("child statistics")>> \o WhenErr(<<Report("Erroring")>> \o Fail)
  \o When("over a threshold", <<Report("Failing")>> \o Return) \o <<Report("Passing")>>

(***************************************************************************)
(* shipper.go: the upload of a flare                                       *)
(***************************************************************************)
NewShipper == <<Try("upload URL"), Call("signedUrl"), Open("flare file"), Give("flare file")>>
signedUrl ==
  <<Hold("request context"), Defer("request context"), Call("launcherData"), Must("new request"), Call("signHttpRequest"),
    Open("response body"), Defer("response body"), Must("decode response"), Must("status OK")>>
\* One key that cannot sign leaves its header out.
signHttpRequest == ForEach(<<Skip("signer set"), Skip("EC key"), Skip("encode key"), Skip("sign in time")>>)
launcherData ==
  <<Hold("user context"), Defer("user context"), Try("console users"), Try("hostname"), Try("current user"), TryCall("munemo"), Must("marshal data")>>
munemo == When("knapsack", <<Try("get enrollments")>> \o WhenErr(<<TryCall("munemoFromMetadataJson")>> \o Return) \o ForEach(When("", Return)))
          \o <<TryCall("munemoFromMetadataJson")>>
munemoFromMetadataJson == <<Quit("read metadata"), Quit("unmarshal metadata")>>

\* The file is closed and removed whether or not it was uploaded.
ShipperClose ==
  <<Open("flare file"), Defer("flare file"), Must("stat file")>> \o When("empty file", Return)
  \o <<Must("rewind"), Hold("upload context"), Defer("upload context"), Must("new request"), Open("response body"), Defer("response body"),
       Must("read response"), Must("status OK")>>
=============================================================================
