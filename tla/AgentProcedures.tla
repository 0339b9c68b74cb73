---------------------------- MODULE AgentProcedures ----------------------------
(***************************************************************************)
(* ee/agent and ee/nativemessaging as Steps: keys, the startup settings    *)
(* and their SQLite store, the root launcher listener and its client, the  *)
(* identifiers of the machine, and the host of the browser extension.      *)
(***************************************************************************)
EXTENDS Steps

(***************************************************************************)
(* Keys, permissions, identifiers                                          *)
(***************************************************************************)
SetupKeys == <<Call("SetupLocalDbKey")>>
SetHardwareKeysRunner == <<Must("new key runner")>>

\* A stored key that cannot be parsed is replaced.
SetupLocalDbKey ==
  <<TryCall("fetchKey")>>
  \o When("key found", Return)
  \o <<Must("generate key"), Call("storeKey")>>
  \o ForEach(<<Try("delete old key")>>)
fetchKey == When("no stored key", Return) \o <<Must("parse key")>>
storeKey == <<Must("marshal key"), Must("set key")>>

GetStats == <<Open("view transaction"), Defer("view transaction")>> \o ForEach(<<Must("bucket stats")>>)
DbCompact == <<Must("database exists"), Call("compactFiles"), Must("move old database"), Must("move new database")>>
compactFiles == <<Open("source database"), Defer("source database"), Open("new database"), Defer("new database"), Must("compact")>>
MakeStores == ForEach(<<Must("new store")>>)

currentMachineGuid == <<Open("registry key"), Defer("registry key"), Must("get machine GUID")>>
currentSerialAndHardwareUUID ==
  <<Must("osqueryd path"), Must("new osquery process"), Hold("osquery context"), Defer("osquery context"), Must("run SQL"),
    Must("unmarshal response"), Must("a row"), Must("serial"), Must("hardware UUID")>>
currentMunemo == <<Must("get enrollments"), Must("any enrollment")>> \o ForEach(When("", Return)) \o Fail
GetResetRecords == <<Must("store set up"), Must("get records")>> \o When("no records", Return) \o <<Must("unmarshal records")>>
getLocalPubKey == <<Must("get local key"), Must("parse key"), Must("marshal key")>>

RestrictFileAccessToRootOnly ==
  WhenNot("windows", <<Must("chmod")>> \o Return)
  \o <<Must("admin SID"), Must("owner SID"), Must("system SID"), Must("new DACL"), Must("set DACL")>>

AddExclusions == ForEach(<<Call("addExclusionsFromPathPatterns")>>)
addExclusionsFromPathPatterns ==
  ForEach(<<Skip("glob pattern")>>) \o When("nothing to exclude", Return) \o <<Quit("find tmutil"), Quit("add exclusions")>>

(***************************************************************************)
(* Startup settings                                                        *)
(***************************************************************************)
OpenReader == <<Call("OpenRO"), Give("connection")>>
ReaderGet == <<Call("StoreGet")>>
OpenWriter == <<Call("OpenRW"), Give("connection")>>

\* What cannot be extracted for an enrollment is left out of the update.
WriteSettings ==
  ForEach(<<TryCall("extractAutoTableConstructionConfig"), TryCall("extractKATCConstructionConfig")>>) \o <<Call("StoreUpdate")>>
PingSettings == <<TryCall("WriteSettings")>>
SettingsFlagsChanged == <<TryCall("WriteSettings")>>
extractAutoTableConstructionConfig == <<Must("get config"), Must("unmarshal config"), Must("marshal tables")>>
extractKATCConstructionConfig == <<Must("read KATC config"), Must("marshal tables")>>

(***************************************************************************)
(* keyvalue_store_sqlite.go and logstore_sqlite.go                         *)
(***************************************************************************)
OpenRO == <<Must("known store"), Call("openDb"), Give("connection")>>

OpenRW ==
  <<Must("known store"), Call("validatedDbConn"), Give("connection"), TryCall("migrate")>>
  \o WhenErr(<<Close("connection")>> \o Fail)

\* A database that does not validate is replaced by an empty file.
validatedDbConn ==
  <<TryCall("validateDb")>>
  \o WhenErr(<<Try("remove database"), Open("database file"), Close("database file")>>)
  \o <<Call("openDb"), Give("connection"), Try("ping")>>
  \o WhenErr(<<Close("connection")>> \o Fail)

validateDb == <<Must("database exists"), Call("openDb"), Defer("connection"), Must("run quick check"), Must("quick check ok")>>
openDb == <<Open("connection"), Give("connection")>>

\* A migration this version does not know, or left dirty, is accepted.
migrate ==
  <<Open("migration files"), Defer("migration files"), Must("driver"), Must("new migrate"), Try("migrate up")>>
  \o WhenErr(When("no change or missing migration", Return)
             \o When("dirty", <<Must("force version")>> \o Return)
             \o Fail)

StoreGet == <<Must("store set up")>> \o When("no rows", Return) \o <<Must("query key")>>
StoreSet == <<Must("store set up"), Must("writable"), Must("key not blank"), Must("upsert")>>

\* Mutant of StoreUpdate: a row that cannot be read leaves the transaction open.
StoreUpdateNoRollback ==
  <<Open("transaction"), Try("upsert")>>
  \o WhenErr(<<Close("transaction")>> \o Fail)
  \o <<TryOpen("deleted rows")>>
  \o WhenErr(<<Close("transaction")>> \o Fail)
  \o <<Defer("deleted rows")>> \o ForEach(<<Must("scan")>>) \o <<Must("commit"), Close("transaction")>>

\* One transaction: every way out commits it or rolls it back.
StoreUpdate ==
  <<Must("store set up"), Must("writable")>>
  \o When("nothing to update", Return)
  \o <<Open("transaction"), Try("upsert")>>
  \o WhenErr(<<Close("transaction")>> \o Fail)
  \o <<TryOpen("deleted rows")>>
  \o WhenErr(<<Close("transaction")>> \o Fail)
  \o <<Defer("deleted rows")>>
  \o ForEach(<<Try("scan")>> \o WhenErr(<<Close("transaction")>> \o Fail))
  \o <<Try("commit"), Close("transaction")>>
  \o WhenErr(Fail)

AppendValue == <<Must("store set up"), Must("writable"), Must("log store"), Must("insert")>>
DeleteRows == <<Must("store set up"), Must("writable")>> \o When("no rows", Return) \o <<Must("delete")>>
StoreForEach ==
  <<Must("store set up"), Must("log store"), Open("rows"), Defer("rows")>> \o ForEach(<<Must("scan"), Must("caller's function")>>)
WriteLog == <<Must("writable"), Must("store set up"), Must("log store"), Call("AppendValue")>>

(***************************************************************************)
(* listener                                                                *)
(***************************************************************************)
NewLauncherListener == <<Call("initSocket"), Give("socket")>>

initSocket ==
  <<Try("find old sockets")>> \o ForEach(<<Try("remove old socket")>>)
  \o <<Open("socket"), Give("socket"), TryCall("RestrictFileAccessToRootOnly")>>
  \o WhenErr(<<Close("socket")>> \o Fail)

\* The connection is answered, then closed, whatever the request was.
handleConn ==
  <<Open("client connection"), Defer("client connection"), Try("set read deadline"), Must("decode request"), Must("known request type"),
    Must("unmarshal enrollment request"), Call("handleEnrollmentRequest")>>

handleEnrollmentRequest ==
  <<Must("enrollment status"), Must("not enrolled"), Must("parse secret"), Must("claims"), Must("organization"), Must("token store"),
    Must("store secret"), Must("enrolled in time")>>

NewLauncherClientConnection ==
  <<Must("find sockets"), Must("a socket")>> \o ForEach(<<Skip("stat socket")>>) \o <<Must("newest socket"), Open("listener connection"), Give("listener connection")>>
EnrollClient == <<Must("marshal enrollment"), Must("marshal request"), Must("write request"), Must("decode response"), Must("success")>>

(***************************************************************************)
(* nativemessaging                                                         *)
(***************************************************************************)
\* The log is thrown away if its file cannot be opened.
ReadNativeMessages ==
  <<Call("determineRootDirectory"), TryOpen("message log"), Defer("message log"), QuitCall("validateNativeMessagingRequest")>>
  \o ForEach(<<QuitCall("readMessage"), TryCall("sendMessage")>>)

determineRootDirectory == <<Quit("executable"), QuitOpen("config file"), Defer("config file"), Try("parse config")>>

ValidateNativeMessagingArgs ==
  <<Must("2 or 3 arguments")>> \o When("known Chrome extension", Return) \o <<Must("3 arguments"), Must("known Firefox extension")>>

\* The process is looked up again: its pid may have been used by another.
validateNativeMessagingRequest ==
  <<Call("ValidateNativeMessagingArgs"), Call("getBrowserProcess"), Must("create time"), Must("executable"), Call("validateBrowser"),
    Must("process after validation"), Must("create time after validation"), Must("same create time")>>

getBrowserProcess ==
  <<Must("parent process"), Must("parent name")>> \o When("started by cmd.exe", <<Must("grandparent pid"), Must("grandparent process"), Must("grandparent name")>>)

validateBrowser ==
  When("linux", <<Call("validateBrowserLinux")>> \o Return)
  \o When("darwin", <<Call("validateBrowserDarwin")>> \o Return)
  \o <<Call("validateBrowserWindows")>>
validateBrowserDarwin == <<Must("known browser"), Must("find codesign"), Must("verify signature")>>
validateBrowserLinux == <<Must("known browser"), Must("stat"), Must("stat_t"), Must("owned by root"), Must("writable by root only")>>
validateBrowserWindows == <<Must("known browser"), Must("find powershell"), Must("get signature"), Must("signed by publisher")>>

readMessage == <<Must("stream open"), Must("read header"), Must("length in bounds"), Must("read message")>>
sendMessage == <<Call("formatMessage"), Must("write message")>>
formatMessage == <<Must("marshal body"), Must("length in bounds")>>

\* Both browsers' manifests are written, even if the first cannot be.
WriteNativeMessagingManifest ==
  <<Call("buildManifests"), TryCall("writeManifest"), TryCall("writeManifest"), Must("both written")>>
buildManifests == <<Must("executable")>>
writeManifest == <<Must("marshal manifest"), Must("write manifest")>> \o ForEach(<<TryCall("registerManifestFileLocation")>>) \o <<Must("all registered")>>
RemoveNativeMessagingManifest == <<TryCall("removeManifest"), TryCall("removeManifest"), Must("both removed")>>
removeManifest == ForEach(<<Try("deregister location")>>) \o <<Must("all deregistered"), Must("remove manifest")>>

registerManifestFileLocation ==
  When("windows", <<Call("registerManifestFileLocationWindows")>> \o Return) \o <<Call("registerManifestFileLocationPosix")>>
registerManifestFileLocationPosix ==
  When("link exists", When("same target", Return) \o <<Must("remove link")>>) \o <<Must("make directory"), Must("link manifest")>>
registerManifestFileLocationWindows ==
  <<Open("manifest key"), Defer("manifest key"), Must("get value")>> \o When("same value", Return) \o <<Must("set value")>>
=============================================================================
