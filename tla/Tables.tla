-------------------------------- MODULE Tables --------------------------------
(***************************************************************************)
(* The functions that make the rows of launcher's osquery tables: the      *)
(* tables of pkg/osquery/table and the helpers of ee/tables, as steps.     *)
(*                                                                         *)
(* A Use of something that is not there is a nil or an index past the end. *)
(***************************************************************************)
EXTENDS Steps

(***************************************************************************)
(* ee/tables/tablehelpers and ee/tables/dataflattentable                   *)
(***************************************************************************)
RunSimple == <<Call("Run")>>
Run == <<Hold("command context"), Defer("command context"), Must("new command")>> \o ForEach(<<Must("apply option")>>) \o <<Must("run command")>>

ExecOsqueryLaunchctl ==
  <<Must("look up user"), Open("launchctl directory"), Defer("launchctl directory"), Must("chmod directory"), Call("Run")>>
ExecOsqueryLaunchctlParsed == <<Call("ExecOsqueryLaunchctl"), Must("unmarshal rows")>>

\* A constraint with a value that is not allowed is left out.
GetConstraints == When("no constraints", Return) \o ForEach(When("", Continue) \o When("", Continue))

\* A line may match several matchers; a line without a match makes no row.
ParseMultiple ==
  ForEach(When("", Continue) \o <<Clear("column")>> \o ForEach(When("", <<Skip("key of line"), Skip("value of line"), Set("column")>>))
          \o WhenUnset("column", Continue) \o <<Row>>)
Parse == ForEach(When("", Continue) \o ForEach(When("", <<Skip("key of line"), Skip("value of line"), Row>>)))

ExtractPrefilterFromQuery ==
  When("no prefilter", Return) \o <<Must("one prefilter")>> \o When("blank prefilter", Return) \o <<Must("new prefilter")>>

FlattenBytes == <<Must("parse"), Must("marshal"), Must("flatten")>>

\* A command that fails makes no row, or one that says why.
execTableV2 ==
  <<Call("ExtractPrefilterFromQuery"), TryCall("Run")>>
  \o WhenErr(When("binary is missing", When("report missing binary", <<Row>>) \o Return)
             \o When("report stderr", <<Row>>) \o Return)
  \o ForEach(<<SkipCall("FlattenBytes"), Row>>)
  \o When("stderr to report", <<Row>>)

\* A pattern that is no glob fails the table, whatever was found before it.
dataflattenTable ==
  <<Must("path or raw data"), Call("ExtractPrefilterFromQuery")>>
  \o ForEach(<<Must("glob")>> \o ForEach(ForEach(<<SkipCall("generatePath"), Row>>)))
  \o ForEach(ForEach(<<SkipCall("generateRawData"), Row>>))
generateRawData == <<Must("parse raw data")>>
generatePath == When("flatten file", <<Must("flatten file")>> \o Return) \o <<Must("read file"), Must("flatten bytes")>>

(***************************************************************************)
(* pkg/osquery/table: files in the directories of users                    *)
(***************************************************************************)
\* The files found are returned whatever else cannot be read.
findFileInUserDirs ==
  WhenNot("username given",
    ForEach(<<Skip("read home directories")>> \o ForEach(<<Skip("glob in home")>> \o ForEach(<<Skip("regular file")>>))) \o Return)
  \o ForEach(<<Skip("glob in user's home")>> \o ForEach(<<Skip("regular file")>>))

\* A copy of a sqlite file is read; a row that cannot be scanned loses the
\* rows of the file.
FileTable(one) == <<Call("findFileInUserDirs")>> \o ForEach(<<SkipCall(one)>>)
DirsTable(one) == ForEach(<<SkipCall("findFileInUserDirs")>> \o ForEach(<<SkipCall(one)>>))
SqliteCopy == <<Open("temporary directory"), Defer("temporary directory"), Must("copy database"), Open("sqlite database"), Defer("sqlite database")>>
Query == <<Open("rows"), Defer("rows")>>
Journal == <<Try("set journal mode")>>

ChromeLoginKeychainForPath == SqliteCopy \o Journal \o Query \o ForEach(<<Must("scan"), Row>>)
ChromeLoginKeychain == FileTable("ChromeLoginKeychainForPath")
GDriveSyncHistoryForPath == SqliteCopy \o Journal \o Query \o ForEach(<<Must("scan"), Row>>)
GDriveSyncHistory == FileTable("GDriveSyncHistoryForPath")
gdriveForPath == SqliteCopy \o Journal \o Query \o ForEach(<<Must("scan")>>) \o <<Row>>
gdrive == FileTable("gdriveForPath")
ChromeLoginDataEmailsTableForPath == SqliteCopy \o Query \o ForEach(<<Must("scan")>> \o When("", Continue) \o <<Row>>)
ChromeLoginDataEmailsTable == DirsTable("ChromeLoginDataEmailsTableForPath")
onePasswordAccountsTableForPath == SqliteCopy \o Query \o ForEach(<<Must("scan"), Row>>)
onePasswordAccountsTable == <<Must("data files for this platform")>> \o DirsTable("onePasswordAccountsTableForPath")

chromeUserProfilesTableForPath == <<Must("read local state"), Must("unmarshal")>> \o ForEach(<<Row>>)
chromeUserProfilesTable == DirsTable("chromeUserProfilesTableForPath")
SlackConfigTableForPath == <<Must("read teams"), Must("unmarshal")>> \o ForEach(<<Row>>)
SlackConfigTable ==
  <<Must("some constraint")>> \o ForEach(<<Must("equals constraint")>>) \o DirsTable("SlackConfigTableForPath")

KeyInfoTable == <<Must("path given")>> \o ForEach(<<Skip("identify file"), Row>>)
SshKeysTable == ForEach(<<SkipCall("findFileInUserDirs")>> \o ForEach(<<Skip("identify file"), Row>>))

(***************************************************************************)
(* pkg/osquery/table: launcher itself                                      *)
(***************************************************************************)
generateLauncherDbInfo ==
  <<Call("ExtractPrefilterFromQuery"), Call("GetStats"), Must("marshal stats")>> \o ForEach(<<Must("flatten"), Row>>)

generateLauncherInfoTable ==
  <<Must("get identifier")>> \o When("osquery history", <<Try("latest instance id")>>)
  \o <<Try("get process start time"), Try("parse start time"), Row, TryCall("publicKeyToPem"), Try("marshal local key")>>
  \o When("no hardware key", Return)
  \o When("darwin", <<Must("marshal hardware keys")>> \o Return)
  \o <<Quit("marshal hardware key"), Must("marshal hardware keys")>>
publicKeyToPem == <<Must("pkix marshal"), Must("encode pem")>>

generateLauncherConfig == ForEach(<<Must("read config"), Row>>)
generateLauncherAutoupdateConfigTable == <<Row>>

\* The configuration of custom tables comes from the database, or else from
\* the settings kept for a start without it.
KolideCustomAtcTables == <<TryCall("katcFromDb")>> \o WhenErr(<<QuitCall("katcFromStartupSettings")>>) \o <<Row>>
katcFromDb == <<Must("stores"), Must("read katc store")>>
katcFromStartupSettings == <<Open("settings reader"), Defer("settings reader"), Must("get katc_config"), Must("unmarshal katc_config")>>

(***************************************************************************)
(* pkg/osquery/table: the system                                           *)
(***************************************************************************)
generateMacho == <<Must("path given"), Open("macho file"), Defer("macho file"), Row>>

\* Three fields are asked for, four are read.
touchIDSystemConfigTable ==
  <<QuitCall("RunSimple"), QuitCall("RunSimple")>>
  \o When("three fields of configuration", <<TryOpen("fourth field"), Use("fourth field"), Close("fourth field")>>) \o <<Row>>

\* Two fields mean that nothing is configured; the count may be missing.
touchIDUserConfigTable ==
  <<Must("uid given")>>
  \o ForEach(<<Skip("look up uid"), SkipCall("RunSimple"), Skip("two or six fields"), SkipCall("RunSimple"),
               TryOpen("fingerprint count"), Use("fingerprint count"), Close("fingerprint count"), Row>>)

generateMDMInfo ==
  <<Call("getMDMProfile"), TryCall("getMDMProfileStatus"), Clear("enroll profile")>>
  \o ForEach(ForEach(When("", Continue) \o When("", <<Set("enroll profile")>> \o Break)))
  \o WhenSet("enroll profile", <<Row>>) \o WhenUnset("enroll profile", <<Row>>)
getMDMProfile == <<Hold("profiles context"), Defer("profiles context"), Must("profiles command"), Must("profiles output"), Must("unmarshal profiles")>>
\* The second line is read without a look at the number of lines.
getMDMProfileStatus ==
  <<Hold("profiles context"), Defer("profiles context"), Must("profiles command"), Must("profiles output"), Must("split first line"),
    TryOpen("second line"), Use("second line"), Close("second line"), Must("split second line")>>

generateProgramIcons == <<Call("generateUninstallerProgramIcons"), Call("generateInstallersProgramIcons")>>
generateProgramIconChecksums == <<Call("generateUninstallerProgramIcons"), Call("generateInstallersProgramIcons")>>
generateUninstallerProgramIcons ==
  <<Call("expandRegistryKey"), Call("expandRegistryKey"), Call("expandRegistryKey")>>
  \o ForEach(ForEach(<<SkipCall("getRegistryKeyDisplayData")>> \o When("", Continue) \o <<SkipCall("parseIcoFile"), Row>>))
getRegistryKeyDisplayData ==
  <<Open("registry key"), Defer("registry key"), Must("DisplayIcon"), Must("DisplayName"), Must("DisplayVersion")>>
generateInstallersProgramIcons ==
  <<Call("expandRegistryKey"), Call("expandRegistryKey")>>
  \o ForEach(ForEach(<<SkipCall("getRegistryKeyProductData")>> \o When("", Continue) \o <<SkipCall("parseIcoFile"), Row>>))
getRegistryKeyProductData == <<Open("registry key"), Defer("registry key"), Must("ProductIcon"), Must("ProductName")>>
parseIcoFile == <<Must("expand path"), Open("icon file"), Defer("icon file"), Must("decode"), Must("encode")>>
\* The keys that are expanded are not closed.
expandRegistryKey ==
  ForEach(When("", Continue) \o <<SkipOpen("expanded key"), Skip("stat key"), Skip("read subkeys")>>)
=============================================================================
