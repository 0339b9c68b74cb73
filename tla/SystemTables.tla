----------------------------- MODULE SystemTables -----------------------------
(***************************************************************************)
(* The tables of ee/tables that run a command or read a file of the        *)
(* system, as steps.  A table whose generate is a method of a type called  *)
(* Table is named after its package; flattenOutput and the like, which     *)
(* only call the flattener, are the step "flatten".                        *)
(***************************************************************************)
EXTENDS Steps

\* One flattened row set for each query; a query that fails is left out.
EachQuery == ForEach(<<Skip("flatten"), Row>>)
Prefilter == <<Call("ExtractPrefilterFromQuery")>>
TempDir == <<Open("temporary directory"), Defer("temporary directory")>>
OpenTempDir == TempDir \o <<Must("chmod directory")>>

(***************************************************************************)
(* Wi-Fi, boot policy, encryption                                          *)
(***************************************************************************)
generateAirportData ==
  <<Must("some option")>> \o Prefilter \o ForEach(<<SkipCall("RunSimple"), SkipCall("processAirportOutput")>>)
processAirportOutput == <<Must("supported option")>> \o Either(<<Call("unmarshallGetInfoOutput")>>, <<Call("unmarshallScanOuput")>>) \o ForEach(<<Must("flatten"), Row>>)
unmarshallGetInfoOutput == ForEach(When("", Continue))
\* The first line places the columns of the others.
unmarshallScanOuput == <<Clear("headers")>> \o ForEach(WhenUnset("headers", <<Set("headers")>> \o Continue) \o ForEach(When("", Break)))

apple_silicon_security_policy ==
  <<QuitCall("RunSimple")>> \o When("no output", Return) \o <<Call("parseBootPoliciesOutput")>> \o Prefilter \o ForEach(<<Drop("flatten"), Row>>)
\* The rows before the first volume group are left out.
parseBootPoliciesOutput == <<Clear("volumeGroup")>> \o ForEach(When("", <<Set("volumeGroup")>> \o Continue) \o WhenUnset("volumeGroup", Continue) \o <<SkipCall("parsePolicyRow")>>)
parsePolicyRow == <<Must("two or three parts")>>

cryptoinfotable == Prefilter \o <<Must("path given")>> \o ForEach(<<Skip("glob")>> \o ForEach(ForEach(ForEach(<<SkipCall("flattenCryptoInfo"), Row>>))))
flattenCryptoInfo == <<Must("read file"), Must("identify"), Must("marshal"), Must("flatten")>>

cryptsetup == Prefilter \o <<Must("name given")>> \o ForEach(<<SkipCall("RunSimple"), SkipCall("parseStatus")>> \o EachQuery)
\* The device is named by the first line; the others are its values.
parseStatus ==
  <<Must("some data"), Clear("first line")>>
  \o ForEach(WhenUnset("first line", <<Call("parseFirstLine"), Set("first line")>> \o Continue) \o When("", Continue))
parseFirstLine == <<Must("line not empty"), Must("one match"), Must("six groups"), Must("known first line")>>

fscrypt_info == <<Must("path given")>> \o ForEach(<<SkipCall("GetInfo"), Row>>)
\* The output of the log is set aside while the library is used.
GetInfo == <<Hold("log output"), Defer("log output"), Must("new context"), Try("get policy")>> \o WhenErr(When("not encrypted", Return) \o Fail)

filevault == <<TryCall("RunSimple")>> \o WhenErr(When("no such command", Return) \o Fail) \o <<Row>>
firmwarepasswd == ForEach(<<SkipCall("runFirmwarepasswd"), Call("parseFirmwarepasswd")>>) \o <<Row>>
\* A line without a match makes no row.
parseFirmwarepasswd ==
  ForEach(When("", Continue) \o <<Clear("matched")>> \o ForEach(When("", <<Skip("key of output"), Skip("value of output"), Set("matched")>>))
          \o WhenUnset("matched", Continue) \o <<Row>>)
runFirmwarepasswd == OpenTempDir \o <<Call("Run")>>

(***************************************************************************)
(* Applications and desktops                                               *)
(***************************************************************************)
desktopprocs == ForEach(<<Row>>)
dev_table_tooling == ForEach(When("", Continue) \o <<Skip("allowed command"), TryCall("RunSimple"), Row>>)
findMyDeviceTable == <<Row>>

dsim_default_associations == Prefilter \o <<Call("execDism")>> \o EachQuery
execDism == TempDir \o <<Call("Run"), Must("read associations")>>

firefox_preferences == Prefilter \o When("no path given", Return) \o ForEach(ForEach(<<SkipCall("parsePreferences"), Skip("flatten"), Row>>))
parsePreferences == <<Open("preferences"), Defer("preferences")>> \o ForEach(When("", Continue))

GsettingsValues == <<Must("username given")>> \o ForEach(<<SkipCall("execGsettings"), Call("parseGsettings")>>)
execGsettings == <<Must("look up user")>> \o OpenTempDir \o <<Call("Run")>>
parseGsettings == ForEach(When("", Continue) \o <<Skip("three parts"), Row>>) \o <<Try("scan")>>
GsettingsMetadata == <<Must("schema given")>> \o ForEach(<<SkipCall("gsettingsDescribeForSchema")>> \o ForEach(<<Row>>))
\* A key that cannot be described is left out.
gsettingsDescribeForSchema == OpenTempDir \o <<Call("listKeys")>> \o ForEach(<<SkipCall("describeKey"), Row>>)
listKeys == <<Call("execGsettingsCommand")>> \o ForEach(When("", Continue)) \o <<Try("scan")>>
describeKey == <<Call("getDescription"), Call("getType")>>
getDescription == <<Call("execGsettingsCommand")>>
getType == <<Call("execGsettingsCommand")>> \o When("enum", Return) \o When("range", Return)
execGsettingsCommand == <<Call("Run")>>

homebrew ==
  <<Try("brew command")>> \o WhenErr(When("no brew", Return) \o Fail) \o <<Must("stat brew"), Must("owner of brew")>> \o Prefilter
  \o ForEach(<<SkipCall("Run"), Skip("flatten"), Row>>)

ioreg ==
  Prefilter
  \o ForEach(ForEach(ForEach(ForEach(ForEach(ForEach(When("", Continue) \o ForEach(<<SkipCall("RunSimple"), Skip("flatten"), Row>>)))))))

generateAppIcons == <<Must("path given"), Call("getAppIcon"), Must("encode"), Row>>
getAppIcon == <<Hold("icon data"), Defer("icon data"), Must("decode")>>

jwt ==
  <<Must("path or raw data given")>> \o Prefilter
  \o ForEach(ForEach(ForEach(ForEach(<<Skip("read file"), Call("processJWT")>>) \o ForEach(<<Call("processJWT")>>))))
\* A token that cannot be verified is reported; one that cannot be read is not.
processJWT == <<Try("unmarshal keys"), TryCall("JWTKeyFunc"), Quit("token"), Quit("claims"), Quit("flatten"), Row>>
JWTKeyFunc == <<Must("key id")>> \o ForEach(When("", <<Call("JWTParsePublicKey")>> \o Return)) \o Fail
JWTParsePublicKey == <<Must("decode pem"), Must("parse public key")>>

(***************************************************************************)
(* Launcher's stores, software updates and management                      *)
(***************************************************************************)
dbKeyValueRows == ForEach(<<Row>>) \o <<Must("iterate over store")>>
generateMacUpdate == When("prefix unknown", <<Call("macOSBuildVersionPrefix")>>) \o <<Row>>
macOSBuildVersionPrefix == <<Must("sysctl"), Must("split release"), Must("convert prefix")>>
recommendedUpdates == Prefilter \o ForEach(<<Drop("flatten"), Row>>)

mdmclient == Prefilter \o ForEach(When("", Continue) \o When("", Continue) \o ForEach(<<SkipCall("RunSimple"), Skip("flatten"), Row>>))

generateMunkiInstalls == <<Hold("reportMutex"), Defer("reportMutex"), Call("loadReport")>> \o When("no report", Return) \o ForEach(<<Row>>)
generateMunkiReport == <<Hold("reportMutex"), Defer("reportMutex"), Call("loadReport")>> \o When("no report", Return) \o <<Row>>

loadReport == <<Must("stat report")>> \o When("no report file", Return) \o <<Open("report"), Defer("report"), Must("decode report")>>

nix_upgradeable == Prefilter \o <<Must("uid given")>> \o ForEach(ForEach(<<SkipCall("Run"), Skip("flatten"), Row>>))

kextpolicy == ForEach(<<Row>>)
legacyexec == ForEach(<<Row>>)
osquery_instance_history == <<Must("osquery history"), Must("get history"), Row>>
osquery_user_exec_table == <<Must("user given")>> \o ForEach(<<SkipCall("ExecOsqueryLaunchctlParsed")>> \o ForEach(<<Row>>))
generateKolideReleaseTrackerDataTable == Prefilter \o <<Must("get releases"), Must("flatten"), Row>>

\* Without the command there is no row, whatever was found before.
MissingCommand == When("", Continue) \o <<Drop("command exists")>>
generatePackagesData ==
  ForEach(<<Skip("stat volume"), TryCall("RunSimple")>> \o WhenErr(MissingCommand \o Return) \o ForEach(<<Row>>))
generatePackageInfoData ==
  <<Must("package given")>>
  \o ForEach(ForEach(<<Skip("stat volume"), TryCall("RunSimple")>> \o WhenErr(MissingCommand \o Continue)
                     \o <<SkipCall("parsePkgInfoOutput")>> \o When("", Continue) \o <<Row>>))
parsePkgInfoOutput == <<Must("parse"), Must("map")>> \o ForEach(When("", Continue) \o <<Call("pkgInfoValue")>>)
pkgInfoValue == Either(Return, <<Must("list")>> \o ForEach(<<Must("string item")>>))

profiles == Prefilter \o ForEach(ForEach(ForEach(ForEach(<<SkipCall("generateProfile")>>))))
generateProfile == TempDir \o <<Must("known user argument"), QuitCall("RunSimple")>> \o When("", Return) \o <<Quit("flatten"), Row>>

\* Mutant of pwpolicy: a result that cannot be flattened ends the query.
pwpolicyStrict == Prefilter \o ForEach(ForEach(<<SkipCall("execPwpolicy"), Must("flatten"), Row>>))

pwpolicy == Prefilter \o ForEach(ForEach(<<SkipCall("execPwpolicy"), Skip("flatten"), Row>>))
\* What follows the first line is read without a look for one.
execPwpolicy == <<Call("Run"), TryOpen("rest of output"), Use("rest of output"), Close("rest of output")>>

secedit == Prefilter \o ForEach(<<Skip("parse mergedpolicy")>> \o ForEach(<<SkipCall("execSecedit"), Skip("flatten"), Row>>))
execSecedit == TempDir \o <<Call("Run"), Open("exported policy"), Defer("exported policy"), Must("read policy")>>

secureboot == <<Must("read secure boot"), Must("read setup mode"), Row>>

(***************************************************************************)
(* Secrets and certificates                                                *)
(***************************************************************************)
\* The configuration of the scanner is read once in the life of launcher.
newConfigOnce == <<Must("read config"), Must("unmarshal config"), Must("translate config")>>
secretscan ==
  <<Call("newConfigOnce"), Must("path or raw data given")>>
  \o ForEach(<<Skip("glob")>> \o ForEach(<<SkipCall("scanPath")>>)) \o ForEach(<<SkipCall("scanContent")>>)
scanPath ==
  <<Must("stat path"), Must("directory or regular file")>> \o When("", <<Open("scanned file"), Defer("scanned file")>>)
  \o <<Must("detect source"), Call("findingsToRows")>>
scanContent == <<Must("detect source"), Call("findingsToRows")>>
\* A hash that fails is the last one tried.
findingsToRows ==
  <<Call("findingsToKeyNames"), Clear("hashing failed")>>
  \o ForEach(When("", <<TryCall("isEncryptedJWTFamilyValue")>> \o When("", Continue))
             \o WhenUnset("hashing failed", <<TryCall("generateArgon2idHash")>> \o WhenErr(<<Set("hashing failed")>>)) \o <<Row>>)
isEncryptedJWTFamilyValue == <<Must("decode header"), Must("unmarshal header")>>
findingsToKeyNames == When("", Return) \o ForEach(When("", Continue) \o <<Skip("text before secret")>>)
generateArgon2idHash == <<Must("salt given"), Must("decode salt"), Must("length of salt")>>

\* The settings of one certificate that cannot be read lose all others.
certTrustSettingsTable ==
  <<Must("domain given")>> \o Prefilter
  \o ForEach(ForEach(<<Must("supported domain"), TryCall("Run")>> \o WhenErr(When("", Continue) \o Fail)
                     \o <<Call("parseTrustSettingsDump"), Must("marshal certs"), Skip("flatten"), Row>>))
parseTrustSettingsDump ==
  <<Must("read first line"), Try("output header")>> \o WhenErr(When("", Return) \o Fail) \o <<Must("number of certs")>> \o ForEach(<<Call("parseCert")>>)
parseCert == <<Must("read cert header"), Must("cert prefix"), Must("cert name"), Call("parseTrustSettings")>>
parseTrustSettings == <<Must("read count"), Must("match count"), Must("parse count")>> \o ForEach(<<Call("parseTrustSetting")>>)
parseTrustSetting ==
  <<Must("read header"), Must("match header")>>
  \o ForEach(<<Must("peek")>> \o When("", Break) \o <<Try("read line")>> \o WhenErr(When("", Break) \o Fail) \o <<Must("two parts")>>)

\* A duration that is not positive panics.
sleeper ==
  ForEach(<<Must("parse duration"), TryOpen("positive duration"), Use("positive duration"), Close("positive duration"), Must("wait"), Row>>)

(***************************************************************************)
(* Searches, profiles and settings                                         *)
(***************************************************************************)
spotlightTable == <<Must("query given"), Call("RunSimple")>> \o ForEach(When("", Break) \o <<Must("read line"), Row>>)

systemprofiler ==
  Prefilter \o <<Must("datatype given"), Must("at most maxDataTypesPerQuery"), Call("execSystemProfiler")>>
  \o Either(ForEach(<<Call("getRowsFromOutput")>>), <<Call("getRowsFromOutput")>>)
getRowsFromOutput == <<Quit("unmarshal")>> \o EachQuery
execSystemProfiler == <<Call("Run")>>

gcTable == Prefilter \o ForEach(<<Must("marshal stats"), Skip("flatten"), Row>>)

\* A release file without metadata loses the rows of all others.
generateTufReleaseVersionTable ==
  ForEach(<<Must("read targets"), Must("unmarshal targets file"), Must("unmarshal signed targets")>>
          \o ForEach(When("", Continue) \o When("", Continue) \o <<Must("release metadata"), Row>>))

wifi_networks == <<Hold("query context"), Defer("query context")>> \o Prefilter \o <<Call("execPwsh"), Must("flatten"), Row>>
execPwsh == TempDir \o <<Must("write native code"), TryCall("Run")>> \o WhenErr(Fail) \o When("output on stderr", Fail)

wmitable ==
  <<Must("class given"), Must("properties given")>> \o Prefilter
  \o ForEach(ForEach(When("", Continue) \o ForEach(ForEach(<<SkipCall("runWmiQuery")>> \o ForEach(<<Call("flattenRowsFromWmi")>>)))))
runWmiQuery == <<Hold("query context"), Defer("query context"), Must("wmi query")>>
flattenRowsFromWmi == <<Quit("flatten"), Row>>

\* The rows of a user are those of all channels or none.
xfconfTable == Prefilter \o <<Must("username given"), Call("getDefaultConfig")>> \o ForEach(<<Skip("look up user"), SkipCall("xfconfForUser")>>)
getDefaultConfig == ForEach(<<Call("getConfigFromDirectory")>>)
xfconfForUser == <<Call("getUserConfig")>> \o ForEach(<<Call("getCombinedFlattenedConfig")>>)
getUserConfig == <<Call("getConfigFromDirectory")>>
getConfigFromDirectory == <<Must("glob")>> \o ForEach(<<Call("parseXfconfXml")>>)
parseXfconfXml == <<Call("readChannelXml")>>
readChannelXml == <<Open("channel file"), Defer("channel file"), Try("decode channel")>>
getCombinedFlattenedConfig == ForEach(<<Must("flatten user settings"), Row>>) \o ForEach(<<Must("flatten default settings"), Row>>)

XRDBSettings == <<Must("username given")>> \o ForEach(ForEach(<<SkipCall("execXRDB"), Call("parseXRDB")>>))
execXRDB == <<Must("look up user")>> \o OpenTempDir \o <<Call("Run")>>
parseXRDB == ForEach(When("", Continue) \o <<Skip("two parts"), Row>>) \o <<Try("scan")>>

zfs == <<QuitCall("RunSimple"), Call("parseColumns")>>
\* A line is read as four columns without a count of them.
parseColumns == ForEach(<<TryOpen("fourth column"), Use("fourth column"), Close("fourth column"), Row>>)

(***************************************************************************)
(* Windows updates, in a launcher process of their own or from the cache   *)
(***************************************************************************)
generateWithLauncherExec == Prefilter \o ForEach(<<SkipCall("callQueryWindowsUpdatesSubcommand")>> \o EachQuery)
callQueryWindowsUpdatesSubcommand ==
  <<Must("launcher command"), Must("launcher.exe"), Must("run command"), Must("unmarshal results"), Must("no error reported")>>
windowsupdatetable == Prefilter \o ForEach(<<SkipCall("tableSearchLocale")>>)

\* The shim is counted before it is known to be set up.
tableSearchLocale ==
  <<Hold("comshim"), Try("set up comshim")>> \o WhenErr(<<Close("comshim")>> \o Fail)
  \o <<Defer("comshim"), Call("tableGetSearcher"), Must("search")>> \o EachQuery
tableGetSearcher ==
  <<Must("new session")>> \o WhenNot("default locale", <<Must("parse locale"), Must("set locale")>>)
  \o <<Must("get locale"), Must("locale matches"), Must("new searcher")>>
generateFromCachedData ==
  Prefilter \o ForEach(<<Skip("get cached results")>> \o When("", Continue) \o <<Skip("unmarshal results")>> \o When("", Continue) \o EachQuery)

(***************************************************************************)
(* CrowdStrike                                                             *)
(***************************************************************************)
falconctlOptionsTable ==
  Prefilter
  \o ForEach(<<Skip("allowed options"), TryCall("RunSimple")>> \o WhenErr(<<Skip("flatten error"), Row>> \o Continue)
             \o <<TryCall("parseOptions")>> \o EachQuery)
parseOptions ==
  <<Clear("unknown format")>> \o ForEach(When("", Continue) \o ForEach(When("", Continue) \o When("", Continue) \o <<Set("unknown format")>>)) \o WhenSet("unknown format", Fail)
falcon_kernel_check == <<Call("RunSimple"), Call("parseKernelCheck"), Row>>
parseKernelCheck == <<Must("one match"), Must("five groups")>>
=============================================================================
