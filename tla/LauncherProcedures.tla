------------------------- MODULE LauncherProcedures -------------------------
(***************************************************************************)
(* The functions of launcher that are written as Steps, by name, and what  *)
(* has to hold of every run of each of them.                               *)
(***************************************************************************)
EXTENDS Procedures, TLC

LOCAL L == INSTANCE LauncherCommands
LOCAL A == INSTANCE AgentProcedures
LOCAL C == INSTANCE Checkups
LOCAL T == INSTANCE Tables
LOCAL S == INSTANCE SystemTables

LauncherCommandsCode ==
  [latestLauncherPath |-> L!latestLauncherPath, runMain |-> L!runMain,
   runNewerLauncherIfAvailable |-> L!runNewerLauncherIfAvailable, runSubcommands |-> L!runSubcommands,
   runVersion |-> L!runVersion, writePidFile |-> L!writePidFile, initLauncherHistory |-> L!initLauncherHistory,
   runOsqueryVersionCheckAndAddToKnapsack |-> L!runOsqueryVersionCheckAndAddToKnapsack,
   collectEnrollmentDetails |-> L!collectEnrollmentDetails, createHTTPClient |-> L!createHTTPClient,
   createControlService |-> L!createControlService, runLauncher |-> L!runLauncher,
   RecordLauncherVersion |-> L!RecordLauncherVersion, currentRecordedMetadata |-> L!currentRecordedMetadata,
   populateLatestServerData |-> L!populateLatestServerData, recordMetadata |-> L!recordMetadata,
   PingMetadata |-> L!PingMetadata, runDoctor |-> L!runDoctor, runFlare |-> L!runFlare,
   runInteractive |-> L!runInteractive, runEnroll |-> L!runEnroll, runDownload |-> L!runDownload,
   runDownloadOsquery |-> L!runDownloadOsquery, extractTarGz |-> L!extractTarGz, extractFile |-> L!extractFile,
   runCompactDb |-> L!runCompactDb, runUninstall |-> L!runUninstall, removeLauncherDarwin |-> L!removeLauncherDarwin,
   removeLauncherLinux |-> L!removeLauncherLinux, runDesktop |-> L!runDesktop, runDesktopGroup |-> L!runDesktopGroup,
   applyGomaxprocs |-> L!applyGomaxprocs, makeGetRequest |-> L!makeGetRequest,
   notifyRunnerServerMenuOpened |-> L!notifyRunnerServerMenuOpened, runSpecs |-> L!runSpecs,
   runMergeSpecs |-> L!runMergeSpecs, mergeSpecFile |-> L!mergeSpecFile, readSpecs |-> L!readSpecs,
   runQueryWindowsUpdates |-> L!runQueryWindowsUpdates, searchLocale |-> L!searchLocale,
   getSearcher |-> L!getSearcher, StartProcess |-> L!StartProcess, waitForFile |-> L!waitForFile,
   loadExtensionsAndStartServer |-> L!loadExtensionsAndStartServer, generateConfigPlugin |-> L!generateConfigPlugin,
   RunDisclaimed |-> L!RunDisclaimed, commandToDisclaim |-> L!commandToDisclaim,
   getCmdGenerator |-> L!getCmdGenerator, generateBrewCommand |-> L!generateBrewCommand, Uninstall |-> L!Uninstall,
   removeEnrollSecretFile |-> L!removeEnrollSecretFile, disableAutoStartWindows |-> L!disableAutoStartWindows,
   disableAutoStartDarwin |-> L!disableAutoStartDarwin, disableAutoStartLinux |-> L!disableAutoStartLinux,
   RunWatchdogTask |-> L!RunWatchdogTask, ensureServiceRunning |-> L!ensureServiceRunning,
   runWindowsSvc |-> L!runWindowsSvc, runWindowsSvcForeground |-> L!runWindowsSvcForeground,
   checkServiceConfiguration |-> L!checkServiceConfiguration, checkDelayedAutostart |-> L!checkDelayedAutostart,
   checkDependOnService |-> L!checkDependOnService, checkRestartActions |-> L!checkRestartActions,
   checkRecoveryActions |-> L!checkRecoveryActions, checkCurrentVersionMetadata |-> L!checkCurrentVersionMetadata,
   checkRootDirACLs |-> L!checkRootDirACLs, checkRestrictedFileACLs |-> L!checkRestrictedFileACLs]
AgentProceduresCode ==
  [SetupKeys |-> A!SetupKeys, SetHardwareKeysRunner |-> A!SetHardwareKeysRunner,
   SetupLocalDbKey |-> A!SetupLocalDbKey, fetchKey |-> A!fetchKey, storeKey |-> A!storeKey, GetStats |-> A!GetStats,
   DbCompact |-> A!DbCompact, compactFiles |-> A!compactFiles, MakeStores |-> A!MakeStores,
   currentMachineGuid |-> A!currentMachineGuid, currentSerialAndHardwareUUID |-> A!currentSerialAndHardwareUUID,
   currentMunemo |-> A!currentMunemo, GetResetRecords |-> A!GetResetRecords, getLocalPubKey |-> A!getLocalPubKey,
   RestrictFileAccessToRootOnly |-> A!RestrictFileAccessToRootOnly, AddExclusions |-> A!AddExclusions,
   addExclusionsFromPathPatterns |-> A!addExclusionsFromPathPatterns, OpenReader |-> A!OpenReader,
   ReaderGet |-> A!ReaderGet, OpenWriter |-> A!OpenWriter, WriteSettings |-> A!WriteSettings,
   PingSettings |-> A!PingSettings, SettingsFlagsChanged |-> A!SettingsFlagsChanged,
   extractAutoTableConstructionConfig |-> A!extractAutoTableConstructionConfig,
   extractKATCConstructionConfig |-> A!extractKATCConstructionConfig, OpenRO |-> A!OpenRO, OpenRW |-> A!OpenRW,
   validatedDbConn |-> A!validatedDbConn, validateDb |-> A!validateDb, openDb |-> A!openDb, migrate |-> A!migrate,
   StoreGet |-> A!StoreGet, StoreSet |-> A!StoreSet, StoreUpdate |-> A!StoreUpdate, AppendValue |-> A!AppendValue,
   DeleteRows |-> A!DeleteRows, StoreForEach |-> A!StoreForEach, WriteLog |-> A!WriteLog,
   NewLauncherListener |-> A!NewLauncherListener, initSocket |-> A!initSocket, handleConn |-> A!handleConn,
   handleEnrollmentRequest |-> A!handleEnrollmentRequest,
   NewLauncherClientConnection |-> A!NewLauncherClientConnection, EnrollClient |-> A!EnrollClient,
   ReadNativeMessages |-> A!ReadNativeMessages, determineRootDirectory |-> A!determineRootDirectory,
   ValidateNativeMessagingArgs |-> A!ValidateNativeMessagingArgs,
   validateNativeMessagingRequest |-> A!validateNativeMessagingRequest, getBrowserProcess |-> A!getBrowserProcess,
   validateBrowser |-> A!validateBrowser, validateBrowserDarwin |-> A!validateBrowserDarwin,
   validateBrowserLinux |-> A!validateBrowserLinux, validateBrowserWindows |-> A!validateBrowserWindows,
   readMessage |-> A!readMessage, sendMessage |-> A!sendMessage, formatMessage |-> A!formatMessage,
   WriteNativeMessagingManifest |-> A!WriteNativeMessagingManifest, buildManifests |-> A!buildManifests,
   writeManifest |-> A!writeManifest, RemoveNativeMessagingManifest |-> A!RemoveNativeMessagingManifest,
   removeManifest |-> A!removeManifest, registerManifestFileLocation |-> A!registerManifestFileLocation,
   registerManifestFileLocationPosix |-> A!registerManifestFileLocationPosix,
   registerManifestFileLocationWindows |-> A!registerManifestFileLocationWindows]
CheckupsCode ==
  [checkupsFor |-> C!checkupsFor, doctorCheckup |-> C!doctorCheckup, runDoctorCheckup |-> C!runDoctorCheckup,
   RunDoctor |-> C!RunDoctor, flareCheckup |-> C!flareCheckup, RunFlare |-> C!RunFlare, finalize |-> C!finalize,
   writeFlareEnv |-> C!writeFlareEnv, noteMultipleInstallations |-> C!noteMultipleInstallations,
   CheckupsOnce |-> C!CheckupsOnce, LogCheckupsOnStartup |-> C!LogCheckupsOnStartup, addFileToZip |-> C!addFileToZip,
   addStreamToZip |-> C!addStreamToZip, recursiveDirectoryContents |-> C!recursiveDirectoryContents,
   runCmdMarkdownLogged |-> C!runCmdMarkdownLogged, parseUrl |-> C!parseUrl, Platform |-> C!Platform,
   hostInfoCheckup |-> C!hostInfoCheckup, bboltDbSize |-> C!bboltDbSize, Version |-> C!Version,
   VersionData |-> C!VersionData, getTimeFromStore |-> C!getTimeFromStore, Processes |-> C!Processes,
   RootDirectory |-> C!RootDirectory, BinaryDirectory |-> C!BinaryDirectory, getBinDirOnNixOS |-> C!getBinDirOnNixOS,
   Connectivity |-> C!Connectivity, checkKolideServer |-> C!checkKolideServer, CheckupLogs |-> C!CheckupLogs,
   InitLogs |-> C!InitLogs, writeInitLogs |-> C!writeInitLogs, launchdCheckup |-> C!launchdCheckup,
   gatherLaunchdLogs |-> C!gatherLaunchdLogs, runtimeCheckup |-> C!runtimeCheckup,
   gatherMemStats |-> C!gatherMemStats, gatherStack |-> C!gatherStack, gatherPprofMemory |-> C!gatherPprofMemory,
   gatherPprofCpu |-> C!gatherPprofCpu, StopCpuProfile |-> C!StopCpuProfile,
   gatherDesktopProfiles |-> C!gatherDesktopProfiles, enrollSecretCheckup |-> C!enrollSecretCheckup,
   parseSecret |-> C!parseSecret, bboltdbCheckup |-> C!bboltdbCheckup, backupStats |-> C!backupStats,
   backupStatsFromDb |-> C!backupStatsFromDb, networkCheckup |-> C!networkCheckup, runCommand |-> C!runCommand,
   installCheckup |-> C!installCheckup, gatherInstallationLogs |-> C!gatherInstallationLogs,
   gatherInstallerInfo |-> C!gatherInstallerInfo, getDefaultRegistryValue |-> C!getDefaultRegistryValue,
   servicesCheckup |-> C!servicesCheckup, gatherServices |-> C!gatherServices,
   gatherServiceManagerEvents |-> C!gatherServiceManagerEvents,
   gatherServiceManagerEventLogs |-> C!gatherServiceManagerEventLogs, powerCheckup |-> C!powerCheckup,
   osqueryCheckup |-> C!osqueryCheckup, osqueryVersion |-> C!osqueryVersion, launcherFlags |-> C!launcherFlags,
   desktopMenu |-> C!desktopMenu, gnomeExtensions |-> C!gnomeExtensions, quarantine |-> C!quarantine,
   checkDirs |-> C!checkDirs, logMeddlesomeProccesses |-> C!logMeddlesomeProccesses,
   quarantinedAppBundles |-> C!quarantinedAppBundles, quarantineXattrSet |-> C!quarantineXattrSet,
   systemTime |-> C!systemTime, getTimeFromDateHeader |-> C!getTimeFromDateHeader, dnsCheckup |-> C!dnsCheckup,
   resolveHost |-> C!resolveHost, tufCheckup |-> C!tufCheckup, remoteTufMetadata |-> C!remoteTufMetadata,
   localTufMetadata |-> C!localTufMetadata, selectedVersions |-> C!selectedVersions,
   osqConfigConflictCheckup |-> C!osqConfigConflictCheckup, serverDataCheckup |-> C!serverDataCheckup,
   addMetadata |-> C!addMetadata, osqDataCollector |-> C!osqDataCollector, queryData |-> C!queryData,
   intuneCheckup |-> C!intuneCheckup, intuneLogs |-> C!intuneLogs, osqRestartCheckup |-> C!osqRestartCheckup,
   uninstallHistoryCheckup |-> C!uninstallHistoryCheckup, coredumpCheckup |-> C!coredumpCheckup,
   coredumpList |-> C!coredumpList, writeCoredumpInfo |-> C!writeCoredumpInfo,
   downloadDirectory |-> C!downloadDirectory, getDownloadDirs |-> C!getDownloadDirs, perfCheckup |-> C!perfCheckup,
   NewShipper |-> C!NewShipper, signedUrl |-> C!signedUrl, signHttpRequest |-> C!signHttpRequest,
   launcherData |-> C!launcherData, munemo |-> C!munemo, munemoFromMetadataJson |-> C!munemoFromMetadataJson,
   ShipperClose |-> C!ShipperClose]
TablesCode ==
  [RunSimple |-> T!RunSimple, Run |-> T!Run, ExecOsqueryLaunchctl |-> T!ExecOsqueryLaunchctl,
   ExecOsqueryLaunchctlParsed |-> T!ExecOsqueryLaunchctlParsed, GetConstraints |-> T!GetConstraints,
   ParseMultiple |-> T!ParseMultiple, Parse |-> T!Parse, ExtractPrefilterFromQuery |-> T!ExtractPrefilterFromQuery,
   FlattenBytes |-> T!FlattenBytes, execTableV2 |-> T!execTableV2, dataflattenTable |-> T!dataflattenTable,
   generateRawData |-> T!generateRawData, generatePath |-> T!generatePath,
   findFileInUserDirs |-> T!findFileInUserDirs, ChromeLoginKeychainForPath |-> T!ChromeLoginKeychainForPath,
   ChromeLoginKeychain |-> T!ChromeLoginKeychain, GDriveSyncHistoryForPath |-> T!GDriveSyncHistoryForPath,
   GDriveSyncHistory |-> T!GDriveSyncHistory, gdriveForPath |-> T!gdriveForPath, gdrive |-> T!gdrive,
   ChromeLoginDataEmailsTableForPath |-> T!ChromeLoginDataEmailsTableForPath,
   ChromeLoginDataEmailsTable |-> T!ChromeLoginDataEmailsTable,
   onePasswordAccountsTableForPath |-> T!onePasswordAccountsTableForPath,
   onePasswordAccountsTable |-> T!onePasswordAccountsTable,
   chromeUserProfilesTableForPath |-> T!chromeUserProfilesTableForPath,
   chromeUserProfilesTable |-> T!chromeUserProfilesTable, SlackConfigTableForPath |-> T!SlackConfigTableForPath,
   SlackConfigTable |-> T!SlackConfigTable, KeyInfoTable |-> T!KeyInfoTable, SshKeysTable |-> T!SshKeysTable,
   generateLauncherDbInfo |-> T!generateLauncherDbInfo, generateLauncherInfoTable |-> T!generateLauncherInfoTable,
   publicKeyToPem |-> T!publicKeyToPem, generateLauncherConfig |-> T!generateLauncherConfig,
   generateLauncherAutoupdateConfigTable |-> T!generateLauncherAutoupdateConfigTable,
   KolideCustomAtcTables |-> T!KolideCustomAtcTables, katcFromDb |-> T!katcFromDb,
   katcFromStartupSettings |-> T!katcFromStartupSettings, generateMacho |-> T!generateMacho,
   touchIDSystemConfigTable |-> T!touchIDSystemConfigTable, touchIDUserConfigTable |-> T!touchIDUserConfigTable,
   generateMDMInfo |-> T!generateMDMInfo, getMDMProfile |-> T!getMDMProfile,
   getMDMProfileStatus |-> T!getMDMProfileStatus, generateProgramIcons |-> T!generateProgramIcons,
   generateProgramIconChecksums |-> T!generateProgramIconChecksums,
   generateUninstallerProgramIcons |-> T!generateUninstallerProgramIcons,
   getRegistryKeyDisplayData |-> T!getRegistryKeyDisplayData,
   generateInstallersProgramIcons |-> T!generateInstallersProgramIcons,
   getRegistryKeyProductData |-> T!getRegistryKeyProductData, parseIcoFile |-> T!parseIcoFile,
   expandRegistryKey |-> T!expandRegistryKey]
SystemTablesCode ==
  [generateAirportData |-> S!generateAirportData, processAirportOutput |-> S!processAirportOutput,
   unmarshallGetInfoOutput |-> S!unmarshallGetInfoOutput, unmarshallScanOuput |-> S!unmarshallScanOuput,
   apple_silicon_security_policy |-> S!apple_silicon_security_policy,
   parseBootPoliciesOutput |-> S!parseBootPoliciesOutput, parsePolicyRow |-> S!parsePolicyRow,
   cryptoinfotable |-> S!cryptoinfotable, flattenCryptoInfo |-> S!flattenCryptoInfo, cryptsetup |-> S!cryptsetup,
   parseStatus |-> S!parseStatus, parseFirstLine |-> S!parseFirstLine, fscrypt_info |-> S!fscrypt_info,
   GetInfo |-> S!GetInfo, filevault |-> S!filevault, firmwarepasswd |-> S!firmwarepasswd,
   parseFirmwarepasswd |-> S!parseFirmwarepasswd, runFirmwarepasswd |-> S!runFirmwarepasswd,
   desktopprocs |-> S!desktopprocs, dev_table_tooling |-> S!dev_table_tooling,
   findMyDeviceTable |-> S!findMyDeviceTable, dsim_default_associations |-> S!dsim_default_associations,
   execDism |-> S!execDism, firefox_preferences |-> S!firefox_preferences, parsePreferences |-> S!parsePreferences,
   GsettingsValues |-> S!GsettingsValues, execGsettings |-> S!execGsettings, parseGsettings |-> S!parseGsettings,
   GsettingsMetadata |-> S!GsettingsMetadata, gsettingsDescribeForSchema |-> S!gsettingsDescribeForSchema,
   listKeys |-> S!listKeys, describeKey |-> S!describeKey, getDescription |-> S!getDescription, getType |-> S!getType,
   execGsettingsCommand |-> S!execGsettingsCommand, homebrew |-> S!homebrew, ioreg |-> S!ioreg,
   generateAppIcons |-> S!generateAppIcons, getAppIcon |-> S!getAppIcon, jwt |-> S!jwt, processJWT |-> S!processJWT,
   JWTKeyFunc |-> S!JWTKeyFunc, JWTParsePublicKey |-> S!JWTParsePublicKey, dbKeyValueRows |-> S!dbKeyValueRows,
   generateMacUpdate |-> S!generateMacUpdate, macOSBuildVersionPrefix |-> S!macOSBuildVersionPrefix,
   recommendedUpdates |-> S!recommendedUpdates, mdmclient |-> S!mdmclient,
   generateMunkiInstalls |-> S!generateMunkiInstalls, generateMunkiReport |-> S!generateMunkiReport,
   loadReport |-> S!loadReport, nix_upgradeable |-> S!nix_upgradeable, kextpolicy |-> S!kextpolicy,
   legacyexec |-> S!legacyexec, osquery_instance_history |-> S!osquery_instance_history,
   osquery_user_exec_table |-> S!osquery_user_exec_table,
   generateKolideReleaseTrackerDataTable |-> S!generateKolideReleaseTrackerDataTable,
   generatePackagesData |-> S!generatePackagesData, generatePackageInfoData |-> S!generatePackageInfoData,
   parsePkgInfoOutput |-> S!parsePkgInfoOutput, pkgInfoValue |-> S!pkgInfoValue, profiles |-> S!profiles,
   generateProfile |-> S!generateProfile, pwpolicy |-> S!pwpolicy, execPwpolicy |-> S!execPwpolicy,
   secedit |-> S!secedit, execSecedit |-> S!execSecedit, secureboot |-> S!secureboot,
   newConfigOnce |-> S!newConfigOnce, secretscan |-> S!secretscan, scanPath |-> S!scanPath,
   scanContent |-> S!scanContent, findingsToRows |-> S!findingsToRows,
   isEncryptedJWTFamilyValue |-> S!isEncryptedJWTFamilyValue, findingsToKeyNames |-> S!findingsToKeyNames,
   generateArgon2idHash |-> S!generateArgon2idHash, certTrustSettingsTable |-> S!certTrustSettingsTable,
   parseTrustSettingsDump |-> S!parseTrustSettingsDump, parseCert |-> S!parseCert,
   parseTrustSettings |-> S!parseTrustSettings, parseTrustSetting |-> S!parseTrustSetting, sleeper |-> S!sleeper,
   spotlightTable |-> S!spotlightTable, systemprofiler |-> S!systemprofiler,
   getRowsFromOutput |-> S!getRowsFromOutput, execSystemProfiler |-> S!execSystemProfiler, gcTable |-> S!gcTable,
   generateTufReleaseVersionTable |-> S!generateTufReleaseVersionTable, wifi_networks |-> S!wifi_networks,
   execPwsh |-> S!execPwsh, wmitable |-> S!wmitable, runWmiQuery |-> S!runWmiQuery,
   flattenRowsFromWmi |-> S!flattenRowsFromWmi, xfconfTable |-> S!xfconfTable,
   getDefaultConfig |-> S!getDefaultConfig, xfconfForUser |-> S!xfconfForUser, getUserConfig |-> S!getUserConfig,
   getConfigFromDirectory |-> S!getConfigFromDirectory, parseXfconfXml |-> S!parseXfconfXml,
   readChannelXml |-> S!readChannelXml, getCombinedFlattenedConfig |-> S!getCombinedFlattenedConfig,
   XRDBSettings |-> S!XRDBSettings, execXRDB |-> S!execXRDB, parseXRDB |-> S!parseXRDB, zfs |-> S!zfs,
   parseColumns |-> S!parseColumns, generateWithLauncherExec |-> S!generateWithLauncherExec,
   callQueryWindowsUpdatesSubcommand |-> S!callQueryWindowsUpdatesSubcommand,
   windowsupdatetable |-> S!windowsupdatetable, tableSearchLocale |-> S!tableSearchLocale,
   tableGetSearcher |-> S!tableGetSearcher, generateFromCachedData |-> S!generateFromCachedData,
   falconctlOptionsTable |-> S!falconctlOptionsTable, parseOptions |-> S!parseOptions,
   falcon_kernel_check |-> S!falcon_kernel_check, parseKernelCheck |-> S!parseKernelCheck]

AllCode ==
  LauncherCommandsCode @@ AgentProceduresCode @@ CheckupsCode @@ TablesCode @@ SystemTablesCode

\* The functions that no other function of the table calls.
EntryPoints ==
  {"runMain", "notifyRunnerServerMenuOpened", "Uninstall", "checkServiceConfiguration", "currentMachineGuid",
   "currentSerialAndHardwareUUID", "currentMunemo", "getLocalPubKey", "OpenReader", "ReaderGet", "OpenWriter",
   "PingSettings", "SettingsFlagsChanged", "StoreSet", "DeleteRows", "StoreForEach", "WriteLog",
   "NewLauncherListener", "handleConn", "NewLauncherClientConnection", "EnrollClient", "ReadNativeMessages",
   "CheckupsOnce", "LogCheckupsOnStartup", "Platform", "hostInfoCheckup", "Version", "VersionData", "Processes",
   "RootDirectory", "BinaryDirectory", "getBinDirOnNixOS", "Connectivity", "CheckupLogs", "InitLogs",
   "launchdCheckup", "runtimeCheckup", "enrollSecretCheckup", "bboltdbCheckup", "networkCheckup", "installCheckup",
   "servicesCheckup", "powerCheckup", "osqueryCheckup", "launcherFlags", "desktopMenu", "gnomeExtensions",
   "quarantine", "systemTime", "dnsCheckup", "tufCheckup", "osqConfigConflictCheckup", "serverDataCheckup",
   "osqDataCollector", "intuneCheckup", "osqRestartCheckup", "uninstallHistoryCheckup", "coredumpCheckup",
   "downloadDirectory", "perfCheckup", "NewShipper", "ShipperClose", "GetConstraints", "ParseMultiple", "Parse",
   "execTableV2", "dataflattenTable", "ChromeLoginKeychainForPath", "ChromeLoginKeychain", "GDriveSyncHistoryForPath",
   "GDriveSyncHistory", "gdriveForPath", "gdrive", "ChromeLoginDataEmailsTableForPath", "ChromeLoginDataEmailsTable",
   "onePasswordAccountsTableForPath", "onePasswordAccountsTable", "chromeUserProfilesTableForPath",
   "chromeUserProfilesTable", "SlackConfigTableForPath", "SlackConfigTable", "KeyInfoTable", "SshKeysTable",
   "generateLauncherDbInfo", "generateLauncherInfoTable", "generateLauncherConfig",
   "generateLauncherAutoupdateConfigTable", "KolideCustomAtcTables", "generateMacho", "touchIDSystemConfigTable",
   "touchIDUserConfigTable", "generateMDMInfo", "generateProgramIcons", "generateProgramIconChecksums",
   "generateAirportData", "apple_silicon_security_policy", "cryptoinfotable", "cryptsetup", "fscrypt_info",
   "filevault", "firmwarepasswd", "desktopprocs", "dev_table_tooling", "findMyDeviceTable",
   "dsim_default_associations", "firefox_preferences", "GsettingsValues", "GsettingsMetadata", "homebrew", "ioreg",
   "generateAppIcons", "jwt", "dbKeyValueRows", "generateMacUpdate", "recommendedUpdates", "mdmclient",
   "generateMunkiInstalls", "generateMunkiReport", "nix_upgradeable", "kextpolicy", "legacyexec",
   "osquery_instance_history", "osquery_user_exec_table", "generateKolideReleaseTrackerDataTable",
   "generatePackagesData", "generatePackageInfoData", "profiles", "pwpolicy", "secedit", "secureboot", "secretscan",
   "certTrustSettingsTable", "sleeper", "spotlightTable", "systemprofiler", "gcTable",
   "generateTufReleaseVersionTable", "wifi_networks", "wmitable", "xfconfTable", "XRDBSettings", "zfs",
   "generateWithLauncherExec", "windowsupdatetable", "generateFromCachedData", "falconctlOptionsTable",
   "falcon_kernel_check"}

\* What a later step asks about (Asked and AskedTwice of Procedures).
ThingsAsked ==
  {"logShipper", "telemetryExporter", "logPublishClient", "actionsQueue", "localserver", "checkups",
   "file information", "runs as root", "failing host", "secret status", "secret passes", "test listener",
   "no service state", "gnome user", "all extensions", "quarantined file", "quarantined bundle",
   "unresolved host", "resolved host", "unreadable directory", "empty directory", "osquery files", "coredump",
   "download directory", "column", "fourth field", "fingerprint count", "enroll profile", "second line",
   "headers", "volumeGroup", "first line", "matched", "rest of output", "hashing failed", "positive duration",
   "fourth column", "unknown format"}
ConditionsAskedTwice ==
  {"root", "newer launcher", "control server", "autoupdate", "darwin", "linux", "dpkg", "output named",
   "default locale", "windows", "no rows", "flare", "directory missing", "directory empty", "kolide hosted",
   "osquery history", "no report"}

-----------------------------------------------------------------------------
(* What holds of every run. *)

\* The service manager of the Windows commands, the extension client of an
\* interactive session that fails to start, and the registry keys of
\* expandRegistryKey are not closed on every path.
NotClosed == {"service manager", "extension client", "expanded key"}

\* runLauncher goes on with a local server and a log shipper it could not
\* make; some parsers take it for granted that a line has so many fields.
TakenForGranted ==
  {"localserver", "logShipper", "file information", "fourth field", "fingerprint count",
   "second line", "rest of output", "positive duration", "fourth column"}

\* However its steps fail, a function closes, cancels, unlocks or hands on all
\* that it opened, and opens nothing a second time over what it still holds;
\* and nothing is used that an ignored error left nil.
ResourcesHandled ==
  /\ pr.leaked \subseteq NotClosed
  /\ pr.outcome # "" => pr.held \subseteq NotClosed
  /\ pr.nils \subseteq TakenForGranted

\* A checkup that ends without an error has given itself a status, whichever
\* of its steps failed: doctor and flare never show an empty one.  The Intune
\* checkup has none where there is no Intune.
NotCheckups == {"CheckupsOnce", "LogCheckupsOnStartup", "VersionData", "getBinDirOnNixOS",
                "NewShipper", "ShipperClose", "intuneCheckup"}
CheckupsReport ==
  pr.root \in DOMAIN CheckupsCode \ NotCheckups /\ pr.outcome = "ok" => pr.status # ""

\* One item that cannot be read does not take the rows of the others with it:
\* a table skips the item and returns the rest.  Only the tables of
\* AllOrNothing return an error, or nothing, instead of the rows they have.
AllOrNothing ==
  {"ChromeLoginDataEmailsTableForPath", "ChromeLoginKeychainForPath", "GDriveSyncHistoryForPath",
   "apple_silicon_security_policy", "certTrustSettingsTable", "dataflattenTable", "dbKeyValueRows", "gcTable",
   "generateLauncherConfig", "generateLauncherDbInfo", "generateLauncherInfoTable", "generatePackageInfoData",
   "generatePackagesData", "generateTufReleaseVersionTable", "getCombinedFlattenedConfig",
   "onePasswordAccountsTableForPath", "processAirportOutput", "recommendedUpdates", "sleeper", "spotlightTable",
   "xfconfForUser"}
RowsKept == pr.lost \subseteq AllOrNothing
=============================================================================
