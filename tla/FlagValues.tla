----------------------------- MODULE FlagValues -----------------------------
(***************************************************************************)
(* What reading a flag returns (ee/agent/flags): the text the control       *)
(* server or a setter stored, else the default; replaced by an override of  *)
(* the right type; then brought between the flag's bounds or sanitized.     *)
(* Every flag of flag_controller.go is listed with its kind, default,       *)
(* bounds and whether it can be stored and overridden.                      *)
(*                                                                         *)
(* Durations count in units of which a second has Second.  A stored text is *)
(* a record: digits ("plain"), digits with a unit ("unit"), a decimal       *)
(* number, in hundredths ("decimal"), or anything else ("word").            *)
(***************************************************************************)
EXTENDS Integers, FiniteSets

CONSTANTS Nothing,        \* no stored value, no override
          FromOptions,    \* a default that a command line option gives
          MaxFlagSteps    \* bound on the changes of a behaviour

VARIABLE flag             \* [f, opts, stored, override, wrote, steps] of one flag

Second == 2
Minute == 60 * Second
Hour == 60 * Minute
MinInt == -(2^30)
MaxInt == 2^30

SanitizeUpdateChannel == {"stable", "alpha", "beta", "nightly"}
LauncherVersions == {"v2.0.0"}
OsquerydVersions == {"v1.0.0", "v2.0.0"}
ShippingLevels == {"debug", "warn", "info", "error"}

\* The words a text may be: those the code tells apart, and one it does not.
Words == {"", "enabled", "other"} \cup SanitizeUpdateChannel \cup LauncherVersions
           \cup OsquerydVersions \cup ShippingLevels
Texts == [form : {"plain", "unit", "decimal", "word"}, n : Int, word : Words]

ASSUME NothingAssumption == Nothing \notin Texts

-----------------------------------------------------------------------------
(* The kinds of values, and what their flags have in common.                *)

Flag(kind, default, min, max) ==
  [kind |-> kind, default |-> default, min |-> min, max |-> max, stored |-> TRUE,
   overridden |-> FALSE, allowed |-> {}, fallback |-> ""]
NewBoolFlagValue(default) == Flag("bool", default, MinInt, MaxInt)
NewStringFlagValue(default) == Flag("string", default, MinInt, MaxInt)
NewDurationFlagValue(default, min, max) == Flag("duration", default, min, max)
NewIntFlagValue(default, min, max) == Flag("int", default, min, max)
NewFloat64FlagValue(default, min, max) == Flag("float", default, min, max)
WithOverride(f) ==
  [kind |-> f.kind, default |-> f.default, min |-> f.min, max |-> f.max, stored |-> f.stored,
   overridden |-> TRUE, allowed |-> f.allowed, fallback |-> f.fallback]
CommandLineOnly(f) ==      \* get(nil)
  [kind |-> f.kind, default |-> f.default, min |-> f.min, max |-> f.max, stored |-> FALSE,
   overridden |-> f.overridden, allowed |-> f.allowed, fallback |-> f.fallback]
WithSanitizer(f, allowed, fallback) ==
  [kind |-> f.kind, default |-> f.default, min |-> f.min, max |-> f.max, stored |-> f.stored,
   overridden |-> f.overridden, allowed |-> allowed, fallback |-> fallback]

-----------------------------------------------------------------------------
(* Texts.                                                                  *)

Text(form, n) == [form |-> form, n |-> n, word |-> ""]
Word(w) == [form |-> "word", n |-> 0, word |-> w]
boolToBytes(b) == Word(IF b THEN "enabled" ELSE "")
bytesToBool(t) == t = Word("enabled")
\* Mutant of durationToBytes: whole seconds, as Duration.Seconds gives them.
durationToSeconds(d) == Text("plain", d \div Second)
durationToBytes(d) == Text("plain", d)
intToBytes(i) == Text("plain", i)
float64ToBytes(x) == IF x % 100 = 0 THEN Text("plain", x \div 100) ELSE Text("decimal", x)

clampValue(v, min, max) == IF v < min THEN min ELSE IF v > max THEN max ELSE v

\* A plain number is a duration of that many units (and 0 needs no unit at all).
parseDuration(t, default) == IF t.form \in {"unit", "plain"} THEN t.n ELSE default
parseInt(t, default) == IF t.form = "plain" THEN t.n ELSE default
parseFloat(t, default) ==
  IF t.form = "plain" THEN 100 * t.n ELSE IF t.form = "decimal" THEN t.n ELSE default

-----------------------------------------------------------------------------
(* The flags.                                                              *)

ServerFlags ==
  [KolideServerURL |-> NewStringFlagValue(FromOptions),
   KolideHosted |-> NewBoolFlagValue(FromOptions),
   EnrollSecret |-> CommandLineOnly(NewStringFlagValue(FromOptions))]

PathFlags ==
  [RootDirectory |-> CommandLineOnly(NewStringFlagValue(FromOptions)),
   OsquerydPath |-> CommandLineOnly(NewStringFlagValue(FromOptions))]

RunnerFlags ==
  [RootPEM |-> CommandLineOnly(NewStringFlagValue(FromOptions)),
   LoggingInterval |-> NewDurationFlagValue(FromOptions, 5 * Second, 10 * Minute),
   EnableInitialRunner |-> CommandLineOnly(NewBoolFlagValue(FromOptions))]

DesktopFlags ==
  [DesktopEnabled |-> NewBoolFlagValue(FALSE),
   DesktopUpdateInterval |-> NewDurationFlagValue(5 * Second, 5 * Second, 10 * Minute),
   DesktopMenuRefreshInterval |-> NewDurationFlagValue(15 * Minute, 5 * Minute, 60 * Minute),
   DesktopGoMaxProcs |-> NewIntFlagValue(2, 0, 16),
   LauncherGoMaxProcs |-> NewIntFlagValue(8, 0, 32)]

ControlFlags ==
  [DebugServerData |-> NewBoolFlagValue(FALSE),
   ForceControlSubsystems |-> NewBoolFlagValue(FALSE),
   ControlServerURL |-> NewStringFlagValue(FromOptions),
   ControlRequestInterval |-> WithOverride(NewDurationFlagValue(FromOptions, 5 * Second, 10 * Minute)),
   AllowOverlyBroadDt4aAcceleration |-> NewBoolFlagValue(FALSE),
   DisableControlTLS |-> NewBoolFlagValue(FromOptions),
   InsecureControlTLS |-> NewBoolFlagValue(FromOptions),
   InsecureTLS |-> NewBoolFlagValue(FromOptions),
   InsecureTransportTLS |-> NewBoolFlagValue(FromOptions),
   IAmBreakingEELicense |-> NewBoolFlagValue(FromOptions)]

OsquerydFlags ==
  [Debug |-> NewBoolFlagValue(FromOptions),
   DebugLogFile |-> NewStringFlagValue(FromOptions),
   OsqueryVerbose |-> NewBoolFlagValue(FromOptions),
   DistributedForwardingInterval |-> WithOverride(NewDurationFlagValue(1 * Minute, 5 * Second, 5 * Minute)),
   WatchdogEnabled |-> NewBoolFlagValue(FromOptions),
   WatchdogDelaySec |-> NewIntFlagValue(FromOptions, 0, 600),
   WatchdogMemoryLimitMB |-> NewIntFlagValue(FromOptions, 100, 10000),
   WatchdogUtilizationLimitPercent |-> NewIntFlagValue(FromOptions, 5, 100)]

AutoupdateFlags ==
  [CurrentRunningOsqueryVersion |-> NewStringFlagValue(""),
   AutoupdateEnabled |-> NewBoolFlagValue(FromOptions),
   TufServerURL |-> NewStringFlagValue(FromOptions),
   MirrorServerURL |-> NewStringFlagValue(FromOptions),
   AutoupdateInterval |-> WithOverride(NewDurationFlagValue(FromOptions, 1 * Minute, 24 * Hour)),
   UpdateChannel |-> WithSanitizer(NewStringFlagValue(FromOptions), SanitizeUpdateChannel, "stable"),
   AutoupdateInitialDelay |-> WithOverride(NewDurationFlagValue(FromOptions, 5 * Second, 12 * Hour)),
   UpdateDirectory |-> NewStringFlagValue(FromOptions),
   PinnedLauncherVersion |-> WithOverride(WithSanitizer(NewStringFlagValue(""), LauncherVersions, "")),
   PinnedOsquerydVersion |-> WithOverride(WithSanitizer(NewStringFlagValue(""), OsquerydVersions, ""))]

ObservabilityFlags ==
  [ExportTraces |-> WithOverride(NewBoolFlagValue(FromOptions)),
   LauncherWatchdogDisabled |-> NewBoolFlagValue(FALSE),
   SystrayRestartEnabled |-> NewBoolFlagValue(FALSE),
   TraceSamplingRate |-> WithOverride(NewFloat64FlagValue(FromOptions, 0, 100)),
   TraceBatchTimeout |-> NewDurationFlagValue(1 * Minute, 5 * Second, 1 * Hour),
   LogIngestServerURL |-> NewStringFlagValue(FromOptions),
   LogShippingLevel |-> WithOverride(WithSanitizer(NewStringFlagValue("info"), ShippingLevels, "info")),
   TraceIngestServerURL |-> NewStringFlagValue(FromOptions),
   DisableTraceIngestTLS |-> NewBoolFlagValue(FromOptions),
   InModernStandby |-> NewBoolFlagValue(FALSE),
   OsqueryHealthcheckStartupDelay |-> NewDurationFlagValue(FromOptions, 0, 1 * Hour),
   LocalDevelopmentPath |-> CommandLineOnly(NewStringFlagValue(FromOptions))]

TableFlags ==
  [TableGenerateTimeout |-> NewDurationFlagValue(4 * Minute, 30 * Second, 10 * Minute),
   UseCachedDataForScheduledQueries |-> NewBoolFlagValue(FALSE),
   CachedQueryResultsTTL |-> NewDurationFlagValue(6 * Hour, 90 * Minute, 72 * Hour),
   ResetOnHardwareChangeEnabled |-> NewBoolFlagValue(FALSE),
   AutoupdateDownloadSplay |-> NewDurationFlagValue(FromOptions, 0, 72 * Hour),
   PerformanceMonitoringEnabled |-> NewBoolFlagValue(FALSE),
   DuplicateLogWindow |-> NewDurationFlagValue(0, 0, 24 * Hour),
   OsqueryPublisherURL |-> NewStringFlagValue(FromOptions),
   OsqueryPublisherPercentEnabled |-> NewIntFlagValue(FromOptions, 0, 100)]

Flags == <<ServerFlags, PathFlags, RunnerFlags, DesktopFlags, ControlFlags,
           OsquerydFlags, AutoupdateFlags, ObservabilityFlags, TableFlags>>

-----------------------------------------------------------------------------
(* Reading and changing one flag.                                           *)

parse(f, t, default) ==
  IF f.kind = "bool" THEN bytesToBool(t)
  ELSE IF f.kind = "duration" THEN parseDuration(t, default)
  ELSE IF f.kind = "int" THEN parseInt(t, default)
  ELSE IF f.kind = "float" THEN parseFloat(t, default)
  ELSE t.word

Numeric(f) == f.kind \in {"duration", "int", "float"}
Bring(f, v) ==
  IF Numeric(f) THEN clampValue(v, f.min, f.max)
  ELSE IF f.allowed # {} /\ v \notin f.allowed THEN f.fallback
  ELSE v

get(f, default, stored, override) ==
  Bring(f, IF override # Nothing THEN override
           ELSE IF stored # Nothing THEN parse(f, stored, default)
           ELSE default)

\* The values that tell the cases of a flag apart.
Inputs(f) ==
  IF Numeric(f) THEN {f.min - 1, f.min, f.min + 1, f.max, f.max + 1}
  ELSE IF f.kind = "bool" THEN BOOLEAN
  ELSE {"", "other"} \cup f.allowed

ToBytes(f, v) ==
  IF f.kind = "bool" THEN boolToBytes(v)
  ELSE IF f.kind = "duration" THEN durationToBytes(v)
  ELSE IF f.kind = "int" THEN intToBytes(v)
  ELSE IF f.kind = "float" THEN float64ToBytes(v)
  ELSE Word(v)

\* What the control server may send for it.
ServerTexts(f) ==
  {ToBytes(f, v) : v \in Inputs(f)} \cup {Word(""), Word("enabled")}
    \cup (IF Numeric(f) THEN {Text("unit", f.max), Text("decimal", 50), Text("plain", 0)} ELSE {})

FlagInit ==
  \E i \in DOMAIN Flags : \E name \in DOMAIN Flags[i] :
    LET f == Flags[i][name] IN
    \E v \in (IF f.default = FromOptions THEN Inputs(f) ELSE {f.default}) :
      flag = [f |-> f, opts |-> v, stored |-> Nothing, override |-> Nothing,
              wrote |-> Nothing, steps |-> 0]

FlagStep(stored, override, wrote) ==
  /\ flag.steps < MaxFlagSteps
  /\ flag' = [f |-> flag.f, opts |-> flag.opts, stored |-> stored, override |-> override,
              wrote |-> wrote, steps |-> flag.steps + 1]

setStoredValue(v) == flag.f.stored /\ FlagStep(ToBytes(flag.f, v), flag.override, v)

\* An update of the control server stores texts and removes the flags it does not name.
UpdateFlags(t) == flag.f.stored /\ FlagStep(t, flag.override, Nothing)

overrideValue(v) == flag.f.overridden /\ FlagStep(flag.stored, v, flag.wrote)
overrideEnds == flag.override # Nothing /\ FlagStep(flag.stored, Nothing, flag.wrote)

FlagNext ==
  \/ \E v \in Inputs(flag.f) : setStoredValue(v) \/ overrideValue(v)
  \/ \E t \in ServerTexts(flag.f) \cup {Nothing} : UpdateFlags(t)
  \/ overrideEnds

FlagSpec == FlagInit /\ [][FlagNext]_flag

FlagValue == get(flag.f, flag.opts, flag.stored, flag.override)

(***************************************************************************)
(* A flag is always read within its bounds, or as one of the values its     *)
(* sanitizer admits, whatever the command line, the control server or an    *)
(* override says; an override that is in force is what is read; and a       *)
(* setter's value, once it went through the store as text, is read back.    *)
(***************************************************************************)
FlagReadsWhatWasSet ==
  /\ Numeric(flag.f) => FlagValue >= flag.f.min /\ FlagValue <= flag.f.max
  /\ flag.f.allowed # {} => FlagValue \in flag.f.allowed \cup {flag.f.fallback}
  /\ flag.override # Nothing => FlagValue = Bring(flag.f, flag.override)
  /\ flag.override = Nothing /\ flag.wrote # Nothing => FlagValue = Bring(flag.f, flag.wrote)
=============================================================================
