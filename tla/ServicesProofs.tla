--------------------------- MODULE ServicesProofs ---------------------------
(***************************************************************************)
(* Services of launcher, for any number of records, callers, changes and   *)
(* backups: the deduplication of logs, the telemetry exporter, the         *)
(* hardware change detector and the files of the database.                 *)
(***************************************************************************)
EXTENDS LogDedup, TelemetryExporter, HardwareReset, DatabaseFiles, TLAPS

-----------------------------------------------------------------------------
(* Deduplication: suppressed logs are counted.                              *)

\* The fields of dedup, and of an entry of the cache.
DedupFields ==
  dedup = [now |-> dedup.now, started |-> dedup.started, window |-> dedup.window,
           logged |-> dedup.logged, cache |-> dedup.cache, toEmit |-> dedup.toEmit,
           suppressed |-> dedup.suppressed, counted |-> dedup.counted]

DedupTypes ==
  /\ dedup.cache \in [Contents -> [firstSeen : Nat, lastSeen : Nat, count : Nat]]
  /\ dedup.toEmit \in [Contents -> Nat]
  /\ dedup.suppressed \in [Contents -> Nat] /\ dedup.counted \in [Contents -> Nat]
  /\ dedup.now \in Nat

DedupInv == DedupFields /\ DedupTypes /\ SuppressedAreCounted

\* A record that is passed on or counted.
LEMMA RecordStep ==
  ASSUME DedupInv, NEW h \in Contents, handleRecord(h)
  PROVE  DedupInv'
<1> DEFINE e == dedup.cache[h]
           newer == [firstSeen |-> e.firstSeen, lastSeen |-> dedup.now, count |-> e.count + 1]
           fresh == [firstSeen |-> dedup.now, lastSeen |-> dedup.now, count |-> 1]
<1>0. DedupFields /\ DedupTypes /\ SuppressedAreCounted
  BY DEF DedupInv
<1>1. e \in [firstSeen : Nat, lastSeen : Nat, count : Nat] /\ fresh \in [firstSeen : Nat, lastSeen : Nat, count : Nat]
      /\ e.count \in Nat /\ fresh.count = 1
  BY <1>0 DEF DedupTypes
<1>2. \/ dedup' = [dedup EXCEPT !.logged = @ + 1]
      \/ e.count = 0 /\ dedup' = [dedup EXCEPT !.logged = @ + 1, !.cache[h] = fresh]
      \/ e.count # 0 /\ dedup' = [dedup EXCEPT !.logged = @ + 1, !.counted[h] = @ + e.count - 1,
                             !.cache[h] = fresh]
      \/ e.count # 0 /\ dedup' = [dedup EXCEPT !.logged = @ + 1, !.suppressed[h] = @ + 1,
                           !.cache[h] = newer]
  BY ZenonT(30) DEF handleRecord
<1>3. /\ DedupFields' /\ dedup'.now = dedup.now /\ dedup'.toEmit = dedup.toEmit
      /\ \/ dedup'.cache = dedup.cache /\ dedup'.counted = dedup.counted
            /\ dedup'.suppressed = dedup.suppressed
         \/ e.count = 0 /\ dedup'.cache = [dedup.cache EXCEPT ![h] = fresh]
            /\ dedup'.counted = dedup.counted /\ dedup'.suppressed = dedup.suppressed
         \/ e.count # 0 /\ dedup'.cache = [dedup.cache EXCEPT ![h] = fresh]
            /\ dedup'.counted = [dedup.counted EXCEPT ![h] = @ + e.count - 1]
            /\ dedup'.suppressed = dedup.suppressed
         \/ e.count # 0
            /\ dedup'.cache = [dedup.cache EXCEPT ![h] = newer]
            /\ dedup'.counted = dedup.counted
            /\ dedup'.suppressed = [dedup.suppressed EXCEPT ![h] = @ + 1]
  <2> HIDE DEF e, fresh, newer
  <2> QED
    BY ZenonT(30), <1>0, <1>2 DEF DedupFields
<1> HIDE DEF fresh
<1>4. CASE dedup'.cache = dedup.cache /\ dedup'.counted = dedup.counted
            /\ dedup'.suppressed = dedup.suppressed
  BY <1>0, <1>3, <1>4 DEF DedupInv, DedupTypes, SuppressedAreCounted
<1>5. CASE e.count = 0 /\ dedup'.cache = [dedup.cache EXCEPT ![h] = fresh]
            /\ dedup'.counted = dedup.counted /\ dedup'.suppressed = dedup.suppressed
  BY <1>0, <1>1, <1>3, <1>5 DEF DedupInv, DedupTypes, SuppressedAreCounted
<1>6. CASE e.count # 0 /\ dedup'.cache = [dedup.cache EXCEPT ![h] = fresh]
            /\ dedup'.counted = [dedup.counted EXCEPT ![h] = @ + e.count - 1]
            /\ dedup'.suppressed = dedup.suppressed
  BY <1>0, <1>1, <1>3, <1>6 DEF DedupInv, DedupTypes, SuppressedAreCounted
<1>7. CASE e.count # 0
            /\ dedup'.cache = [dedup.cache EXCEPT ![h] = newer]
            /\ dedup'.counted = dedup.counted
            /\ dedup'.suppressed = [dedup.suppressed EXCEPT ![h] = @ + 1]
  <2>1. newer \in [firstSeen : Nat, lastSeen : Nat, count : Nat] /\ newer.count = e.count + 1
    BY <1>0, <1>1 DEF DedupTypes
  <2>2. newer.count \in Nat /\ newer.count > 0
    BY <1>1, <2>1
  <2> HIDE DEF newer
  <2>3. DedupTypes'
    BY <1>0, <1>3, <1>7, <2>1 DEF DedupTypes
  <2>4. SuppressedAreCounted'
    <3> SUFFICES ASSUME NEW g \in Contents
                 PROVE  dedup'.suppressed[g] = dedup'.counted[g]
                          + (IF dedup'.cache[g].count > 0 THEN dedup'.cache[g].count - 1 ELSE 0)
                          + (IF dedup'.toEmit[g] > 0 THEN dedup'.toEmit[g] - 1 ELSE 0)
      BY DEF SuppressedAreCounted
    <3>1. /\ dedup.suppressed[g] \in Nat /\ dedup.counted[g] \in Nat /\ dedup.cache[g].count \in Nat
          /\ dedup.toEmit[g] \in Nat
          /\ dedup.suppressed[g] = dedup.counted[g]
                          + (IF dedup.cache[g].count > 0 THEN dedup.cache[g].count - 1 ELSE 0)
                          + (IF dedup.toEmit[g] > 0 THEN dedup.toEmit[g] - 1 ELSE 0)
      BY <1>0 DEF DedupTypes, SuppressedAreCounted
    <3>2. CASE g = h
      <4>1. /\ dedup'.suppressed[g] = dedup.suppressed[g] + 1 /\ dedup'.counted[g] = dedup.counted[g]
            /\ dedup'.cache[g].count = dedup.cache[g].count + 1 /\ dedup'.toEmit[g] = dedup.toEmit[g]
            /\ dedup.cache[g].count # 0
        BY <1>0, <1>3, <1>7, <2>1, <3>2 DEF DedupTypes
      <4> QED
        BY <3>1, <4>1
    <3>3. CASE g # h
      BY <1>0, <1>3, <1>7, <3>1, <3>3 DEF DedupTypes
    <3> QED
      BY <3>2, <3>3
  <2> QED
    BY <1>3, <2>3, <2>4 DEF DedupInv
<1> QED
  BY <1>3, <1>4, <1>5, <1>6, <1>7

\* A cleanup moves the counts of what it removes from the cache to the summaries.
LEMMA RemoveStep ==
  ASSUME DedupInv, NothingToEmit, NEW removed, RemoveEntries(removed)
  PROVE  DedupInv'
<1>0. DedupFields /\ DedupTypes /\ SuppressedAreCounted
  BY DEF DedupInv
<1>1. /\ DedupFields' /\ dedup'.now = dedup.now /\ dedup'.suppressed = dedup.suppressed
      /\ dedup'.counted = dedup.counted
      /\ dedup'.cache = [h \in Contents |-> IF h \in removed THEN Absent ELSE dedup.cache[h]]
      /\ dedup'.toEmit = [h \in Contents |-> IF h \in removed /\ dedup.cache[h].count > 1
                                        THEN dedup.cache[h].count ELSE 0]
  BY ZenonT(30), <1>0 DEF RemoveEntries, DedupFields
<1>2. Absent \in [firstSeen : Nat, lastSeen : Nat, count : Nat] /\ Absent.count = 0
  BY DEF Absent
<1>3. DedupTypes'
  BY <1>0, <1>1, <1>2 DEF DedupTypes
<1>4. SuppressedAreCounted'
  BY <1>0, <1>1, <1>2 DEF DedupTypes, SuppressedAreCounted, NothingToEmit
<1> QED
  BY <1>1, <1>3, <1>4 DEF DedupInv

\* A summary tells of what it has counted.
LEMMA SummaryStep ==
  ASSUME DedupInv, EmitSummary
  PROVE  DedupInv'
<1>0. DedupFields /\ DedupTypes /\ SuppressedAreCounted
  BY DEF DedupInv
<1>1. PICK h \in Contents :
        /\ dedup.toEmit[h] > 0
        /\ dedup' = [dedup EXCEPT !.toEmit[h] = 0, !.counted[h] = @ + dedup.toEmit[h] - 1]
  BY DEF EmitSummary
<1>2. /\ DedupFields' /\ dedup'.now = dedup.now /\ dedup'.suppressed = dedup.suppressed
      /\ dedup'.cache = dedup.cache
      /\ dedup'.toEmit = [dedup.toEmit EXCEPT ![h] = 0]
      /\ dedup'.counted = [dedup.counted EXCEPT ![h] = @ + dedup.toEmit[h] - 1]
  BY ZenonT(30), <1>0, <1>1 DEF DedupFields
<1> QED
  BY <1>0, <1>1, <1>2 DEF DedupInv, DedupTypes, SuppressedAreCounted

(***************************************************************************)
(* No suppressed record goes uncounted, whatever the contents, the windows, *)
(* the expiry and the size of the cache.                                    *)
(***************************************************************************)
THEOREM DedupCounts == DedupSpec => []SuppressedAreCounted
<1>1. DedupInit => DedupInv
  BY DEF DedupInit, DedupInv, DedupFields, DedupTypes, SuppressedAreCounted, Absent
<1>2. DedupInv /\ [DedupNext]_dedup => DedupInv'
  <2> SUFFICES ASSUME DedupInv, [DedupNext]_dedup PROVE DedupInv'
    OBVIOUS
  <2>1. CASE StartDedup \/ StopDedup \/ SetDuplicateLogWindow \/ DedupTime \/ UNCHANGED dedup
    <3>1. /\ DedupFields' /\ dedup'.suppressed = dedup.suppressed /\ dedup'.now \in Nat
          /\ dedup'.cache = dedup.cache /\ dedup'.toEmit = dedup.toEmit
          /\ dedup'.counted = dedup.counted
      BY <2>1 DEF DedupInv, DedupFields, DedupTypes, StartDedup, StopDedup, SetDuplicateLogWindow,
                  DedupTime
    <3> QED
      BY <3>1 DEF DedupInv, DedupTypes, SuppressedAreCounted
  <2>2. CASE performCleanup
    <3>1. NothingToEmit /\ \E removed : RemoveEntries(removed)
      BY <2>2 DEF performCleanup
    <3> QED
      BY <3>1, RemoveStep
  <2> QED
    BY <2>1, <2>2, RecordStep, SummaryStep DEF DedupNext
<1>3. DedupInv => SuppressedAreCounted
  BY DEF DedupInv
<1> QED
  BY <1>1, <1>2, <1>3, PTL DEF DedupSpec

-----------------------------------------------------------------------------
(* The telemetry exporter follows its flag.                                 *)

TelFields ==
  tel = [exportTraces |-> tel.exportTraces, enabled |-> tel.enabled, execute |-> tel.execute,
         interrupted |-> tel.interrupted, call |-> tel.call, builder |-> tel.builder,
         failed |-> tel.failed, childProcessor |-> tel.childProcessor,
         forwarding |-> tel.forwarding, onEnd |-> tel.onEnd, bufferedSpans |-> tel.bufferedSpans,
         exported |-> tel.exported, spans |-> tel.spans, changes |-> tel.changes,
         overlapped |-> tel.overlapped, late |-> tel.late]

TelTypes ==
  /\ tel.exportTraces \in BOOLEAN /\ tel.enabled \in BOOLEAN /\ tel.interrupted \in BOOLEAN
  /\ tel.failed \in BOOLEAN /\ tel.forwarding \in BOOLEAN /\ tel.overlapped \in BOOLEAN
  /\ tel.late \in BOOLEAN
  /\ tel.execute \in {"start", "rebuild", "waiting"}
  /\ tel.call \in [FlagCallers -> {"idle", "toggled", "other", "attributes", "rebuild"}]
  /\ tel.childProcessor \in {"none", "live", "shut"}

\* Whoever builds holds providerLock, and forwards; outside of that the buffer is empty once
\* there is a child, unless a span came late.
Building ==
  /\ tel.builder # "none" => tel.builder \in FlagCallers \cup {"execute"} /\ Rebuilds(tel.builder)
  /\ tel.forwarding => tel.builder # "none"
  /\ tel.childProcessor # "none" /\ ~tel.forwarding /\ ~tel.late => tel.bufferedSpans = 0

\* One at a time, and what has been decided by then.
Alone ==
  /\ \A c, d \in FlagCallers : tel.call[c] # "idle" /\ tel.call[d] # "idle" => c = d
  /\ tel.execute = "rebuild" => \A c \in FlagCallers : tel.call[c] = "idle"
Decided ==
  /\ ~Busy => tel.enabled = tel.exportTraces
  /\ \A c \in FlagCallers :
       /\ tel.call[c] = "other" => tel.enabled = tel.exportTraces
       /\ tel.call[c] = "toggled" => tel.enabled = ~tel.exportTraces
       /\ tel.call[c] = "attributes" => tel.exportTraces /\ ~tel.enabled
       /\ tel.call[c] = "rebuild" => tel.exportTraces /\ tel.enabled
  /\ tel.execute = "rebuild" => tel.exportTraces /\ tel.enabled
Taken ==
  /\ ~tel.enabled => tel.childProcessor # "live"
  /\ tel.forwarding => tel.childProcessor = "live"
  /\ (/\ tel.enabled /\ ~tel.failed /\ tel.execute = "waiting"
      /\ \A c \in FlagCallers : tel.call[c] # "rebuild")
       => tel.childProcessor = "live"

TelShape == TelFields /\ TelTypes /\ Building
TelInv == TelShape /\ (~tel.overlapped /\ ~tel.interrupted => Alone /\ Decided /\ Taken)

\* Initially there is no exporter.
LEMMA TelInitial == TelemetryInit => TelInv
BY TelemetryAssumption DEF TelemetryInit, TelInv, TelShape, TelFields, TelTypes, Building, Alone, Decided, Taken, Busy, Rebuilds

\* A flag changes before its observers hear of it.
LEMMA SetsFlagStep ==
  ASSUME TelInv, NEW c \in FlagCallers, SetsFlag(c)
  PROVE  TelInv'
<1>0. TelFields /\ TelTypes /\ Building
  BY DEF TelInv, TelShape
<1>1. PICK on \in BOOLEAN :
       tel' = [tel EXCEPT !.exportTraces = on, !.changes = @ + 1, !.overlapped = @ \/ Busy,
                          !.call[c] = IF on = tel.exportTraces THEN "other" ELSE "toggled"]
  BY DEF SetsFlag
<1>2. /\ TelFields' /\ tel'.exportTraces = on /\ tel'.enabled = tel.enabled
      /\ tel'.overlapped = (tel.overlapped \/ Busy)
      /\ tel'.call = [tel.call EXCEPT ![c] = IF on = tel.exportTraces THEN "other" ELSE "toggled"]
      /\ tel'.execute = tel.execute /\ tel'.interrupted = tel.interrupted /\ tel'.builder = tel.builder
      /\ tel'.failed = tel.failed /\ tel'.childProcessor = tel.childProcessor
      /\ tel'.forwarding = tel.forwarding /\ tel'.bufferedSpans = tel.bufferedSpans
      /\ tel'.late = tel.late
  <2> HIDE DEF Busy
  <2> QED BY ZenonT(30), <1>0, <1>1 DEF TelFields
<1>3. tel.call[c] = "idle"
  BY DEF SetsFlag
<1>4. TelTypes'
  BY <1>0, <1>2 DEF TelTypes, Busy
<1>5. Building'
  BY <1>0, <1>2, <1>3, TelemetryAssumption DEF Building, TelTypes, Rebuilds
<1>6. ASSUME ~tel'.overlapped, ~tel'.interrupted
      PROVE  Alone' /\ Decided' /\ Taken'
  <2>1. ~tel.overlapped /\ ~tel.interrupted /\ ~Busy
    BY ZenonT(30), <1>0, <1>2, <1>6 DEF TelTypes
  <2>2. Alone /\ Decided /\ Taken
    BY <2>1 DEF TelInv
  <2>3. Alone'
    BY <1>0, <1>2, <2>1, <2>2 DEF TelTypes, Alone, Busy
  <2>4. Decided'
    BY <1>0, <1>2, <2>1, <2>2 DEF TelTypes, Decided, Busy
  <2>5. Taken'
    BY <1>0, <1>2, <2>1, <2>2 DEF TelTypes, Taken, Busy
  <2> QED
    BY <2>3, <2>4, <2>5
<1> QED
  BY <1>2, <1>4, <1>5, <1>6 DEF TelInv, TelShape

\* FlagsChanged for ExportTraces.
LEMMA ExportChangedStep ==
  ASSUME TelInv, NEW c \in FlagCallers, FlagsChangedExport(c)
  PROVE  TelInv'
<1>0. TelFields /\ TelTypes /\ Building
  BY DEF TelInv, TelShape
<1>1. /\ TelFields' /\ tel'.exportTraces = tel.exportTraces
      /\ tel'.overlapped = tel.overlapped
      /\ tel'.execute = tel.execute /\ tel'.interrupted = tel.interrupted /\ tel'.builder = tel.builder
      /\ tel'.failed = tel.failed
      /\ tel'.forwarding = tel.forwarding /\ tel'.bufferedSpans = tel.bufferedSpans
      /\ tel'.late = tel.late
      /\ \/ /\ ~tel.enabled /\ tel.exportTraces
            /\ tel'.call = [tel.call EXCEPT ![c] = "attributes"] /\ tel'.enabled = tel.enabled
            /\ tel'.childProcessor = tel.childProcessor
         \/ /\ tel.enabled /\ ~tel.exportTraces
            /\ tel'.call = [tel.call EXCEPT ![c] = "idle"] /\ tel'.enabled = FALSE
            /\ tel'.childProcessor = Shut(tel.childProcessor)
         \/ /\ tel.enabled = tel.exportTraces
            /\ tel'.call = [tel.call EXCEPT ![c] = "idle"] /\ tel'.enabled = tel.enabled
            /\ tel'.childProcessor = tel.childProcessor
  BY ZenonT(30), <1>0 DEF TelFields, FlagsChangedExport, TelTypes
<1>3. tel.call[c] = "toggled"
  BY DEF FlagsChangedExport
<1>4. TelTypes'
  BY ZenonT(30), <1>0, <1>1 DEF TelTypes, Shut
<1>5. Building'
  BY <1>0, <1>1, <1>3, TelemetryAssumption DEF Building, TelTypes, Rebuilds, Shut
<1>6. ASSUME ~tel'.overlapped, ~tel'.interrupted
      PROVE  Alone' /\ Decided' /\ Taken'
  <2>1. Alone /\ Decided /\ Taken
    BY <1>1, <1>6 DEF TelInv
  <2>2. /\ tel.execute # "rebuild" /\ tel.enabled = ~tel.exportTraces
        /\ \A d \in FlagCallers : d # c => tel.call[d] = "idle"
        /\ ~tel.forwarding
    BY <1>0, <1>3, <2>1, TelemetryAssumption DEF Alone, Decided, Building, Rebuilds, TelTypes
  <2>3. Alone'
    BY <1>0, <1>1, <2>1, <2>2 DEF TelTypes, Alone
  <2>4. Decided'
    BY ZenonT(30), <1>0, <1>1, <1>3, <2>2 DEF TelTypes, Decided, Busy
  <2>5. Taken'
    BY <1>0, <1>1, <1>3, <2>1, <2>2 DEF TelTypes, Taken, Shut
  <2> QED
    BY <2>3, <2>4, <2>5
<1> QED
  BY <1>1, <1>4, <1>5, <1>6 DEF TelInv, TelShape

\* FlagsChanged goes on after its attributes, or for another flag.
LEMMA CallStep ==
  ASSUME TelInv, NEW c \in FlagCallers, addAttributesFromOsquery(c) \/ FlagsChangedOther(c)
  PROVE  TelInv'
<1>0. TelFields /\ TelTypes /\ Building
  BY DEF TelInv, TelShape
<1>1. /\ TelFields' /\ tel'.exportTraces = tel.exportTraces
      /\ tel'.overlapped = tel.overlapped
      /\ tel'.execute = tel.execute /\ tel'.interrupted = tel.interrupted /\ tel'.builder = tel.builder
      /\ tel'.failed = tel.failed /\ tel'.childProcessor = tel.childProcessor
      /\ tel'.forwarding = tel.forwarding /\ tel'.bufferedSpans = tel.bufferedSpans
      /\ tel'.late = tel.late
      /\ \/ /\ tel.call[c] = "attributes"
            /\ tel'.call = [tel.call EXCEPT ![c] = "rebuild"] /\ tel'.enabled = TRUE
         \/ /\ tel.call[c] = "other"
            /\ tel'.call = [tel.call EXCEPT ![c] = IF tel.enabled THEN "rebuild" ELSE "idle"]
            /\ tel'.enabled = tel.enabled
  BY ZenonT(30), <1>0 DEF TelFields, addAttributesFromOsquery, FlagsChangedOther
<1>4. TelTypes'
  BY ZenonT(30), <1>0, <1>1 DEF TelTypes
<1>5. Building'
  BY <1>0, <1>1, TelemetryAssumption DEF Building, TelTypes, Rebuilds
<1>6. ASSUME ~tel'.overlapped, ~tel'.interrupted
      PROVE  Alone' /\ Decided' /\ Taken'
  <2>1. Alone /\ Decided /\ Taken
    BY <1>1, <1>6 DEF TelInv
  <2>2. /\ tel.execute # "rebuild"
        /\ \A d \in FlagCallers : d # c => tel.call[d] = "idle"
        /\ ~tel.forwarding
    BY <1>0, <1>1, <2>1, TelemetryAssumption DEF Alone, Decided, Building, Rebuilds, TelTypes
  <2>3. Alone'
    BY <1>0, <1>1, <2>1, <2>2 DEF TelTypes, Alone
  <2>4. Decided'
    BY <1>0, <1>1, <2>1, <2>2 DEF TelTypes, Decided, Busy
  <2>5. Taken'
    BY <1>0, <1>1, <2>1, <2>2 DEF TelTypes, Taken
  <2> QED
    BY <2>3, <2>4, <2>5
<1> QED
  BY <1>1, <1>4, <1>5, <1>6 DEF TelInv, TelShape

\* Execute builds the first exporter when export is on.
LEMMA ExecuteStep ==
  ASSUME TelInv, ExecuteExporter
  PROVE  TelInv'
<1>0. TelFields /\ TelTypes /\ Building
  BY DEF TelInv, TelShape
<1>1. /\ TelFields' /\ tel'.exportTraces = tel.exportTraces /\ tel'.enabled = tel.enabled
      /\ tel'.overlapped = (tel.overlapped \/ Busy) /\ tel'.call = tel.call
      /\ tel'.interrupted = tel.interrupted /\ tel'.builder = tel.builder
      /\ tel'.failed = tel.failed /\ tel'.childProcessor = tel.childProcessor
      /\ tel'.forwarding = tel.forwarding /\ tel'.bufferedSpans = tel.bufferedSpans
      /\ tel'.late = tel.late
      /\ tel'.execute = (IF tel.enabled THEN "rebuild" ELSE "waiting") /\ tel.execute = "start"
  <2> HIDE DEF Busy
  <2> QED BY ZenonT(30), <1>0 DEF TelFields, ExecuteExporter
<1>4. TelTypes'
  BY <1>0, <1>1 DEF TelTypes, Busy
<1>5. Building'
  BY <1>0, <1>1, TelemetryAssumption DEF Building, TelTypes, Rebuilds
<1>6. ASSUME ~tel'.overlapped, ~tel'.interrupted
      PROVE  Alone' /\ Decided' /\ Taken'
  <2>1. ~tel.overlapped /\ ~tel.interrupted /\ ~Busy
    BY ZenonT(30), <1>0, <1>1, <1>6 DEF TelTypes
  <2>2. Alone /\ Decided /\ Taken
    BY <2>1 DEF TelInv
  <2>3. Alone'
    BY <1>0, <1>1, <2>1, <2>2 DEF TelTypes, Alone, Busy
  <2>4. Decided'
    BY <1>0, <1>1, <2>1, <2>2 DEF TelTypes, Decided, Busy
  <2>5. Taken'
    BY <1>0, <1>1, <2>1, <2>2 DEF TelTypes, Taken, Busy
  <2> QED
    BY <2>3, <2>4, <2>5
<1> QED
  BY <1>1, <1>4, <1>5, <1>6 DEF TelInv, TelShape

\* A rebuild takes the lock and shuts the old child down.
LEMMA NewProviderStep ==
  ASSUME TelInv, NEW b \in FlagCallers \cup {"execute"}, setNewGlobalTracerProvider(b)
  PROVE  TelInv'
<1>0. TelFields /\ TelTypes /\ Building
  BY DEF TelInv, TelShape
<1>1. /\ TelFields' /\ tel'.exportTraces = tel.exportTraces /\ tel'.enabled = tel.enabled
      /\ tel'.overlapped = tel.overlapped /\ tel'.call = tel.call
      /\ tel'.interrupted = tel.interrupted /\ tel'.builder = b
      /\ tel'.failed = tel.failed /\ tel'.childProcessor = Shut(tel.childProcessor)
      /\ tel'.forwarding = tel.forwarding /\ tel'.bufferedSpans = tel.bufferedSpans
      /\ tel'.late = tel.late /\ tel'.execute = tel.execute
  BY ZenonT(30), <1>0 DEF TelFields, setNewGlobalTracerProvider
<1>2. Rebuilds(b) /\ ~tel.forwarding
  BY <1>0 DEF setNewGlobalTracerProvider, Building
<1>4. TelTypes'
  BY <1>0, <1>1 DEF TelTypes, Shut
<1>5. Building'
  BY <1>0, <1>1, <1>2, TelemetryAssumption DEF Building, TelTypes, Rebuilds, Shut
<1>6. ASSUME ~tel'.overlapped, ~tel'.interrupted
      PROVE  Alone' /\ Decided' /\ Taken'
  <2>1. Alone /\ Decided /\ Taken
    BY <1>1, <1>6 DEF TelInv
  <2>2. Alone' /\ Decided'
    BY <1>1, <2>1 DEF Alone, Decided, Busy
  <2>3. Taken'
    BY <1>0, <1>1, <1>2, <2>1 DEF TelTypes, Taken, Shut, Rebuilds
  <2> QED
    BY <2>2, <2>3
<1> QED
  BY <1>1, <1>4, <1>5, <1>6 DEF TelInv, TelShape

\* The builder is done, with a child or without.
LEMMA BuiltStep ==
  ASSUME TelInv, tel.builder # "none",
         ExporterFails \/ (SetChildProcessor /\ tel.forwarding)
  PROVE  TelInv'
<1> DEFINE b == tel.builder
<1>0. TelFields /\ TelTypes /\ Building /\ b \in FlagCallers \cup {"execute"} /\ Rebuilds(b)
  BY DEF TelInv, TelShape, Building
<1>1. /\ TelFields' /\ tel'.exportTraces = tel.exportTraces /\ tel'.enabled = tel.enabled
      /\ tel'.overlapped = tel.overlapped /\ tel'.interrupted = tel.interrupted
      /\ tel'.builder = "none" /\ tel'.childProcessor = tel.childProcessor /\ tel'.late = tel.late
      /\ tel'.forwarding = FALSE
      /\ \/ /\ b = "execute" /\ tel'.execute = "waiting" /\ tel'.call = tel.call
         \/ /\ b # "execute" /\ tel'.execute = tel.execute /\ tel'.call = [tel.call EXCEPT ![b] = "idle"]
      /\ \/ ~tel.forwarding /\ tel'.failed = TRUE /\ tel'.bufferedSpans = tel.bufferedSpans
         \/ tel.forwarding /\ tel'.failed = tel.failed /\ tel'.bufferedSpans = 0
  <2>1. CASE b = "execute" /\ ExporterFails
    BY ZenonT(30), <1>0, <2>1 DEF TelFields, TelTypes, ExporterFails, RebuildDone
  <2>2. CASE b # "execute" /\ ExporterFails
    BY ZenonT(30), <1>0, <2>2 DEF TelFields, TelTypes, ExporterFails, RebuildDone
  <2>3. CASE b = "execute" /\ SetChildProcessor /\ tel.forwarding
    BY ZenonT(30), <1>0, <2>3 DEF TelFields, TelTypes, SetChildProcessor, RebuildDone
  <2>4. CASE b # "execute" /\ SetChildProcessor /\ tel.forwarding
    BY ZenonT(30), <1>0, <2>4 DEF TelFields, TelTypes, SetChildProcessor, RebuildDone
  <2> QED
    BY ZenonT(30), <2>1, <2>2, <2>3, <2>4
<1>4. TelTypes'
  BY ZenonT(30), <1>0, <1>1 DEF TelTypes
<1>5. Building'
  BY <1>0, <1>1, TelemetryAssumption DEF Building, TelTypes, Rebuilds
<1>6. ASSUME ~tel'.overlapped, ~tel'.interrupted
      PROVE  Alone' /\ Decided' /\ Taken'
  <2>1. Alone /\ Decided /\ Taken
    BY <1>1, <1>6 DEF TelInv
  <2>2. Alone'
    BY <1>0, <1>1, <2>1 DEF TelTypes, Alone, Rebuilds
  <2>3. Decided'
    BY <1>0, <1>1, <2>1 DEF TelTypes, Alone, Decided, Busy, Rebuilds
  <2>4. Taken'
    BY <1>0, <1>1, <2>1 DEF TelTypes, Alone, Decided, Taken, Rebuilds
  <2> QED
    BY <2>2, <2>3, <2>4
<1> QED
  BY <1>1, <1>4, <1>5, <1>6 DEF TelInv, TelShape

\* The new child is set and begins to be forwarded to.
LEMMA ChildStep ==
  ASSUME TelInv, SetChildProcessor, ~tel.forwarding
  PROVE  TelInv'
<1>0. TelFields /\ TelTypes /\ Building /\ tel.builder \in FlagCallers \cup {"execute"}
      /\ Rebuilds(tel.builder)
  BY DEF TelInv, TelShape, Building, SetChildProcessor
<1>1. /\ TelFields' /\ tel'.exportTraces = tel.exportTraces /\ tel'.enabled = tel.enabled
      /\ tel'.overlapped = tel.overlapped /\ tel'.interrupted = tel.interrupted
      /\ tel'.builder = tel.builder /\ tel'.childProcessor = "live" /\ tel'.late = tel.late
      /\ tel'.forwarding = TRUE /\ tel'.failed = FALSE /\ tel'.bufferedSpans = tel.bufferedSpans
      /\ tel'.execute = tel.execute /\ tel'.call = tel.call
  BY ZenonT(30), <1>0 DEF TelFields, TelTypes, SetChildProcessor
<1>4. TelTypes'
  BY ZenonT(30), <1>0, <1>1 DEF TelTypes
<1>5. Building'
  BY <1>0, <1>1, TelemetryAssumption DEF Building, TelTypes, Rebuilds
<1>6. ASSUME ~tel'.overlapped, ~tel'.interrupted
      PROVE  Alone' /\ Decided' /\ Taken'
  <2>1. Alone /\ Decided /\ Taken
    BY <1>1, <1>6 DEF TelInv
  <2>2. Alone' /\ Decided'
    BY <1>1, <2>1 DEF Alone, Decided, Busy
  <2>3. Taken'
    BY <1>0, <1>1, <2>1 DEF TelTypes, Decided, Taken, Rebuilds
  <2> QED
    BY <2>2, <2>3
<1> QED
  BY <1>1, <1>4, <1>5, <1>6 DEF TelInv, TelShape

\* Spans that end, and the interrupt.
LEMMA SpanStep ==
  ASSUME TelInv, OnEnd \/ OnEndAppends \/ InterruptExporter \/ UNCHANGED tel
  PROVE  TelInv'
<1>0. TelFields /\ TelTypes /\ Building
  BY DEF TelInv, TelShape
<1>1. /\ TelFields' /\ tel'.exportTraces = tel.exportTraces /\ tel'.enabled = tel.enabled
      /\ tel'.overlapped = tel.overlapped /\ tel'.builder = tel.builder
      /\ tel'.forwarding = tel.forwarding /\ tel'.failed = tel.failed
      /\ tel'.execute = tel.execute /\ tel'.call = tel.call
      /\ \/ /\ tel'.interrupted = tel.interrupted /\ tel'.late = tel.late
            /\ tel'.childProcessor = tel.childProcessor /\ tel'.bufferedSpans = tel.bufferedSpans
         \/ /\ tel'.interrupted = tel.interrupted /\ tel'.childProcessor = tel.childProcessor
            /\ tel'.late = (tel.late \/ (tel.childProcessor # "none" /\ ~tel.forwarding))
         \/ /\ tel'.interrupted = TRUE /\ tel'.late = tel.late
            /\ tel'.childProcessor = Shut(tel.childProcessor)
            /\ tel'.bufferedSpans = tel.bufferedSpans
  <2>1. CASE OnEnd
    BY ZenonT(30), <1>0, <2>1 DEF TelFields, OnEnd
  <2>2. CASE OnEndAppends
    BY ZenonT(30), <1>0, <2>2 DEF TelFields, OnEndAppends
  <2>3. CASE InterruptExporter \/ UNCHANGED tel
    BY ZenonT(30), <1>0, <2>3 DEF TelFields, InterruptExporter
  <2> QED
    BY ZenonT(30), <2>1, <2>2, <2>3
<1>4. TelTypes'
  BY ZenonT(30), <1>0, <1>1 DEF TelTypes, Shut
<1>5. Building'
  BY ZenonT(30), <1>0, <1>1, TelemetryAssumption DEF Building, TelTypes, Rebuilds, Shut
<1>6. ASSUME ~tel'.overlapped, ~tel'.interrupted
      PROVE  Alone' /\ Decided' /\ Taken'
  <2>1. Alone /\ Decided /\ Taken /\ tel'.childProcessor = tel.childProcessor
    BY <1>1, <1>6 DEF TelInv
  <2> QED
    BY <1>1, <2>1 DEF Alone, Decided, Busy, Taken
<1> QED
  BY <1>1, <1>4, <1>5, <1>6 DEF TelInv, TelShape

(***************************************************************************)
(* Between changes, launcher exports exactly when ExportTraces says so, for *)
(* any number of callers that change flags.                                 *)
(***************************************************************************)
THEOREM TelemetryFollowsFlag == TelemetrySpec => []ExportFollowsFlag
<1>1. TelInv /\ [TelemetryNext]_tel => TelInv'
  <2> SUFFICES ASSUME TelInv, [TelemetryNext]_tel PROVE TelInv'
    OBVIOUS
  <2>1. CASE SetChildProcessor
    <3>1. tel.builder # "none"
      BY <2>1 DEF SetChildProcessor
    <3> QED
      BY <2>1, <3>1, ChildStep, BuiltStep
  <2>2. CASE ExporterFails
    <3>1. tel.builder # "none"
      BY <2>2 DEF ExporterFails
    <3> QED
      BY <2>2, <3>1, BuiltStep
  <2> QED
    BY <2>1, <2>2, SetsFlagStep, ExportChangedStep, CallStep, NewProviderStep, ExecuteStep, SpanStep
       DEF TelemetryNext
<1>2. TelInv => ExportFollowsFlag
  <2> SUFFICES ASSUME TelInv, ~Busy, tel.execute = "waiting", ~tel.interrupted, ~tel.overlapped,
                      ~tel.failed
               PROVE  /\ tel.enabled = tel.exportTraces
                      /\ (tel.childProcessor = "live") = tel.exportTraces
                      /\ tel.exportTraces /\ ~tel.late /\ tel.onEnd = "idle" => tel.bufferedSpans = 0
    BY DEF ExportFollowsFlag
  <2>1. TelTypes /\ Building /\ Decided /\ Taken
    BY DEF TelInv, TelShape
  <2>2. /\ tel.enabled = tel.exportTraces
        /\ \A c \in FlagCallers : tel.call[c] = "idle"
    BY <2>1 DEF Decided, Busy
  <2>3. (tel.childProcessor = "live") = tel.exportTraces
    BY <2>1, <2>2 DEF Taken, TelTypes
  <2>4. ~tel.forwarding
    BY <2>1, <2>2, TelemetryAssumption DEF Building, Rebuilds
  <2> QED
    BY ZenonT(30), <2>1, <2>2, <2>3, <2>4 DEF Building
<1> QED
  BY <1>1, <1>2, TelInitial, PTL DEF TelemetrySpec

-----------------------------------------------------------------------------
(* The hardware change detector accounts for its resets.                    *)

\* The fields of hw.
HwFields ==
  hw = [windows |-> hw.windows, cur |-> hw.cur, stored |-> hw.stored, records |-> hw.records,
        pc |-> hw.pc, seen |-> hw.seen, changed |-> hw.changed, left |-> hw.left,
        backup |-> hw.backup, done |-> hw.done, resets |-> hw.resets, moves |-> hw.moves,
        cut |-> hw.cut, events |-> hw.events]

\* Those the argument is about.
HwShape ==
  /\ HwFields
  /\ hw.cur \in [HostKeys -> Nat] /\ hw.stored \in [HostKeys -> Int] /\ hw.seen \in [HostKeys -> Nat]
  /\ hw.records \in Nat /\ hw.backup \in Nat /\ hw.resets \in Nat /\ hw.moves \in Nat
  /\ hw.changed \subseteq HostKeys /\ (hw.pc = "update" => hw.left \subseteq HostKeys)
  /\ hw.pc \in {"off", "detected", "prepare", "wipe", "record", "update"}

\* A reset needs a change of this identifier, and wipes what is stored of it.
DecidingKey == IF hw.windows THEN "machine_guid" ELSE "serial"
Differs == hw.stored[DecidingKey] > 0 /\ hw.stored[DecidingKey] # hw.cur[DecidingKey]

\* A difference that is still stored, or a reset under way, is a move without a reset.
MovesAhead ==
  /\ hw.resets <= hw.moves
  /\ Differs \/ hw.pc \in {"prepare", "wipe", "record"} => hw.resets < hw.moves

ChangesDiffer ==
  hw.pc = "detected" => \A k \in hw.changed : hw.stored[k] > 0 /\ hw.stored[k] # hw.cur[k]

\* What was seen is what is there: the machine changes only while launcher is off.
SeenIsCurrent == hw.pc # "off" => \A k \in HostKeys : hw.seen[k] \in {0, hw.cur[k]}

WipedIsNil ==
  hw.pc = "record" \/ (hw.pc = "wipe" /\ "persistent_host_data" \notin hw.left)
    => \A k \in HostKeys : hw.stored[k] = Nil

\* The records, while they are being replaced and otherwise.
RecordsKept ==
  ~hw.cut =>
    IF hw.pc \in {"wipe", "record"} THEN hw.records \in {0, hw.resets} /\ hw.backup = hw.resets + 1
                                    ELSE hw.records = hw.resets

HwInv == HwShape /\ MovesAhead /\ ChangesDiffer /\ SeenIsCurrent /\ WipedIsNil /\ RecordsKept

\* The invariant holds on a machine of any platform whose identifiers were never stored.
LEMMA HwInit == HardwareInit => HwInv
BY DEF HardwareInit, HwInv, HwShape, HwFields, MovesAhead, Differs, DecidingKey, ChangesDiffer, SeenIsCurrent,
       WipedIsNil, RecordsKept, Nil, HostKeys

\* The machine gets new identifiers while launcher is off.
LEMMA HwMachineChanges ==
  ASSUME HwInv, MachineChanges
  PROVE  HwInv'
<1>1. PICK ks : /\ hw.pc = "off"
                /\ hw' = [hw EXCEPT !.moves = @ + 1,
                                    !.cur = [k \in HostKeys |-> IF k \in ks THEN @[k] + 1 ELSE @[k]]]
  BY ZenonT(30) DEF MachineChanges
<1>2. /\ hw.pc = "off" /\ hw'.pc = "off" /\ hw'.moves = hw.moves + 1
      /\ hw'.cur = [k \in HostKeys |-> IF k \in ks THEN hw.cur[k] + 1 ELSE hw.cur[k]]
      /\ hw'.windows = hw.windows /\ hw'.stored = hw.stored /\ hw'.seen = hw.seen
      /\ hw'.records = hw.records /\ hw'.resets = hw.resets /\ hw'.changed = hw.changed
      /\ hw'.cut = hw.cut
  BY <1>1 DEF HwInv, HwShape, HwFields
<1>3. HwShape'
  <2>1. HwFields'
    BY ZenonT(30), <1>1, <1>2 DEF HwInv, HwShape, HwFields
  <2> QED
    BY <1>1, <1>2, <2>1 DEF HwInv, HwShape
<1>4. MovesAhead'
  BY <1>2 DEF HwInv, HwShape, HwFields, MovesAhead
<1> QED
  BY <1>2, <1>3, <1>4 DEF HwInv, ChangesDiffer, SeenIsCurrent, WipedIsNil, RecordsKept

\* Comparing the identifiers with the stored ones.
LEMMA HwDetect ==
  ASSUME HwInv, Detect
  PROVE  HwInv'
<1>1. PICK failed, noGet : hw.pc = "off" /\ Compare(failed, noGet)
  BY DEF Detect
<1>2. /\ hw.pc = "off" /\ hw'.pc = "detected" /\ hw'.moves = hw.moves /\ hw'.cur = hw.cur
      /\ hw'.windows = hw.windows
      /\ \A k \in HostKeys : hw'.seen[k] \in {0, hw.cur[k]}
      /\ \A k \in HostKeys : hw'.stored[k] = hw.stored[k]
                              \/ (hw.stored[k] <= 0 /\ hw'.stored[k] = hw.cur[k])
      /\ \A k \in hw'.changed : k \in HostKeys /\ hw.stored[k] > 0 /\ hw.stored[k] # hw.cur[k]
      /\ hw'.records = hw.records /\ hw'.resets = hw.resets /\ hw'.cut = hw.cut
  BY <1>1 DEF HwInv, HwShape, HwFields, Compare, valueChanged
<1>3. HwShape'
  <2>1. HwFields'
    BY ZenonT(30), <1>1 DEF HwInv, HwShape, HwFields, Compare
  <2>2. /\ hw'.seen = [k \in HostKeys |-> IF k \in failed THEN 0 ELSE hw.cur[k]]
        /\ hw'.stored = [k \in HostKeys |->
             IF k \in HostKeys \ (failed \cup noGet) /\ hw.stored[k] <= 0 /\ hw.cur[k] > 0
             THEN hw.cur[k] ELSE hw.stored[k]]
        /\ hw'.backup = hw.backup
    BY <1>1 DEF HwInv, HwShape, HwFields, Compare
  <2>3. hw'.seen \in [HostKeys -> Nat] /\ hw'.stored \in [HostKeys -> Int]
    BY <2>2 DEF HwInv, HwShape
  <2> QED
    BY <1>2, <2>1, <2>2, <2>3 DEF HwInv, HwShape
<1>4. MovesAhead'
  BY <1>2 DEF HwInv, HwShape, HwFields, MovesAhead, Differs, DecidingKey, HostKeys
<1>5. ChangesDiffer'
  BY <1>2 DEF HwInv, HwShape, HwFields, ChangesDiffer
<1> QED
  BY <1>2, <1>3, <1>4, <1>5 DEF HwInv, SeenIsCurrent, WipedIsNil, RecordsKept

\* Deciding whether the change is one to reset for.
LEMMA HwDecide ==
  ASSUME HwInv, Decide
  PROVE  HwInv'
<1>1. PICK q \in {"prepare", "update"} :
        /\ hw.pc = "detected" /\ (q = "prepare" => remediationRequired)
        /\ hw' = [hw EXCEPT !.pc = q, !.left = hw.changed]
  BY ZenonT(30) DEF Decide
<1>2. /\ hw'.pc = q /\ hw'.moves = hw.moves /\ hw'.cur = hw.cur
      /\ hw'.windows = hw.windows /\ hw'.seen = hw.seen /\ hw'.stored = hw.stored
      /\ hw'.left = hw.changed /\ hw'.changed = hw.changed
      /\ hw'.records = hw.records /\ hw'.resets = hw.resets /\ hw'.cut = hw.cut
  BY <1>1 DEF HwInv, HwShape, HwFields
<1>3. HwShape'
  <2>1. HwFields'
    BY ZenonT(30), <1>1, <1>2 DEF HwInv, HwShape, HwFields
  <2> QED
    BY <1>1, <1>2, <2>1 DEF HwInv, HwShape
<1>4. q = "prepare" => Differs
  BY <1>1 DEF remediationRequired, HwInv, ChangesDiffer, Differs, DecidingKey
<1>5. MovesAhead'
  BY <1>1, <1>2, <1>4 DEF HwInv, MovesAhead, Differs, DecidingKey
<1> QED
  BY <1>1, <1>2, <1>3, <1>5 DEF HwInv, ChangesDiffer, SeenIsCurrent, WipedIsNil, RecordsKept

\* Reading the records of earlier resets.
LEMMA HwPrepare ==
  ASSUME HwInv, prepareDatabaseResetRecords
  PROVE  HwInv'
<1>1. /\ hw.pc = "prepare"
      /\ hw' = [hw EXCEPT !.pc = "wipe", !.backup = hw.records + 1, !.left = Stores]
  BY DEF prepareDatabaseResetRecords
<1>2. /\ hw'.pc = "wipe" /\ hw'.moves = hw.moves /\ hw'.cur = hw.cur
      /\ hw'.windows = hw.windows /\ hw'.seen = hw.seen /\ hw'.stored = hw.stored
      /\ hw'.left = Stores /\ hw'.changed = hw.changed /\ hw'.backup = hw.records + 1
      /\ hw'.records = hw.records /\ hw'.resets = hw.resets /\ hw'.cut = hw.cut
  BY <1>1 DEF HwInv, HwShape, HwFields
<1>3. HwShape'
  <2>1. HwFields'
    BY ZenonT(30), <1>1, <1>2 DEF HwInv, HwShape, HwFields
  <2> QED
    BY <1>1, <1>2, <2>1 DEF HwInv, HwShape
<1>4. MovesAhead'
  BY <1>1, <1>2 DEF HwInv, MovesAhead
<1> QED
  BY <1>1, <1>2, <1>3, <1>4 DEF HwInv, ChangesDiffer, SeenIsCurrent, WipedIsNil, RecordsKept, Stores

\* Deleting the stores one by one.
LEMMA HwWipe ==
  ASSUME HwInv, wipeDatabase
  PROVE  HwInv'
<1>1. CASE \E s \in hw.left :
             hw' = [hw EXCEPT !.left = @ \ {s},
                           !.records = IF s = "config" THEN @ ELSE 0,
                           !.stored = IF s = "config" THEN @ ELSE [k \in HostKeys |-> Nil]]
  <2>1. PICK s \in hw.left :
             hw' = [hw EXCEPT !.left = @ \ {s},
                           !.records = IF s = "config" THEN @ ELSE 0,
                           !.stored = IF s = "config" THEN @ ELSE [k \in HostKeys |-> Nil]]
    BY ZenonT(30), <1>1
  <2>2. /\ hw.pc = "wipe" /\ hw'.pc = "wipe" /\ hw'.moves = hw.moves /\ hw'.cur = hw.cur
        /\ hw'.windows = hw.windows /\ hw'.seen = hw.seen /\ hw'.left = hw.left \ {s}
        /\ hw'.changed = hw.changed /\ hw'.backup = hw.backup
        /\ hw'.resets = hw.resets /\ hw'.cut = hw.cut
        /\ hw'.stored = (IF s = "config" THEN hw.stored ELSE [k \in HostKeys |-> Nil])
        /\ hw'.records = (IF s = "config" THEN hw.records ELSE 0)
    BY <2>1 DEF HwInv, HwShape, HwFields, wipeDatabase
  <2>3. HwShape'
    <3>1. HwFields'
      BY ZenonT(30), <2>1, <2>2 DEF HwInv, HwShape, HwFields
    <3> QED
      BY <2>1, <2>2, <3>1 DEF HwInv, HwShape, Nil
  <2>4. MovesAhead'
    BY <2>2 DEF HwInv, MovesAhead
  <2>5. WipedIsNil'
    BY <2>2 DEF HwInv, WipedIsNil
  <2>6. RecordsKept'
    BY <2>2 DEF HwInv, RecordsKept
  <2> QED
    BY <2>2, <2>3, <2>4, <2>5, <2>6 DEF HwInv, ChangesDiffer, SeenIsCurrent
<1>2. CASE hw.left = {} /\ hw' = [hw EXCEPT !.pc = "record"]
  <2>1. /\ hw.pc = "wipe" /\ hw'.pc = "record" /\ hw'.moves = hw.moves /\ hw'.cur = hw.cur
        /\ hw'.windows = hw.windows /\ hw'.seen = hw.seen /\ hw'.stored = hw.stored
        /\ hw'.changed = hw.changed /\ hw'.backup = hw.backup
        /\ hw'.records = hw.records /\ hw'.resets = hw.resets /\ hw'.cut = hw.cut
    BY <1>2 DEF HwInv, HwShape, HwFields, wipeDatabase
  <2>2. HwShape'
    <3>1. HwFields'
      BY <1>2, <2>1 DEF HwInv, HwShape, HwFields
    <3> QED
      BY <1>2, <2>1, <3>1 DEF HwInv, HwShape
  <2> QED
    BY <1>2, <2>1, <2>2 DEF HwInv, MovesAhead, ChangesDiffer, SeenIsCurrent, WipedIsNil, RecordsKept
<1> QED
  BY ZenonT(30), <1>1, <1>2 DEF wipeDatabase

\* Storing the records after the wipe.
LEMMA HwReset ==
  ASSUME HwInv, ResetDatabase
  PROVE  HwInv'
<1>1. /\ hw.pc = "record" /\ hw'.pc = "update" /\ hw'.moves = hw.moves /\ hw'.cur = hw.cur
      /\ hw'.windows = hw.windows /\ hw'.seen = hw.seen /\ hw'.stored = hw.stored
      /\ hw'.left = HostKeys /\ hw'.changed = hw.changed /\ hw'.backup = hw.backup
      /\ hw'.records = hw.backup /\ hw'.resets = hw.resets + 1 /\ hw'.cut = hw.cut
  BY DEF HwInv, HwShape, HwFields, ResetDatabase
<1>2. ~hw.cut => hw.backup = hw.resets + 1
  BY <1>1 DEF HwInv, RecordsKept
<1>3. HwShape'
  <2>1. HwFields'
    BY ZenonT(30), <1>1 DEF HwInv, HwShape, HwFields, ResetDatabase
  <2> QED
    BY <1>1, <2>1 DEF HwInv, HwShape
<1>4. MovesAhead'
  BY <1>1 DEF HwInv, HwShape, HwFields, MovesAhead, Differs, DecidingKey, WipedIsNil, Nil, HostKeys
<1> QED
  BY <1>1, <1>2, <1>3, <1>4 DEF HwInv, ChangesDiffer, SeenIsCurrent, WipedIsNil, RecordsKept

\* A reset that fails on the way.
LEMMA HwResetFails ==
  ASSUME HwInv, ResetFails
  PROVE  HwInv'
<1>1. /\ hw.pc \in {"prepare", "wipe", "record"} /\ hw'.pc = "update"
      /\ hw'.moves = hw.moves /\ hw'.cur = hw.cur
      /\ hw'.windows = hw.windows /\ hw'.seen = hw.seen /\ hw'.stored = hw.stored
      /\ hw'.left = hw.changed /\ hw'.changed = hw.changed /\ hw'.backup = hw.backup
      /\ hw'.records = hw.records /\ hw'.resets = hw.resets
      /\ ~hw'.cut => ~hw.cut /\ ~(hw.pc # "prepare" /\ hw.records < hw.resets)
  BY ZenonT(30) DEF HwInv, HwShape, HwFields, ResetFails
<1>2. HwShape'
  <2>1. HwFields'
    BY ZenonT(30) DEF HwInv, HwShape, HwFields, ResetFails
  <2> QED
    BY <1>1, <2>1 DEF HwInv, HwShape
<1>3. MovesAhead'
  BY <1>1 DEF HwInv, MovesAhead, Differs, DecidingKey
<1>4. RecordsKept'
  BY <1>1 DEF HwInv, HwShape, RecordsKept
<1> QED
  BY <1>1, <1>2, <1>3, <1>4 DEF HwInv, ChangesDiffer, SeenIsCurrent, WipedIsNil

\* Storing the identifiers that were seen.
LEMMA HwStoreSeen ==
  ASSUME HwInv, StoreSeen
  PROVE  HwInv'
<1>1. PICK k \in hw.left, ok \in BOOLEAN :
        hw' = [hw EXCEPT !.left = @ \ {k}, !.stored[k] = IF ok THEN hw.seen[k] ELSE @,
                         !.events = IF ok THEN @ ELSE @ + 1]
  BY DEF StoreSeen
<1>2. hw.pc = "update" /\ k \in HostKeys
  BY DEF StoreSeen, HwInv, HwShape
<1>3. /\ hw'.pc = "update" /\ hw'.moves = hw.moves /\ hw'.cur = hw.cur
      /\ hw'.windows = hw.windows /\ hw'.seen = hw.seen
      /\ hw'.stored = [hw.stored EXCEPT ![k] = IF ok THEN hw.seen[k] ELSE @]
      /\ hw'.left = hw.left \ {k} /\ hw'.changed = hw.changed /\ hw'.backup = hw.backup
      /\ hw'.records = hw.records /\ hw'.resets = hw.resets /\ hw'.cut = hw.cut
  BY <1>1, <1>2 DEF HwInv, HwShape, HwFields
<1>4. HwShape'
  <2>1. HwFields'
    BY ZenonT(30), <1>1 DEF HwInv, HwShape, HwFields
  <2>2. hw'.stored \in [HostKeys -> Int]
    BY <1>2, <1>3 DEF HwInv, HwShape
  <2> QED
    BY <1>2, <1>3, <2>1, <2>2 DEF HwInv, HwShape
<1>5. MovesAhead'
  <2>1. hw.seen[k] \in {0, hw.cur[k]} /\ hw.stored \in [HostKeys -> Int]
    BY <1>2 DEF HwInv, HwShape, SeenIsCurrent
  <2>2. hw'.stored[DecidingKey] \in {hw.stored[DecidingKey], 0, hw.cur[DecidingKey]}
    BY <1>2, <1>3, <2>1 DEF DecidingKey, HostKeys
  <2> QED
    BY <1>2, <1>3, <2>2 DEF HwInv, MovesAhead, Differs, DecidingKey
<1> QED
  BY <1>2, <1>3, <1>4, <1>5 DEF HwInv, ChangesDiffer, SeenIsCurrent, WipedIsNil, RecordsKept

\* The detector returns, or launcher dies.
LEMMA HwEnds ==
  ASSUME HwInv, DetectorEnds \/ DetectorDies
  PROVE  HwInv'
<1>1. /\ hw'.pc = "off" /\ hw'.moves = hw.moves /\ hw'.cur = hw.cur
      /\ hw'.windows = hw.windows /\ hw'.seen = hw.seen /\ hw'.stored = hw.stored
      /\ hw'.changed = hw.changed /\ hw'.backup = hw.backup
      /\ hw'.records = hw.records /\ hw'.resets = hw.resets
      /\ ~hw'.cut => ~hw.cut /\ ~(hw.pc \in {"wipe", "record"} /\ hw.records < hw.resets)
  BY ZenonT(30) DEF HwInv, HwShape, HwFields, DetectorEnds, DetectorDies
<1>2. HwShape'
  <2>1. HwFields'
    BY ZenonT(30) DEF HwInv, HwShape, HwFields, DetectorEnds, DetectorDies
  <2> QED
    BY <1>1, <2>1 DEF HwInv, HwShape
<1>3. MovesAhead'
  BY <1>1 DEF HwInv, MovesAhead, Differs, DecidingKey
<1>4. RecordsKept'
  BY <1>1 DEF HwInv, HwShape, RecordsKept
<1> QED
  BY <1>1, <1>2, <1>3, <1>4 DEF HwInv, ChangesDiffer, SeenIsCurrent, WipedIsNil

(***************************************************************************)
(* For any number of moves, failures and deaths: launcher resets a          *)
(* database at most once for each change of its machine, and keeps a record *)
(* of every reset that was not cut short.                                   *)
(***************************************************************************)
THEOREM HardwareResetsAccounted == HardwareSpec => []ResetsAccounted
<1>1. HardwareInit => HwInv
  BY HwInit
<1>2. HwInv /\ [HardwareNext]_hw => HwInv'
  <2> SUFFICES ASSUME HwInv, [HardwareNext]_hw PROVE HwInv'
    OBVIOUS
  <2>1. CASE UNCHANGED hw
    BY <2>1 DEF HwInv, HwShape, HwFields, MovesAhead, Differs, DecidingKey, ChangesDiffer,
                SeenIsCurrent, WipedIsNil, RecordsKept
  <2> QED
    BY <2>1, HwMachineChanges, HwDetect, HwDecide, HwPrepare, HwWipe, HwReset, HwResetFails,
       HwStoreSeen, HwEnds DEF HardwareNext
<1>3. HwInv => ResetsAccounted
  BY DEF HwInv, MovesAhead, RecordsKept, ResetsAccounted
<1> QED
  BY <1>1, <1>2, <1>3, PTL DEF HardwareSpec

-----------------------------------------------------------------------------
(* A backup of the database is kept.                                        *)

FileContents == Nat \cup {NoFile}

DbTypeOK ==
  dbf \in [db : FileContents, slot : [Slots -> FileContents], now : Nat \ {0}, up : BOOLEAN,
           job : {"idle", "oldest", "older", "base", "copy", "copying"}, i : FileContents,
           fails : FileContents, cpt : {"idle", "compact", "rename", "renameNew"},
           new : FileContents, old : FileContents, events : Nat]

\* Whole backups are in order of age; none is newer than c.
InOrder(f) == \A s, t \in Slots : s < t /\ Whole(f[s]) /\ Whole(f[t]) => f[s] >= f[t]
AtMost(f, c) == \A s \in Slots : Whole(f[s]) => f[s] <= c

\* What the database, a copy under way and a compaction hold is new enough to be backed up.
Newest ==
  /\ AtMost(dbf.slot, dbf.now) /\ dbf.db <= dbf.now
  /\ Whole(dbf.db) => AtMost(dbf.slot, dbf.db)
  /\ dbf.job = "copying" => Whole(dbf.i) /\ AtMost(dbf.slot, dbf.i) /\ dbf.i <= dbf.db
  /\ dbf.cpt = "compact" => Whole(dbf.db)
  /\ dbf.cpt = "rename" => Whole(dbf.db) /\ dbf.new = dbf.db
  /\ dbf.cpt = "renameNew" => dbf.new <= dbf.now /\ AtMost(dbf.slot, dbf.new)

\* A backup needs an open database, a compaction a closed one.
Exclusive ==
  /\ dbf.up => Whole(dbf.db) /\ dbf.cpt = "idle"
  /\ ~dbf.up => dbf.job = "idle"

\* The slot that the rotation moves a backup to is empty.
Rotating ==
  /\ dbf.job = "older" => dbf.i \in 0..(Retain - 1) /\ dbf.slot[dbf.i + 1] = NoFile
  /\ dbf.job = "base" => dbf.slot[1] = NoFile

\* Where a whole backup is, which the rotation has not moved yet or has moved by one.
Kept ==
  dbf.fails \in 0..Retain =>
    \E s \in Slots :
      /\ Whole(dbf.slot[s])
      /\ dbf.job = "idle" => s <= dbf.fails
      /\ dbf.job = "oldest" => s < dbf.fails
      /\ dbf.job = "older" => (s <= dbf.i /\ s < dbf.fails) \/ (s > dbf.i + 1 /\ s <= dbf.fails)
      /\ dbf.job = "base" => (s = 0 /\ s < dbf.fails) \/ (s > 1 /\ s <= dbf.fails)
      /\ dbf.job \in {"copy", "copying"} => s > 0 /\ s <= dbf.fails

DbInv == DbTypeOK /\ InOrder(dbf.slot) /\ Newest /\ Exclusive /\ Rotating /\ Kept

USE DatabaseAssumption DEF DatabaseAssumption

\* A file that is removed or truncated disturbs neither the order nor a bound.
LEMMA Emptied ==
  ASSUME NEW f \in [Slots -> FileContents], NEW k \in Slots, NEW c \in {NoFile, Part}, NEW g,
         g = [f EXCEPT ![k] = c]
  PROVE  /\ g \in [Slots -> FileContents] /\ g[k] = c
         /\ \A s \in Slots \ {k} : g[s] = f[s]
         /\ InOrder(f) => InOrder(g)
         /\ \A b \in Int : AtMost(f, b) => AtMost(g, b)
<1>1. g \in [Slots -> FileContents] /\ g[k] = c /\ \A s \in Slots \ {k} : g[s] = f[s]
  BY DEF FileContents, Part, NoFile
<1>2. \A s \in Slots : Whole(g[s]) => s # k /\ g[s] = f[s]
  BY <1>1 DEF Whole, Part, NoFile
<1>3. InOrder(f) => InOrder(g)
  BY <1>2 DEF InOrder
<1>4. \A b \in Int : AtMost(f, b) => AtMost(g, b)
  BY <1>2 DEF AtMost
<1> QED
  BY ZenonT(30), <1>1, <1>3, <1>4

\* A rename to the next slot.
Shift(f, k) == [f EXCEPT ![k + 1] = f[k], ![k] = NoFile]

\* Nor does a rename to the next slot, when that is empty.
LEMMA Shifted ==
  ASSUME NEW f \in [Slots -> FileContents], NEW k \in 0..(Retain - 1), f[k + 1] = NoFile
  PROVE  /\ Shift(f, k) \in [Slots -> FileContents]
         /\ Shift(f, k)[k + 1] = f[k] /\ Shift(f, k)[k] = NoFile
         /\ \A s \in Slots \ {k, k + 1} : Shift(f, k)[s] = f[s]
         /\ InOrder(f) => InOrder(Shift(f, k))
         /\ \A b \in Int : AtMost(f, b) => AtMost(Shift(f, k), b)
<1> DEFINE g == Shift(f, k)
<1>1. k \in Slots /\ k + 1 \in Slots /\ k # k + 1
  BY DEF Slots
<1>2. /\ g \in [Slots -> FileContents] /\ g[k + 1] = f[k] /\ g[k] = NoFile
      /\ \A s \in Slots \ {k, k + 1} : g[s] = f[s]
  BY <1>1 DEF FileContents, Shift
<1> HIDE DEF g
<1>3. ~Whole(g[k])
  BY <1>2 DEF Whole, NoFile
<1>4. ASSUME InOrder(f) PROVE InOrder(g)
  <2> SUFFICES ASSUME NEW s \in Slots, NEW t \in Slots, s < t, Whole(g[s]), Whole(g[t])
               PROVE  g[s] >= g[t]
    BY DEF InOrder
  <2>1. s # k /\ t # k
    BY <1>3
  <2>2. CASE s = k + 1
    BY <1>1, <1>2, <1>4, <2>1, <2>2 DEF InOrder, Slots
  <2>3. CASE t = k + 1
    BY <1>1, <1>2, <1>4, <2>1, <2>3 DEF InOrder, Slots
  <2>4. CASE s # k + 1 /\ t # k + 1
    BY <1>2, <1>4, <2>1, <2>4 DEF InOrder
  <2> QED
    BY <2>2, <2>3, <2>4
<1>5. \A b \in Int : AtMost(f, b) => AtMost(g, b)
  BY <1>1, <1>2, <1>3 DEF AtMost
<1> QED
  BY <1>2, <1>4, <1>5 DEF g

\* There are no files at first.
LEMMA DbInit == DatabaseFilesInit => DbInv
<1> SUFFICES ASSUME DatabaseFilesInit PROVE DbInv
  OBVIOUS
<1> USE DEF DatabaseFilesInit, FileContents, NoFile, Slots, Whole
<1>1. DbTypeOK
  BY DEF DbTypeOK
<1>2. InOrder(dbf.slot) /\ Newest
  BY DEF InOrder, Newest, AtMost
<1>3. Exclusive /\ Rotating /\ Kept
  BY DEF Exclusive, Rotating, Kept
<1> QED
  BY <1>1, <1>2, <1>3 DEF DbInv

\* A write makes the database newer than every backup.
LEMMA StoreChangesStep ==
  ASSUME DbInv, StoreChanges
  PROVE  DbInv'
<1> USE DEF DbInv
<1> DEFINE dbNew == dbf.now + 1
<1> DEFINE nowNew == dbf.now + 1
<1>1. dbNew \in FileContents /\ nowNew \in Nat \ {0}
  BY DEF StoreChanges, DbTypeOK, FileContents
<1>2. /\ dbf.up
      /\ dbf' = [dbf EXCEPT !.db = dbNew, !.now = nowNew]
  BY ZenonT(30) DEF StoreChanges, DbTypeOK, Spend, Budget
<1>b. Whole(dbNew) /\ dbNew = nowNew /\ AtMost(dbf.slot, dbNew) /\ dbf.db <= dbNew
  BY DEF DbTypeOK, FileContents, NoFile, Whole, AtMost, Newest
<1> HIDE DEF dbNew, nowNew
<1>3. DbTypeOK'
  BY ZenonT(30), <1>1, <1>2 DEF DbTypeOK
<1>4. /\ dbf'.db = dbNew /\ dbf'.slot = dbf.slot /\ dbf'.now = nowNew /\ dbf'.up = dbf.up
      /\ dbf'.job = dbf.job /\ dbf'.i = dbf.i /\ dbf'.fails = dbf.fails /\ dbf'.cpt = dbf.cpt
      /\ dbf'.new = dbf.new /\ dbf'.old = dbf.old /\ dbf'.events = dbf.events
  BY ZenonT(30), <1>1, <1>2 DEF DbTypeOK
<1>5. InOrder(dbf.slot)'
  BY <1>4
<1>6. Newest'
  BY <1>2, <1>3, <1>4, <1>b, <1>1 DEF DbTypeOK, FileContents, NoFile, Newest, Exclusive
<1>7. Exclusive'
  BY <1>2, <1>4, <1>b DEF Exclusive, Newest
<1>8. Rotating'
  BY <1>2, <1>4 DEF Rotating
<1>9. Kept'
  BY <1>2, <1>3, <1>4 DEF DbTypeOK, FileContents, NoFile, Kept
<1> QED
  BY <1>3, <1>5, <1>6, <1>7, <1>8, <1>9

\* A backup begins: the whole backup is one slot below what fails allows.
LEMMA BackupBeginsStep ==
  ASSUME DbInv, BackupBegins
  PROVE  DbInv'
<1> USE DEF DbInv
<1> DEFINE failsNew == IF dbf.fails < 0 THEN dbf.fails ELSE dbf.fails + 1
<1>1. failsNew \in FileContents
  BY DEF BackupBegins, DbTypeOK, FileContents, NoFile
<1>2. /\ dbf.up /\ dbf.job = "idle"
      /\ dbf' = [dbf EXCEPT !.fails = failsNew, !.job = "oldest"]
  BY ZenonT(30) DEF BackupBegins, DbTypeOK, Spend, Budget, NoFile
<1>b. failsNew \in 0..Retain => dbf.fails \in 0..Retain /\ failsNew = dbf.fails + 1
  BY DEF DbTypeOK, FileContents, NoFile
<1> HIDE DEF failsNew
<1>3. DbTypeOK'
  BY ZenonT(30), <1>1, <1>2 DEF DbTypeOK
<1>4. /\ dbf'.db = dbf.db /\ dbf'.slot = dbf.slot /\ dbf'.now = dbf.now /\ dbf'.up = dbf.up
      /\ dbf'.job = "oldest" /\ dbf'.i = dbf.i /\ dbf'.fails = failsNew /\ dbf'.cpt = dbf.cpt
      /\ dbf'.new = dbf.new /\ dbf'.old = dbf.old /\ dbf'.events = dbf.events
  BY ZenonT(30), <1>1, <1>2 DEF DbTypeOK
<1>5. InOrder(dbf.slot)'
  BY <1>4
<1>6. Newest'
  BY <1>2, <1>3, <1>4 DEF DbTypeOK, FileContents, NoFile, Newest
<1>7. Exclusive'
  BY <1>2, <1>4 DEF Exclusive, Newest
<1>8. Rotating'
  BY <1>2, <1>4 DEF Rotating
<1>9. Kept'
  BY <1>2, <1>3, <1>4, <1>b DEF DbTypeOK, FileContents, NoFile, Kept, Slots
<1> QED
  BY <1>3, <1>5, <1>6, <1>7, <1>8, <1>9

\* The oldest backup goes; the whole one is not it.
LEMMA RotateOldestStep ==
  ASSUME DbInv, RotateOldest
  PROVE  DbInv'
<1> USE DEF DbInv
<1> DEFINE slotNew == [dbf.slot EXCEPT ![Retain] = NoFile]
<1> DEFINE iNew == Retain - 1
<1>1. slotNew \in [Slots -> FileContents] /\ iNew \in FileContents
  BY DEF RotateOldest, DbTypeOK, FileContents, Slots, NoFile
<1>2. /\ dbf.job = "oldest"
      /\ dbf' = [dbf EXCEPT !.slot = slotNew, !.i = iNew, !.job = "older"]
  BY ZenonT(30) DEF RotateOldest, DbTypeOK, Spend, Budget, Slots, NoFile
<1>a. /\ slotNew[Retain] = NoFile /\ \A s \in Slots \ {Retain} : slotNew[s] = dbf.slot[s]
      /\ InOrder(slotNew) /\ \A b \in Int : AtMost(dbf.slot, b) => AtMost(slotNew, b)
  BY Emptied DEF DbTypeOK, Slots
<1>b. iNew = Retain - 1
  OBVIOUS
<1> HIDE DEF slotNew, iNew
<1>3. DbTypeOK'
  BY ZenonT(30), <1>1, <1>2 DEF DbTypeOK
<1>4. /\ dbf'.db = dbf.db /\ dbf'.slot = slotNew /\ dbf'.now = dbf.now /\ dbf'.up = dbf.up
      /\ dbf'.job = "older" /\ dbf'.i = iNew /\ dbf'.fails = dbf.fails /\ dbf'.cpt = dbf.cpt
      /\ dbf'.new = dbf.new /\ dbf'.old = dbf.old /\ dbf'.events = dbf.events
  BY <1>1, <1>2 DEF DbTypeOK
<1>5. InOrder(dbf.slot)'
  BY <1>4, <1>a
<1>6. Newest'
  BY <1>2, <1>3, <1>4, <1>a DEF DbTypeOK, FileContents, NoFile, Newest
<1>7. Exclusive'
  BY <1>2, <1>4 DEF Exclusive, Newest
<1>8. Rotating'
  BY <1>2, <1>4, <1>a, <1>b DEF Rotating
<1>9. Kept'
  BY <1>2, <1>3, <1>4, <1>a, <1>b DEF DbTypeOK, FileContents, NoFile, Kept, Slots
<1> QED
  BY <1>3, <1>5, <1>6, <1>7, <1>8, <1>9

\* The copy truncates slot 0; what it will hold is as new as every backup.
LEMMA CopyBeginsStep ==
  ASSUME DbInv, CopyBegins
  PROVE  DbInv'
<1> USE DEF DbInv
<1> DEFINE slotNew == [dbf.slot EXCEPT ![0] = Part]
<1> DEFINE iNew == dbf.db
<1>1. slotNew \in [Slots -> FileContents] /\ iNew \in FileContents
  BY DEF CopyBegins, DbTypeOK, FileContents, Slots, NoFile, Part
<1>2. /\ dbf.job = "copy"
      /\ dbf' = [dbf EXCEPT !.slot = slotNew, !.i = iNew, !.job = "copying"]
  BY ZenonT(30) DEF CopyBegins, DbTypeOK, Spend, Budget, Slots, NoFile, Part
<1>a. /\ slotNew[0] = Part /\ \A s \in Slots \ {0} : slotNew[s] = dbf.slot[s]
      /\ InOrder(slotNew) /\ \A b \in Int : AtMost(dbf.slot, b) => AtMost(slotNew, b)
  BY Emptied DEF DbTypeOK, Slots
<1>b. iNew = dbf.db
  OBVIOUS
<1> HIDE DEF slotNew, iNew
<1>3. DbTypeOK'
  BY ZenonT(30), <1>1, <1>2 DEF DbTypeOK
<1>4. /\ dbf'.db = dbf.db /\ dbf'.slot = slotNew /\ dbf'.now = dbf.now /\ dbf'.up = dbf.up
      /\ dbf'.job = "copying" /\ dbf'.i = iNew /\ dbf'.fails = dbf.fails /\ dbf'.cpt = dbf.cpt
      /\ dbf'.new = dbf.new /\ dbf'.old = dbf.old /\ dbf'.events = dbf.events
  BY <1>1, <1>2 DEF DbTypeOK
<1>5. InOrder(dbf.slot)'
  BY <1>4, <1>a
<1>6. Newest'
  BY <1>2, <1>3, <1>4, <1>a, <1>b DEF DbTypeOK, FileContents, NoFile, Newest, Exclusive
<1>7. Exclusive'
  BY <1>2, <1>4 DEF Exclusive, Newest
<1>8. Rotating'
  BY <1>2, <1>4, <1>a DEF Rotating
<1>9. Kept'
  BY <1>2, <1>3, <1>4, <1>a DEF DbTypeOK, FileContents, NoFile, Kept, Slots
<1> QED
  BY <1>3, <1>5, <1>6, <1>7, <1>8, <1>9

\* The copy is whole.
LEMMA CopyEndsStep ==
  ASSUME DbInv, CopyEnds
  PROVE  DbInv'
<1> USE DEF DbInv
<1> DEFINE slotNew == [dbf.slot EXCEPT ![0] = dbf.i]
<1> DEFINE iNew == 0
<1> DEFINE failsNew == 0
<1>1. slotNew \in [Slots -> FileContents] /\ iNew \in FileContents /\ failsNew \in FileContents
  BY DEF CopyEnds, DbTypeOK, FileContents, Slots, NoFile
<1>2. /\ dbf.job = "copying"
      /\ dbf' = [dbf EXCEPT !.slot = slotNew, !.i = iNew, !.fails = failsNew, !.job = "idle"]
  BY ZenonT(30) DEF CopyEnds, DbTypeOK, Spend, Budget, Slots, NoFile
<1>a. /\ slotNew[0] = dbf.i /\ Whole(slotNew[0]) /\ \A s \in Slots \ {0} : slotNew[s] = dbf.slot[s]
      /\ InOrder(slotNew) /\ \A b \in Int : dbf.i <= b /\ AtMost(dbf.slot, b) => AtMost(slotNew, b)
  <2>1. /\ slotNew[0] = dbf.i /\ Whole(slotNew[0]) /\ \A s \in Slots \ {0} : slotNew[s] = dbf.slot[s]
    BY <1>2 DEF DbTypeOK, Slots, Newest
  <2>2. InOrder(slotNew)
    BY <1>2, <2>1 DEF InOrder, Newest, AtMost, Slots
  <2>3. \A b \in Int : dbf.i <= b /\ AtMost(dbf.slot, b) => AtMost(slotNew, b)
    BY <2>1 DEF AtMost
  <2> QED
    BY <2>1, <2>2, <2>3
<1>b. failsNew = 0
  OBVIOUS
<1> HIDE DEF slotNew, iNew, failsNew
<1>3. DbTypeOK'
  BY ZenonT(30), <1>1, <1>2 DEF DbTypeOK
<1>4. /\ dbf'.db = dbf.db /\ dbf'.slot = slotNew /\ dbf'.now = dbf.now /\ dbf'.up = dbf.up
      /\ dbf'.job = "idle" /\ dbf'.i = iNew /\ dbf'.fails = failsNew /\ dbf'.cpt = dbf.cpt
      /\ dbf'.new = dbf.new /\ dbf'.old = dbf.old /\ dbf'.events = dbf.events
  BY <1>1, <1>2 DEF DbTypeOK
<1>5. InOrder(dbf.slot)'
  BY <1>4, <1>a
<1>6. Newest'
  BY <1>2, <1>3, <1>4, <1>a DEF DbTypeOK, FileContents, NoFile, Newest, Exclusive
<1>7. Exclusive'
  BY <1>2, <1>4 DEF Exclusive, Newest
<1>8. Rotating'
  BY <1>2, <1>4, <1>a DEF Rotating
<1>9. Kept'
  BY SMTT(30), <1>2, <1>3, <1>4, <1>a, <1>b DEF DbTypeOK, FileContents, NoFile, Kept, Slots
<1> QED
  BY <1>3, <1>5, <1>6, <1>7, <1>8, <1>9

\* A backup fails at any point: the whole backup is where fails allows.
LEMMA BackupFailsStep ==
  ASSUME DbInv, BackupFails
  PROVE  DbInv'
<1> USE DEF DbInv
<1> DEFINE iNew == 0
<1> DEFINE eventsNew == dbf.events + 1
<1>1. iNew \in FileContents /\ eventsNew \in Nat
  BY DEF BackupFails, DbTypeOK, FileContents
<1>2. /\ dbf.job # "idle"
      /\ dbf' = [dbf EXCEPT !.i = iNew, !.job = "idle", !.events = eventsNew]
  BY ZenonT(30) DEF BackupFails, DbTypeOK, Spend, Budget
<1> HIDE DEF iNew, eventsNew
<1>3. DbTypeOK'
  BY ZenonT(30), <1>1, <1>2 DEF DbTypeOK
<1>4. /\ dbf'.db = dbf.db /\ dbf'.slot = dbf.slot /\ dbf'.now = dbf.now /\ dbf'.up = dbf.up
      /\ dbf'.job = "idle" /\ dbf'.i = iNew /\ dbf'.fails = dbf.fails /\ dbf'.cpt = dbf.cpt
      /\ dbf'.new = dbf.new /\ dbf'.old = dbf.old /\ dbf'.events = eventsNew
  BY <1>1, <1>2 DEF DbTypeOK
<1>5. InOrder(dbf.slot)'
  BY <1>4
<1>6. Newest'
  BY <1>2, <1>3, <1>4 DEF DbTypeOK, FileContents, NoFile, Newest
<1>7. Exclusive'
  BY <1>2, <1>4 DEF Exclusive, Newest
<1>8. Rotating'
  BY <1>2, <1>4 DEF Rotating
<1>9. Kept'
  BY <1>2, <1>3, <1>4 DEF DbTypeOK, FileContents, NoFile, Kept, Slots
<1> QED
  BY <1>3, <1>5, <1>6, <1>7, <1>8, <1>9

\* So when launcher dies.
LEMMA DiesStep ==
  ASSUME DbInv, Dies
  PROVE  DbInv'
<1> USE DEF DbInv
<1> DEFINE upNew == FALSE
<1> DEFINE iNew == 0
<1> DEFINE eventsNew == dbf.events + 1
<1>1. upNew \in BOOLEAN /\ iNew \in FileContents /\ eventsNew \in Nat
  BY DEF Dies, DbTypeOK, FileContents
<1>2. /\ dbf.up
      /\ dbf' = [dbf EXCEPT !.up = upNew, !.i = iNew, !.job = "idle", !.events = eventsNew]
  BY ZenonT(30) DEF Dies, DbTypeOK, Spend, Budget
<1> HIDE DEF upNew, iNew, eventsNew
<1>3. DbTypeOK'
  BY ZenonT(30), <1>1, <1>2 DEF DbTypeOK
<1>4. /\ dbf'.db = dbf.db /\ dbf'.slot = dbf.slot /\ dbf'.now = dbf.now /\ dbf'.up = upNew
      /\ dbf'.job = "idle" /\ dbf'.i = iNew /\ dbf'.fails = dbf.fails /\ dbf'.cpt = dbf.cpt
      /\ dbf'.new = dbf.new /\ dbf'.old = dbf.old /\ dbf'.events = eventsNew
  BY <1>1, <1>2 DEF DbTypeOK
<1>5. InOrder(dbf.slot)'
  BY <1>4
<1>6. Newest'
  BY <1>2, <1>3, <1>4 DEF DbTypeOK, FileContents, NoFile, Newest
<1>7. Exclusive'
  BY <1>2, <1>4 DEF Exclusive, Newest
<1>8. Rotating'
  BY <1>2, <1>4 DEF Rotating
<1>9. Kept'
  BY <1>2, <1>3, <1>4 DEF DbTypeOK, FileContents, NoFile, Kept, Slots
<1> QED
  BY <1>3, <1>5, <1>6, <1>7, <1>8, <1>9

\* The database goes missing while launcher does not run.
LEMMA DatabaseLostStep ==
  ASSUME DbInv, DatabaseLost
  PROVE  DbInv'
<1> USE DEF DbInv
<1> DEFINE dbNew == NoFile
<1> DEFINE eventsNew == dbf.events + 1
<1>1. dbNew \in FileContents /\ eventsNew \in Nat
  BY DEF DatabaseLost, DbTypeOK, FileContents, NoFile
<1>2. /\ ~dbf.up /\ dbf.cpt = "idle"
      /\ dbf' = [dbf EXCEPT !.db = dbNew, !.events = eventsNew]
  BY DEF DatabaseLost, DbTypeOK, Spend, Budget, NoFile
<1>b. dbNew = NoFile /\ ~Whole(dbNew)
  BY DEF NoFile, Whole
<1> HIDE DEF dbNew, eventsNew
<1>3. DbTypeOK'
  BY ZenonT(30), <1>1, <1>2 DEF DbTypeOK
<1>4. /\ dbf'.db = dbNew /\ dbf'.slot = dbf.slot /\ dbf'.now = dbf.now /\ dbf'.up = dbf.up
      /\ dbf'.job = dbf.job /\ dbf'.i = dbf.i /\ dbf'.fails = dbf.fails /\ dbf'.cpt = dbf.cpt
      /\ dbf'.new = dbf.new /\ dbf'.old = dbf.old /\ dbf'.events = eventsNew
  BY <1>1, <1>2 DEF DbTypeOK
<1>5. InOrder(dbf.slot)'
  BY <1>4
<1>6. Newest'
  BY <1>2, <1>3, <1>4, <1>b DEF DbTypeOK, FileContents, NoFile, Newest, Exclusive
<1>7. Exclusive'
  BY <1>2, <1>4 DEF Exclusive, Newest
<1>8. Rotating'
  BY <1>2, <1>4 DEF Rotating
<1>9. Kept'
  BY <1>2, <1>3, <1>4 DEF DbTypeOK, FileContents, NoFile, Kept
<1> QED
  BY <1>3, <1>5, <1>6, <1>7, <1>8, <1>9

\* A compaction begins.
LEMMA CompactBeginsStep ==
  ASSUME DbInv, CompactBegins
  PROVE  DbInv'
<1> USE DEF DbInv
<1> DEFINE copyNew == IF Exists(dbf.new) THEN dbf.new ELSE Part
<1> DEFINE eventsNew == dbf.events + 1
<1>1. copyNew \in FileContents /\ eventsNew \in Nat
  BY DEF CompactBegins, DbTypeOK, FileContents, Part
<1>2. /\ ~dbf.up /\ dbf.cpt = "idle" /\ Whole(dbf.db)
      /\ dbf' = [dbf EXCEPT !.new = copyNew, !.cpt = IF Exists(dbf.new) THEN "idle" ELSE "compact", !.events = eventsNew]
  BY ZenonT(30) DEF CompactBegins, DbTypeOK, Spend, Budget, Part
<1> HIDE DEF copyNew, eventsNew
<1>3. DbTypeOK'
  BY ZenonT(30), <1>1, <1>2 DEF DbTypeOK
<1>4. /\ dbf'.db = dbf.db /\ dbf'.slot = dbf.slot /\ dbf'.now = dbf.now /\ dbf'.up = dbf.up
      /\ dbf'.job = dbf.job /\ dbf'.i = dbf.i /\ dbf'.fails = dbf.fails /\ dbf'.cpt = IF Exists(dbf.new) THEN "idle" ELSE "compact"
      /\ dbf'.new = copyNew /\ dbf'.old = dbf.old /\ dbf'.events = eventsNew
  BY <1>1, <1>2 DEF DbTypeOK
<1>5. InOrder(dbf.slot)'
  BY <1>4
<1>6. Newest'
  BY <1>2, <1>3, <1>4 DEF DbTypeOK, FileContents, NoFile, Newest
<1>7. Exclusive'
  BY <1>2, <1>4 DEF Exclusive, Newest
<1>8. Rotating'
  BY <1>2, <1>4 DEF Rotating
<1>9. Kept'
  BY <1>2, <1>3, <1>4 DEF DbTypeOK, FileContents, NoFile, Kept
<1> QED
  BY <1>3, <1>5, <1>6, <1>7, <1>8, <1>9

\* It copies the database,
LEMMA compactStep ==
  ASSUME DbInv, compact
  PROVE  DbInv'
<1> USE DEF DbInv
<1> DEFINE copyNew == dbf.db
<1>1. copyNew \in FileContents
  BY DEF compact, DbTypeOK, FileContents
<1>2. /\ dbf.cpt = "compact"
      /\ dbf' = [dbf EXCEPT !.new = copyNew, !.cpt = "rename"]
  BY DEF compact, DbTypeOK, Spend, Budget
<1>b. copyNew = dbf.db
  OBVIOUS
<1> HIDE DEF copyNew
<1>3. DbTypeOK'
  BY ZenonT(30), <1>1, <1>2 DEF DbTypeOK
<1>4. /\ dbf'.db = dbf.db /\ dbf'.slot = dbf.slot /\ dbf'.now = dbf.now /\ dbf'.up = dbf.up
      /\ dbf'.job = dbf.job /\ dbf'.i = dbf.i /\ dbf'.fails = dbf.fails /\ dbf'.cpt = "rename"
      /\ dbf'.new = copyNew /\ dbf'.old = dbf.old /\ dbf'.events = dbf.events
  BY <1>1, <1>2 DEF DbTypeOK
<1>5. InOrder(dbf.slot)'
  BY <1>4
<1>6. Newest'
  BY <1>2, <1>3, <1>4, <1>b DEF DbTypeOK, FileContents, NoFile, Newest
<1>7. Exclusive'
  BY <1>2, <1>4 DEF Exclusive, Newest
<1>8. Rotating'
  BY <1>2, <1>4 DEF Rotating
<1>9. Kept'
  BY <1>2, <1>3, <1>4 DEF DbTypeOK, FileContents, NoFile, Kept
<1> QED
  BY <1>3, <1>5, <1>6, <1>7, <1>8, <1>9

\* puts it aside,
LEMMA renameOldStep ==
  ASSUME DbInv, renameOld
  PROVE  DbInv'
<1> USE DEF DbInv
<1> DEFINE oldNew == dbf.db
<1> DEFINE dbNew == NoFile
<1>1. oldNew \in FileContents /\ dbNew \in FileContents
  BY DEF renameOld, DbTypeOK, FileContents, NoFile
<1>2. /\ dbf.cpt = "rename"
      /\ dbf' = [dbf EXCEPT !.old = oldNew, !.db = dbNew, !.cpt = "renameNew"]
  BY DEF renameOld, DbTypeOK, Spend, Budget, NoFile
<1>b. dbNew = NoFile /\ ~Whole(dbNew)
  BY DEF NoFile, Whole
<1> HIDE DEF oldNew, dbNew
<1>3. DbTypeOK'
  BY ZenonT(30), <1>1, <1>2 DEF DbTypeOK
<1>4. /\ dbf'.db = dbNew /\ dbf'.slot = dbf.slot /\ dbf'.now = dbf.now /\ dbf'.up = dbf.up
      /\ dbf'.job = dbf.job /\ dbf'.i = dbf.i /\ dbf'.fails = dbf.fails /\ dbf'.cpt = "renameNew"
      /\ dbf'.new = dbf.new /\ dbf'.old = oldNew /\ dbf'.events = dbf.events
  BY <1>1, <1>2 DEF DbTypeOK
<1>5. InOrder(dbf.slot)'
  BY <1>4
<1>6. Newest'
  BY <1>2, <1>3, <1>4, <1>b DEF DbTypeOK, FileContents, NoFile, Newest, Exclusive
<1>7. Exclusive'
  BY <1>2, <1>4, <1>b DEF Exclusive, Newest
<1>8. Rotating'
  BY <1>2, <1>4 DEF Rotating
<1>9. Kept'
  BY <1>2, <1>3, <1>4 DEF DbTypeOK, FileContents, NoFile, Kept
<1> QED
  BY <1>3, <1>5, <1>6, <1>7, <1>8, <1>9

\* and puts the copy in its place.
LEMMA renameNewStep ==
  ASSUME DbInv, renameNew
  PROVE  DbInv'
<1> USE DEF DbInv
<1> DEFINE dbNew == dbf.new
<1> DEFINE copyNew == NoFile
<1>1. dbNew \in FileContents /\ copyNew \in FileContents
  BY DEF renameNew, DbTypeOK, FileContents, NoFile
<1>2. /\ dbf.cpt = "renameNew"
      /\ dbf' = [dbf EXCEPT !.db = dbNew, !.new = copyNew, !.cpt = "idle"]
  BY DEF renameNew, DbTypeOK, Spend, Budget, NoFile
<1>b. dbNew = dbf.new
  OBVIOUS
<1> HIDE DEF dbNew, copyNew
<1>3. DbTypeOK'
  BY ZenonT(30), <1>1, <1>2 DEF DbTypeOK
<1>4. /\ dbf'.db = dbNew /\ dbf'.slot = dbf.slot /\ dbf'.now = dbf.now /\ dbf'.up = dbf.up
      /\ dbf'.job = dbf.job /\ dbf'.i = dbf.i /\ dbf'.fails = dbf.fails /\ dbf'.cpt = "idle"
      /\ dbf'.new = copyNew /\ dbf'.old = dbf.old /\ dbf'.events = dbf.events
  BY <1>1, <1>2 DEF DbTypeOK
<1>5. InOrder(dbf.slot)'
  BY <1>4
<1>6. Newest'
  BY <1>2, <1>3, <1>4, <1>b DEF DbTypeOK, FileContents, NoFile, Newest, Exclusive
<1>7. Exclusive'
  BY <1>2, <1>4 DEF Exclusive, Newest
<1>8. Rotating'
  BY <1>2, <1>4 DEF Rotating
<1>9. Kept'
  BY <1>2, <1>3, <1>4 DEF DbTypeOK, FileContents, NoFile, Kept
<1> QED
  BY <1>3, <1>5, <1>6, <1>7, <1>8, <1>9

\* A compaction may fail at any point.
LEMMA CompactFailsStep ==
  ASSUME DbInv, CompactFails
  PROVE  DbInv'
<1> USE DEF DbInv
<1> DEFINE eventsNew == dbf.events + 1
<1>1. eventsNew \in Nat
  BY DEF CompactFails, DbTypeOK, FileContents
<1>2. /\ dbf.cpt # "idle"
      /\ dbf' = [dbf EXCEPT !.cpt = "idle", !.events = eventsNew]
  BY DEF CompactFails, DbTypeOK, Spend, Budget
<1> HIDE DEF eventsNew
<1>3. DbTypeOK'
  BY ZenonT(30), <1>1, <1>2 DEF DbTypeOK
<1>4. /\ dbf'.db = dbf.db /\ dbf'.slot = dbf.slot /\ dbf'.now = dbf.now /\ dbf'.up = dbf.up
      /\ dbf'.job = dbf.job /\ dbf'.i = dbf.i /\ dbf'.fails = dbf.fails /\ dbf'.cpt = "idle"
      /\ dbf'.new = dbf.new /\ dbf'.old = dbf.old /\ dbf'.events = eventsNew
  BY <1>1, <1>2 DEF DbTypeOK
<1>5. InOrder(dbf.slot)'
  BY <1>4
<1>6. Newest'
  BY <1>2, <1>3, <1>4 DEF DbTypeOK, FileContents, NoFile, Newest
<1>7. Exclusive'
  BY <1>2, <1>4 DEF Exclusive, Newest
<1>8. Rotating'
  BY <1>2, <1>4 DEF Rotating
<1>9. Kept'
  BY <1>2, <1>3, <1>4 DEF DbTypeOK, FileContents, NoFile, Kept
<1> QED
  BY <1>3, <1>5, <1>6, <1>7, <1>8, <1>9

\* The rotation moves a backup to the next slot, which is empty.
LEMMA RotateOlderStep ==
  ASSUME DbInv, RotateOlder
  PROVE  DbInv'
<1> USE DEF DbInv
<1>1. dbf.job = "older" /\ dbf.i \in 0..(Retain - 1) /\ dbf.slot[dbf.i + 1] = NoFile
  BY DEF RotateOlder, Rotating
<1>2. CASE dbf.i = 0
  <2>1. dbf' = [dbf EXCEPT !.job = "base"]
    BY <1>2 DEF RotateOlder
  <2>2. DbTypeOK'
    BY <2>1 DEF DbTypeOK
  <2>3. /\ dbf'.slot = dbf.slot /\ dbf'.job = "base" /\ dbf'.now = dbf.now /\ dbf'.db = dbf.db
        /\ dbf'.up = dbf.up /\ dbf'.cpt = dbf.cpt /\ dbf'.new = dbf.new /\ dbf'.fails = dbf.fails
    BY <2>1 DEF DbTypeOK
  <2>4. InOrder(dbf.slot)' /\ Newest' /\ Exclusive' /\ Rotating'
    BY <1>1, <1>2, <2>3 DEF Newest, Exclusive, Rotating
  <2>5. Kept'
    BY <1>1, <1>2, <2>3 DEF Kept, Slots
  <2> QED
    BY <2>2, <2>4, <2>5
<1>3. CASE dbf.i > 0
  <2> DEFINE slotNew == IF Exists(dbf.slot[dbf.i])
                          THEN [dbf.slot EXCEPT ![dbf.i + 1] = dbf.slot[dbf.i], ![dbf.i] = NoFile]
                          ELSE dbf.slot
             iNew == dbf.i - 1
  <2>1. dbf' = [dbf EXCEPT !.slot = slotNew, !.i = iNew]
    BY SMTT(30), <1>1, <1>3 DEF RotateOlder
  <2>2. /\ slotNew \in [Slots -> FileContents] /\ slotNew[dbf.i + 1] = dbf.slot[dbf.i]
        /\ slotNew[dbf.i] = NoFile /\ \A s \in Slots \ {dbf.i, dbf.i + 1} : slotNew[s] = dbf.slot[s]
        /\ InOrder(slotNew) /\ \A b \in Int : AtMost(dbf.slot, b) => AtMost(slotNew, b)
    <3>1. CASE Exists(dbf.slot[dbf.i])
      <4>1. slotNew = Shift(dbf.slot, dbf.i)
        BY <3>1 DEF Shift
      <4>2. dbf.slot \in [Slots -> FileContents] /\ InOrder(dbf.slot)
        BY DEF DbTypeOK
      <4> HIDE DEF slotNew
      <4> QED
        BY SMTT(30), <1>1, <4>1, <4>2, Shifted
    <3>2. CASE ~Exists(dbf.slot[dbf.i])
      BY <1>1, <3>2 DEF DbTypeOK, Exists
    <3> QED
      BY SMTT(30), <3>1, <3>2
  <2>3. iNew \in 0..(Retain - 1) /\ iNew \in FileContents /\ iNew + 1 = dbf.i
    BY <1>1, <1>3 DEF FileContents
  <2> HIDE DEF slotNew, iNew
  <2>4. DbTypeOK'
    BY ZenonT(30), <2>1, <2>2, <2>3 DEF DbTypeOK
  <2>5. /\ dbf'.slot = slotNew /\ dbf'.i = iNew /\ dbf'.job = "older" /\ dbf'.now = dbf.now
        /\ dbf'.db = dbf.db /\ dbf'.up = dbf.up /\ dbf'.cpt = dbf.cpt /\ dbf'.new = dbf.new
        /\ dbf'.fails = dbf.fails
    BY <1>1, <2>1 DEF DbTypeOK
  <2>6. InOrder(dbf.slot)' /\ Exclusive'
    BY SMTT(30), <1>1, <2>2, <2>5 DEF Exclusive
  <2>7. Newest'
    BY SMTT(30), <1>1, <2>2, <2>5 DEF Newest, DbTypeOK, FileContents, NoFile
  <2>8. Rotating'
    BY <2>2, <2>3, <2>5 DEF Rotating
  <2>9. Kept'
    <3> SUFFICES ASSUME dbf.fails \in 0..Retain
                 PROVE  \E s \in Slots : /\ Whole(slotNew[s])
                                         /\ \/ s <= iNew /\ s < dbf.fails
                                            \/ s > iNew + 1 /\ s <= dbf.fails
      BY <2>5 DEF Kept
    <3>1. PICK s \in Slots : /\ Whole(dbf.slot[s])
                             /\ (s <= dbf.i /\ s < dbf.fails) \/ (s > dbf.i + 1 /\ s <= dbf.fails)
      BY <1>1 DEF Kept
    <3>2. CASE s = dbf.i
      <4>1. dbf.i + 1 \in Slots /\ Whole(slotNew[dbf.i + 1])
        BY <1>1, <2>2, <3>1, <3>2 DEF Slots
      <4> QED
        BY SMTT(30), <1>1, <2>3, <3>1, <3>2, <4>1 DEF Slots
    <3>3. CASE s # dbf.i
      <4>1. s # dbf.i + 1 /\ Whole(slotNew[s])
        BY <1>1, <2>2, <3>1, <3>3 DEF Slots
      <4> QED
        BY <1>1, <2>3, <3>1, <3>3, <4>1 DEF Slots
    <3> QED
      BY SMTT(30), <3>2, <3>3
  <2> QED
    BY <2>4, <2>6, <2>7, <2>8, <2>9
<1> QED
  BY <1>1, <1>2, <1>3

\* And so for the newest, at the end.
LEMMA RotateBaseStep ==
  ASSUME DbInv, RotateBase
  PROVE  DbInv'
<1> USE DEF DbInv
<1> DEFINE slotNew == IF Exists(dbf.slot[0]) THEN [dbf.slot EXCEPT ![1] = dbf.slot[0], ![0] = NoFile]
                      ELSE dbf.slot
<1>1. dbf.job = "base" /\ dbf.slot[1] = NoFile /\ dbf' = [dbf EXCEPT !.job = "copy", !.slot = slotNew]
  BY SMTT(30) DEF RotateBase, Rotating
<1>2. /\ slotNew \in [Slots -> FileContents] /\ slotNew[1] = dbf.slot[0] /\ slotNew[0] = NoFile
      /\ \A s \in Slots \ {0, 1} : slotNew[s] = dbf.slot[s]
      /\ InOrder(slotNew) /\ \A b \in Int : AtMost(dbf.slot, b) => AtMost(slotNew, b)
  <2>1. CASE Exists(dbf.slot[0])
    <3>1. 0 \in 0..(Retain - 1) /\ 0 + 1 = 1
      OBVIOUS
    <3>2. dbf.slot \in [Slots -> FileContents] /\ InOrder(dbf.slot)
      BY DEF DbTypeOK
    <3>3. slotNew = Shift(dbf.slot, 0)
      BY <2>1, <3>1 DEF Shift
    <3> HIDE DEF slotNew
    <3> QED
      BY <1>1, <3>1, <3>2, <3>3, Shifted
  <2>2. CASE ~Exists(dbf.slot[0])
    BY <1>1, <2>2 DEF DbTypeOK, Exists
  <2> QED
    BY <2>1, <2>2
<1> HIDE DEF slotNew
<1>3. DbTypeOK'
  BY ZenonT(30), <1>1, <1>2 DEF DbTypeOK
<1>4. /\ dbf'.slot = slotNew /\ dbf'.job = "copy" /\ dbf'.now = dbf.now /\ dbf'.db = dbf.db
      /\ dbf'.up = dbf.up /\ dbf'.cpt = dbf.cpt /\ dbf'.new = dbf.new /\ dbf'.fails = dbf.fails
  BY <1>1 DEF DbTypeOK
<1>5. InOrder(dbf.slot)' /\ Exclusive' /\ Rotating'
  BY <1>1, <1>2, <1>4 DEF Exclusive, Rotating
<1>6. Newest'
  BY <1>1, <1>2, <1>4 DEF Newest, DbTypeOK, FileContents, NoFile
<1>7. Kept'
  BY <1>1, <1>2, <1>4 DEF Kept, Slots
<1> QED
  BY <1>3, <1>5, <1>6, <1>7

\* What is restored is the newest of the backups, and they are in order.
LEMMA OpenLauncherDbStep ==
  ASSUME DbInv, OpenLauncherDb
  PROVE  DbInv'
<1> USE DEF DbInv
<1> DEFINE d == UseBackupDbIfNeeded(dbf)
<1>1. /\ ~dbf.up /\ dbf.cpt = "idle" /\ dbf.job = "idle"
      /\ dbf' = [d EXCEPT !.up = d.db # Part, !.db = IF d.db = NoFile THEN d.now ELSE d.db]
  BY DEF OpenLauncherDb, Exclusive
<1>2. /\ d \in [db : FileContents, slot : [Slots -> FileContents], now : Nat \ {0}, up : BOOLEAN,
                job : {"idle", "oldest", "older", "base", "copy", "copying"}, i : FileContents,
                fails : FileContents, cpt : {"idle", "compact", "rename", "renameNew"},
                new : FileContents, old : FileContents, events : Nat]
      /\ InOrder(d.slot) /\ AtMost(d.slot, d.now) /\ d.db <= d.now
      /\ Whole(d.db) => AtMost(d.slot, d.db)
      /\ d.cpt = "idle" /\ d.job = "idle" /\ ~d.up
      /\ d.fails \in 0..Retain => d.slot = dbf.slot /\ d.fails = dbf.fails
  <2>1. CASE d = dbf
    BY SMTT(30), <1>1, <2>1 DEF DbTypeOK, Newest
  <2>2. CASE d # dbf
    <3>1. PICK s \in Slots : /\ Exists(dbf.slot[s]) /\ \A t \in Slots : t < s => ~Exists(dbf.slot[t])
                             /\ d = [dbf EXCEPT !.db = dbf.slot[s], !.slot = [@ EXCEPT ![s] = NoFile],
                                                !.fails = 0 - 1]
      BY ZenonT(30), <2>2 DEF UseBackupDbIfNeeded, latestBackupDb, nonEmptyFileExists
    <3> DEFINE slotNew == [dbf.slot EXCEPT ![s] = NoFile]
    <3>2. /\ slotNew \in [Slots -> FileContents] /\ InOrder(slotNew)
          /\ \A t \in Slots \ {s} : slotNew[t] = dbf.slot[t]
          /\ \A b \in Int : AtMost(dbf.slot, b) => AtMost(slotNew, b)
      BY Emptied DEF DbTypeOK
    <3>3. Whole(dbf.slot[s]) => AtMost(slotNew, dbf.slot[s])
      <4> SUFFICES ASSUME Whole(dbf.slot[s]), NEW t \in Slots, Whole(slotNew[t])
                   PROVE  slotNew[t] <= dbf.slot[s]
        BY DEF AtMost
      <4>1. t # s /\ slotNew[t] = dbf.slot[t]
        BY <3>2 DEF Whole, NoFile, DbTypeOK
      <4>2. ~(t < s)
        BY <3>1, <4>1 DEF Exists, Whole, NoFile
      <4> QED
        BY SMTT(30), <4>1, <4>2 DEF InOrder, Slots, DbTypeOK, FileContents, NoFile
    <3>4. dbf.slot[s] \in FileContents /\ dbf.slot[s] <= dbf.now
      BY DEF DbTypeOK, Newest, AtMost, Whole, FileContents, NoFile
    <3> HIDE DEF slotNew
    <3>5. d = [dbf EXCEPT !.db = dbf.slot[s], !.slot = slotNew, !.fails = 0 - 1]
      BY <3>1 DEF slotNew
    <3>6. /\ d.db = dbf.slot[s] /\ d.slot = slotNew /\ d.fails = 0 - 1 /\ d.now = dbf.now
          /\ d.cpt = "idle" /\ d.job = "idle" /\ ~d.up
      BY <1>1, <3>5 DEF DbTypeOK
    <3>7. d \in [db : FileContents, slot : [Slots -> FileContents], now : Nat \ {0}, up : BOOLEAN,
                 job : {"idle", "oldest", "older", "base", "copy", "copying"}, i : FileContents,
                 fails : FileContents, cpt : {"idle", "compact", "rename", "renameNew"},
                 new : FileContents, old : FileContents, events : Nat]
      <4>1. 0 - 1 \in FileContents
        BY DEF FileContents, NoFile
      <4> QED
        BY ZenonT(30), <3>2, <3>4, <3>5, <4>1 DEF DbTypeOK
    <3>8. AtMost(slotNew, dbf.now)
      BY <3>2 DEF DbTypeOK, Newest
    <3> QED
      BY <3>2, <3>3, <3>4, <3>6, <3>7, <3>8
  <2> QED
    BY <2>1, <2>2
<1> HIDE DEF d
<1> DEFINE dbNew == IF d.db = NoFile THEN d.now ELSE d.db
           upNew == d.db # Part
<1>3. /\ dbNew \in FileContents /\ upNew \in BOOLEAN /\ (upNew => Whole(dbNew))
      /\ dbNew <= d.now /\ (Whole(dbNew) => AtMost(d.slot, dbNew))
  BY <1>2 DEF FileContents, NoFile, Part, Whole
<1> HIDE DEF dbNew, upNew
<1>4. dbf' = [d EXCEPT !.up = upNew, !.db = dbNew]
  BY <1>1 DEF dbNew, upNew
<1>5. DbTypeOK'
  BY ZenonT(30), <1>2, <1>3, <1>4 DEF DbTypeOK
<1>6. /\ dbf'.slot = d.slot /\ dbf'.job = "idle" /\ dbf'.now = d.now /\ dbf'.db = dbNew
      /\ dbf'.up = upNew /\ dbf'.cpt = "idle" /\ dbf'.fails = d.fails
  BY SMTT(30), <1>2, <1>4
<1>7. InOrder(dbf.slot)' /\ Newest' /\ Exclusive' /\ Rotating'
  BY <1>2, <1>3, <1>6 DEF Newest, Exclusive, Rotating
<1>8. Kept'
  BY <1>1, <1>2, <1>6 DEF Kept
<1> QED
  BY <1>5, <1>7, <1>8

(***************************************************************************)
(* For any number of old backups to retain (numberOfOldBackupsToRetain):    *)
(* whichever step of a backup, a restore or a compaction was the last one   *)
(* before a failure or a death, the whole backups are in order of age, and  *)
(* after a backup succeeded one is kept until more than that number of      *)
(* later attempts have failed, or a restore has used it up.                 *)
(***************************************************************************)
THEOREM DatabaseBackupKept == DatabaseFilesSpec => []BackupKept
<1>1. DbInv /\ UNCHANGED dbf => DbInv'
  BY DEF DbInv, DbTypeOK, Newest, Exclusive, Rotating, Kept
<1>2. DbInv /\ DatabaseFilesNext => DbInv'
  BY SMTT(30), OpenLauncherDbStep, StoreChangesStep, BackupBeginsStep, RotateOldestStep, RotateOlderStep,
     RotateBaseStep, CopyBeginsStep, CopyEndsStep, BackupFailsStep, DiesStep, DatabaseLostStep,
     CompactBeginsStep, compactStep, renameOldStep, renameNewStep, CompactFailsStep
  DEF DatabaseFilesNext
<1>3. DbInv => BackupKept
  BY DEF DbInv, DbTypeOK, FileContents, NoFile, InOrder, Kept, Slots, BackupKept
<1> QED
  BY <1>1, <1>2, <1>3, DbInit, PTL DEF DatabaseFilesSpec

=============================================================================
