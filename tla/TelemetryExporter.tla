-------------------------- MODULE TelemetryExporter --------------------------
(***************************************************************************)
(* The telemetry exporter, ee/observability/exporter, and the processor     *)
(* that buffers spans until there is an exporter,                           *)
(* ee/observability/bufspanprocessor.  FlagsChanged is called by whoever    *)
(* changes a flag and takes no lock around what it decides; OnEnd, called   *)
(* by whoever ends a span, looks at the child processor without the lock.   *)
(***************************************************************************)
EXTENDS Naturals

CONSTANTS FlagCallers,        \* goroutines that change flags
          MaxBufferedSpans,
          MaxChanges, MaxSpans   \* bounds on the changes of flags and the spans ended

\* A builder is a caller, Execute, or nobody.
ASSUME TelemetryAssumption ==
  "execute" \notin FlagCallers /\ "none" \notin FlagCallers /\ MaxBufferedSpans \in Nat

VARIABLE tel

\* overlapped: history, a FlagsChanged began while another, or Execute, was at it.  late: a span
\* was appended to the buffer after it had been forwarded.  failed: the last attempt to
\* create an exporter did.
TelemetryInit ==
  \E on \in BOOLEAN :
    tel = [exportTraces |-> on, enabled |-> on, execute |-> "start", interrupted |-> FALSE,
           call |-> [c \in FlagCallers |-> "idle"], builder |-> "none", failed |-> FALSE,
           childProcessor |-> "none", forwarding |-> FALSE, onEnd |-> "idle",
           bufferedSpans |-> 0, exported |-> 0, spans |-> 0, changes |-> 0,
           overlapped |-> FALSE, late |-> FALSE]

Shut(child) == IF child = "live" THEN "shut" ELSE child
Busy == tel.execute = "rebuild" \/ \E c \in FlagCallers : tel.call[c] # "idle"

\* A flag is set; its observers are called after that.
SetsFlag(c) ==
  /\ tel.call[c] = "idle" /\ tel.changes < MaxChanges
  /\ \E on \in BOOLEAN :
       tel' = [tel EXCEPT !.exportTraces = on, !.changes = @ + 1, !.overlapped = @ \/ Busy,
                          !.call[c] = IF on = tel.exportTraces THEN "other" ELSE "toggled"]

\* FlagsChanged for ExportTraces: the attributes are waited for before enabled is set,
\* disabling shuts the providers down.
FlagsChangedExport(c) ==
  /\ tel.call[c] = "toggled"
  /\ tel' = IF ~tel.enabled /\ tel.exportTraces THEN [tel EXCEPT !.call[c] = "attributes"]
            ELSE IF tel.enabled /\ ~tel.exportTraces
              THEN [tel EXCEPT !.call[c] = "idle", !.enabled = FALSE,
                               !.childProcessor = Shut(@)]
            ELSE [tel EXCEPT !.call[c] = "idle"]

\* addAttributesFromOsquery finds the enrollment details, or gives up.
addAttributesFromOsquery(c) ==
  /\ tel.call[c] = "attributes"
  /\ tel' = [tel EXCEPT !.call[c] = "rebuild", !.enabled = TRUE]

\* The sampling rate, the URL, TLS, the batch timeout or GOMAXPROCS: all rebuild.
FlagsChangedOther(c) ==
  /\ tel.call[c] = "other"
  /\ tel' = [tel EXCEPT !.call[c] = IF tel.enabled THEN "rebuild" ELSE "idle"]

ExecuteExporter ==
  /\ tel.execute = "start"
  /\ tel' = [tel EXCEPT !.execute = IF tel.enabled THEN "rebuild" ELSE "waiting",
                        !.overlapped = @ \/ Busy]

Rebuilds(b) == IF b = "execute" THEN tel.execute = "rebuild" ELSE tel.call[b] = "rebuild"
RebuildDone(b, t) ==
  IF b = "execute" THEN [t EXCEPT !.execute = "waiting", !.builder = "none"]
                   ELSE [t EXCEPT !.call[b] = "idle", !.builder = "none"]

\* setNewGlobalTracerProvider, under providerLock: the old provider is shut down, and with
\* it the processor's child ...
setNewGlobalTracerProvider(b) ==
  /\ Rebuilds(b) /\ tel.builder = "none"
  /\ tel' = [tel EXCEPT !.builder = b, !.childProcessor = Shut(@)]

\* ... a new exporter is created, or not ...
ExporterFails ==
  /\ tel.builder # "none" /\ ~tel.forwarding
  /\ tel' = [RebuildDone(tel.builder, tel) EXCEPT !.failed = TRUE]

\* Mutant of SetChildProcessor: the child is set after the buffer has been forwarded.
SetChildProcessorLast ==
  /\ tel.builder # "none"
  /\ tel' = IF ~tel.forwarding
              THEN [tel EXCEPT !.forwarding = TRUE, !.failed = FALSE,
                               !.exported = @ + tel.bufferedSpans, !.bufferedSpans = 0]
              ELSE [RebuildDone(tel.builder, tel) EXCEPT
                      !.forwarding = FALSE, !.childProcessor = "live"]

\* ... and SetChildProcessor sets it, then forwards the buffer under bufMu.
SetChildProcessor ==
  /\ tel.builder # "none"
  /\ tel' = IF ~tel.forwarding
              THEN [tel EXCEPT !.forwarding = TRUE, !.childProcessor = "live", !.failed = FALSE]
              ELSE [RebuildDone(tel.builder, tel) EXCEPT
                      !.forwarding = FALSE, !.exported = @ + tel.bufferedSpans,
                      !.bufferedSpans = 0]

\* OnEnd looks at the child without the lock ...
OnEnd ==
  /\ tel.onEnd = "idle" /\ tel.spans < MaxSpans
  /\ tel' = IF tel.childProcessor = "none"
              THEN [tel EXCEPT !.spans = @ + 1, !.onEnd = "append"]
              ELSE [tel EXCEPT !.spans = @ + 1,
                               !.exported = IF tel.childProcessor = "live" THEN @ + 1 ELSE @]

\* ... and appends under it.
OnEndAppends ==
  /\ tel.onEnd = "append"
  /\ tel' = [tel EXCEPT !.onEnd = "idle",
               !.late = @ \/ (tel.childProcessor # "none" /\ ~tel.forwarding),
               !.bufferedSpans = IF @ >= MaxBufferedSpans THEN @ ELSE @ + 1]

InterruptExporter ==
  /\ ~tel.interrupted
  /\ tel' = [tel EXCEPT !.interrupted = TRUE, !.childProcessor = Shut(@)]

TelemetryNext ==
  \/ \E c \in FlagCallers : \/ SetsFlag(c) \/ FlagsChangedExport(c) \/ FlagsChangedOther(c)
                            \/ addAttributesFromOsquery(c)
  \/ \E b \in FlagCallers \cup {"execute"} : setNewGlobalTracerProvider(b)
  \/ ExecuteExporter \/ ExporterFails \/ SetChildProcessor \/ OnEnd \/ OnEndAppends
  \/ InterruptExporter

TelemetrySpec == TelemetryInit /\ [][TelemetryNext]_tel

(***************************************************************************)
(* Between changes, launcher exports exactly when ExportTraces says so:     *)
(* with it set there is a child processor that takes the spans, and none    *)
(* is left in the buffer; without it nothing takes them.  The exceptions    *)
(* are named: an exporter that could not be created, a FlagsChanged during  *)
(* another one or Execute, and a span that ended as the child was set.      *)
(***************************************************************************)
ExportFollowsFlag ==
  (~Busy /\ tel.execute = "waiting" /\ ~tel.interrupted /\ ~tel.overlapped /\ ~tel.failed) =>
    /\ tel.enabled = tel.exportTraces
    /\ (tel.childProcessor = "live") = tel.exportTraces
    /\ tel.exportTraces /\ ~tel.late /\ tel.onEnd = "idle" => tel.bufferedSpans = 0
=============================================================================
