---------------------------- MODULE BufferedLogs ----------------------------
(***************************************************************************)
(* The log loop of pkg/osquery/extension.go: osquery's logs are appended to *)
(* a store per type, and Execute publishes a batch of each type, deletes    *)
(* what was published and purges what is too much, until it is shut down.   *)
(* The limit of a batch, common to the types, follows                       *)
(* log_publication_state.go.  A log is its number, in the order of the      *)
(* stores' keys, and its length.  The outcome of writeLogsWithReenroll is   *)
(* an input here; Enrollment has its control.                               *)
(***************************************************************************)
EXTENDS Naturals, FiniteSets, Sequences, LogSequences

CONSTANTS LogTypes,                       \* number of stores the loop goes through
          Lengths, MaxBytesPerBatch,      \* lengths of logs, the limit of the options
          MinBytesPerBatch, Increment,    \* of the publication state
          MaxBufferedLogs,
          MaxLogWrites, MaxLogFaults, MaxLogRestarts    \* bounds

ASSUME BufferedLogsAssumption ==
  /\ LogTypes \in Nat \ {0}
  /\ Lengths \subseteq Nat /\ MaxBytesPerBatch \in Nat /\ MinBytesPerBatch \in Nat
  /\ Increment \in Nat \ {0} /\ MaxBufferedLogs \in Nat /\ MaxLogWrites \in Nat
  /\ MaxLogFaults \in Nat /\ MaxLogRestarts \in Nat

VARIABLES
  buffer,       \* the stores: sequences of [id, len]
  place,        \* where the loop is
  turn,         \* the type it is at
  logBatch,     \* ids of the logs it has collected, with the ones it passed over
  sending,      \* ids of those in the request
  currentMax,   \* currentMaxBytesPerBatch
  filled,       \* currentBatchBufferFilled
  excess,       \* how many logs the purge has counted too much
  interrupted,  \* Shutdown has closed done
  published,    \* history: what the server has taken of each store
  logWrites, logFaults, logRestarts   \* how often the environment has acted

logVars == <<buffer, place, turn, logBatch, sending, currentMax, filled, excess, interrupted,
             published, logWrites, logFaults, logRestarts>>

Types == 1..LogTypes
AnyLog == [id : Nat, len : Nat]
LogIds(s) == {s[i].id : i \in DOMAIN s}
LogBytes(s) == SumSeq([i \in DOMAIN s |-> s[i].len])
Least(a, b) == IF a <= b THEN a ELSE b
Greatest(a, b) == IF a >= b THEN a ELSE b

\* NewExtension with NewLogPublicationState, and Execute's first pass.
LoopBegins ==
  /\ place' = "collect" /\ turn' = 1 /\ logBatch' = {} /\ sending' = {} /\ excess' = 0
  /\ currentMax' = MaxBytesPerBatch /\ filled' = FALSE /\ interrupted' = FALSE

BufferedLogsInit ==
  /\ buffer = [i \in Types |-> <<>>]
  /\ place = "collect" /\ turn = 1 /\ logBatch = {} /\ sending = {} /\ excess = 0
  /\ currentMax = MaxBytesPerBatch /\ filled = FALSE /\ interrupted = FALSE
  /\ published = [i \in Types |-> {}]
  /\ logWrites = 0 /\ logFaults = 0 /\ logRestarts = 0

Fails == logFaults < MaxLogFaults /\ logFaults' = logFaults + 1

-----------------------------------------------------------------------------
(* log_publication_state.go.                                               *)

ExceedsMaxBatchThreshold(n) == n > MaxBytesPerBatch
ExceedsCurrentBatchThreshold(n) == n > currentMax

reduceBatchThreshold ==
  IF currentMax <= MinBytesPerBatch THEN currentMax
  ELSE Greatest(Greatest(currentMax, Increment) - Increment, MinBytesPerBatch)

increaseBatchThreshold ==
  IF currentMax >= MaxBytesPerBatch THEN currentMax
  ELSE Least(currentMax + Increment, MaxBytesPerBatch)

\* A full batch that went out raises the limit; a slow failure lowers it.
EndBatch(successful, slow) ==
  /\ currentMax' = CASE successful /\ filled -> increaseBatchThreshold
                     [] ~successful /\ slow -> reduceBatchThreshold
                     [] OTHER -> currentMax
  /\ filled' = FALSE

-----------------------------------------------------------------------------
(* What the iteration of writeBufferedLogsForType takes of a store.  A log  *)
(* that can never fit is passed over; the first that no longer fits ends it.*)

Small(s) == Picked(s, {l \in AnyLog : ~ExceedsMaxBatchThreshold(l.len)})

\* Mutant of FitsAt: a log larger than what is left of the limit never fits, even alone.
FitsAtAlways(s, k) ==
  \/ ExceedsMaxBatchThreshold(s[k].len)
  \/ ~ExceedsCurrentBatchThreshold(LogBytes(Small(SubSeq(s, 1, k - 1))) + s[k].len)

FitsAt(s, k) ==
  LET before == LogBytes(Small(SubSeq(s, 1, k - 1)))
  IN \/ ExceedsMaxBatchThreshold(s[k].len)
     \/ ~(ExceedsCurrentBatchThreshold(before + s[k].len) /\ before > 0)

Looked(s) == Cardinality({k \in 1..Len(s) : \A j \in 1..k : FitsAt(s, j)})
Collected(s) == SubSeq(s, 1, Looked(s))

\* Mutant of Collect: notes a log for deletion before it looks whether it fits.
CollectNotesFirst ==
  /\ place = "collect"
  /\ LET s == buffer[turn] IN
       /\ Small(Collected(s)) # <<>>
       /\ logBatch' = LogIds(SubSeq(s, 1, Least(Looked(s) + 1, Len(s))))
       /\ sending' = LogIds(Small(Collected(s)))
       /\ filled' = (Looked(s) < Len(s))
  /\ place' = "request"
  /\ UNCHANGED <<buffer, turn, currentMax, excess, interrupted, published, logWrites,
                 logFaults, logRestarts>>

\* A batch is collected and BeginBatch notes whether it is full.  With nothing to send,
\* or an error of the store, the loop goes on to the purge.
Collect ==
  /\ place = "collect"
  /\ LET s == buffer[turn] IN
       /\ Small(Collected(s)) # <<>>
       /\ logBatch' = LogIds(Collected(s)) /\ sending' = LogIds(Small(Collected(s)))
       /\ filled' = (Looked(s) < Len(s))
  /\ place' = "request"
  /\ UNCHANGED <<buffer, turn, currentMax, excess, interrupted, published, logWrites,
                 logFaults, logRestarts>>

CollectNothing ==
  /\ place = "collect"
  /\ \/ Small(Collected(buffer[turn])) = <<>> /\ UNCHANGED logFaults
     \/ Fails
  /\ place' = "count"
  /\ UNCHANGED <<buffer, turn, logBatch, sending, currentMax, filled, excess, interrupted,
                 published, logWrites, logRestarts>>

\* The server takes the batch.  Publishing to the ingester as well changes nothing here.
Publish ==
  /\ place = "request"
  /\ published' = [published EXCEPT ![turn] = @ \cup sending]
  /\ EndBatch(TRUE, FALSE)
  /\ place' = "delete"
  /\ UNCHANGED <<buffer, turn, logBatch, sending, excess, interrupted, logWrites, logFaults,
                 logRestarts>>

\* It may have taken it and the answer is lost.  A transport error ends the batch, and the
\* time it took decides about the limit; after a failed re-enrollment the batch is not ended.
PublishFails ==
  /\ place = "request" /\ Fails
  /\ published' \in {published, [published EXCEPT ![turn] = @ \cup sending]}
  /\ \/ \E slow \in BOOLEAN : EndBatch(FALSE, slow)
     \/ UNCHANGED <<currentMax, filled>>
  /\ logBatch' = {} /\ sending' = {}
  /\ place' = "count"
  /\ UNCHANGED <<buffer, turn, excess, interrupted, logWrites, logRestarts>>

\* The collected logs are deleted, the ones passed over among them, or they all stay.
DeleteLogs ==
  /\ place = "delete"
  /\ \/ /\ buffer' = [buffer EXCEPT ![turn] = Picked(@, {l \in AnyLog : l.id \notin logBatch})]
        /\ UNCHANGED logFaults
     \/ Fails /\ UNCHANGED buffer
  /\ logBatch' = {} /\ sending' = {}
  /\ place' = "count"
  /\ UNCHANGED <<turn, currentMax, filled, excess, interrupted, published, logWrites, logRestarts>>

\* purgeBufferedLogsForType counts, and then deletes as many of the oldest.
CountLogs ==
  /\ place = "count"
  /\ excess' = Greatest(Len(buffer[turn]), MaxBufferedLogs) - MaxBufferedLogs
  /\ place' = "purge"
  /\ UNCHANGED <<buffer, turn, logBatch, sending, currentMax, filled, interrupted, published,
                 logWrites, logFaults, logRestarts>>

PurgeLogs ==
  /\ place = "purge"
  /\ \/ /\ buffer' = [buffer EXCEPT ![turn] = SubSeq(@, excess + 1, Len(@))]
        /\ UNCHANGED logFaults
     \/ Fails /\ UNCHANGED buffer
  /\ excess' = 0
  /\ turn' = (turn % LogTypes) + 1
  /\ place' = IF turn = LogTypes THEN "wait" ELSE "collect"
  /\ UNCHANGED <<logBatch, sending, currentMax, filled, interrupted, published, logWrites, logRestarts>>

\* The ticker fires, or the loop sees that done is closed.
Wait ==
  /\ place = "wait"
  /\ \/ place' = "collect"
     \/ interrupted /\ place' = "returned"
  /\ UNCHANGED <<buffer, turn, logBatch, sending, currentMax, filled, excess, interrupted,
                 published, logWrites, logFaults, logRestarts>>

\* osquery writes a log: LogString with a type that has a store.
LogString(i, n) ==
  /\ logWrites < MaxLogWrites
  /\ logWrites' = logWrites + 1
  /\ buffer' = [buffer EXCEPT ![i] = Append(@, [id |-> logWrites', len |-> n])]
  /\ UNCHANGED <<place, turn, logBatch, sending, currentMax, filled, excess, interrupted,
                 published, logFaults, logRestarts>>

\* The osquery instance is replaced: its extension is shut down and a new one executed.
Shutdown ==
  /\ ~interrupted /\ logRestarts < MaxLogRestarts
  /\ interrupted' = TRUE
  /\ logRestarts' = logRestarts + 1
  /\ UNCHANGED <<buffer, place, turn, logBatch, sending, currentMax, filled, excess,
                 published, logWrites, logFaults>>

NewExtension ==
  /\ place = "returned"
  /\ LoopBegins
  /\ UNCHANGED <<buffer, published, logWrites, logFaults, logRestarts>>

\* launcher dies at any point and is started again; the stores are on disk.
Die ==
  /\ logRestarts < MaxLogRestarts
  /\ logRestarts' = logRestarts + 1
  /\ LoopBegins
  /\ UNCHANGED <<buffer, published, logWrites, logFaults>>

LogLoop == Collect \/ CollectNothing \/ Publish \/ DeleteLogs \/ CountLogs \/ PurgeLogs
           \/ Wait \/ NewExtension

BufferedLogsNext ==
  \/ LogLoop \/ PublishFails \/ Shutdown \/ Die
  \/ \E i \in Types, n \in Lengths : LogString(i, n)

\* The loop runs.
BufferedLogsSpec ==
  BufferedLogsInit /\ [][BufferedLogsNext]_logVars /\ WF_logVars(LogLoop)

-----------------------------------------------------------------------------
Fitting(i) == [j \in DOMAIN Small(buffer[i]) |-> Small(buffer[i])[j].id]

TooMany(n) == n > MaxBufferedLogs

Stores == INSTANCE LogQueue WITH
  Queues <- Types,
  pending <- [i \in Types |-> Fitting(i)],
  load <- [i \in Types |-> Len(buffer[i])],
  delivered <- published,
  Full <- TooMany

\* Each store of extension.go is a LogQueue of the logs that fit in a batch: they go out
\* in the order osquery wrote them and leave only when the server has them or the store is
\* over its limit, although logs are written while a batch is under way, every step of the
\* loop may fail, and launcher may die at any point.
ImplementsLogQueue == Stores!QueueSpec

\* Every log that fits in a batch leaves its store in the end, also one that is longer
\* than the limit after failures: osquery writes finitely many here, and none stays.
LogsLeave == []<>(\A i \in Types : Small(buffer[i]) = <<>>)
=============================================================================
