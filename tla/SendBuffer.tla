----------------------------- MODULE SendBuffer -----------------------------
(***************************************************************************)
(* The buffer in front of the log shipper (pkg/sendbuffer/sendbuffer.go).  *)
(* Log handlers of any goroutine Write to it; the Run loop of the shipper  *)
(* and the Drain of its Stop send what it holds.  Two mutexes protect it:  *)
(* sendMutex is held over a whole send, writeMutex only while logs and     *)
(* size are touched, so that writes proceed, and may purge the buffer,     *)
(* while a send waits for the network.                                     *)
(*                                                                         *)
(* A log is a record of its identity and its length in bytes: the bytes    *)
(* themselves matter to nothing here.                                      *)
(***************************************************************************)
EXTENDS Integers, Sequences, FiniteSets, LogSequences

CONSTANTS
    maxWriteBytes,        \* a longer write is discarded
    maxStorageSizeBytes,  \* bytes buffered before everything is purged
    maxSendSizeBytes,     \* bytes handed to the sender at a time
    maxDrainSends,        \* sends a Drain attempts before it gives up
    WriteLens,            \* lengths of the writes that are offered
    MaxWrites             \* bound: number of writes that are buffered

(***************************************************************************)
(* Every buffered log fits in one send: 8 KiB against 512 KiB by default   *)
(* (lines 22-28), and the log shipper changes neither.                     *)
(***************************************************************************)
ASSUME BufferAssumption ==
    /\ maxWriteBytes \in Nat \ {0}
    /\ maxStorageSizeBytes \in Nat
    /\ maxSendSizeBytes \in Nat
    /\ maxDrainSends \in Nat
    /\ maxWriteBytes <= maxSendSizeBytes
    /\ WriteLens \subseteq Nat
    /\ MaxWrites \in Nat

\* The two callers of sendAndPurge: the Run loop and the Drain of Stop.
Run == "Run"
Drain == "Drain"
Callers == {Run, Drain}
NoOne == "none"

Logs == [id : 1..MaxWrites, len : 1..maxWriteBytes]

VARIABLES
    logs,            \* the buffered logs, oldest first
    size,            \* sb.size, the running total of their lengths
    logsJustPurged,  \* set by a purging Write, reset by a completed send
    sendMutex,       \* the caller inside sendAndPurge, or NoOne
    phase,           \* of the send in progress: idle, sending, sent
    batch,           \* the logs copied for that send
    running,         \* the Run loop has not returned
    drain,           \* state of the Drain: pc, lines left, sends made
    writes,          \* number of writes buffered so far (names the logs)
    acked,           \* identities of successfully sent logs (history)
    purged           \* identities dropped by a purge (history)

vars == <<logs, size, logsJustPurged, sendMutex, phase, batch, running,
          drain, writes, acked, purged>>

-----------------------------------------------------------------------------

\* The bytes of a sequence of logs.
Bytes(s) == SumSeq([i \in DOMAIN s |-> s[i].len])

\* The identities of the logs of a sequence.
Ids(s) == {s[i].id : i \in DOMAIN s}

\* Mutant of copyLogs: stops at a log that would exactly fill the send.
copyLogsStrict ==
    Cardinality({n \in 1..Len(logs) :
                    Bytes(SubSeq(logs, 1, n)) < maxSendSizeBytes})

\* copyLogs: how many logs, from the head, fit in one send.
copyLogs ==
    Cardinality({n \in 1..Len(logs) :
                    Bytes(SubSeq(logs, 1, n)) <= maxSendSizeBytes})

\* Mutant of deleteLogs: forgets to subtract the deleted bytes.
deleteLogsKeepsSize(toIndex) ==
    /\ logs' = SubSeq(logs, toIndex + 1, Len(logs))
    /\ size' = size

\* deleteLogs(toIndex): drop that many logs and their bytes.
deleteLogs(toIndex) ==
    /\ logs' = SubSeq(logs, toIndex + 1, Len(logs))
    /\ size' = size - Bytes(SubSeq(logs, 1, toIndex))

Init ==
    /\ logs = <<>>
    /\ size = 0
    /\ logsJustPurged = FALSE
    /\ sendMutex = NoOne
    /\ phase = "idle"
    /\ batch = <<>>
    /\ running = TRUE
    /\ drain = [pc |-> "off", linesRemaining |-> 0, sends |-> 0]
    /\ writes = 0
    /\ acked = {}
    /\ purged = {}

-----------------------------------------------------------------------------
(* Write: one critical section of writeMutex. *)

\* An empty or an excessively long write is dropped at once.
WriteDropped(len) ==
    /\ len = 0 \/ len > maxWriteBytes
    /\ UNCHANGED vars

\* A write that does not fit purges the whole buffer and is itself dropped.
WritePurges(len) ==
    /\ len \in 1..maxWriteBytes
    /\ len + size > maxStorageSizeBytes
    /\ deleteLogs(Len(logs))
    /\ logsJustPurged' = TRUE
    /\ purged' = purged \cup Ids(logs)
    /\ UNCHANGED <<sendMutex, phase, batch, running, drain, writes, acked>>

WriteAppends(len) ==
    /\ len \in 1..maxWriteBytes
    /\ len + size <= maxStorageSizeBytes
    /\ writes < MaxWrites
    /\ writes' = writes + 1
    /\ logs' = Append(logs, [id |-> writes + 1, len |-> len])
    /\ size' = size + len
    /\ UNCHANGED <<logsJustPurged, sendMutex, phase, batch, running, drain,
                   acked, purged>>

Write(len) == WriteDropped(len) \/ WritePurges(len) \/ WriteAppends(len)

-----------------------------------------------------------------------------
(* sendAndPurge, in three steps: take sendMutex and copy; the network call; *)
(* the critical section that deletes what was sent.                         *)

\* A TryLock that fails, or an empty copy, returns (0, nil).
CannotSend == sendMutex # NoOne \/ copyLogs = 0

BeginSend(c) ==
    /\ ~CannotSend
    /\ sendMutex' = c
    /\ phase' = "sending"
    /\ batch' = SubSeq(logs, 1, copyLogs)

EndSend ==
    /\ sendMutex' = NoOne
    /\ phase' = "idle"
    /\ batch' = <<>>

\* The Run loop, at a tick.  A tick that cannot send changes nothing.
RunSend ==
    /\ running
    /\ BeginSend(Run)
    /\ UNCHANGED <<logs, size, logsJustPurged, running, drain, writes, acked,
                   purged>>

\* The Run loop sees its context done, between two sends.
RunReturns ==
    /\ running /\ drain.pc # "off"
    /\ sendMutex # Run
    /\ running' = FALSE
    /\ UNCHANGED <<logs, size, logsJustPurged, sendMutex, phase, batch, drain,
                   writes, acked, purged>>

\* Mutant of SendFails: the error is not returned to the Drain.
SendFailsSilently ==
    /\ phase = "sending"
    /\ EndSend
    /\ UNCHANGED <<logs, size, logsJustPurged, running, drain, writes, acked,
                   purged>>

\* sender.Send fails: everything stays buffered.  A Drain gives up.
SendFails ==
    /\ phase = "sending"
    /\ EndSend
    /\ drain' = IF sendMutex = Drain THEN [drain EXCEPT !.pc = "err"] ELSE drain
    /\ UNCHANGED <<logs, size, logsJustPurged, running, writes, acked, purged>>

SendSucceeds ==
    /\ phase = "sending"
    /\ phase' = "sent"
    /\ acked' = acked \cup Ids(batch)
    /\ UNCHANGED <<logs, size, logsJustPurged, sendMutex, batch, running, drain,
                   writes, purged>>

\* What a Drain does with the count its send returned.
DrainAfter(cnt) ==
    LET left == drain.linesRemaining - cnt IN
    [drain EXCEPT !.pc = IF cnt = 0 \/ left <= 0 THEN "nil" ELSE "wait",
                  !.linesRemaining = left,
                  !.sends = IF cnt = 0 \/ left <= 0 THEN @ ELSE @ + 1]

\* The flag says the buffer was purged: nothing is deleted, 0 is returned.
FinishPurged ==
    /\ phase = "sent"
    /\ logsJustPurged
    /\ logsJustPurged' = FALSE
    /\ EndSend
    /\ drain' = IF sendMutex = Drain THEN DrainAfter(0) ELSE drain
    /\ UNCHANGED <<logs, size, running, writes, acked, purged>>

\* Mutant of FinishDelete: does not look at the purge flag.
FinishDeleteUnchecked ==
    /\ phase = "sent"
    /\ deleteLogs(IF Len(batch) < Len(logs) THEN Len(batch) ELSE Len(logs))
    /\ EndSend
    /\ drain' = IF sendMutex = Drain THEN DrainAfter(Len(batch)) ELSE drain
    /\ UNCHANGED <<logsJustPurged, running, writes, acked, purged>>

FinishDelete ==
    /\ phase = "sent"
    /\ ~logsJustPurged
    /\ deleteLogs(Len(batch))
    /\ EndSend
    /\ drain' = IF sendMutex = Drain THEN DrainAfter(Len(batch)) ELSE drain
    /\ UNCHANGED <<logsJustPurged, running, writes, acked, purged>>

-----------------------------------------------------------------------------
(* Drain, called once by the log shipper's Stop, after it has cancelled the *)
(* context of Run.  Its own context is done after maxDrainTimeout.          *)

Stop ==
    /\ drain.pc = "off"
    /\ drain' = [pc |-> "loop", linesRemaining |-> Len(logs), sends |-> 0]
    /\ UNCHANGED <<logs, size, logsJustPurged, sendMutex, phase, batch, running,
                   writes, acked, purged>>

DrainLoopCondition ==
    /\ drain.sends < maxDrainSends
    /\ drain.linesRemaining > 0
    /\ logs # <<>>

DrainSend ==
    /\ drain.pc = "loop"
    /\ DrainLoopCondition
    /\ BeginSend(Drain)
    /\ drain' = [drain EXCEPT !.pc = "sending"]
    /\ UNCHANGED <<logs, size, logsJustPurged, running, writes, acked, purged>>

\* The loop ends, with an error after maxDrainSends sends, or because
\* sendAndPurge returned without sending.
DrainReturns ==
    /\ drain.pc = "loop"
    /\ ~DrainLoopCondition \/ CannotSend
    /\ drain' = [drain EXCEPT !.pc =
                    IF drain.sends >= maxDrainSends THEN "err" ELSE "nil"]
    /\ UNCHANGED <<logs, size, logsJustPurged, sendMutex, phase, batch, running,
                   writes, acked, purged>>

\* Between two sends: drainSendWait elapses, or the context is done.
DrainWaits ==
    /\ drain.pc = "wait"
    /\ \E pc \in {"loop", "err"} : drain' = [drain EXCEPT !.pc = pc]
    /\ UNCHANGED <<logs, size, logsJustPurged, sendMutex, phase, batch, running,
                   writes, acked, purged>>

-----------------------------------------------------------------------------

SendReturns == SendFails \/ SendSucceeds \/ FinishPurged \/ FinishDelete

Next ==
    \/ \E len \in WriteLens : Write(len)
    \/ RunSend \/ RunReturns
    \/ SendReturns
    \/ Stop \/ DrainSend \/ DrainReturns \/ DrainWaits

Spec == Init /\ [][Next]_vars

(***************************************************************************)
(* Every Send ends (its context or its HTTP client times out), the ticker  *)
(* keeps ticking, and a Drain runs on.  That the server accepts a send     *)
(* that is retried for ever is the one assumption about the environment.   *)
(***************************************************************************)
Fairness ==
    /\ WF_vars(RunSend)
    /\ WF_vars(SendReturns)
    /\ SF_vars(SendSucceeds)
    /\ WF_vars(DrainSend \/ DrainReturns)
    /\ WF_vars(DrainWaits)

FairSpec == Spec /\ Fairness

-----------------------------------------------------------------------------

TypeOK ==
    /\ logs \in Seq(Logs)
    /\ size \in 0..maxStorageSizeBytes
    /\ logsJustPurged \in BOOLEAN
    /\ sendMutex \in Callers \cup {NoOne}
    /\ phase \in {"idle", "sending", "sent"}
    /\ batch \in Seq(Logs)
    /\ running \in BOOLEAN
    /\ drain \in [pc : {"off", "loop", "sending", "wait", "nil", "err"},
                  linesRemaining : Int, sends : 0..maxDrainSends]
    /\ writes \in 0..MaxWrites
    /\ acked \subseteq 1..writes
    /\ purged \subseteq 1..writes

(***************************************************************************)
(* size is the number of bytes in the buffer, whatever interleaving of     *)
(* appends, purges and deletes of a completed send led there: the capacity *)
(* check of Write (line 144) and the cut of a purge rest on it.            *)
(***************************************************************************)
SizeIsBytes == size = Bytes(logs)

(***************************************************************************)
(* While a send is in flight and the purge flag is down, the copied logs   *)
(* are still the head of the buffer: deleteLogs(lastKey) (line 370)        *)
(* deletes what was sent, and never indexes past the end of logs.          *)
(***************************************************************************)
InFlightAtHead ==
    phase # "idle" /\ ~logsJustPurged =>
        /\ Len(batch) <= Len(logs)
        /\ \A i \in 1..Len(batch) : batch[i] = logs[i]

(***************************************************************************)
(* A buffered log leaves the buffer only through a successful send or a    *)
(* purge of a full buffer; no race of sends, drain and writes loses one.   *)
(***************************************************************************)
NoSilentLoss == (1..writes) \ (acked \cup purged) \subseteq Ids(logs)

(***************************************************************************)
(* The buffer keeps the order of the writes, without gaps: a send is       *)
(* always the oldest logs not yet shipped.                                 *)
(***************************************************************************)
Ordered == \A i \in 1..(Len(logs) - 1) : logs[i + 1].id = logs[i].id + 1

\* No log is lost, sent out of order or deleted unsent, whatever interleaving
\* of writes, purges, sends and a Drain.
LogsAccounted == InFlightAtHead /\ NoSilentLoss /\ Ordered

(***************************************************************************)
(* Every buffered log is shipped or purged in the end, unless the Run loop *)
(* returns first (lines 183-194 retry for ever): again and again nothing   *)
(* is left in the buffer that was not.                                     *)
(***************************************************************************)
EventuallyShipped == []<>(~running \/ Ids(logs) \subseteq acked \cup purged)

\* A Drain returns: it never waits on the Run loop or on writers.
DrainTerminates == []<>(drain.pc \in {"off", "nil", "err"})

(***************************************************************************)
(* Not a property of the code.  Lines 42-43 and 362-364: logsJustPurged    *)
(* keeps a completed send from deleting logs that were purged under it.    *)
(* So a send that is not deleted should have nothing left in the buffer.   *)
(***************************************************************************)
SkipsDeleteOnlyOfPurged ==
    [][FinishPurged => Ids(batch) \cap Ids(logs) = {}]_vars

=============================================================================
