--------------------------- MODULE ShippingProofs ---------------------------
(***************************************************************************)
(* How launcher ships its own logs, for every choice of sizes and bounds   *)
(* and any number of callers: the send buffer and the shipper around it.   *)
(* (The buffered logs of the extension are in ExtensionProofs.)            *)
(***************************************************************************)
EXTENDS SendBuffer, LogShipper, LogSequencesProofs,
        SequenceTheorems, FiniteSetTheorems, TLAPS

-----------------------------------------------------------------------------
(* The send buffer: what a send deletes, and what the buffer holds.         *)

Shapes ==
    /\ logs \in Seq(Logs)
    /\ batch \in Seq(Logs)
    /\ writes \in 0..MaxWrites
    /\ phase \in {"idle", "sending", "sent"}
    /\ logsJustPurged \in BOOLEAN

\* The buffer holds the latest writes, in order and without gaps.
Contiguous ==
    /\ Len(logs) <= writes
    /\ \A i \in 1..Len(logs) : logs[i].id = writes - Len(logs) + i

\* Every earlier write was shipped or purged.
Accounted == \A i \in 1..(writes - Len(logs)) : i \in acked \cup purged

\* The copied logs are the head of an unpurged buffer.
BatchAtHead ==
    phase # "idle" /\ ~logsJustPurged =>
        /\ Len(batch) <= Len(logs)
        /\ \A i \in 1..Len(batch) : batch[i] = logs[i]

BatchAcked == phase = "sent" => \A i \in 1..Len(batch) : batch[i].id \in acked

IInv == Shapes /\ Contiguous /\ Accounted /\ BatchAtHead /\ BatchAcked

\* copyLogs (lines 378-399) never reports more logs than there are.
LEMMA CopyLogsBound ==
    ASSUME logs \in Seq(Logs)
    PROVE  copyLogs \in 0..Len(logs)
<1> DEFINE S == {n \in 1..Len(logs) :
                    Bytes(SubSeq(logs, 1, n)) <= maxSendSizeBytes}
<1>1. Len(logs) \in Nat
  BY LenProperties
<1>2. IsFiniteSet(1..Len(logs)) /\ Cardinality(1..Len(logs)) = Len(logs)
  BY SMTT(30), <1>1, FS_Interval
<1>3. S \subseteq 1..Len(logs)
  OBVIOUS
<1>4. Cardinality(S) \in Nat /\ Cardinality(S) <= Len(logs)
  <2> HIDE DEF S
  <2> QED
    BY ZenonT(30), <1>2, <1>3, FS_Subset, FS_CardinalityType
<1> QED
  BY <1>1, <1>4 DEF copyLogs

\* The first k logs.
LEMMA HeadOfLogs ==
    ASSUME NEW k \in Nat, logs \in Seq(Logs), k <= Len(logs)
    PROVE  LET head == SubSeq(logs, 1, k) IN
           /\ head \in Seq(Logs)
           /\ Len(head) = k
           /\ \A i \in 1..k : head[i] = logs[i]
<1>1. \A i \in 1..k : logs[i] \in Logs
  BY LenProperties, ElementOfSeq
<1> DEFINE head == SubSeq(logs, 1, k)
<1>2. /\ head \in Seq(Logs)
      /\ Len(head) = IF 1 <= k THEN k - 1 + 1 ELSE 0
      /\ \A i \in 1..(k - 1 + 1) : head[i] = logs[1 + i - 1]
  <2> HIDE DEF Logs
  <2> QED
    BY <1>1, SubSeqProperties
<1>3. Len(head) = k /\ \A i \in 1..k : head[i] = logs[i]
  <2> HIDE DEF head
  <2> QED
    BY <1>2
<1> QED
  BY <1>2, <1>3

\* deleteLogs (lines 403-411) of a head of the buffer keeps the rest of it.
LEMMA DeleteLogs ==
    ASSUME NEW k \in Nat, logs \in Seq(Logs), k <= Len(logs), deleteLogs(k)
    PROVE  /\ logs' \in Seq(Logs)
           /\ Len(logs') = Len(logs) - k
           /\ \A i \in 1..Len(logs') : logs'[i] = logs[k + i]
<1>1. Len(logs) \in Nat /\ \A i \in (k+1)..Len(logs) : logs[i] \in Logs
  BY LenProperties, ElementOfSeq
<1>2. logs' = SubSeq(logs, k + 1, Len(logs))
  BY DEF deleteLogs
<1>3. /\ logs' \in Seq(Logs)
      /\ Len(logs') = IF k + 1 <= Len(logs) THEN Len(logs) - (k + 1) + 1 ELSE 0
      /\ \A i \in 1..(Len(logs) - (k + 1) + 1) : logs'[i] = logs[k + 1 + i - 1]
  <2> HIDE DEF Logs
  <2> QED
    BY <1>1, <1>2, SubSeqProperties
<1> QED
  BY <1>1, <1>3

\* Initially the buffer is empty and no send is in flight (New, line 95).
LEMMA InitIInv == Init => IInv
<1> SUFFICES ASSUME Init PROVE IInv
  OBVIOUS
<1>1. logs = <<>> /\ batch = <<>> /\ Len(logs) = 0 /\ writes = 0
  BY DEF Init
<1>2. Shapes
  <2>1. logs \in Seq(Logs) /\ batch \in Seq(Logs)
    BY <1>1, EmptySeq
  <2>2. writes \in 0..MaxWrites
    BY <1>1, BufferAssumption
  <2>3. phase = "idle" /\ logsJustPurged \in BOOLEAN
    BY ZenonT(30) DEF Init
  <2> QED
    BY <2>1, <2>2, <2>3 DEF Shapes
<1>3. Contiguous /\ Accounted
  BY <1>1 DEF Contiguous, Accounted
<1>4. BatchAtHead /\ BatchAcked
  BY DEF Init, BatchAtHead, BatchAcked
<1> QED
  BY <1>2, <1>3, <1>4 DEF IInv

\* Steps that leave the buffer, the batch and the histories alone.
LEMMA UnchangedIInv ==
    ASSUME IInv,
           UNCHANGED <<logs, logsJustPurged, phase, batch, writes, acked, purged>>
    PROVE  IInv'
BY DEF IInv, Shapes, Contiguous, Accounted, BatchAtHead, BatchAcked

\* A send ends and nothing else of the invariant changes but the flag.
LEMMA EndSendIInv ==
    ASSUME IInv, EndSend, logsJustPurged' \in BOOLEAN,
           UNCHANGED <<logs, writes, acked, purged>>
    PROVE  IInv'
<1>1. phase' = "idle" /\ batch' = <<>> /\ batch' \in Seq(Logs)
  BY EmptySeq DEF EndSend
<1>2. Shapes'
  BY <1>1 DEF IInv, Shapes
<1>3. Contiguous' /\ Accounted'
  BY DEF IInv, Contiguous, Accounted
<1>4. BatchAtHead' /\ BatchAcked'
  BY <1>1 DEF BatchAtHead, BatchAcked
<1> QED
  BY <1>2, <1>3, <1>4 DEF IInv

\* Write, lines 117-171: a purge empties the buffer and raises the flag.
LEMMA WriteIInv ==
    ASSUME IInv, NEW len \in WriteLens, Write(len)
    PROVE  IInv'
<1>0. /\ Shapes /\ Contiguous /\ Accounted /\ BatchAtHead /\ BatchAcked
      /\ Len(logs) \in Nat /\ writes \in Nat /\ MaxWrites \in Nat
  BY LenProperties, BufferAssumption DEF IInv, Shapes
<1>1. CASE WriteDropped(len)
  BY <1>1, UnchangedIInv DEF WriteDropped, vars
<1>2. CASE WritePurges(len)
  <2>1. /\ logs' \in Seq(Logs) /\ Len(logs') = 0
        /\ purged' = purged \cup Ids(logs)
        /\ logsJustPurged' = TRUE
        /\ UNCHANGED <<phase, batch, writes, acked>>
    <3>1. deleteLogs(Len(logs)) /\ logs \in Seq(Logs) /\ Len(logs) <= Len(logs)
      BY <1>0, <1>2 DEF WritePurges, Shapes
    <3>2. logs' \in Seq(Logs) /\ Len(logs') = Len(logs) - Len(logs)
      BY <1>0, <3>1, DeleteLogs
    <3> QED
      BY <1>0, <1>2, <3>2 DEF WritePurges
  <2>2. Shapes'
    BY <1>0, <2>1 DEF Shapes
  <2>3. Contiguous'
    BY <1>0, <2>1 DEF Contiguous
  <2>4. Accounted'
    <3> SUFFICES ASSUME NEW i \in 1..writes PROVE i \in acked' \cup purged'
      BY <1>0, <2>1 DEF Accounted
    <3>1. CASE i <= writes - Len(logs)
      BY <1>0, <2>1, <3>1 DEF Accounted
    <3>2. CASE i > writes - Len(logs)
      <4> DEFINE j == i - (writes - Len(logs))
      <4>1. j \in 1..Len(logs) /\ logs[j].id = i
        BY <1>0, <3>2 DEF Contiguous
      <4>2. DOMAIN logs = 1..Len(logs)
        BY <1>0, LenProperties DEF Shapes
      <4>3. i \in Ids(logs)
        BY <4>1, <4>2 DEF Ids
      <4> QED
        BY <2>1, <4>3
    <3> QED
      BY <1>0, <3>1, <3>2
  <2>5. BatchAtHead' /\ BatchAcked'
    BY <1>0, <2>1 DEF BatchAtHead, BatchAcked
  <2> QED
    BY <2>2, <2>3, <2>4, <2>5 DEF IInv
<1>3. CASE WriteAppends(len)
  <2> DEFINE l == [id |-> writes + 1, len |-> len]
  <2>1. /\ logs' = Append(logs, l) /\ writes' = writes + 1
        /\ writes < MaxWrites
        /\ UNCHANGED <<logsJustPurged, phase, batch, acked, purged>>
    BY <1>3 DEF WriteAppends
  <2>2. l \in Logs
    BY <1>0, <1>3, BufferAssumption DEF WriteAppends, Logs
  <2>3. /\ logs' \in Seq(Logs) /\ Len(logs') = Len(logs) + 1
        /\ \A i \in 1..Len(logs) : logs'[i] = logs[i]
        /\ logs'[Len(logs) + 1] = l
    <3> HIDE DEF l
    <3> QED
      BY <1>0, <2>1, <2>2, AppendProperties DEF Shapes
  <2>4. Shapes'
    BY <1>0, <2>1, <2>3 DEF Shapes
  <2>5. Contiguous'
    <3> SUFFICES ASSUME NEW i \in 1..(Len(logs) + 1)
                 PROVE  logs'[i].id = writes + 1 - (Len(logs) + 1) + i
      BY SMTT(30), <1>0, <2>1, <2>3 DEF Contiguous
    <3>1. CASE i = Len(logs) + 1
      BY SMTT(30), <1>0, <2>3, <3>1
    <3>2. CASE i \in 1..Len(logs)
      BY SMTT(30), <1>0, <2>3, <3>2 DEF Contiguous
    <3> QED
      BY <1>0, <3>1, <3>2
  <2>6. Accounted'
    BY <1>0, <2>1, <2>3 DEF Accounted
  <2>7. BatchAtHead'
    <3>1. Len(batch) \in Nat
      BY <1>0, LenProperties DEF Shapes
    <3> QED
      BY <1>0, <2>1, <2>3, <3>1 DEF BatchAtHead
  <2>8. BatchAcked'
    BY <1>0, <2>1 DEF BatchAcked
  <2> QED
    BY <2>4, <2>5, <2>6, <2>7, <2>8 DEF IInv
<1> QED
  BY <1>1, <1>2, <1>3 DEF Write

\* The copy under sendMutex (lines 334-345) takes a head of the buffer.
LEMMA BeginSendIInv ==
    ASSUME IInv, NEW c, BeginSend(c),
           UNCHANGED <<logs, logsJustPurged, writes, acked, purged>>
    PROVE  IInv'
<1>0. /\ Shapes /\ Contiguous /\ Accounted
      /\ logs \in Seq(Logs) /\ Len(logs) \in Nat
      /\ \A i \in 1..Len(logs) : logs[i] \in Logs
  BY LenProperties, ElementOfSeq DEF IInv, Shapes
<1>1. copyLogs \in 0..Len(logs)
  BY <1>0, CopyLogsBound
<1>2. batch' = SubSeq(logs, 1, copyLogs) /\ phase' = "sending"
  BY DEF BeginSend
<1>3. /\ batch' \in Seq(Logs)
      /\ Len(batch') = copyLogs
      /\ \A i \in 1..copyLogs : batch'[i] = logs[i]
  <2>1. copyLogs \in Nat /\ copyLogs <= Len(logs)
    BY <1>0, <1>1
  <2> HIDE DEF copyLogs, Logs
  <2> QED
    BY <1>0, <1>2, <2>1, HeadOfLogs
<1>4. Shapes'
  BY <1>0, <1>2, <1>3 DEF Shapes
<1>5. Contiguous' /\ Accounted'
  BY <1>0 DEF Contiguous, Accounted
<1>6. BatchAtHead'
  BY <1>0, <1>1, <1>3 DEF BatchAtHead
<1>7. BatchAcked'
  BY <1>2 DEF BatchAcked
<1> QED
  BY <1>4, <1>5, <1>6, <1>7 DEF IInv

\* A successful send (line 351) acknowledges what was copied.
LEMMA SendSucceedsIInv ==
    ASSUME IInv, SendSucceeds
    PROVE  IInv'
<1>0. /\ Shapes /\ Contiguous /\ Accounted /\ BatchAtHead
      /\ DOMAIN batch = 1..Len(batch)
      /\ phase = "sending" /\ phase' = "sent" /\ acked' = acked \cup Ids(batch)
      /\ UNCHANGED <<logs, logsJustPurged, batch, writes, purged>>
  BY LenProperties DEF IInv, Shapes, SendSucceeds
<1>1. Shapes'
  BY <1>0 DEF Shapes
<1>2. Contiguous'
  BY <1>0 DEF Contiguous
<1>3. Accounted'
  BY <1>0 DEF Accounted
<1>4. BatchAtHead'
  BY <1>0 DEF BatchAtHead
<1>5. BatchAcked'
  BY <1>0 DEF BatchAcked, Ids
<1> QED
  BY <1>1, <1>2, <1>3, <1>4, <1>5 DEF IInv

\* deleteLogs(lastKey), line 370: what is deleted was acknowledged.
LEMMA FinishDeleteIInv ==
    ASSUME IInv, FinishDelete
    PROVE  IInv'
<1>0. /\ Shapes /\ Contiguous /\ Accounted /\ BatchAtHead /\ BatchAcked
      /\ logs \in Seq(Logs) /\ Len(logs) \in Nat /\ Len(batch) \in Nat
      /\ writes \in Nat
      /\ phase = "sent" /\ ~logsJustPurged /\ deleteLogs(Len(batch))
      /\ phase' = "idle" /\ batch' = <<>>
      /\ UNCHANGED <<logsJustPurged, writes, acked, purged>>
  BY LenProperties, BufferAssumption DEF IInv, Shapes, FinishDelete, EndSend
<1>1. /\ Len(batch) <= Len(logs)
      /\ \A i \in 1..Len(batch) : batch[i] = logs[i] /\ batch[i].id \in acked
  BY <1>0 DEF BatchAtHead, BatchAcked
<1>2. /\ logs' \in Seq(Logs)
      /\ Len(logs') = Len(logs) - Len(batch)
      /\ \A i \in 1..Len(logs') : logs'[i] = logs[Len(batch) + i]
  BY <1>0, <1>1, DeleteLogs
<1>3. Shapes'
  BY <1>0, <1>2, EmptySeq DEF Shapes
<1>4. Contiguous'
  <2> SUFFICES ASSUME NEW i \in 1..(Len(logs) - Len(batch))
               PROVE  logs'[i].id = writes - (Len(logs) - Len(batch)) + i
    BY <1>0, <1>1, <1>2 DEF Contiguous
  <2>1. Len(batch) + i \in 1..Len(logs)
    BY <1>0, <1>1
  <2>2. logs'[i] = logs[Len(batch) + i]
    BY <1>2
  <2> QED
    BY <1>0, <2>1, <2>2 DEF Contiguous
<1>5. Accounted'
  <2> SUFFICES ASSUME NEW i \in 1..(writes - Len(logs) + Len(batch))
               PROVE  i \in acked \cup purged
    BY <1>0, <1>2 DEF Accounted
  <2>1. CASE i <= writes - Len(logs)
    BY <1>0, <2>1 DEF Accounted
  <2>2. CASE i > writes - Len(logs)
    <3> DEFINE j == i - (writes - Len(logs))
    <3>1. j \in 1..Len(batch) /\ j \in 1..Len(logs)
      BY <1>0, <1>1, <2>2
    <3>2. logs[j].id = i
      BY SMTT(30), <1>0, <3>1 DEF Contiguous
    <3> QED
      BY <1>1, <3>1, <3>2
  <2> QED
    BY <1>0, <2>1, <2>2
<1>6. BatchAtHead' /\ BatchAcked'
  BY <1>0 DEF BatchAtHead, BatchAcked
<1> QED
  BY <1>3, <1>4, <1>5, <1>6 DEF IInv

\* Every step of Next keeps the inductive invariant.
LEMMA NextIInv == IInv /\ [Next]_vars => IInv'
<1> SUFFICES ASSUME IInv, [Next]_vars PROVE IInv'
  OBVIOUS
<1>0. logsJustPurged \in BOOLEAN
  BY DEF IInv, Shapes
<1>1. CASE \E len \in WriteLens : Write(len)
  BY <1>1, WriteIInv
<1>2. CASE RunSend
  BY <1>2, BeginSendIInv DEF RunSend
<1>3. CASE RunReturns \/ Stop \/ DrainReturns \/ DrainWaits
  BY <1>3, UnchangedIInv DEF RunReturns, Stop, DrainReturns, DrainWaits
<1>4. CASE SendFails
  BY <1>0, <1>4, EndSendIInv DEF SendFails
<1>5. CASE SendSucceeds
  BY <1>5, SendSucceedsIInv
<1>6. CASE FinishPurged
  BY ZenonT(30), <1>6, EndSendIInv DEF FinishPurged
<1>7. CASE FinishDelete
  BY <1>7, FinishDeleteIInv
<1>8. CASE DrainSend
  BY <1>8, BeginSendIInv DEF DrainSend
<1>9. CASE UNCHANGED vars
  BY <1>9, UnchangedIInv DEF vars
<1> QED
  BY <1>1, <1>2, <1>3, <1>4, <1>5, <1>6, <1>7, <1>8, <1>9 DEF Next, SendReturns

-----------------------------------------------------------------------------

\* The inductive invariant implies the three properties the runs check.
LEMMA IInvImplies == IInv => InFlightAtHead /\ NoSilentLoss /\ Ordered
<1> SUFFICES ASSUME IInv PROVE InFlightAtHead /\ NoSilentLoss /\ Ordered
  OBVIOUS
<1>0. /\ logs \in Seq(Logs) /\ batch \in Seq(Logs) /\ writes \in Nat
      /\ Len(logs) \in Nat /\ Len(batch) \in Nat
      /\ DOMAIN logs = 1..Len(logs)
      /\ Contiguous /\ Accounted /\ BatchAtHead
  BY LenProperties, BufferAssumption DEF IInv, Shapes
<1>1. InFlightAtHead
  BY <1>0 DEF BatchAtHead, InFlightAtHead
<1>2. NoSilentLoss
  <2> SUFFICES ASSUME NEW i \in 1..writes, i \notin acked \cup purged
               PROVE  i \in Ids(logs)
    BY DEF NoSilentLoss
  <2> DEFINE j == i - (writes - Len(logs))
  <2>1. i > writes - Len(logs)
    BY <1>0 DEF Accounted
  <2>2. j \in 1..Len(logs)
    BY <1>0, <2>1
  <2>3. logs[j].id = i
    BY <1>0, <2>2 DEF Contiguous
  <2> QED
    BY <1>0, <2>2, <2>3 DEF Ids
<1>3. Ordered
  <2> SUFFICES ASSUME NEW i \in 1..(Len(logs) - 1)
               PROVE  logs[i + 1].id = logs[i].id + 1
    BY DEF Ordered
  <2>1. i \in 1..Len(logs) /\ i + 1 \in 1..Len(logs)
    BY <1>0
  <2> QED
    BY <1>0, <2>1 DEF Contiguous
<1> QED
  BY <1>1, <1>2, <1>3

(***************************************************************************)
(* Whatever the interleaving of writes, purges, the Run loop and a Drain:  *)
(* a completed send deletes the logs it sent and nothing past the end of   *)
(* the buffer (line 370), a log leaves the buffer only when it was shipped *)
(* or purged, and the order of the writes is kept.                         *)
(***************************************************************************)
THEOREM SendBufferSafety == Spec => []LogsAccounted
<1>1. Init => IInv
  BY InitIInv
<1>2. IInv /\ [Next]_vars => IInv'
  BY NextIInv
<1>3. IInv => LogsAccounted
  BY IInvImplies DEF LogsAccounted
<1> QED
  BY <1>1, <1>2, <1>3, PTL DEF Spec

-----------------------------------------------------------------------------
(* What the buffer counts: the bytes it holds and the bytes of a send.      *)

Lens(s) == [i \in DOMAIN s |-> s[i].len]

\* The lengths of logs are a sequence of numbers.
LEMMA LensType ==
    ASSUME NEW s \in Seq(Logs)
    PROVE  /\ Lens(s) \in Seq(Nat)
           /\ Len(Lens(s)) = Len(s) /\ Len(s) \in Nat
           /\ \A i \in 1..Len(s) : Lens(s)[i] = s[i].len
           /\ Bytes(s) = SumSeq(Lens(s))
           /\ Bytes(s) \in Nat
<1>1. /\ DOMAIN s = 1..Len(s) /\ Len(s) \in Nat
      /\ \A i \in 1..Len(s) : s[i] \in Logs
  BY LenProperties, ElementOfSeq
<1>2. \A i \in 1..Len(s) : s[i].len \in Nat
  BY <1>1, BufferAssumption DEF Logs
<1>3. Lens(s) = [i \in 1..Len(s) |-> s[i].len]
  BY <1>1 DEF Lens
<1> DEFINE m == Len(s)
           f == Lens(s)
<1>4. f \in [1..m -> Nat] /\ m \in Nat
  BY <1>1, <1>2, <1>3
<1>5. f \in Seq(Nat) /\ Len(f) = m
  <2> HIDE DEF f, m
  <2>1. f \in Seq(Nat)
    BY <1>4, SeqDef
  <2>2. DOMAIN f = 1..m /\ DOMAIN f = 1..Len(f) /\ Len(f) \in Nat
    BY <1>4, <2>1, LenProperties
  <2> QED
    BY <1>4, <2>1, <2>2
<1>6. Bytes(s) = SumSeq(Lens(s))
  BY DEF Bytes, Lens
<1>7. Bytes(s) \in Nat
  BY <1>5, <1>6, SumSeqType
<1> QED
  BY <1>1, <1>3, <1>5, <1>6, <1>7

\* The bytes of a buffer that is cut in two add up.
LEMMA BytesSplit ==
    ASSUME NEW s \in Seq(Logs), NEW p \in Seq(Logs), NEW q \in Seq(Logs),
           Len(s) = Len(p) + Len(q),
           \A i \in 1..Len(p) : p[i] = s[i],
           \A i \in 1..Len(q) : q[i] = s[Len(p) + i]
    PROVE  Bytes(s) = Bytes(p) + Bytes(q)
<1> DEFINE a == Lens(s)
           b == Lens(p)
           c == Lens(q)
<1>1. /\ a \in Seq(Nat) /\ b \in Seq(Nat) /\ c \in Seq(Nat)
      /\ Len(a) = Len(s) /\ Len(b) = Len(p) /\ Len(c) = Len(q)
      /\ Len(s) \in Nat /\ Len(p) \in Nat /\ Len(q) \in Nat
      /\ Bytes(s) = SumSeq(a) /\ Bytes(p) = SumSeq(b) /\ Bytes(q) = SumSeq(c)
      /\ \A i \in 1..Len(s) : a[i] = s[i].len
      /\ \A i \in 1..Len(p) : b[i] = p[i].len
      /\ \A i \in 1..Len(q) : c[i] = q[i].len
  BY ZenonT(30), LensType
<1>2. \A i \in 1..Len(b) : b[i] = a[i]
  <2> HIDE DEF a, b, c
  <2> SUFFICES ASSUME NEW i \in 1..Len(p) PROVE b[i] = a[i]
    BY <1>1
  <2>1. i \in 1..Len(s)
    BY <1>1
  <2> QED
    BY ZenonT(30), <1>1, <2>1
<1>3. \A i \in 1..Len(c) : c[i] = a[Len(b) + i]
  <2> HIDE DEF a, b, c
  <2> SUFFICES ASSUME NEW i \in 1..Len(q) PROVE c[i] = a[Len(p) + i]
    BY <1>1
  <2>1. Len(p) + i \in 1..Len(s)
    BY <1>1
  <2> QED
    BY ZenonT(30), <1>1, <2>1
<1>4. Len(a) = Len(b) + Len(c)
  BY <1>1
<1>5. SumSeq(a) = SumSeq(b) + SumSeq(c)
  <2> HIDE DEF a, b, c
  <2> QED
    BY ZenonT(30), <1>1, <1>2, <1>3, <1>4, SumSeqSplit
<1> QED
  BY <1>1, <1>5

\* No logs, no bytes.
LEMMA BytesOfNone == Bytes(<<>>) = 0
<1>1. <<>> \in Seq(Logs) /\ Len(<<>>) = 0
  OBVIOUS
<1>2. /\ Lens(<<>>) \in Seq(Nat) /\ Len(Lens(<<>>)) = 0
      /\ Bytes(<<>>) = SumSeq(Lens(<<>>))
  BY ZenonT(30), <1>1, LensType
<1> QED
  BY <1>2, SumSeqEmpty

\* The bytes of a single log.
LEMMA BytesOfOne ==
    ASSUME NEW q \in Seq(Logs), Len(q) = 1
    PROVE  Bytes(q) = q[1].len
<1>1. /\ Lens(q) \in Seq(Nat) /\ Len(Lens(q)) = 1 /\ Lens(q)[1] = q[1].len
      /\ Bytes(q) = SumSeq(Lens(q))
  BY LensType
<1>2. Lens(q)[1] \in Nat
  BY SMTT(30), <1>1, ElementOfSeq
<1>3. PICK f : Totals(f, Lens(q), Len(Lens(q))) /\ SumSeq(Lens(q)) = f[Len(Lens(q))]
  BY ZenonT(30), <1>1, SumSeqTotals
<1> QED
  BY <1>1, <1>2, <1>3 DEF Totals

\* deleteLogs (lines 403-411) subtracts the bytes of what it drops.
LEMMA DeleteKeepsSize ==
    ASSUME NEW k \in Nat, logs \in Seq(Logs), k <= Len(logs), deleteLogs(k), SizeIsBytes
    PROVE  SizeIsBytes'
<1>1. /\ logs' \in Seq(Logs) /\ Len(logs') = Len(logs) - k /\ Len(logs) \in Nat
      /\ \A i \in 1..Len(logs') : logs'[i] = logs[k + i]
  BY DeleteLogs, LenProperties
<1> DEFINE head == SubSeq(logs, 1, k)
           rest == logs'
<1>2. /\ head \in Seq(Logs) /\ Len(head) = k
      /\ \A i \in 1..k : head[i] = logs[i]
  BY <1>1, HeadOfLogs
<1>3. Bytes(logs) = Bytes(head) + Bytes(rest)
  <2>1. rest \in Seq(Logs) /\ Len(logs) = Len(head) + Len(rest)
    BY <1>1, <1>2
  <2>2. \A i \in 1..Len(rest) : rest[i] = logs[Len(head) + i]
    BY <1>1, <1>2
  <2>3. \A i \in 1..Len(head) : head[i] = logs[i]
    BY <1>2
  <2> HIDE DEF head, rest, Logs
  <2> QED
    BY ZenonT(30), <1>2, <2>1, <2>2, <2>3, BytesSplit
<1>4. Bytes(head) \in Nat /\ Bytes(rest) \in Nat
  <2> HIDE DEF head, Logs
  <2> QED
    BY <1>1, <1>2, LensType
<1>5. size' = size - Bytes(head)
  BY DEF deleteLogs
<1> QED
  BY <1>3, <1>4, <1>5 DEF SizeIsBytes

\* Write (line 150) adds the bytes of the log it appends.
LEMMA AppendKeepsSize ==
    ASSUME NEW l \in Logs, logs \in Seq(Logs), logs' = Append(logs, l),
           size' = size + l.len, SizeIsBytes
    PROVE  SizeIsBytes'
<1>1. /\ logs' \in Seq(Logs) /\ Len(logs') = Len(logs) + 1 /\ Len(logs) \in Nat
      /\ \A i \in 1..Len(logs) : logs'[i] = logs[i]
      /\ logs'[Len(logs) + 1] = l
  <2> HIDE DEF Logs
  <2> QED
    BY AppendProperties, LenProperties
<1> DEFINE q == <<l>>
           all == logs'
<1>2. q \in Seq(Logs) /\ Len(q) = 1 /\ q[1] = l
  OBVIOUS
<1>3. Bytes(all) = Bytes(logs) + Bytes(q)
  <2>1. all \in Seq(Logs) /\ Len(all) = Len(logs) + Len(q)
    BY <1>1, <1>2
  <2>2. \A i \in 1..Len(q) : q[i] = all[Len(logs) + i]
    BY <1>1, <1>2
  <2>3. \A i \in 1..Len(logs) : logs[i] = all[i]
    BY <1>1
  <2> HIDE DEF q, all, Logs
  <2> QED
    BY ZenonT(30), <1>2, <2>1, <2>2, <2>3, BytesSplit
<1>4. Bytes(q) = l.len
  <2> HIDE DEF q, Logs
  <2> QED
    BY <1>2, BytesOfOne
<1> QED
  BY <1>3, <1>4 DEF SizeIsBytes

\* Every step keeps the size.
LEMMA NextSize ==
    ASSUME IInv, SizeIsBytes, [Next]_vars
    PROVE  SizeIsBytes'
<1>0. /\ logs \in Seq(Logs) /\ batch \in Seq(Logs) /\ Len(logs) \in Nat
      /\ Len(batch) \in Nat /\ writes \in 0..MaxWrites
  BY LenProperties DEF IInv, Shapes
<1>1. CASE \E len \in WriteLens : WritePurges(len)
  <2>1. deleteLogs(Len(logs)) /\ Len(logs) <= Len(logs)
    BY <1>0, <1>1 DEF WritePurges
  <2> QED
    BY <1>0, <2>1, DeleteKeepsSize
<1>2. CASE \E len \in WriteLens : WriteAppends(len)
  <2>1. PICK len \in WriteLens : WriteAppends(len)
    BY <1>2
  <2> DEFINE l == [id |-> writes + 1, len |-> len]
  <2>2. l \in Logs /\ l.len = len
    BY <1>0, <2>1, BufferAssumption DEF WriteAppends, Logs
  <2>3. logs' = Append(logs, l) /\ size' = size + l.len
    BY <2>1 DEF WriteAppends
  <2> HIDE DEF l
  <2> QED
    BY <1>0, <2>2, <2>3, AppendKeepsSize
<1>3. CASE FinishDelete
  <2>1. deleteLogs(Len(batch)) /\ Len(batch) <= Len(logs)
    BY <1>0, <1>3 DEF FinishDelete, IInv, BatchAtHead
  <2> QED
    BY <1>0, <2>1, DeleteKeepsSize
<1>4. CASE UNCHANGED <<logs, size>>
  BY <1>4 DEF SizeIsBytes, Bytes
<1> QED
  BY <1>1, <1>2, <1>3, <1>4
     DEF Next, SendReturns, Write, WriteDropped, RunSend, RunReturns, SendFails, SendSucceeds,
         FinishPurged, Stop, DrainSend, DrainReturns, DrainWaits, vars

(***************************************************************************)
(* sb.size, which Write compares with the capacity (line 144), is at all   *)
(* times the number of bytes buffered, for every choice of the limits and  *)
(* every interleaving of writes, purges, sends and a Drain.                *)
(***************************************************************************)
THEOREM SendBufferSize == Spec => []SizeIsBytes
<1>1. Init => IInv /\ SizeIsBytes
  BY BytesOfNone, InitIInv DEF Init, SizeIsBytes
<1>2. IInv /\ SizeIsBytes /\ [Next]_vars => IInv' /\ SizeIsBytes'
  BY NextIInv, NextSize
<1> QED
  BY <1>1, <1>2, PTL DEF Spec

(***************************************************************************)
(* A send holds no more than maxSendSizeBytes (copyLogs, lines 378-399).   *)
(***************************************************************************)
SendFits == Bytes(batch) <= maxSendSizeBytes

\* The longer the head, the more bytes.
LEMMA HeadsGrow ==
    ASSUME logs \in Seq(Logs), NEW m \in Nat, NEW n \in Nat, m <= n, n <= Len(logs)
    PROVE  /\ Bytes(SubSeq(logs, 1, m)) <= Bytes(SubSeq(logs, 1, n))
           /\ Bytes(SubSeq(logs, 1, m)) \in Nat /\ Bytes(SubSeq(logs, 1, n)) \in Nat
<1> DEFINE s == SubSeq(logs, 1, n)
           p == SubSeq(logs, 1, m)
           q == SubSeq(s, m + 1, n)
<1>0. Len(logs) \in Nat
  BY LenProperties
<1>1. s \in Seq(Logs) /\ Len(s) = n /\ \A i \in 1..n : s[i] = logs[i]
  BY HeadOfLogs
<1>2. p \in Seq(Logs) /\ Len(p) = m /\ \A i \in 1..m : p[i] = logs[i]
  BY <1>0, HeadOfLogs
<1>3. /\ q \in Seq(Logs)
      /\ Len(q) = IF m + 1 <= n THEN n - (m + 1) + 1 ELSE 0
      /\ \A i \in 1..(n - (m + 1) + 1) : q[i] = s[m + 1 + i - 1]
  <2> HIDE DEF s, Logs
  <2>1. \A i \in (m + 1)..n : s[i] \in Logs
    BY <1>1, ElementOfSeq
  <2> QED
    BY <2>1, <1>1, SubSeqProperties
<1> HIDE DEF s, p, q, Logs
<1>4. Len(q) = n - m /\ \A i \in 1..Len(q) : q[i] = s[m + i]
  BY SMTT(30), <1>3
<1>5. /\ Len(s) = Len(p) + Len(q)
      /\ \A i \in 1..Len(p) : p[i] = s[i]
      /\ \A i \in 1..Len(q) : q[i] = s[Len(p) + i]
  BY <1>1, <1>2, <1>4
<1>6. Bytes(s) = Bytes(p) + Bytes(q)
  BY ZenonT(30), <1>1, <1>2, <1>3, <1>5, BytesSplit
<1>7. Bytes(s) \in Nat /\ Bytes(p) \in Nat /\ Bytes(q) \in Nat
  BY <1>1, <1>2, <1>3, LensType
<1> QED
  BY <1>6, <1>7 DEF s, p

\* What copyLogs counts is the largest head that fits.
LEMMA CopyFits ==
    ASSUME logs \in Seq(Logs), copyLogs # 0
    PROVE  Bytes(SubSeq(logs, 1, copyLogs)) <= maxSendSizeBytes
<1> DEFINE S == {n \in 1..Len(logs) : Bytes(SubSeq(logs, 1, n)) <= maxSendSizeBytes}
           U == {n \in Nat : n > 0 /\ n \notin S}
<1>1. Len(logs) \in Nat /\ maxSendSizeBytes \in Nat
  BY LenProperties, BufferAssumption
<1>2. PICK x \in U : \A y \in U : x <= y
  <2>1. Len(logs) + 1 \in U
    BY <1>1
  <2>2. U \subseteq Nat
    OBVIOUS
  <2> HIDE DEF U
  <2> QED
    BY ZenonT(30), <2>1, <2>2, LeastOfSet
<1>3. \A n \in 1..(x - 1) : n \in S
  BY <1>2
<1>4. \A n \in S : n \in 1..(x - 1)
  <2> SUFFICES ASSUME NEW n \in S, n >= x PROVE FALSE
    BY <1>1, <1>2
  <2>1. x \in 1..Len(logs)
    BY <1>1, <1>2
  <2>2. Bytes(SubSeq(logs, 1, x)) <= Bytes(SubSeq(logs, 1, n))
        /\ Bytes(SubSeq(logs, 1, x)) \in Nat /\ Bytes(SubSeq(logs, 1, n)) \in Nat
    BY <1>1, <2>1, HeadsGrow
  <2>3. Bytes(SubSeq(logs, 1, n)) <= maxSendSizeBytes
    OBVIOUS
  <2>4. x \in S
    BY <1>1, <2>1, <2>2, <2>3
  <2> QED
    BY <1>2, <2>4
<1>5. S = 1..(x - 1)
  BY <1>3, <1>4
<1>6. copyLogs = x - 1
  <2>1. Cardinality(1..(x - 1)) = x - 1
    BY SMTT(30), <1>2, FS_Interval
  <2> QED
    BY ZenonT(30), <1>5, <2>1 DEF copyLogs
<1>7. copyLogs \in S
  BY SMTT(30), <1>1, <1>2, <1>3, <1>6
<1> QED
  BY <1>7

\* Each step keeps to the limit.
LEMMA NextFits ==
    ASSUME IInv, SendFits, [Next]_vars
    PROVE  SendFits'
<1>1. CASE \E c : BeginSend(c)
  <2>1. logs \in Seq(Logs) /\ copyLogs # 0 /\ batch' = SubSeq(logs, 1, copyLogs)
    BY <1>1 DEF IInv, Shapes, BeginSend, CannotSend
  <2>2. Bytes(SubSeq(logs, 1, copyLogs)) <= maxSendSizeBytes
    BY <2>1, CopyFits
  <2> QED
    BY <2>1, <2>2 DEF SendFits
<1>2. CASE EndSend
  BY <1>2, BytesOfNone, BufferAssumption DEF EndSend, SendFits
<1>3. CASE UNCHANGED batch
  BY <1>3 DEF SendFits, Bytes
<1> QED
  BY ZenonT(30), <1>1, <1>2, <1>3
     DEF Next, SendReturns, Write, WriteDropped, WritePurges, WriteAppends, RunSend, RunReturns,
         SendFails, SendSucceeds, FinishPurged, FinishDelete, Stop, DrainSend, DrainReturns,
         DrainWaits, vars

(***************************************************************************)
(* No send is larger than the limit, whatever lengths were written and     *)
(* however the sends interleave with the writes and with the Drain.        *)
(***************************************************************************)
THEOREM SendBufferSendFits == Spec => []SendFits
<1>1. Init => IInv /\ SendFits
  BY InitIInv, BytesOfNone, BufferAssumption DEF Init, SendFits
<1>2. IInv /\ SendFits /\ [Next]_vars => IInv' /\ SendFits'
  BY NextIInv, NextFits
<1> QED
  BY <1>1, <1>2, PTL DEF Spec

-----------------------------------------------------------------------------
(* The log shipper: what is shipped is identified.                          *)

ShipLogs == [n : Nat, tagged : BOOLEAN, late : BOOLEAN]

\* What one step of the rewriting adds is identified.
LEMMA RewriteTags ==
  ASSUME NEW acc, NEW l \in ShipLogs, acc.logs \in Seq(ShipLogs),
         \A i \in 1..Len(acc.logs) : acc.logs[i].tagged
  PROVE  /\ Rewrite(acc, l).logs \in Seq(ShipLogs)
         /\ \A i \in 1..Len(Rewrite(acc, l).logs) : Rewrite(acc, l).logs[i].tagged
<1> DEFINE t == [n |-> l.n, tagged |-> TRUE, late |-> l.late]
           s == acc.logs
<1>1. t \in ShipLogs /\ t.tagged
  BY DEF ShipLogs
<1>2. Rewrite(acc, l).logs = s \/ Rewrite(acc, l).logs = Append(s, t)
  BY DEF Rewrite
<1> HIDE DEF t, s
<1>3. s \in Seq(ShipLogs) /\ \A i \in 1..Len(s) : s[i].tagged
  BY DEF s
<1>4. /\ Append(s, t) \in Seq(ShipLogs) /\ Len(Append(s, t)) = Len(s) + 1
      /\ \A i \in 1..Len(s) : Append(s, t)[i] = s[i]
      /\ Append(s, t)[Len(s) + 1] = t
  BY <1>1, <1>3
<1>5. \A i \in 1..Len(Append(s, t)) : Append(s, t)[i].tagged
  BY <1>1, <1>3, <1>4
<1> QED
  BY SMTT(30), <1>2, <1>3, <1>4, <1>5

\* UpdateData leaves only logs that carry the identifiers, however many there were.
LEMMA RewrittenTagged ==
  ASSUME NEW s \in Seq(ShipLogs)
  PROVE  /\ Rewritten(s) \in Seq(ShipLogs)
         /\ \A i \in 1..Len(Rewritten(s)) : Rewritten(s)[i].tagged
<1> DEFINE start == [logs |-> <<>>, size |-> Total(s)]
           Solves(f, n) == f = [i \in 0..n |-> IF i = 0 THEN start ELSE Rewrite(f[i - 1], s[i])]
           upTo == CHOOSE f : f = [i \in 0..Len(s) |-> IF i = 0 THEN start
                                                       ELSE Rewrite(f[i - 1], s[i])]
           S == {n \in Nat : \E f : Solves(f, n)}
<1>1. Rewritten(s) = upTo[Len(s)].logs
  BY DEF Rewritten
<1>2. start.logs = <<>>
  OBVIOUS
<1> HIDE DEF start
<1>3. 0 \in S
  <2>1. Solves([i \in 0..0 |-> start], 0)
    OBVIOUS
  <2> QED
    BY ZenonT(30), <2>1
<1>4. ASSUME NEW n \in Nat, n \in S PROVE n + 1 \in S
  <2>1. PICK f : Solves(f, n)
    BY <1>4
  <2> DEFINE g == [i \in 0..(n + 1) |-> IF i <= n THEN f[i] ELSE Rewrite(f[n], s[n + 1])]
  <2>2. \A i \in 0..(n + 1) : g[i] = IF i = 0 THEN start ELSE Rewrite(g[i - 1], s[i])
    BY <2>1
  <2>3. Solves(g, n + 1)
    BY <2>2
  <2> HIDE DEF g, Solves
  <2> QED
    BY <2>3
<1>5. \E f : Solves(f, Len(s))
  <2>1. \A n \in Nat : n \in S
    <3> HIDE DEF S
    <3> QED
      BY <1>3, <1>4, InductionOverSet
  <2> QED
    BY <2>1
<1>6. Solves(upTo, Len(s))
  BY SMTT(30), <1>5
<1> HIDE DEF upTo
<1> DEFINE T == {n \in Nat : n <= Len(s) =>
                   /\ upTo[n].logs \in Seq(ShipLogs)
                   /\ \A i \in 1..Len(upTo[n].logs) : upTo[n].logs[i].tagged}
<1>7. 0 \in T
  <2>1. upTo[0] = start
    BY <1>6
  <2>2. upTo[0].logs = <<>> /\ <<>> \in Seq(ShipLogs) /\ Len(<<>>) = 0
    BY <1>2, <2>1
  <2>3. upTo[0].logs \in Seq(ShipLogs) /\ \A i \in 1..Len(upTo[0].logs) : FALSE
    BY <2>2
  <2> HIDE DEF Solves
  <2> QED
    BY <2>3
<1>8. ASSUME NEW n \in Nat, n \in T PROVE n + 1 \in T
  <2> SUFFICES ASSUME n + 1 <= Len(s)
               PROVE  /\ upTo[n + 1].logs \in Seq(ShipLogs)
                      /\ \A i \in 1..Len(upTo[n + 1].logs) : upTo[n + 1].logs[i].tagged
    OBVIOUS
  <2>1. upTo[n + 1] = Rewrite(upTo[n], s[n + 1])
    BY <1>6
  <2>2. s[n + 1] \in ShipLogs
    BY ElementOfSeq
  <2>3. /\ upTo[n].logs \in Seq(ShipLogs)
        /\ \A i \in 1..Len(upTo[n].logs) : upTo[n].logs[i].tagged
    BY <1>8
  <2> QED
    BY SMTT(30), <2>1, <2>2, <2>3, RewriteTags
<1>9. \A n \in Nat : n \in T
  <2> HIDE DEF T
  <2> QED
    BY <1>7, <1>8, InductionOverSet
<1> QED
  BY <1>1, <1>9

-----------------------------------------------------------------------------
ShipFields ==
  ship = [known |-> ship.known, tags |-> ship.tags, pings |-> ship.pings, ping |-> ship.ping,
          overlapped |-> ship.overlapped, isShippingStarted |-> ship.isShippingStarted,
          startShippingChan |-> ship.startShippingChan, run |-> ship.run,
          stopFunc |-> ship.stopFunc, stop |-> ship.stop, endpoint |-> ship.endpoint,
          writer |-> ship.writer, logs |-> ship.logs, buffer |-> ship.buffer,
          batch |-> ship.batch, sending |-> ship.sending,
          logsJustPurged |-> ship.logsJustPurged, panicked |-> ship.panicked,
          shipped |-> ship.shipped, lost |-> ship.lost]

ShipTypes ==
  /\ ship.tags \in BOOLEAN /\ ship.overlapped \in BOOLEAN /\ ship.isShippingStarted \in BOOLEAN
  /\ ship.startShippingChan \in BOOLEAN /\ ship.sending \in BOOLEAN
  /\ ship.logsJustPurged \in BOOLEAN /\ ship.panicked \in BOOLEAN
  /\ ship.ping \in [Pingers -> {"idle", "update", "swap"}]
  /\ ship.writer.tagged \in BOOLEAN /\ ship.logs \in Nat
  /\ ship.buffer \in Seq(ShipLogs) /\ ship.batch \in Seq(ShipLogs)

\* Nothing is shipped before isShippingStarted is set, and the identifiers are known
\* to the loggers before any Ping that has them goes on.
Started ==
  /\ ship.startShippingChan \/ ship.run # "waiting" => ship.isShippingStarted
  /\ ship.sending => ship.isShippingStarted
  /\ ship.isShippingStarted => ship.tags
  /\ \A t \in Pingers : ship.ping[t] # "idle" => ship.tags

\* Pings that do not overlap: one at a time until isShippingStarted is set, and no
\* rewriting after that.
OnePing ==
  \A t \in Pingers :
    /\ ship.ping[t] = "update" => ~ship.isShippingStarted
    /\ ship.ping[t] # "idle" /\ ~ship.isShippingStarted
         => \A u \in Pingers \ {t} : ship.ping[u] = "idle"

Identified(l) == l.tagged \/ l.late

\* Then what is buffered is identified once it has been rewritten, and what is being
\* sent is identified and, unless purged, is what the buffer begins with.
BufferIdentified ==
  ship.isShippingStarted \/ (\E t \in Pingers : ship.ping[t] = "swap")
    => \A i \in 1..Len(ship.buffer) : Identified(ship.buffer[i])
ShipBatchIsHead ==
  ship.sending =>
    /\ \A i \in 1..Len(ship.batch) : Identified(ship.batch[i])
    /\ ~ship.logsJustPurged =>
         /\ Len(ship.batch) <= Len(ship.buffer)
         /\ \A i \in 1..Len(ship.batch) : ship.batch[i] = ship.buffer[i]

ShipInv ==
  /\ ShipFields /\ ShipTypes /\ Started
  /\ ~ship.overlapped => /\ OnePing /\ BufferIdentified /\ ShipBatchIsHead
                         /\ IdentifiedBeforeShipping

\* Initially nothing is buffered and no Ping has run.
LEMMA ShipInitial == LogShipperInit => ShipInv
<1> SUFFICES ASSUME LogShipperInit PROVE ShipInv
  OBVIOUS
<1>1. /\ ShipFields /\ ship.tags = FALSE /\ ship.overlapped = FALSE
      /\ ship.isShippingStarted = FALSE /\ ship.startShippingChan = FALSE
      /\ ship.sending = FALSE /\ ship.logsJustPurged = FALSE /\ ship.panicked = FALSE
      /\ ship.ping = [t \in Pingers |-> "idle"] /\ ship.run = "waiting"
      /\ ship.writer = Idle /\ ship.logs = 0 /\ ship.buffer = <<>> /\ ship.batch = <<>>
      /\ ship.shipped = {} /\ ship.lost = {}
  BY DEF LogShipperInit, ShipFields
<1>2. ShipTypes
  <2>1. <<>> \in Seq(ShipLogs) /\ Idle.tagged = FALSE
    BY DEF Idle
  <2>2. /\ ship.writer.tagged \in BOOLEAN /\ ship.logs \in Nat
        /\ ship.buffer \in Seq(ShipLogs) /\ ship.batch \in Seq(ShipLogs)
    <3>1. 0 \in Nat /\ FALSE \in BOOLEAN
      OBVIOUS
    <3> QED
      BY <1>1, <2>1, <3>1, Zenon
  <2>3. ship.ping \in [Pingers -> {"idle", "update", "swap"}]
    BY <1>1
  <2>4. /\ ship.tags \in BOOLEAN /\ ship.overlapped \in BOOLEAN
        /\ ship.isShippingStarted \in BOOLEAN /\ ship.startShippingChan \in BOOLEAN
        /\ ship.sending \in BOOLEAN /\ ship.logsJustPurged \in BOOLEAN
        /\ ship.panicked \in BOOLEAN
    BY ZenonT(30), <1>1
  <2> QED
    BY <2>2, <2>3, <2>4 DEF ShipTypes
<1>3. Started /\ OnePing /\ BufferIdentified /\ ShipBatchIsHead /\ IdentifiedBeforeShipping
  BY SMTT(30), <1>1 DEF Started, OnePing, BufferIdentified, ShipBatchIsHead, IdentifiedBeforeShipping
<1> QED
  BY SMTT(30), <1>1, <1>2, <1>3 DEF ShipInv

\* A Ping that does not overlap another rewrites before it starts the shipping.
LEMMA PingStep ==
  ASSUME ShipInv, NEW t \in Pingers, Ping(t)
  PROVE  ShipInv'
<1>0. ShipFields /\ ShipTypes /\ Started
  BY DEF ShipInv
<1> DEFINE at == IF ~Ready THEN "idle" ELSE IF ship.isShippingStarted THEN "swap" ELSE "update"
<1>1. ship' = [ship EXCEPT !.pings = @ + 1, !.endpoint = ship.known.token /\ ship.known.url,
                           !.tags = @ \/ Ready, !.overlapped = @ \/ Overlaps, !.ping[t] = at]
  BY DEF Ping
<1>2. /\ ShipFields' /\ ship'.tags = (ship.tags \/ Ready)
      /\ ship'.overlapped = (ship.overlapped \/ Overlaps)
      /\ ship'.ping = [ship.ping EXCEPT ![t] = at]
      /\ ship'.isShippingStarted = ship.isShippingStarted
      /\ ship'.startShippingChan = ship.startShippingChan /\ ship'.run = ship.run
      /\ ship'.writer = ship.writer /\ ship'.logs = ship.logs /\ ship'.buffer = ship.buffer
      /\ ship'.batch = ship.batch /\ ship'.sending = ship.sending
      /\ ship'.logsJustPurged = ship.logsJustPurged /\ ship'.panicked = ship.panicked
      /\ ship'.shipped = ship.shipped /\ ship'.lost = ship.lost
  <2> HIDE DEF at, Ready, Overlaps
  <2> QED BY ZenonT(30), <1>0, <1>1 DEF ShipFields
<1>3. ship.ping[t] = "idle"
  BY DEF Ping
<1>4. ShipTypes'
  BY <1>0, <1>2 DEF ShipTypes, Ready, Overlaps
<1>5. Started'
  BY ZenonT(30), <1>0, <1>2 DEF ShipTypes, Started
<1>6. ASSUME ~ship'.overlapped
      PROVE  OnePing' /\ BufferIdentified' /\ ShipBatchIsHead' /\ IdentifiedBeforeShipping'
  <2>1. ~ship.overlapped /\ ~Overlaps
    BY ZenonT(30), <1>0, <1>2, <1>6 DEF ShipTypes
  <2>2. OnePing /\ BufferIdentified /\ ShipBatchIsHead /\ IdentifiedBeforeShipping
    BY SMTT(30), <2>1 DEF ShipInv
  <2>3. OnePing'
    BY SMTT(30), <1>0, <1>2, <1>3, <2>1, <2>2 DEF ShipTypes, OnePing, Overlaps
  <2>4. BufferIdentified' /\ ShipBatchIsHead'
    BY <1>0, <1>2, <1>3, <2>2 DEF ShipTypes, BufferIdentified, ShipBatchIsHead
  <2>5. IdentifiedBeforeShipping'
    BY SMTT(30), <1>2, <2>2 DEF IdentifiedBeforeShipping
  <2> QED
    BY <2>3, <2>4, <2>5
<1> QED
  BY <1>2, <1>4, <1>5, <1>6 DEF ShipInv

\* The buffer is rewritten while nothing is being sent.
LEMMA UpdateDataStep ==
  ASSUME ShipInv, NEW t \in Pingers, UpdateData(t)
  PROVE  ShipInv'
<1>0. ShipFields /\ ShipTypes /\ Started
  BY DEF ShipInv
<1>1. ship.ping[t] = "update" /\ ship' = [ship EXCEPT !.ping[t] = "swap", !.buffer = Rewritten(@)]
  BY DEF UpdateData
<1>2. /\ ShipFields' /\ ship'.tags = ship.tags /\ ship'.overlapped = ship.overlapped
      /\ ship'.ping = [ship.ping EXCEPT ![t] = "swap"]
      /\ ship'.isShippingStarted = ship.isShippingStarted
      /\ ship'.startShippingChan = ship.startShippingChan /\ ship'.run = ship.run
      /\ ship'.writer = ship.writer /\ ship'.logs = ship.logs
      /\ ship'.buffer = Rewritten(ship.buffer)
      /\ ship'.batch = ship.batch /\ ship'.sending = ship.sending
      /\ ship'.logsJustPurged = ship.logsJustPurged /\ ship'.panicked = ship.panicked
      /\ ship'.shipped = ship.shipped /\ ship'.lost = ship.lost
  BY ZenonT(30), <1>0, <1>1 DEF ShipFields
<1>3. /\ Rewritten(ship.buffer) \in Seq(ShipLogs)
      /\ \A i \in 1..Len(Rewritten(ship.buffer)) : Rewritten(ship.buffer)[i].tagged
  BY <1>0, RewrittenTagged DEF ShipTypes
<1>4. ShipTypes'
  BY <1>0, <1>2, <1>3 DEF ShipTypes
<1>5. Started'
  BY SMTT(30), <1>0, <1>1, <1>2 DEF ShipTypes, Started
<1>6. ASSUME ~ship'.overlapped
      PROVE  OnePing' /\ BufferIdentified' /\ ShipBatchIsHead' /\ IdentifiedBeforeShipping'
  <2>1. OnePing /\ BufferIdentified /\ ShipBatchIsHead /\ IdentifiedBeforeShipping
    BY <1>2, <1>6 DEF ShipInv
  <2>2. ~ship.isShippingStarted /\ ~ship.sending
    BY <1>0, <1>1, <2>1 DEF OnePing, Started
  <2>3. OnePing'
    BY SMTT(30), <1>0, <1>1, <1>2, <2>1 DEF ShipTypes, OnePing
  <2>4. BufferIdentified' /\ ShipBatchIsHead'
    BY <1>2, <1>3, <2>2 DEF BufferIdentified, ShipBatchIsHead, Identified
  <2>5. IdentifiedBeforeShipping'
    BY SMTT(30), <1>2, <2>1 DEF IdentifiedBeforeShipping
  <2> QED
    BY <2>3, <2>4, <2>5
<1> QED
  BY <1>2, <1>4, <1>5, <1>6 DEF ShipInv

\* The Swap finds the buffer rewritten.
LEMMA PingStartsStep ==
  ASSUME ShipInv, NEW t \in Pingers, PingStarts(t)
  PROVE  ShipInv'
<1>0. ShipFields /\ ShipTypes /\ Started
  BY DEF ShipInv
<1>1. /\ ship.ping[t] = "swap"
      /\ ship' = [ship EXCEPT !.ping[t] = "idle", !.isShippingStarted = TRUE,
                              !.startShippingChan = @ \/ ~ship.isShippingStarted]
  BY DEF PingStarts
<1>2. /\ ShipFields' /\ ship'.tags = ship.tags /\ ship'.overlapped = ship.overlapped
      /\ ship'.ping = [ship.ping EXCEPT ![t] = "idle"]
      /\ ship'.isShippingStarted = TRUE
      /\ ship'.startShippingChan = (ship.startShippingChan \/ ~ship.isShippingStarted)
      /\ ship'.run = ship.run
      /\ ship'.writer = ship.writer /\ ship'.logs = ship.logs /\ ship'.buffer = ship.buffer
      /\ ship'.batch = ship.batch /\ ship'.sending = ship.sending
      /\ ship'.logsJustPurged = ship.logsJustPurged /\ ship'.panicked = ship.panicked
      /\ ship'.shipped = ship.shipped /\ ship'.lost = ship.lost
  BY ZenonT(30), <1>0, <1>1 DEF ShipFields
<1>4. ShipTypes'
  BY ZenonT(30), <1>0, <1>2 DEF ShipTypes
<1>5. Started'
  BY SMTT(30), <1>0, <1>1, <1>2 DEF ShipTypes, Started
<1>6. ASSUME ~ship'.overlapped
      PROVE  OnePing' /\ BufferIdentified' /\ ShipBatchIsHead' /\ IdentifiedBeforeShipping'
  <2>1. OnePing /\ BufferIdentified /\ ShipBatchIsHead /\ IdentifiedBeforeShipping
    BY <1>2, <1>6 DEF ShipInv
  <2>3. OnePing'
    BY <1>0, <1>1, <1>2, <2>1 DEF ShipTypes, OnePing
  <2>4. BufferIdentified' /\ ShipBatchIsHead'
    BY <1>1, <1>2, <2>1 DEF BufferIdentified, ShipBatchIsHead
  <2>5. IdentifiedBeforeShipping'
    BY <1>2, <2>1 DEF IdentifiedBeforeShipping
  <2> QED
    BY <2>3, <2>4, <2>5
<1> QED
  BY <1>2, <1>4, <1>5, <1>6 DEF ShipInv

\* Steps that touch neither the Pings nor the logs: what a Ping looks for is provided, Run
\* goes on, Stop is called, a handler begins.
LEMMA ShipElsewhere ==
  ASSUME ShipInv, ShipFields', ship'.tags = ship.tags, ship'.overlapped = ship.overlapped,
         ship'.ping = ship.ping, ship'.isShippingStarted = ship.isShippingStarted,
         ship'.startShippingChan \in BOOLEAN,
         ship'.startShippingChan \/ ship'.run # "waiting" => ship.isShippingStarted,
         ship'.writer.tagged \in BOOLEAN, ship'.logs \in Nat, ship'.buffer = ship.buffer,
         ship'.batch = ship.batch, ship'.sending = ship.sending,
         ship'.logsJustPurged = ship.logsJustPurged, ship'.panicked = ship.panicked,
         ship'.shipped = ship.shipped, ship'.lost = ship.lost
  PROVE  ShipInv'
<1>1. ShipTypes'
  BY DEF ShipInv, ShipTypes
<1>2. Started'
  BY DEF ShipInv, ShipTypes, Started
<1>3. ASSUME ~ship.overlapped
      PROVE  OnePing' /\ BufferIdentified' /\ ShipBatchIsHead' /\ IdentifiedBeforeShipping'
  BY <1>3 DEF ShipInv, OnePing, BufferIdentified, ShipBatchIsHead, IdentifiedBeforeShipping
<1> QED
  BY <1>1, <1>2, <1>3 DEF ShipInv

\* Those steps preserve the invariant.
LEMMA ShipElsewhereSteps ==
  ASSUME ShipInv,
         \/ \E k \in {"token", "url", "ids"} : Provide(k)
         \/ ShipperRuns \/ StopShipper \/ HandlerAdds
  PROVE  ShipInv'
<1>0. ShipFields /\ ShipTypes /\ Started
  BY DEF ShipInv
<1>1. ASSUME NEW k \in {"token", "url", "ids"}, Provide(k) PROVE ShipInv'
  <2>1. ship' = [ship EXCEPT !.known = [ship.known EXCEPT ![k] = TRUE]]
    BY <1>1, <1>0 DEF Provide, ShipFields
  <2> QED
    BY ZenonT(30), <1>0, <2>1, ShipElsewhere DEF ShipFields, ShipTypes, Started
<1>2. CASE ShipperRuns
  <2>1. CASE /\ ship.run = "waiting" /\ ship.startShippingChan
             /\ ship' = [ship EXCEPT !.run = "starting", !.startShippingChan = FALSE]
    BY ZenonT(30), <1>0, <2>1, ShipElsewhere DEF ShipFields, ShipTypes, Started
  <2>2. CASE /\ ship.run = "starting"
             /\ ship' = [ship EXCEPT !.run = "shipping", !.stopFunc = TRUE]
    BY ZenonT(30), <1>0, <2>2, ShipElsewhere DEF ShipFields, ShipTypes, Started
  <2>3. CASE /\ ship.run = "shipping" /\ ship.stop = "cancelled" /\ ~ship.sending
             /\ ship' = [ship EXCEPT !.run = "returned"]
    BY <1>0, <2>3, ShipElsewhere DEF ShipFields, ShipTypes, Started
  <2> QED
    BY <1>2, <2>1, <2>2, <2>3 DEF ShipperRuns
<1>3. CASE StopShipper
  BY SMTT(30), <1>0, <1>3, ShipElsewhere DEF ShipFields, ShipTypes, Started, StopShipper
<1>4. CASE HandlerAdds
  <2> DEFINE w == [at |-> "write", tagged |-> ship.tags]
  <2>1. ship' = [ship EXCEPT !.writer = w, !.logs = @ + 1]
    BY <1>4 DEF HandlerAdds
  <2>2. w.tagged = ship.tags
    OBVIOUS
  <2> HIDE DEF w
  <2>3. /\ ShipFields' /\ ship'.tags = ship.tags /\ ship'.overlapped = ship.overlapped
        /\ ship'.ping = ship.ping /\ ship'.isShippingStarted = ship.isShippingStarted
        /\ ship'.startShippingChan = ship.startShippingChan /\ ship'.run = ship.run
        /\ ship'.writer = w /\ ship'.logs = ship.logs + 1 /\ ship'.buffer = ship.buffer
        /\ ship'.batch = ship.batch /\ ship'.sending = ship.sending
        /\ ship'.logsJustPurged = ship.logsJustPurged /\ ship'.panicked = ship.panicked
        /\ ship'.shipped = ship.shipped /\ ship'.lost = ship.lost
    BY ZenonT(30), <1>0, <2>1 DEF ShipFields
  <2> QED
    BY <1>0, <2>2, <2>3, ShipElsewhere DEF ShipTypes, Started
<1> QED
  BY <1>1, <1>2, <1>3, <1>4

\* A log is appended with the identifiers, or its handler was late; or the buffer is purged.
LEMMA HandlerWritesStep ==
  ASSUME ShipInv, HandlerWrites
  PROVE  ShipInv'
<1>0. ShipFields /\ ShipTypes /\ Started
  BY DEF ShipInv
<1> DEFINE l == [n |-> ship.logs, tagged |-> ship.writer.tagged,
                 late |-> ship.tags /\ ~ship.writer.tagged]
           s == ship.buffer
<1>1. l \in ShipLogs /\ (ship.tags => Identified(l))
  BY <1>0 DEF ShipLogs, ShipTypes, Identified
<1>2. \/ ship' = [ship EXCEPT !.writer = Idle, !.buffer = <<>>, !.logsJustPurged = TRUE]
      \/ ship' = [ship EXCEPT !.writer = Idle, !.buffer = Append(s, l)]
  BY DEF HandlerWrites
<1>3. s \in Seq(ShipLogs) /\ <<>> \in Seq(ShipLogs) /\ Idle.tagged = FALSE /\ s = ship.buffer
  BY <1>0 DEF ShipTypes, Idle
<1> HIDE DEF l, s
<1>4. /\ ShipFields' /\ ship'.tags = ship.tags /\ ship'.overlapped = ship.overlapped
      /\ ship'.ping = ship.ping
      /\ ship'.isShippingStarted = ship.isShippingStarted
      /\ ship'.startShippingChan = ship.startShippingChan /\ ship'.run = ship.run
      /\ ship'.writer = Idle /\ ship'.logs = ship.logs
      /\ \/ ship'.buffer = <<>> /\ ship'.logsJustPurged = TRUE
         \/ ship'.buffer = Append(s, l) /\ ship'.logsJustPurged = ship.logsJustPurged
      /\ ship'.batch = ship.batch /\ ship'.sending = ship.sending
      /\ ship'.panicked = ship.panicked
      /\ ship'.shipped = ship.shipped /\ ship'.lost = ship.lost
  BY ZenonT(30), <1>0, <1>2 DEF ShipFields
<1>5. /\ Append(s, l) \in Seq(ShipLogs) /\ Len(Append(s, l)) = Len(s) + 1
      /\ \A i \in 1..Len(s) : Append(s, l)[i] = s[i]
      /\ Append(s, l)[Len(s) + 1] = l
  BY <1>1, <1>3
<1>6. ShipTypes'
  <2>1. ship'.buffer \in Seq(ShipLogs) /\ ship'.logsJustPurged \in BOOLEAN
    BY ZenonT(30), <1>0, <1>3, <1>4, <1>5 DEF ShipTypes
  <2>2. ship'.writer.tagged \in BOOLEAN
    BY ZenonT(30), <1>3, <1>4
  <2> QED
    BY <1>0, <1>4, <2>1, <2>2 DEF ShipTypes
<1>7. Started'
  BY <1>0, <1>4 DEF Started
<1>8. ASSUME ~ship'.overlapped
      PROVE  OnePing' /\ BufferIdentified' /\ ShipBatchIsHead' /\ IdentifiedBeforeShipping'
  <2>1. OnePing /\ BufferIdentified /\ ShipBatchIsHead /\ IdentifiedBeforeShipping
    BY <1>4, <1>8 DEF ShipInv
  <2>2. OnePing' /\ IdentifiedBeforeShipping'
    BY <1>4, <2>1 DEF OnePing, IdentifiedBeforeShipping
  <2>3. BufferIdentified'
    <3> SUFFICES ASSUME ship.isShippingStarted \/ (\E t \in Pingers : ship.ping[t] = "swap")
                 PROVE  \A i \in 1..Len(ship'.buffer) : Identified(ship'.buffer[i])
      BY <1>4 DEF BufferIdentified, Identified
    <3>1. ship.tags /\ \A i \in 1..Len(s) : Identified(s[i])
      BY <1>0, <1>3, <2>1 DEF Started, BufferIdentified
    <3>2. Identified(l)
      BY <1>1, <3>1
    <3>3. \A i \in 1..Len(Append(s, l)) : Identified(Append(s, l)[i])
      BY SMTT(30), <1>3, <1>5, <3>1, <3>2
    <3> QED
      BY <1>4, <3>3
  <2>4. ShipBatchIsHead'
    <3> SUFFICES ASSUME ship.sending
                 PROVE  /\ \A i \in 1..Len(ship.batch) : Identified(ship.batch[i])
                        /\ ~ship'.logsJustPurged =>
                             /\ Len(ship.batch) <= Len(ship'.buffer)
                             /\ \A i \in 1..Len(ship.batch) : ship.batch[i] = ship'.buffer[i]
      BY <1>4 DEF ShipBatchIsHead, Identified
    <3>1. ship.batch \in Seq(ShipLogs)
      BY <1>0 DEF ShipTypes
    <3> QED
      BY SMTT(30), <1>3, <1>4, <1>5, <2>1, <3>1 DEF ShipBatchIsHead
  <2> QED
    BY <2>2, <2>3, <2>4
<1> QED
  BY <1>4, <1>6, <1>7, <1>8 DEF ShipInv

\* The batch is a copy of the buffer.
LEMMA SendsBatchStep ==
  ASSUME ShipInv, SendsBatch
  PROVE  ShipInv'
<1>0. ShipFields /\ ShipTypes /\ Started
  BY DEF ShipInv
<1>1. ship' = [ship EXCEPT !.sending = TRUE, !.batch = ship.buffer]
  BY DEF SendsBatch
<1>2. /\ ShipFields' /\ ship'.tags = ship.tags /\ ship'.overlapped = ship.overlapped
      /\ ship'.ping = ship.ping
      /\ ship'.isShippingStarted = ship.isShippingStarted
      /\ ship'.startShippingChan = ship.startShippingChan /\ ship'.run = ship.run
      /\ ship'.writer = ship.writer /\ ship'.logs = ship.logs /\ ship'.buffer = ship.buffer
      /\ ship'.batch = ship.buffer /\ ship'.sending = TRUE
      /\ ship'.logsJustPurged = ship.logsJustPurged /\ ship'.panicked = ship.panicked
      /\ ship'.shipped = ship.shipped /\ ship'.lost = ship.lost
  BY ZenonT(30), <1>0, <1>1 DEF ShipFields
<1>3. ship.isShippingStarted
  BY <1>0 DEF Started, SendsBatch
<1>4. ShipTypes'
  BY ZenonT(30), <1>0, <1>2 DEF ShipTypes
<1>5. Started'
  BY <1>0, <1>2, <1>3 DEF Started
<1>6. ASSUME ~ship'.overlapped
      PROVE  OnePing' /\ BufferIdentified' /\ ShipBatchIsHead' /\ IdentifiedBeforeShipping'
  <2>1. OnePing /\ BufferIdentified /\ ShipBatchIsHead /\ IdentifiedBeforeShipping
    BY SMTT(30), <1>2, <1>6 DEF ShipInv
  <2>2. OnePing' /\ BufferIdentified' /\ IdentifiedBeforeShipping'
    BY <1>2, <2>1 DEF OnePing, BufferIdentified, IdentifiedBeforeShipping
  <2>3. ShipBatchIsHead'
    <3>1. \A i \in 1..Len(ship.buffer) : Identified(ship.buffer[i])
      BY <1>3, <2>1 DEF BufferIdentified
    <3>2. Len(ship.buffer) \in Nat
      BY <1>0 DEF ShipTypes
    <3> QED
      BY <1>2, <3>1, <3>2 DEF ShipBatchIsHead, Identified
  <2> QED
    BY <2>2, <2>3
<1> QED
  BY <1>2, <1>4, <1>5, <1>6 DEF ShipInv

\* A send that fails deletes nothing.
LEMMA SendFailsOnceStep ==
  ASSUME ShipInv, SendFailsOnce
  PROVE  ShipInv'
<1>0. ShipFields /\ ShipTypes /\ Started
  BY DEF ShipInv
<1>1. ship' = [ship EXCEPT !.sending = FALSE, !.batch = <<>>]
  BY DEF SendFailsOnce
<1>2. /\ ShipFields' /\ ship'.tags = ship.tags /\ ship'.overlapped = ship.overlapped
      /\ ship'.ping = ship.ping
      /\ ship'.isShippingStarted = ship.isShippingStarted
      /\ ship'.startShippingChan = ship.startShippingChan /\ ship'.run = ship.run
      /\ ship'.writer = ship.writer /\ ship'.logs = ship.logs /\ ship'.buffer = ship.buffer
      /\ ship'.batch = <<>> /\ ship'.sending = FALSE
      /\ ship'.logsJustPurged = ship.logsJustPurged /\ ship'.panicked = ship.panicked
      /\ ship'.shipped = ship.shipped /\ ship'.lost = ship.lost
  BY ZenonT(30), <1>0, <1>1 DEF ShipFields
<1>4. ShipTypes'
  <2>1. <<>> \in Seq(ShipLogs)
    OBVIOUS
  <2>2. ship'.batch \in Seq(ShipLogs)
    BY <1>2, <2>1, Zenon
  <2> QED
    BY ZenonT(30), <1>0, <1>2, <2>2 DEF ShipTypes
<1>5. Started'
  BY SMTT(30), <1>0, <1>2 DEF Started
<1>6. ASSUME ~ship'.overlapped
      PROVE  OnePing' /\ BufferIdentified' /\ ShipBatchIsHead' /\ IdentifiedBeforeShipping'
  <2>1. OnePing /\ BufferIdentified /\ ShipBatchIsHead /\ IdentifiedBeforeShipping
    BY <1>2, <1>6 DEF ShipInv
  <2> QED
    BY <1>2, <2>1 DEF OnePing, BufferIdentified, ShipBatchIsHead, IdentifiedBeforeShipping
<1> QED
  BY <1>2, <1>4, <1>5, <1>6 DEF ShipInv

\* The logs at the positions of a head are among those of the whole.
LEMMA HeadElements ==
  ASSUME NEW s \in Seq(ShipLogs), NEW b \in Seq(ShipLogs), Len(b) <= Len(s),
         \A i \in 1..Len(b) : b[i] = s[i]
  PROVE  SubSeq(s, 1, Len(b)) = b
<1>1. SubSeq(s, 1, Len(b)) = [i \in 1..Len(b) |-> s[i]]
  OBVIOUS
<1> QED
  BY <1>1

\* The batch was sent: exactly its logs are deleted, unless the buffer was purged since.
LEMMA BatchSentStep ==
  ASSUME ShipInv, BatchSent
  PROVE  ShipInv'
<1>0. ShipFields /\ ShipTypes /\ Started /\ ship.sending
  BY DEF ShipInv, BatchSent
<1> DEFINE n == IF ship.logsJustPurged THEN 0 ELSE Len(ship.batch)
           s == ship.buffer
           deleted == IF n > Len(s) THEN <<>> ELSE SubSeq(s, 1, n)
           rest == SubSeq(s, Len(deleted) + 1, Len(s))
           panics == n > Len(s)
           all == ship.shipped \cup Elements(ship.batch)
           lostNow == ship.lost \cup ({x.n : x \in Elements(deleted)}
                                    \ {x.n : x \in Elements(ship.batch)})
<1>1. ship' = [ship EXCEPT !.sending = FALSE, !.batch = <<>>, !.logsJustPurged = FALSE,
                 !.buffer = rest, !.shipped = all, !.panicked = panics, !.lost = lostNow]
  BY DEF BatchSent
<1>2. s \in Seq(ShipLogs) /\ ship.batch \in Seq(ShipLogs) /\ n \in Nat /\ Len(s) \in Nat
  BY <1>0 DEF ShipTypes
<1>3. /\ deleted \in Seq(ShipLogs) /\ Len(deleted) \in Nat /\ Len(deleted) <= Len(s)
      /\ rest \in Seq(ShipLogs) /\ Len(rest) = Len(s) - Len(deleted)
      /\ \A i \in 1..Len(rest) : rest[i] = s[Len(deleted) + i]
  <2>1. deleted \in Seq(ShipLogs) /\ Len(deleted) \in Nat /\ Len(deleted) <= Len(s)
    <3> HIDE DEF n, s
    <3>1. CASE n > Len(s)
      BY <1>2, <3>1
    <3>2. CASE ~(n > Len(s))
      BY <1>2, <3>2
    <3> QED
      BY <3>1, <3>2
  <2> HIDE DEF deleted, s
  <2> QED
    BY <1>2, <2>1
<1>4. ASSUME ~ship.overlapped
      PROVE  /\ panics = FALSE /\ lostNow = {}
             /\ \A x \in all : Identified(x)
  <2>1. ShipBatchIsHead /\ IdentifiedBeforeShipping
    BY <1>4 DEF ShipInv
  <2>2. ~(n > Len(s))
    BY <1>0, <1>2, <2>1 DEF ShipBatchIsHead, ShipTypes
  <2>3. Elements(deleted) \subseteq Elements(ship.batch)
    <3>1. CASE ship.logsJustPurged
      <4>1. deleted = SubSeq(s, 1, 0)
        BY <2>2, <3>1
      <4>2. Len(deleted) = 0 /\ DOMAIN deleted = {}
        BY <1>2, <4>1
      <4> QED
        BY <4>2 DEF Elements
    <3>2. CASE ~ship.logsJustPurged
      <4>1. deleted = SubSeq(s, 1, Len(ship.batch))
        BY <2>2, <3>2
      <4>2. deleted = ship.batch
        BY ZenonT(30), <1>0, <1>2, <2>1, <3>2, <4>1, HeadElements DEF ShipBatchIsHead
      <4> QED
        BY <4>2
    <3> QED
      BY <3>1, <3>2
  <2>4. ship.lost = {} /\ \A x \in ship.shipped : Identified(x)
    BY <2>1 DEF IdentifiedBeforeShipping, Identified
  <2>5. \A x \in Elements(ship.batch) : Identified(x)
    BY <1>0, <1>2, <2>1 DEF ShipBatchIsHead, Elements
  <2> HIDE DEF deleted, n, s
  <2> QED
    BY <2>2, <2>3, <2>4, <2>5
<1> HIDE DEF n, s, deleted, rest, panics, all, lostNow
<1>5. /\ ShipFields' /\ ship'.tags = ship.tags /\ ship'.overlapped = ship.overlapped
      /\ ship'.ping = ship.ping
      /\ ship'.isShippingStarted = ship.isShippingStarted
      /\ ship'.startShippingChan = ship.startShippingChan /\ ship'.run = ship.run
      /\ ship'.writer = ship.writer /\ ship'.logs = ship.logs /\ ship'.buffer = rest
      /\ ship'.batch = <<>> /\ ship'.sending = FALSE
      /\ ship'.logsJustPurged = FALSE /\ ship'.panicked = panics
      /\ ship'.shipped = all /\ ship'.lost = lostNow
  BY ZenonT(30), <1>0, <1>1 DEF ShipFields
<1>6. ShipTypes'
  <2>1. <<>> \in Seq(ShipLogs) /\ panics \in BOOLEAN
    BY DEF panics
  <2>2. ship'.batch \in Seq(ShipLogs)
    BY <1>5, <2>1, Zenon
  <2> QED
    BY ZenonT(30), <1>0, <1>3, <1>5, <2>1, <2>2 DEF ShipTypes
<1>7. Started'
  BY <1>0, <1>5 DEF Started
<1>8. ASSUME ~ship'.overlapped
      PROVE  OnePing' /\ BufferIdentified' /\ ShipBatchIsHead' /\ IdentifiedBeforeShipping'
  <2>1. /\ ~ship.overlapped
        /\ OnePing /\ BufferIdentified
    BY SMTT(30), <1>5, <1>8 DEF ShipInv
  <2>2. OnePing' /\ ShipBatchIsHead'
    BY <1>5, <2>1 DEF OnePing, ShipBatchIsHead
  <2>3. BufferIdentified'
    <3>1. \A i \in 1..Len(s) : Identified(s[i])
      BY <1>0, <2>1 DEF BufferIdentified, Started, s
    <3>2. ASSUME NEW i \in 1..Len(rest)
          PROVE  Identified(rest[i])
      <4>1. Len(deleted) + i \in 1..Len(s)
        BY <1>2, <1>3
      <4>2. rest[i] = s[Len(deleted) + i]
        BY <1>3
      <4> QED
        BY ZenonT(30), <3>1, <4>1, <4>2
    <3> QED
      BY <1>5, <3>2 DEF BufferIdentified, Identified
  <2>4. IdentifiedBeforeShipping'
    BY ZenonT(30), <1>4, <1>5, <2>1 DEF IdentifiedBeforeShipping, Identified
  <2> QED
    BY <2>2, <2>3, <2>4
<1> QED
  BY <1>5, <1>6, <1>7, <1>8 DEF ShipInv

\* Every step preserves the invariant.
LEMMA ShipNext == ShipInv /\ [LogShipperNext]_ship => ShipInv'
<1> SUFFICES ASSUME ShipInv, [LogShipperNext]_ship PROVE ShipInv'
  BY SMTT(30)
<1>1. CASE UNCHANGED ship
  BY <1>1 DEF ShipInv, ShipFields, ShipTypes, Started, OnePing, BufferIdentified, ShipBatchIsHead,
              IdentifiedBeforeShipping
<1>2. CASE LogShipperNext
  BY SMTT(30), <1>2, PingStep, UpdateDataStep, PingStartsStep, ShipElsewhereSteps, HandlerWritesStep,
     SendsBatchStep, BatchSentStep, SendFailsOnceStep DEF LogShipperNext
<1> QED
  BY <1>1, <1>2

(***************************************************************************)
(* Unless a Ping began while another was between reading isShippingStarted   *)
(* and setting it, whatever is shipped carries the identifiers or was late,  *)
(* a send deletes what it sent, and deleting never panics: for any number    *)
(* of callers of Ping, of logs and of sends, and any size of the buffer.     *)
(***************************************************************************)
THEOREM ShipperIdentifies == LogShipperSpec => []IdentifiedUnlessPingsOverlap
<1>1. ShipInv => IdentifiedUnlessPingsOverlap
  BY DEF ShipInv, IdentifiedUnlessPingsOverlap
<1> QED
  BY ShipInitial, ShipNext, <1>1, PTL DEF LogShipperSpec

=============================================================================
