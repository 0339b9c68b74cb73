-------------------------- MODULE ExtensionProofs ---------------------------
(***************************************************************************)
(* The extension of osquery, for any number of goroutines and any logs:    *)
(* the enrollment that its requests need, and its stores of buffered       *)
(* logs, which implement the queue of LogQueue.                            *)
(***************************************************************************)
EXTENDS Enrollment, BufferedLogs, LogSequencesProofs, FiniteSetTheorems

-----------------------------------------------------------------------------
(* Enrollment: whoever has a key has its record.                            *)

EnTypeOK ==
  /\ pc \in [Threads -> Places]
  /\ save \in [Threads -> Nat \cup {None}]
  /\ back \in [Threads -> {"idle", "begin", "request"}]
  /\ issued \in Nat
  /\ nodeKey \in Nat \cup {None}
  /\ secret \in BOOLEAN
  /\ faults \in Nat

\* Whoever is about to store a key, or the record of one, has it.
SavesAKey ==
  \A t \in Threads :
    /\ pc[t] \in {"ensureRecord", "saveKey", "saveRecord"} => save[t] # None
    /\ t = LocalServer =>
         /\ pc[t] \in {"idle", "swap", "saveKey", "saveRecord", "done"} /\ back[t] = "idle"
         /\ pc[t] = "swap" => save[t] # None

\* Where a goroutine is that will look for the record, and store one.
Mends(t) ==
  pc[t] \in {"execute", "enroll", "ensure", "ensureRecord", "saveKey", "saveRecord", "deleteRecord"}

\* A key without a record is being mended.
BeingMended ==
  faults = 0 /\ secret /\ nodeKey # None /\ record = None => \E t \in Threads : Mends(t)

EnInv == EnTypeOK /\ SavesAKey /\ BeingMended

\* The invariant holds when launcher starts, with or without a key.
LEMMA EnInit == EnrollmentInit => EnInv
<1> SUFFICES ASSUME EnrollmentInit PROVE EnInv
  OBVIOUS
<1>1. EnTypeOK
  BY EnrollmentAssumption DEF EnrollmentInit, EnTypeOK, FirstPlace, FirstBack, Places
<1>2. SavesAKey
  BY EnrollmentAssumption DEF EnrollmentInit, SavesAKey, FirstPlace, FirstBack
<1>3. LogCaller \in Threads /\ pc[LogCaller] = "execute"
  BY EnrollmentAssumption DEF EnrollmentInit, FirstPlace, Threads
<1> QED
  BY <1>1, <1>2, <1>3 DEF EnInv, BeingMended, Mends

\* A goroutine whose helper or whose Enroll returns is in the middle of nothing.
LEMMA ReturnsKeeps ==
  ASSUME EnTypeOK, SavesAKey, NEW t \in Threads, Returns(t) \/ EnrollReturns(t)
  PROVE  /\ pc' \in [Threads -> Places] /\ save' \in [Threads -> Nat \cup {None}]
         /\ back' \in [Threads -> {"idle", "begin", "request"}]
         /\ SavesAKey'
         /\ \A u \in Threads \ {t} : pc'[u] = pc[u]
<1>1. CASE Returns(t)
  BY <1>1 DEF Returns, Goto, EnTypeOK, SavesAKey, Places
<1>2. CASE EnrollReturns(t) /\ back[t] = "idle"
  BY <1>1, <1>2 DEF EnrollReturns
<1>3. CASE EnrollReturns(t) /\ back[t] # "idle"
  BY <1>3 DEF EnrollReturns, Goto, EnTypeOK, SavesAKey, Places
<1> QED
  BY <1>1, <1>2, <1>3

\* The steps of the goroutines that enroll and save preserve it.
LEMMA EnThreadStep ==
  ASSUME EnInv, NEW t \in Threads, Step(t) \/ Begin(t) \/ RequestFails(t) \/ SaveFails(t)
  PROVE  EnInv'
<1> USE EnrollmentAssumption DEF EnInv, At, stores, bounds
<1>1. CASE Begin(t)
  BY SMTT(30), <1>1 DEF Begin, Goto, EnTypeOK, SavesAKey, BeingMended, Mends, Places
<1>2. CASE TakeKey(t)
  BY SMTT(30), <1>2 DEF TakeKey, Goto, EnTypeOK, SavesAKey, BeingMended, Mends, Places
<1>3. CASE RequireReenroll(t)
  BY SMTT(30), <1>3 DEF RequireReenroll, Goto, EnTypeOK, SavesAKey, BeingMended, Mends, Places
<1>4. CASE DeleteRecord(t)
  BY SMTT(30), <1>4 DEF DeleteRecord, Goto, EnTypeOK, SavesAKey, BeingMended, Mends, Places
<1>5. CASE EnrollFinds(t)
  BY SMTT(30), <1>5 DEF EnrollFinds, Goto, EnTypeOK, SavesAKey, BeingMended, Mends, Places
<1>6. CASE Enrolled(t)
  BY SMTT(30), <1>6 DEF Enrolled, Goto, EnTypeOK, SavesAKey, BeingMended, Mends, Places
<1>7. CASE SaveKey(t)
  BY SMTT(30), <1>7 DEF SaveKey, Goto, EnTypeOK, SavesAKey, BeingMended, Mends, Places
<1>8. CASE Answered(t)
  BY SMTT(30), <1>8, ReturnsKeeps DEF Answered, EnTypeOK, SavesAKey, BeingMended, Mends, Places
<1>9. CASE RequestFails(t)
  BY SMTT(30), <1>9, ReturnsKeeps DEF RequestFails, EnTypeOK, SavesAKey, BeingMended, Mends, Places
<1>10. CASE Rejected(t)
  BY SMTT(30), <1>10, ReturnsKeeps DEF Rejected, Goto, EnTypeOK, SavesAKey, BeingMended, Mends, Places
<1>11. CASE EnrollStarts(t)
  BY SMTT(30), <1>11, ReturnsKeeps DEF EnrollStarts, Goto, EnTypeOK, SavesAKey, BeingMended, Mends, Places
<1>12. CASE EnrollRefused(t)
  BY SMTT(30), <1>12, ReturnsKeeps DEF EnrollRefused, EnrollFails, EnTypeOK, SavesAKey, BeingMended, Mends, Places
<1>13. CASE WrongRegion(t)
  BY SMTT(30), <1>13, ReturnsKeeps DEF WrongRegion, EnrollFails, Goto, EnTypeOK, SavesAKey, BeingMended, Mends, Places
<1>14. CASE FlagsChanged(t)
  BY SMTT(30), <1>14, ReturnsKeeps DEF FlagsChanged, EnrollFails, Goto, EnTypeOK, SavesAKey, BeingMended, Mends, Places
<1>15. CASE SaveRecord(t)
  BY SMTT(30), <1>15, ReturnsKeeps DEF SaveRecord, EnTypeOK, SavesAKey, BeingMended, Mends, Places
<1>16. CASE SaveFails(t)
  BY SMTT(30), <1>16, ReturnsKeeps DEF SaveFails, EnTypeOK, SavesAKey, BeingMended, Mends, Places
<1>17. CASE EnsureReadsKey(t)
  BY SMTT(30), <1>17, ReturnsKeeps DEF EnsureReadsKey, Goto, EnTypeOK, SavesAKey, BeingMended, Mends, Places
<1>18. CASE EnsureReadsRecord(t)
  BY SMTT(30), <1>18, ReturnsKeeps DEF EnsureReadsRecord, Goto, EnTypeOK, SavesAKey, BeingMended, Mends, Places
<1> QED
  BY SMTT(30), <1>1, <1>2, <1>3, <1>4, <1>5, <1>6, <1>7, <1>8, <1>9, <1>10, <1>11, <1>12, <1>13, <1>14, <1>15, <1>16, <1>17, <1>18 DEF Step

\* So do those of the server, the local server, a restart and an uninstall.
LEMMA EnEnvironmentStep ==
  ASSUME EnInv,
         \/ Invalidate \/ ListenerStoresSecret \/ LocalServerEnrolls \/ Restart
         \/ \E t \in Threads : Uninstall(t)
  PROVE  EnInv'
<1> USE EnrollmentAssumption DEF At, stores, bounds, locals
<1>1. CASE Invalidate
  BY SMTT(30), <1>1 DEF Invalidate, EnInv, EnTypeOK, SavesAKey, BeingMended, Mends
<1>2. CASE ListenerStoresSecret
  BY SMTT(30), <1>2 DEF ListenerStoresSecret, EnInv, EnTypeOK, SavesAKey, BeingMended, Mends
<1>3. CASE LocalServerEnrolls
  BY SMTT(30), <1>3 DEF LocalServerEnrolls, Goto, Threads, EnInv, EnTypeOK, SavesAKey, BeingMended, Mends, Places
<1>4. CASE Restart
  <2>1. EnTypeOK' /\ SavesAKey'
    BY SMTT(30), <1>4 DEF Restart, EnInv, EnTypeOK, SavesAKey, FirstPlace, FirstBack, Places
  <2>2. LogCaller \in Threads /\ pc'[LogCaller] = "execute"
    BY <1>4 DEF Restart, FirstPlace, Threads
  <2> QED
    BY <2>1, <2>2 DEF EnInv, BeingMended, Mends
<1>5. CASE \E t \in Threads : Uninstall(t)
  <2>1. /\ pc' = [u \in Threads |-> "done"] /\ save' = [u \in Threads |-> None]
        /\ back' = [u \in Threads |-> "idle"]
        /\ nodeKey' = None /\ secret' = FALSE /\ UNCHANGED <<issued, faults>>
    BY <1>5 DEF Uninstall, FirstBack
  <2>2. EnTypeOK' /\ SavesAKey'
    BY ZenonT(30), <2>1 DEF EnInv, EnTypeOK, SavesAKey, Places
  <2> QED
    BY <2>1, <2>2 DEF EnInv, BeingMended
<1> QED
  BY SMTT(30), <1>1, <1>2, <1>3, <1>4, <1>5

(***************************************************************************)
(* For any number of goroutines, keys, restarts and requests: a node key    *)
(* has a record once no goroutine is at work and nothing failed to be       *)
(* written, whichever of them re-enroll at once (EnsureEnrollmentStored and *)
(* RequireReenroll, extension.go).                                          *)
(***************************************************************************)
THEOREM EnrollmentKeyHasRecord == EnrollmentSpec => []KeyHasRecord
<1>1. ASSUME EnInv, [EnrollmentNext]_enrollVars
      PROVE  EnInv'
  <2>1. CASE UNCHANGED enrollVars
    BY <1>1, <2>1 DEF enrollVars, stores, locals, bounds, EnInv, EnTypeOK, SavesAKey, BeingMended, Mends
  <2>2. CASE EnrollmentNext
    BY <1>1, <2>2, EnThreadStep, EnEnvironmentStep DEF EnrollmentNext
  <2> QED
    BY <1>1, <2>1, <2>2
<1>2. EnInv => KeyHasRecord
  BY DEF EnInv, BeingMended, Mends, KeyHasRecord
<1> QED
  BY <1>1, <1>2, EnInit, PTL DEF EnrollmentSpec

-----------------------------------------------------------------------------
(* The stores of the extension implement LogQueue.                          *)

SmallLogs == {l \in AnyLog : ~ExceedsMaxBatchThreshold(l.len)}
IdSeq(s) == [j \in DOMAIN s |-> s[j].id]
HeadOf(s, k) == SubSeq(s, 1, k)
RestOf(s, k) == SubSeq(s, k + 1, Len(s))

\* Cutting a sequence after its first k elements.
LEMMA Cut ==
  ASSUME NEW T, NEW s \in Seq(T), NEW k \in Nat, k <= Len(s)
  PROVE  /\ Len(s) \in Nat
         /\ HeadOf(s, k) \in Seq(T) /\ Len(HeadOf(s, k)) = k
         /\ \A i \in 1..k : HeadOf(s, k)[i] = s[i]
         /\ RestOf(s, k) \in Seq(T) /\ Len(RestOf(s, k)) = Len(s) - k
         /\ \A i \in 1..(Len(s) - k) : RestOf(s, k)[i] = s[k + i]
<1> DEFINE p == HeadOf(s, k)
           q == RestOf(s, k)
           n == Len(s)
<1>1. n \in Nat
  BY LenProperties
<1>2. \A i \in 1..n : s[i] \in T
  BY ElementOfSeq
<1>3. p \in Seq(T) /\ Len(p) = k /\ \A i \in 1..k : p[i] = s[i]
  <2>1. \A i \in 1..k : s[i] \in T
    BY <1>1, <1>2
  <2>2. p = SubSeq(s, 1, k)
    BY DEF HeadOf
  <2> HIDE DEF p, n
  <2>3. p \in Seq(T)
    BY SMTT(30), <2>1, <2>2, SubSeqProperties
  <2>4. Len(p) = k /\ \A i \in 1..k : p[i] = s[i]
    BY SMTT(30), <2>1, <2>2, SubSeqProperties
  <2> QED
    BY ZenonT(30), <2>3, <2>4
<1>4. q \in Seq(T) /\ Len(q) = n - k /\ \A i \in 1..(n - k) : q[i] = s[k + i]
  <2>1. \A i \in (k + 1)..n : s[i] \in T
    BY <1>1, <1>2
  <2>2. q = SubSeq(s, k + 1, n)
    BY DEF RestOf
  <2>3. k <= n
    OBVIOUS
  <2> HIDE DEF q, n
  <2>4. q \in Seq(T)
    BY SMTT(30), <1>1, <2>1, <2>2, SubSeqProperties
  <2>5. Len(q) = n - k /\ \A i \in 1..(n - k) : q[i] = s[k + i]
    BY SMTT(30), <1>1, <2>1, <2>2, <2>3, SubSeqProperties
  <2> QED
    BY ZenonT(30), <2>4, <2>5
<1> QED
  BY ZenonT(30), <1>1, <1>3, <1>4 DEF p, q, n

\* Picking from a sequence is picking from its parts.
LEMMA PickedCut ==
  ASSUME NEW E, NEW T, NEW s \in Seq(E), NEW k \in Nat, k <= Len(s)
  PROVE  Picked(s, T) = Picked(HeadOf(s, k), T) \o Picked(RestOf(s, k), T)
<1> DEFINE p == HeadOf(s, k)
           q == RestOf(s, k)
<1>1. /\ Len(s) \in Nat
      /\ Len(p) = k /\ \A i \in 1..k : p[i] = s[i]
      /\ Len(q) = Len(s) - k /\ \A i \in 1..(Len(s) - k) : q[i] = s[k + i]
  BY ZenonT(30), Cut
<1> HIDE DEF p, q
<1>2. /\ Len(p) \in Nat /\ Len(q) \in Nat /\ Len(s) = Len(p) + Len(q)
      /\ \A i \in 1..Len(p) : p[i] = s[i]
      /\ \A i \in 1..Len(q) : q[i] = s[Len(p) + i]
  BY <1>1
<1>3. Len(s) \in Nat
  BY <1>1
<1>4. Picked(s, T) = Picked(p, T) \o Picked(q, T)
  BY ZenonT(30), <1>2, <1>3, PickedSplit
<1> QED
  BY <1>4 DEF p, q

\* The logs that fit are logs.
LEMMA SmallType ==
  ASSUME NEW s \in Seq(AnyLog)
  PROVE  Small(s) \in Seq(AnyLog) /\ Small(s) \in Seq(SmallLogs) /\ Small(s) = Picked(s, SmallLogs)
<1>1. Small(s) = Picked(s, SmallLogs)
  BY DEF Small, SmallLogs
<1>2. Small(s) \in Seq(SmallLogs)
  BY <1>1, PickedType, LenProperties
<1>3. SmallLogs \subseteq AnyLog
  BY DEF SmallLogs
<1> QED
  BY <1>1, <1>2, <1>3, SeqMonotonic

\* The ids of a sequence of logs.
LEMMA IdSeqType ==
  ASSUME NEW s \in Seq(AnyLog)
  PROVE  /\ IdSeq(s) \in Seq(Nat) /\ Len(IdSeq(s)) = Len(s) /\ Len(s) \in Nat
         /\ \A j \in 1..Len(s) : IdSeq(s)[j] = s[j].id
<1>1. DOMAIN s = 1..Len(s) /\ Len(s) \in Nat /\ \A j \in 1..Len(s) : s[j] \in AnyLog
  BY LenProperties, ElementOfSeq
<1> DEFINE m == Len(s)
           f == IdSeq(s)
<1>2. f = [j \in 1..m |-> s[j].id] /\ \A j \in 1..m : s[j].id \in Nat
  BY <1>1 DEF IdSeq, AnyLog
<1>3. f \in [1..m -> Nat] /\ m \in Nat
  BY <1>1, <1>2
<1>4. f \in Seq(Nat) /\ Len(f) = m
  <2> HIDE DEF f, m
  <2>1. f \in Seq(Nat)
    BY <1>3, SeqDef
  <2>2. DOMAIN f = 1..m /\ DOMAIN f = 1..Len(f) /\ Len(f) \in Nat
    BY <1>3, <2>1, LenProperties
  <2> QED
    BY <1>3, <2>2
<1> QED
  BY <1>1, <1>2, <1>4

\* Cutting a store cuts the sequence of ids that fit.
LEMMA FittingCut ==
  ASSUME NEW s \in Seq(AnyLog), NEW k \in Nat, k <= Len(s)
  PROVE  LET all == IdSeq(Small(s))
             m == Len(Small(HeadOf(s, k)))
         IN /\ m \in Nat /\ m <= Len(all) /\ Len(all) \in Nat
            /\ {all[j] : j \in 1..m} = LogIds(Small(HeadOf(s, k)))
            /\ SubSeq(all, m + 1, Len(all)) = IdSeq(Small(RestOf(s, k)))
<1> DEFINE p == HeadOf(s, k)
           q == RestOf(s, k)
           a == Small(s)
           b == Small(p)
           c == Small(q)
           all == IdSeq(a)
           m == Len(b)
<1>1. /\ Len(s) \in Nat
      /\ p \in Seq(AnyLog) /\ Len(p) = k /\ \A i \in 1..k : p[i] = s[i]
      /\ q \in Seq(AnyLog) /\ Len(q) = Len(s) - k /\ \A i \in 1..(Len(s) - k) : q[i] = s[k + i]
  <2> HIDE DEF AnyLog
  <2> QED
    BY ZenonT(30), Cut
<1>2. /\ a \in Seq(AnyLog) /\ b \in Seq(AnyLog) /\ c \in Seq(AnyLog)
      /\ a = Picked(s, SmallLogs) /\ b = Picked(p, SmallLogs) /\ c = Picked(q, SmallLogs)
  BY <1>1, SmallType
<1>3. a = b \o c
  <2>1. Picked(s, SmallLogs) = Picked(p, SmallLogs) \o Picked(q, SmallLogs)
    <3> HIDE DEF AnyLog
    <3> QED
      BY PickedCut
  <2> QED
    BY <1>2, <2>1
<1>4. /\ Len(a) = Len(b) + Len(c) /\ Len(a) \in Nat /\ Len(b) \in Nat /\ Len(c) \in Nat
      /\ \A j \in 1..Len(b) : a[j] = b[j]
      /\ \A j \in 1..Len(c) : a[Len(b) + j] = c[j]
  <2> HIDE DEF a, b, c, AnyLog
  <2> QED
    BY SMTT(30), <1>2, <1>3, ConcatProperties, LenProperties
<1>5. /\ all \in Seq(Nat) /\ Len(all) = Len(a) /\ \A j \in 1..Len(a) : all[j] = a[j].id
      /\ IdSeq(c) \in Seq(Nat) /\ Len(IdSeq(c)) = Len(c)
      /\ \A j \in 1..Len(c) : IdSeq(c)[j] = c[j].id
  BY <1>2, IdSeqType
<1>6. {all[j] : j \in 1..m} = LogIds(b)
  <2>1. DOMAIN b = 1..m
    BY <1>2, LenProperties
  <2>2. \A j \in 1..m : all[j] = b[j].id
    <3> HIDE DEF a, b, c, all
    <3> QED
      BY SMTT(30), <1>4, <1>5
  <2> HIDE DEF b, all, m
  <2> QED
    BY <2>1, <2>2 DEF LogIds
<1>7. SubSeq(all, m + 1, Len(all)) = IdSeq(c)
  <2>1. /\ RestOf(all, m) \in Seq(Nat) /\ Len(RestOf(all, m)) = Len(all) - m
        /\ \A i \in 1..(Len(all) - m) : RestOf(all, m)[i] = all[m + i]
    <3>1. m \in Nat /\ m <= Len(all)
      BY <1>4, <1>5
    <3> HIDE DEF m, all
    <3> QED
      BY SMTT(30), <1>5, <3>1, Cut
  <2> DEFINE r == RestOf(all, m)
             t == IdSeq(c)
  <2>2. Len(r) = Len(t) /\ \A i \in 1..Len(r) : r[i] = t[i]
    <3> HIDE DEF a, b, c, all, r, t
    <3>1. Len(r) = Len(c) /\ Len(t) = Len(c) /\ m = Len(b)
      BY <1>4, <1>5, <2>1 DEF r, t
    <3> SUFFICES ASSUME NEW i \in 1..Len(c) PROVE r[i] = t[i]
      BY <3>1
    <3>2. r[i] = all[m + i]
      BY ZenonT(30), <1>4, <1>5, <2>1, <3>1 DEF r
    <3>3. m + i \in 1..Len(a)
      BY <1>4, <3>1
    <3>4. all[m + i] = a[m + i].id /\ a[m + i] = c[i]
      BY SMTT(30), <1>4, <1>5, <3>1, <3>3
    <3> QED
      BY <1>5, <3>2, <3>4 DEF t
  <2>3. r \in Seq(Nat) /\ t \in Seq(Nat)
    BY <1>5, <2>1
  <2>4. r = t
    <3> HIDE DEF r, t
    <3> QED
      BY SMTT(30), <2>2, <2>3, SeqEqual
  <2> QED
    BY <2>4 DEF RestOf
<1>8. m \in Nat /\ m <= Len(all) /\ Len(all) \in Nat
  BY <1>4, <1>5
<1> QED
  BY <1>6, <1>7, <1>8

\* A sequence of elements of T is one over T.
LEMMA OrderOf ==
  ASSUME NEW S, NEW T, NEW s \in Seq(S), \A i \in 1..Len(s) : s[i] \in T
  PROVE  s \in Seq(T)
<1>1. s \in [1..Len(s) -> S] /\ Len(s) \in Nat
  BY LenProperties
<1>2. s \in [1..Len(s) -> T]
  BY <1>1
<1> QED
  BY <1>1, <1>2, SeqDef

\* Deleting the ids of the first k logs leaves the rest.
LEMMA DeleteLeavesRest ==
  ASSUME NEW s \in Seq(AnyLog), NEW k \in Nat, k <= Len(s),
         \A i, j \in 1..Len(s) : s[i].id = s[j].id => i = j
  PROVE  Picked(s, {l \in AnyLog : l.id \notin LogIds(HeadOf(s, k))}) = RestOf(s, k)
<1> DEFINE p == HeadOf(s, k)
           q == RestOf(s, k)
           T == {l \in AnyLog : l.id \notin LogIds(p)}
<1>1. /\ Len(s) \in Nat /\ \A i \in 1..Len(s) : s[i] \in AnyLog
      /\ p \in Seq(AnyLog) /\ Len(p) = k /\ \A i \in 1..k : p[i] = s[i]
      /\ q \in Seq(AnyLog) /\ Len(q) = Len(s) - k /\ \A i \in 1..(Len(s) - k) : q[i] = s[k + i]
  <2> HIDE DEF AnyLog
  <2> QED
    BY Cut, ElementOfSeq
<1>2. DOMAIN p = 1..k
  BY <1>1, LenProperties
<1>3. \A i \in 1..Len(p) : p[i] \notin T
  BY ZenonT(30), <1>1, <1>2 DEF LogIds
<1>4. \A i \in 1..Len(q) : q[i] \in T
  <2> SUFFICES ASSUME NEW i \in 1..Len(q) PROVE q[i] \in T
    OBVIOUS
  <2>1. k + i \in 1..Len(s) /\ q[i] = s[k + i] /\ s[k + i] \in AnyLog
    BY <1>1
  <2>2. \A j \in 1..k : p[j] = s[j] /\ j \in 1..Len(s) /\ j # k + i
    BY <1>1
  <2>3. s[k + i].id \notin LogIds(p)
    <3> HIDE DEF p
    <3> QED
      BY SMTT(30), <1>2, <2>1, <2>2 DEF LogIds
  <2> QED
    BY <2>1, <2>3
<1> HIDE DEF p, q, T
<1>5. q \in Seq(T)
  BY <1>1, <1>4, OrderOf
<1>6. Picked(p, T) = <<>> /\ Picked(q, T) = q
  BY <1>1, <1>3, <1>5, PickedNone, PickedAll
<1>7. Picked(s, T) = Picked(p, T) \o Picked(q, T)
  BY PickedCut DEF p, q
<1>8. Picked(s, T) = q
  BY <1>5, <1>6, <1>7, ConcatEmptySeq
<1> QED
  BY <1>8 DEF p, q, T

\* writeBufferedLogsForType looks at no more logs than there are.
LEMMA LookedBound ==
  ASSUME NEW s \in Seq(AnyLog)
  PROVE  Looked(s) \in Nat /\ Looked(s) <= Len(s)
<1> DEFINE S == {k \in 1..Len(s) : \A j \in 1..k : FitsAt(s, j)}
<1>1. Len(s) \in Nat /\ S \subseteq 1..Len(s)
  BY LenProperties
<1>2. IsFiniteSet(1..Len(s)) /\ Cardinality(1..Len(s)) = Len(s)
  <2> HIDE DEF S
  <2>1. Len(s) \in Nat
    BY <1>1
  <2> QED
    BY SMTT(30), <2>1, FS_Interval
<1>3. Cardinality(S) \in Nat /\ Cardinality(S) <= Len(s)
  <2> HIDE DEF S
  <2> QED
    BY ZenonT(30), <1>1, <1>2, FS_Subset, FS_CardinalityType
<1> QED
  BY <1>3 DEF Looked

StoreShapes ==
  /\ buffer \in [Types -> Seq(AnyLog)] /\ published \in [Types -> SUBSET Nat]
  /\ turn \in Types /\ logWrites \in Nat

\* A log of a store is known by its id, and the next log has a new one.
IdsFresh ==
  \A i \in Types :
    /\ \A j \in 1..Len(buffer[i]) : buffer[i][j].id <= logWrites
    /\ \A j, k \in 1..Len(buffer[i]) : buffer[i][j].id = buffer[i][k].id => j = k
    /\ \A n \in published[i] : n <= logWrites

\* A batch under way is the first k logs of its store, whatever is written meanwhile.
IsHead(k) ==
  /\ logBatch = LogIds(HeadOf(buffer[turn], k))
  /\ sending = LogIds(Small(HeadOf(buffer[turn], k)))
  /\ Small(HeadOf(buffer[turn], k)) # <<>>

BatchIsHead == place \in {"request", "delete"} => \E k \in 0..Len(buffer[turn]) : IsHead(k)

\* What is about to be deleted, the server has.
TakenIsPublished == place = "delete" => sending \subseteq published[turn]

\* A purge deletes only from a store that is over its limit.
PurgeIsDue ==
  place = "purge" => /\ excess \in 0..Len(buffer[turn])
                     /\ excess > 0 => TooMany(Len(buffer[turn]))

StoreInv == StoreShapes /\ IdsFresh /\ BatchIsHead /\ TakenIsPublished /\ PurgeIsDue

\* The ids a batch sends are among those written.
LEMMA SmallIdsBound ==
  ASSUME NEW s \in Seq(AnyLog), NEW w \in Nat, \A j \in 1..Len(s) : s[j].id <= w
  PROVE  \A n \in LogIds(Small(s)) : n \in Nat /\ n <= w
<1> DEFINE E == {l \in AnyLog : l.id <= w}
           a == Small(s)
<1>1. \A j \in 1..Len(s) : s[j] \in E
  BY ElementOfSeq
<1>2. s \in Seq(E)
  <2> HIDE DEF E, AnyLog
  <2> QED
    BY <1>1, OrderOf
<1>3. a \in Seq(E)
  <2> HIDE DEF E
  <2> QED
    BY <1>2, PickedIn DEF Small
<1>4. DOMAIN a = 1..Len(a) /\ \A j \in 1..Len(a) : a[j] \in E
  <2> HIDE DEF E, a
  <2> QED
    BY <1>3, LenProperties, ElementOfSeq
<1> HIDE DEF a
<1>5. \A n \in LogIds(a) : n \in Nat /\ n <= w
  BY <1>4 DEF LogIds, AnyLog
<1> QED
  BY <1>5 DEF a

\* Initially the stores are empty (NewExtension).
LEMMA StoreInit == BufferedLogsInit => StoreInv
<1> SUFFICES ASSUME BufferedLogsInit PROVE StoreInv
  OBVIOUS
<1>1. StoreShapes
  BY BufferedLogsAssumption, EmptySeq DEF BufferedLogsInit, StoreShapes, Types
<1>2. IdsFresh
  <2>1. \A i \in Types : buffer[i] = <<>> /\ published[i] = {}
    BY DEF BufferedLogsInit
  <2>2. Len(<<>>) = 0
    OBVIOUS
  <2> QED
    BY <2>1, <2>2 DEF IdsFresh
<1> QED
  BY <1>1, <1>2 DEF BufferedLogsInit, StoreInv, BatchIsHead, TakenIsPublished, PurgeIsDue

\* A batch stays the head of its store while the store only grows at its end.
LEMMA HeadStays ==
  ASSUME NEW s \in Seq(AnyLog), NEW t \in Seq(AnyLog), Len(s) <= Len(t),
         \A j \in 1..Len(s) : t[j] = s[j], NEW k \in Nat, k <= Len(s)
  PROVE  HeadOf(t, k) = HeadOf(s, k)
<1> DEFINE p == HeadOf(s, k)
           q == HeadOf(t, k)
<1> HIDE DEF AnyLog
<1>1. p \in Seq(AnyLog) /\ Len(p) = k /\ \A i \in 1..k : p[i] = s[i]
  BY Cut
<1>2. Len(s) \in Nat /\ Len(t) \in Nat /\ k <= Len(t)
  BY LenProperties
<1>3. q \in Seq(AnyLog) /\ Len(q) = k /\ \A i \in 1..k : q[i] = t[i]
  BY ZenonT(30), <1>2, Cut
<1>4. \A i \in 1..k : p[i] = q[i]
  <2> HIDE DEF p, q
  <2> QED
    BY SMTT(30), <1>1, <1>2, <1>3
<1> HIDE DEF p, q
<1>5. p = q
  BY <1>1, <1>3, <1>4, SeqEqual
<1> QED
  BY <1>5 DEF p, q

\* A step of the loop or of the environment that touches no store.
LEMMA StoresUntouched ==
  ASSUME StoreInv, UNCHANGED <<buffer, published, logWrites>>, turn' \in Types,
         place' \notin {"request", "delete", "purge"}
  PROVE  StoreInv'
<1>1. StoreShapes' /\ IdsFresh'
  BY DEF StoreInv, StoreShapes, IdsFresh
<1> QED
  BY <1>1 DEF StoreInv, BatchIsHead, TakenIsPublished, PurgeIsDue

\* The batch that Collect takes is a head of its store.
LEMMA CollectStep ==
  ASSUME StoreInv, Collect
  PROVE  StoreInv'
<1> DEFINE s == buffer[turn]
<1>1. s \in Seq(AnyLog)
  BY DEF StoreInv, StoreShapes
<1>2. Looked(s) \in Nat /\ Looked(s) <= Len(s) /\ Len(s) \in Nat
  BY SMTT(30), <1>1, LookedBound, LenProperties
<1>3. StoreShapes' /\ IdsFresh'
  BY ZenonT(30) DEF StoreInv, StoreShapes, IdsFresh, Collect
<1>4. place' = "request" /\ UNCHANGED <<buffer, turn>>
  BY DEF Collect
<1>5. PICK k \in Nat : k = Looked(s)
  BY <1>2
<1>6. IsHead(k)'
  <2>1. Collected(s) = HeadOf(s, k)
    BY <1>5 DEF Collected, HeadOf
  <2>2. /\ logBatch' = LogIds(Collected(s)) /\ sending' = LogIds(Small(Collected(s)))
        /\ Small(Collected(s)) # <<>>
    BY DEF Collect
  <2> QED
    BY <1>4, <2>1, <2>2 DEF IsHead
<1>7. BatchIsHead'
  BY <1>2, <1>4, <1>5, <1>6 DEF BatchIsHead
<1> QED
  BY <1>3, <1>4, <1>7 DEF StoreInv, TakenIsPublished, PurgeIsDue

\* The server takes a batch: it has ids that were written.
LEMMA TakenStep ==
  ASSUME StoreInv, place = "request",
         published' = [published EXCEPT ![turn] = @ \cup sending],
         UNCHANGED <<buffer, turn, logWrites>>
  PROVE  StoreShapes' /\ IdsFresh' /\ sending \subseteq published'[turn]
<1> DEFINE s == buffer[turn]
<1>1. s \in Seq(AnyLog) /\ turn \in Types /\ logWrites \in Nat
      /\ Len(s) \in Nat /\ \A j \in 1..Len(s) : s[j].id <= logWrites
  BY LenProperties DEF StoreInv, StoreShapes, IdsFresh
<1>2. PICK k \in 0..Len(s) : IsHead(k)
  BY DEF StoreInv, BatchIsHead
<1>3. k \in Nat /\ k <= Len(s)
  BY <1>1, <1>2
<1>4. HeadOf(s, k) \in Seq(AnyLog) /\ \A j \in 1..Len(HeadOf(s, k)) : HeadOf(s, k)[j].id <= logWrites
  <2> HIDE DEF s, AnyLog
  <2>1. /\ HeadOf(s, k) \in Seq(AnyLog) /\ Len(HeadOf(s, k)) = k
        /\ \A j \in 1..k : HeadOf(s, k)[j] = s[j]
    BY <1>1, <1>3, Cut
  <2> QED
    BY SMTT(30), <1>1, <1>3, <2>1
<1>5. \A n \in sending : n \in Nat /\ n <= logWrites
  BY ZenonT(30), <1>1, <1>2, <1>4, SmallIdsBound DEF IsHead
<1>6. \A i \in Types : published'[i] = IF i = turn THEN published[i] \cup sending ELSE published[i]
  BY ZenonT(30) DEF StoreInv, StoreShapes
<1>7. StoreShapes'
  BY <1>5 DEF StoreInv, StoreShapes
<1>8. IdsFresh'
  BY <1>5, <1>6 DEF StoreInv, IdsFresh
<1>9. sending \subseteq published'[turn]
  <2>1. published'[turn] = published[turn] \cup sending
    BY ZenonT(30), <1>1, <1>6
  <2> QED
    BY ZenonT(30), <2>1
<1> QED
  BY SMTT(30), <1>7, <1>8, <1>9

\* Publish and PublishFails.
LEMMA PublishStep ==
  ASSUME StoreInv, Publish \/ PublishFails
  PROVE  StoreInv'
<1>1. CASE Publish
  <2>1. /\ place = "request" /\ place' = "delete"
        /\ published' = [published EXCEPT ![turn] = @ \cup sending]
        /\ UNCHANGED <<buffer, turn, logBatch, sending, logWrites>>
    BY <1>1 DEF Publish
  <2>2. StoreShapes' /\ IdsFresh' /\ sending \subseteq published'[turn]
    BY <2>1, TakenStep
  <2>3. BatchIsHead'
    BY <2>1 DEF StoreInv, BatchIsHead, IsHead
  <2> QED
    BY <2>1, <2>2, <2>3 DEF StoreInv, TakenIsPublished, PurgeIsDue
<1>2. CASE PublishFails
  <2>1. /\ place = "request" /\ place' = "count"
        /\ published' = published \/ published' = [published EXCEPT ![turn] = @ \cup sending]
        /\ UNCHANGED <<buffer, turn, logWrites>>
    BY SMTT(30), <1>2 DEF PublishFails
  <2>2. StoreShapes' /\ IdsFresh'
    BY SMTT(30), <2>1, TakenStep DEF StoreInv, StoreShapes, IdsFresh
  <2> QED
    BY <2>1, <2>2 DEF StoreInv, BatchIsHead, TakenIsPublished, PurgeIsDue
<1> QED
  BY <1>1, <1>2

\* Dropping the first logs of the store the loop is at.
LEMMA DropHead ==
  ASSUME StoreInv, NEW k \in Nat, k <= Len(buffer[turn]),
         buffer' = [buffer EXCEPT ![turn] = RestOf(buffer[turn], k)],
         UNCHANGED <<published, logWrites>>, turn' \in Types,
         place' \notin {"request", "delete", "purge"}
  PROVE  StoreInv'
<1> DEFINE s == buffer[turn]
           r == RestOf(s, k)
<1>1. /\ turn \in Types /\ s \in Seq(AnyLog)
      /\ \A j \in 1..Len(s) : s[j].id <= logWrites
      /\ \A i, j \in 1..Len(s) : s[i].id = s[j].id => i = j
  BY SMTT(30) DEF StoreInv, StoreShapes, IdsFresh
<1>2. /\ r \in Seq(AnyLog) /\ Len(r) = Len(s) - k /\ Len(s) \in Nat
      /\ \A j \in 1..(Len(s) - k) : r[j] = s[k + j]
  <2> HIDE DEF s, AnyLog
  <2> QED
    BY ZenonT(30), <1>1, Cut DEF s
<1>3. \A i \in Types : buffer'[i] = IF i = turn THEN r ELSE buffer[i]
  BY DEF StoreInv, StoreShapes
<1>4. StoreShapes'
  <2> HIDE DEF r
  <2> QED
    BY <1>2, <1>3 DEF StoreInv, StoreShapes, r
<1>5. /\ \A j \in 1..Len(r) : r[j].id <= logWrites
      /\ \A i, j \in 1..Len(r) : r[i].id = r[j].id => i = j
  <2> HIDE DEF r, s
  <2>1. \A j \in 1..Len(r) : k + j \in 1..Len(s) /\ r[j] = s[k + j] /\ j \in Int
    BY <1>2 DEF s
  <2>2. \A j \in 1..Len(r) : r[j].id <= logWrites
    BY ZenonT(30), <1>1, <2>1
  <2>3. ASSUME NEW i \in 1..Len(r), NEW j \in 1..Len(r), r[i].id = r[j].id
        PROVE  i = j
    <3>1. k + i = k + j
      BY ZenonT(30), <1>1, <2>1, <2>3
    <3> QED
      BY <2>1, <3>1
  <2> QED
    BY <2>2, <2>3
<1>6. IdsFresh'
  <2> HIDE DEF r
  <2> QED
    BY <1>3, <1>5 DEF StoreInv, IdsFresh
<1> QED
  BY SMTT(30), <1>4, <1>6 DEF StoreInv, BatchIsHead, TakenIsPublished, PurgeIsDue

\* What DeleteLogs leaves of the store is the rest after the batch.
LEMMA DeletedHead ==
  ASSUME StoreInv, place = "delete",
         buffer' = [buffer EXCEPT ![turn] = Picked(@, {l \in AnyLog : l.id \notin logBatch})]
  PROVE  \E k \in Nat : /\ k <= Len(buffer[turn]) /\ IsHead(k)
                        /\ buffer' = [buffer EXCEPT ![turn] = RestOf(buffer[turn], k)]
<1> DEFINE s == buffer[turn]
<1>1. /\ s \in Seq(AnyLog) /\ Len(s) \in Nat /\ turn \in Types
      /\ \A i, j \in 1..Len(s) : s[i].id = s[j].id => i = j
  BY LenProperties DEF StoreInv, StoreShapes, IdsFresh
<1>2. PICK k \in 0..Len(s) : IsHead(k)
  BY DEF StoreInv, BatchIsHead
<1>3. k \in Nat /\ k <= Len(s)
  BY <1>1, <1>2
<1>4. Picked(s, {l \in AnyLog : l.id \notin LogIds(HeadOf(s, k))}) = RestOf(s, k)
  <2> HIDE DEF s
  <2> QED
    BY <1>1, <1>3, DeleteLeavesRest
<1>5. buffer' = [buffer EXCEPT ![turn] = RestOf(s, k)]
  BY ZenonT(30), <1>2, <1>4 DEF IsHead
<1> QED
  BY ZenonT(30), <1>2, <1>3, <1>5

\* Deleting the collected logs takes the same logs from the abstract queue.
LEMMA DeleteStep ==
  ASSUME StoreInv, DeleteLogs
  PROVE  StoreInv'
<1>1. place = "delete" /\ place' = "count" /\ UNCHANGED <<published, logWrites, turn>>
  BY DEF DeleteLogs
<1>2. turn' \in Types
  BY <1>1 DEF StoreInv, StoreShapes
<1>3. CASE UNCHANGED buffer
  BY <1>1, <1>2, <1>3, StoresUntouched
<1>4. CASE buffer' = [buffer EXCEPT ![turn] = Picked(@, {l \in AnyLog : l.id \notin logBatch})]
  BY ZenonT(30), <1>1, <1>2, <1>4, DeletedHead, DropHead
<1> QED
  BY <1>3, <1>4 DEF DeleteLogs

\* Counting changes nothing that the queue shows.
LEMMA CountStep ==
  ASSUME StoreInv, CountLogs
  PROVE  StoreInv'
<1>1. /\ place' = "purge" /\ UNCHANGED <<buffer, turn, published, logWrites>>
      /\ excess' = Greatest(Len(buffer[turn]), MaxBufferedLogs) - MaxBufferedLogs
  BY DEF CountLogs
<1>2. StoreShapes' /\ IdsFresh'
  BY <1>1 DEF StoreInv, StoreShapes, IdsFresh
<1>3. Len(buffer[turn]) \in Nat
  BY LenProperties DEF StoreInv, StoreShapes
<1>4. PurgeIsDue'
  BY SMTT(30), <1>1, <1>3, BufferedLogsAssumption DEF PurgeIsDue, Greatest, TooMany
<1> QED
  BY SMTT(30), <1>1, <1>2, <1>4 DEF StoreInv, BatchIsHead, TakenIsPublished

\* A purge takes the oldest logs of a type from the abstract queue.
LEMMA PurgeStep ==
  ASSUME StoreInv, PurgeLogs
  PROVE  StoreInv'
<1>1. /\ place = "purge" /\ UNCHANGED <<published, logWrites>>
      /\ place' \notin {"request", "delete", "purge"}
      /\ turn' = (turn % LogTypes) + 1
  BY DEF PurgeLogs
<1>2. turn' \in Types
  BY <1>1, BufferedLogsAssumption DEF StoreInv, StoreShapes, Types
<1>3. CASE UNCHANGED buffer
  BY <1>1, <1>2, <1>3, StoresUntouched
<1>4. CASE buffer' = [buffer EXCEPT ![turn] = SubSeq(@, excess + 1, Len(@))]
  <2>1. Len(buffer[turn]) \in Nat
    BY LenProperties DEF StoreInv, StoreShapes
  <2>2. excess \in Nat /\ excess <= Len(buffer[turn])
    BY <1>1, <2>1 DEF StoreInv, PurgeIsDue
  <2>3. buffer' = [buffer EXCEPT ![turn] = RestOf(buffer[turn], excess)]
    BY SMTT(30), <1>4 DEF RestOf
  <2> QED
    BY ZenonT(30), <1>1, <1>2, <2>2, <2>3, DropHead
<1> QED
  BY SMTT(30), <1>3, <1>4 DEF PurgeLogs

\* LogString appends under a new id, at the end of a store.
LEMMA Appended ==
  ASSUME StoreInv, NEW i \in Types, NEW n \in Lengths, LogString(i, n)
  PROVE  LET l == [id |-> logWrites + 1, len |-> n] IN
         /\ l \in AnyLog
         /\ \A j \in Types : buffer'[j] = IF j = i THEN Append(buffer[i], l) ELSE buffer[j]
         /\ buffer' \in [Types -> Seq(AnyLog)]
         /\ buffer'[i] \in Seq(AnyLog) /\ buffer[i] \in Seq(AnyLog)
         /\ Len(buffer[i]) \in Nat /\ Len(buffer'[i]) = Len(buffer[i]) + 1
         /\ \A j \in 1..Len(buffer[i]) : buffer'[i][j] = buffer[i][j]
         /\ buffer'[i][Len(buffer[i]) + 1] = l
<1> DEFINE l == [id |-> logWrites + 1, len |-> n]
<1>1. l \in AnyLog
  BY BufferedLogsAssumption DEF StoreInv, StoreShapes, AnyLog
<1>2. buffer' = [buffer EXCEPT ![i] = Append(buffer[i], l)]
  BY DEF LogString
<1> HIDE DEF l
<1>3. buffer \in [Types -> Seq(AnyLog)] /\ buffer[i] \in Seq(AnyLog)
  BY DEF StoreInv, StoreShapes
<1>4. \A j \in Types : buffer'[j] = IF j = i THEN Append(buffer[i], l) ELSE buffer[j]
  BY <1>2, <1>3
<1> HIDE DEF AnyLog
<1>5. buffer'[i] = Append(buffer[i], l) /\ Append(buffer[i], l) \in Seq(AnyLog)
  BY ZenonT(30), <1>1, <1>3, <1>4, AppendProperties
<1>6. buffer' \in [Types -> Seq(AnyLog)]
  BY SMTT(30), <1>2, <1>3, <1>5
<1>7. /\ Len(buffer[i]) \in Nat /\ Len(buffer'[i]) = Len(buffer[i]) + 1
      /\ \A j \in 1..Len(buffer[i]) : buffer'[i][j] = buffer[i][j]
      /\ buffer'[i][Len(buffer[i]) + 1] = l
  BY SMTT(30), <1>1, <1>3, <1>5, AppendProperties, LenProperties
<1> QED
  BY SMTT(30), <1>1, <1>3, <1>4, <1>5, <1>6, <1>7 DEF l

\* A log of osquery goes to the end of its queue.
LEMMA LogStringStep ==
  ASSUME StoreInv, NEW i \in Types, NEW n \in Lengths, LogString(i, n)
  PROVE  StoreInv'
<1> DEFINE l == [id |-> logWrites + 1, len |-> n]
           s == buffer[i]
           t == buffer'[i]
<1>1. /\ l \in AnyLog /\ buffer' \in [Types -> Seq(AnyLog)]
      /\ \A j \in Types : j # i => buffer'[j] = buffer[j]
      /\ t \in Seq(AnyLog) /\ s \in Seq(AnyLog)
      /\ Len(s) \in Nat /\ Len(t) = Len(s) + 1
      /\ \A j \in 1..Len(s) : t[j] = s[j]
      /\ t[Len(s) + 1] = l
  BY Appended
<1>2. logWrites \in Nat /\ logWrites' = logWrites + 1
      /\ UNCHANGED <<place, turn, logBatch, sending, excess, published>>
  BY DEF LogString, StoreInv, StoreShapes
<1>3. l.id = logWrites + 1
  BY SMTT(30)
<1>4. StoreShapes'
  BY SMTT(30), <1>1, <1>2 DEF StoreInv, StoreShapes
<1> HIDE DEF l, s, t
<1>5. IdsFresh'
  <2>1. /\ \A j \in 1..Len(s) : s[j].id <= logWrites /\ s[j].id \in Nat
        /\ \A j, k \in 1..Len(s) : s[j].id = s[k].id => j = k
        /\ \A j \in Types : \A m \in published[j] : m \in Nat /\ m <= logWrites
    <3>1. \A j \in 1..Len(s) : s[j] \in AnyLog
      BY SMTT(30), <1>1, ElementOfSeq
    <3> QED
      BY SMTT(30), <3>1 DEF StoreInv, StoreShapes, IdsFresh, s, AnyLog
  <2>2. \A j \in 1..Len(t) : j = Len(s) + 1 \/ j \in 1..Len(s)
    BY SMTT(30), <1>1
  <2>3. \A j \in 1..Len(t) : t[j].id <= logWrites + 1
    BY SMTT(30), <1>1, <1>2, <1>3, <2>1, <2>2
  <2>4. \A j, k \in 1..Len(t) : t[j].id = t[k].id => j = k
    BY SMTT(30), <1>1, <1>2, <1>3, <2>1, <2>2
  <2>5. \A j \in Types : \A m \in published'[j] : m <= logWrites'
    BY SMTT(30), <1>2, <2>1
  <2>6. ASSUME NEW j \in Types, j # i
        PROVE  /\ \A k \in 1..Len(buffer'[j]) : buffer'[j][k].id <= logWrites'
               /\ \A k, m \in 1..Len(buffer'[j]) : buffer'[j][k].id = buffer'[j][m].id => k = m
    <3>1. buffer'[j] = buffer[j] /\ buffer[j] \in Seq(AnyLog)
      BY SMTT(30), <1>1, <2>6 DEF StoreInv, StoreShapes
    <3>2. /\ \A k \in 1..Len(buffer[j]) : buffer[j][k].id <= logWrites /\ buffer[j][k].id \in Nat
          /\ \A k, m \in 1..Len(buffer[j]) : buffer[j][k].id = buffer[j][m].id => k = m
      <4>1. \A k \in 1..Len(buffer[j]) : buffer[j][k] \in AnyLog
        BY <3>1, ElementOfSeq
      <4> QED
        BY SMTT(30), <4>1 DEF StoreInv, IdsFresh, AnyLog
    <3> QED
      BY SMTT(30), <1>2, <3>1, <3>2
  <2> QED
    BY SMTT(30), <1>2, <2>3, <2>4, <2>5, <2>6 DEF IdsFresh, t
<1>6. CASE turn # i
  <2>1. turn \in Types /\ buffer'[turn] = buffer[turn]
    BY SMTT(30), <1>1, <1>6 DEF StoreInv, StoreShapes
  <2>2. BatchIsHead' /\ TakenIsPublished' /\ PurgeIsDue'
    BY SMTT(30), <1>2, <2>1 DEF StoreInv, BatchIsHead, IsHead, TakenIsPublished, PurgeIsDue
  <2> QED
    BY SMTT(30), <1>4, <1>5, <2>2 DEF StoreInv
<1>7. CASE turn = i
  <2>1. ASSUME NEW k \in 0..Len(s), IsHead(k)
        PROVE  k \in 0..Len(t) /\ IsHead(k)'
    <3>1. k \in Nat /\ k <= Len(s) /\ Len(s) <= Len(t) /\ k \in 0..Len(t)
      BY <1>1
    <3>2. HeadOf(t, k) = HeadOf(s, k)
      BY <1>1, <3>1, HeadStays
    <3> QED
      BY SMTT(30), <1>2, <1>7, <2>1, <3>1, <3>2 DEF IsHead, s, t
  <2>2. BatchIsHead'
    BY SMTT(30), <1>2, <1>7, <2>1 DEF StoreInv, BatchIsHead, s, t
  <2>3. PurgeIsDue'
    BY SMTT(30), <1>1, <1>2, <1>7, BufferedLogsAssumption DEF StoreInv, PurgeIsDue, TooMany, s, t
  <2> QED
    BY SMTT(30), <1>2, <1>4, <1>5, <2>2, <2>3 DEF StoreInv, TakenIsPublished
<1> QED
  BY SMTT(30), <1>6, <1>7

\* Every step keeps the invariant of the stores.
LEMMA StoreNext ==
  ASSUME StoreInv, [BufferedLogsNext]_logVars
  PROVE  StoreInv'
<1>1. turn \in Types /\ 1 \in Types
  BY BufferedLogsAssumption DEF StoreInv, StoreShapes, Types
<1>2. CASE CollectNothing \/ Wait
  BY <1>1, <1>2, StoresUntouched DEF CollectNothing, Wait
<1>3. CASE NewExtension \/ Die
  <2>1. /\ UNCHANGED <<buffer, published, logWrites>>
        /\ place' = "collect" /\ turn' = 1
    BY <1>3 DEF NewExtension, Die, LoopBegins
  <2> QED
    BY SMTT(30), <1>1, <2>1, StoresUntouched
<1>4. CASE Shutdown \/ UNCHANGED logVars
  <2>1. UNCHANGED <<buffer, place, turn, logBatch, sending, excess, published, logWrites>>
    BY SMTT(30), <1>4 DEF Shutdown, logVars
  <2>2. StoreShapes' /\ IdsFresh'
    BY SMTT(30), <2>1 DEF StoreInv, StoreShapes, IdsFresh
  <2>3. BatchIsHead' /\ TakenIsPublished' /\ PurgeIsDue'
    BY <2>1 DEF StoreInv, BatchIsHead, IsHead, TakenIsPublished, PurgeIsDue
  <2> QED
    BY <2>2, <2>3 DEF StoreInv
<1> QED
  BY SMTT(30), <1>2, <1>3, <1>4, CollectStep, PublishStep, DeleteStep, CountStep, PurgeStep, LogStringStep
     DEF BufferedLogsNext, LogLoop

-----------------------------------------------------------------------------
(* The steps of the loop as steps of LogQueue.                              *)

\* The queue of a store is the ids of its logs that fit.
LEMMA FittingIs ==
  ASSUME NEW i \in Types
  PROVE  Fitting(i) = IdSeq(Small(buffer[i]))
BY DEF Fitting, IdSeq

\* The server takes a batch: LogQueue delivers the oldest logs.
LEMMA TakenDelivers ==
  ASSUME StoreInv, place = "request",
         published' = [published EXCEPT ![turn] = @ \cup sending], UNCHANGED buffer
  PROVE  Stores!Deliver(turn)
<1> DEFINE s == buffer[turn]
<1>1. s \in Seq(AnyLog) /\ turn \in Types /\ Len(s) \in Nat
  BY LenProperties DEF StoreInv, StoreShapes
<1>2. PICK k \in 0..Len(s) : IsHead(k)
  BY SMTT(30) DEF StoreInv, BatchIsHead
<1> DEFINE all == IdSeq(Small(s))
           m == Len(Small(HeadOf(s, k)))
<1>3. /\ m \in Nat /\ m <= Len(all) /\ Len(all) \in Nat
      /\ {all[j] : j \in 1..m} = LogIds(Small(HeadOf(s, k)))
  <2>1. k \in Nat /\ k <= Len(s)
    BY SMTT(30), <1>1, <1>2
  <2> QED
    BY SMTT(30), <1>1, <2>1, FittingCut
<1>4. m # 0
  <2>1. HeadOf(s, k) \in Seq(AnyLog)
    <3>1. k \in Nat /\ k <= Len(s)
      BY <1>1, <1>2
    <3> HIDE DEF AnyLog, s
    <3> QED
      BY SMTT(30), <1>1, <3>1, Cut
  <2>2. Small(HeadOf(s, k)) \in Seq(AnyLog) /\ Small(HeadOf(s, k)) # <<>>
    BY SMTT(30), <1>2, <2>1, SmallType DEF IsHead
  <2> QED
    BY SMTT(30), <2>2, EmptySeq
<1>5. Fitting(turn) = all
  BY SMTT(30), <1>1, FittingIs
<1> HIDE DEF m, all
<1>6. m \in 1..Len(all) /\ {all[j] : j \in 1..m} = sending
  BY SMTT(30), <1>2, <1>3, <1>4 DEF IsHead
<1> DEFINE pending == [i \in Types |-> Fitting(i)]
<1>7. pending[turn] = all
  BY <1>1, <1>5
<1>8. pending' = pending /\ [i \in Types |-> Len(buffer[i])]' = [i \in Types |-> Len(buffer[i])]
  BY DEF Fitting
<1>9. Stores!Prefix(turn, m) = sending
  BY SMTT(30), <1>6, <1>7 DEF Stores!Prefix
<1>10. \E j \in 1..Len(pending[turn]) :
          published' = [published EXCEPT ![turn] = @ \cup Stores!Prefix(turn, j)]
  <2> HIDE DEF pending
  <2> QED
    BY ZenonT(30), <1>6, <1>7, <1>9
<1> QED
  BY ZenonT(30), <1>8, <1>10 DEF Stores!Deliver

\* Dropping the first k logs of a store drops a prefix of its queue.
LEMMA DropDrops ==
  ASSUME StoreInv, NEW k \in Nat, k <= Len(buffer[turn]),
         buffer' = [buffer EXCEPT ![turn] = RestOf(buffer[turn], k)]
  PROVE  LET m == Len(Small(HeadOf(buffer[turn], k)))
             pending == [i \in Types |-> Fitting(i)]
         IN /\ m \in 0..Len(pending[turn])
            /\ Stores!Prefix(turn, m) = LogIds(Small(HeadOf(buffer[turn], k)))
            /\ pending' = [pending EXCEPT ![turn] = Stores!Rest(turn, m)]
<1> DEFINE s == buffer[turn]
           m == Len(Small(HeadOf(s, k)))
           all == IdSeq(Small(s))
           pending == [i \in Types |-> Fitting(i)]
<1>1. s \in Seq(AnyLog) /\ turn \in Types
  BY SMTT(30) DEF StoreInv, StoreShapes
<1>2. /\ m \in Nat /\ m <= Len(all) /\ Len(all) \in Nat
      /\ {all[j] : j \in 1..m} = LogIds(Small(HeadOf(s, k)))
      /\ SubSeq(all, m + 1, Len(all)) = IdSeq(Small(RestOf(s, k)))
  BY SMTT(30), <1>1, FittingCut
<1>3. pending[turn] = all
  BY <1>1, FittingIs
<1>4. buffer'[turn] = RestOf(s, k) /\ \A i \in Types : i # turn => buffer'[i] = buffer[i]
  BY SMTT(30), <1>1 DEF StoreInv, StoreShapes
<1>5. \A i \in Types : Fitting(i)' = IF i = turn THEN IdSeq(Small(RestOf(s, k))) ELSE Fitting(i)
  BY SMTT(30), <1>4 DEF Fitting, IdSeq
<1>6. Stores!Rest(turn, m) = IdSeq(Small(RestOf(s, k)))
  <2> HIDE DEF all, m
  <2> QED
    BY SMTT(30), <1>2, <1>3 DEF Stores!Rest
<1>7. pending' = [pending EXCEPT ![turn] = Stores!Rest(turn, m)]
  <2>1. pending' = [i \in Types |-> Fitting(i)']
    OBVIOUS
  <2>2. [pending EXCEPT ![turn] = Stores!Rest(turn, m)]
          = [i \in Types |-> IF i = turn THEN Stores!Rest(turn, m) ELSE Fitting(i)]
    <3> HIDE DEF m
    <3> QED
      BY ZenonT(30), <1>1
  <2> HIDE DEF pending, m, s
  <2> QED
    BY SMTT(30), <1>5, <1>6, <2>1, <2>2
<1>8. Stores!Prefix(turn, m) = LogIds(Small(HeadOf(s, k)))
  <2> HIDE DEF all, m
  <2> QED
    BY ZenonT(30), <1>2, <1>3 DEF Stores!Prefix
<1>9. m \in 0..Len(pending[turn])
  <2> HIDE DEF all, m, pending
  <2> QED
    BY SMTT(30), <1>2, <1>3
<1> QED
  BY SMTT(30), <1>7, <1>8, <1>9

\* DeleteLogs removes what was delivered.
LEMMA DeleteRemoves ==
  ASSUME StoreInv, place = "delete", UNCHANGED published,
         buffer' = [buffer EXCEPT ![turn] = Picked(@, {l \in AnyLog : l.id \notin logBatch})]
  PROVE  Stores!Remove(turn)
<1>1. PICK k \in Nat : /\ k <= Len(buffer[turn]) /\ IsHead(k)
                      /\ buffer' = [buffer EXCEPT ![turn] = RestOf(buffer[turn], k)]
  BY ZenonT(30), DeletedHead
<1> DEFINE m == Len(Small(HeadOf(buffer[turn], k)))
           pending == [i \in Types |-> Fitting(i)]
<1>2. /\ m \in 0..Len(pending[turn])
      /\ Stores!Prefix(turn, m) = sending
      /\ pending' = [pending EXCEPT ![turn] = Stores!Rest(turn, m)]
  BY ZenonT(30), <1>1, DropDrops DEF IsHead
<1>3. sending \subseteq published[turn]
  BY DEF StoreInv, TakenIsPublished
<1> HIDE DEF m
<1> QED
  BY <1>2, <1>3 DEF Stores!Remove

\* A purge that deletes something is LogQueue's, of a store that is too full.
LEMMA PurgePurges ==
  ASSUME StoreInv, place = "purge", UNCHANGED published,
         buffer' = [buffer EXCEPT ![turn] = SubSeq(@, excess + 1, Len(@))]
  PROVE  Stores!Purge(turn) \/ UNCHANGED buffer
<1>1. buffer[turn] \in Seq(AnyLog) /\ turn \in Types /\ Len(buffer[turn]) \in Nat
  BY LenProperties DEF StoreInv, StoreShapes
<1>2. excess \in Nat /\ excess <= Len(buffer[turn])
      /\ (excess > 0 => TooMany(Len(buffer[turn])))
  BY <1>1 DEF StoreInv, PurgeIsDue
<1>3. buffer' = [buffer EXCEPT ![turn] = RestOf(buffer[turn], excess)]
  BY DEF RestOf
<1>4. CASE excess = 0
  <2> DEFINE s == buffer[turn]
             r == RestOf(s, 0)
  <2>1. SubSeq(s, 1, Len(s)) = s
    <3> HIDE DEF AnyLog, s
    <3> QED
      BY <1>1, SubSeqFull DEF s
  <2>2. r = s
    BY <2>1 DEF RestOf
  <2> QED
    BY SMTT(30), <1>1, <1>3, <1>4, <2>2 DEF StoreInv, StoreShapes
<1>5. CASE excess > 0
  <2> DEFINE m == Len(Small(HeadOf(buffer[turn], excess)))
             pending == [i \in Types |-> Fitting(i)]
  <2>1. /\ m \in 0..Len(pending[turn])
        /\ pending' = [pending EXCEPT ![turn] = Stores!Rest(turn, m)]
    BY ZenonT(30), <1>2, <1>3, DropDrops
  <2>2. TooMany([i \in Types |-> Len(buffer[i])][turn])
    BY SMTT(30), <1>1, <1>2, <1>5
  <2> HIDE DEF m
  <2> QED
    BY SMTT(30), <2>1, <2>2 DEF Stores!Purge
<1> QED
  BY SMTT(30), <1>2, <1>4, <1>5

\* A written log joins the queue of its store, or none when it can never fit.
LEMMA LogStringPuts ==
  ASSUME StoreInv, NEW i \in Types, NEW n \in Lengths, LogString(i, n)
  PROVE  Stores!Put(i) \/ Stores!Remove(i)
<1> DEFINE l == [id |-> logWrites + 1, len |-> n]
           s == buffer[i]
           t == buffer'[i]
           one == <<l>>
           pending == [j \in Types |-> Fitting(j)]
<1>1. /\ l \in AnyLog
      /\ \A j \in Types : j # i => buffer'[j] = buffer[j]
      /\ t \in Seq(AnyLog) /\ s \in Seq(AnyLog)
      /\ Len(s) \in Nat /\ Len(t) = Len(s) + 1
      /\ \A j \in 1..Len(s) : t[j] = s[j]
      /\ t[Len(s) + 1] = l
  BY SMTT(30), Appended
<1>2. UNCHANGED published /\ logWrites \in Nat
  BY SMTT(30) DEF LogString, StoreInv, StoreShapes
<1>3. one \in Seq(AnyLog) /\ Len(one) = 1 /\ one[1] = l
  BY SMTT(30), <1>1
<1>4. Small(t) = Small(s) \o Small(one)
  <2>1. Picked(t, SmallLogs) = Picked(s, SmallLogs) \o Picked(one, SmallLogs)
    <3>1. /\ Len(s) \in Nat /\ Len(one) \in Nat /\ Len(t) = Len(s) + Len(one)
          /\ \A j \in 1..Len(s) : s[j] = t[j]
          /\ \A j \in 1..Len(one) : one[j] = t[Len(s) + j]
      BY <1>1, <1>3
    <3>2. Len(t) \in Nat
      BY <1>1
    <3> HIDE DEF s, t, one
    <3> QED
      BY ZenonT(30), <3>1, <3>2, PickedSplit
  <2> HIDE DEF s, t, one
  <2> QED
    BY ZenonT(30), <1>1, <1>3, <2>1, SmallType
<1>5. \A j \in Types : Fitting(j)' = IF j = i THEN IdSeq(Small(t)) ELSE Fitting(j)
  BY <1>1 DEF Fitting, IdSeq
<1>6. pending[i] = IdSeq(Small(s))
  BY SMTT(30), FittingIs
<1>7. Small(s) \in Seq(AnyLog)
  BY ZenonT(30), <1>1, SmallType
<1>8. CASE l \notin SmallLogs
  <2>1. Small(one) = <<>>
    <3> HIDE DEF one
    <3>1. Picked(one, SmallLogs) = <<>>
      BY SMTT(30), <1>3, <1>8, PickedNone
    <3> QED
      BY SMTT(30), <1>3, <3>1, SmallType
  <2>2. Small(t) = Small(s)
    <3> HIDE DEF s, t, one, AnyLog
    <3> QED
      BY SMTT(30), <1>4, <1>7, <2>1, ConcatEmptySeq
  <2>3. \A j \in Types : Fitting(j)' = Fitting(j)
    BY SMTT(30), <1>5, <2>2, FittingIs
  <2> DEFINE all == IdSeq(Small(s))
  <2>4. all \in Seq(Nat) /\ Len(all) \in Nat
    BY <1>7, IdSeqType
  <2>5. SubSeq(all, 1, Len(all)) = all
    <3> HIDE DEF all
    <3> QED
      BY SMTT(30), <2>4, SubSeqFull
  <2>6. Stores!Prefix(i, 0) = {} /\ Stores!Rest(i, 0) = all
    <3> HIDE DEF all
    <3>1. pending[i] = all
      BY <1>6 DEF all
    <3> QED
      BY SMTT(30), <2>4, <2>5, <3>1 DEF Stores!Prefix, Stores!Rest
  <2>7. pending' = [pending EXCEPT ![i] = Stores!Rest(i, 0)]
    BY SMTT(30), <1>6, <2>3, <2>6
  <2>8. 0 \in 0..Len(pending[i])
    BY SMTT(30), <1>6, <2>4
  <2> QED
    BY ZenonT(30), <1>2, <2>6, <2>7, <2>8 DEF Stores!Remove
<1>9. CASE l \in SmallLogs
  <2> DEFINE a == Small(s)
             b == Small(t)
             m == Len(a)
             x == logWrites + 1
  <2>1. Small(one) = one
    <3>1. one \in Seq(SmallLogs)
      BY <1>9
    <3>2. Picked(one, SmallLogs) = one
      <4> HIDE DEF one
      <4> QED
        BY SMTT(30), <3>1, PickedAll
    <3> QED
      BY ZenonT(30), <1>3, <3>2, SmallType
  <2>2. /\ b \in Seq(AnyLog) /\ Len(b) = m + 1 /\ m \in Nat
        /\ \A j \in 1..m : b[j] = a[j]
        /\ b[m + 1] = l
    <3> HIDE DEF s, t, one, AnyLog, l
    <3>1. b = a \o one
      BY SMTT(30), <1>4, <2>1
    <3> HIDE DEF a, b
    <3>2. /\ b \in Seq(AnyLog) /\ Len(b) = Len(a) + Len(one) /\ Len(a) \in Nat
          /\ \A j \in 1..Len(a) : b[j] = a[j]
          /\ \A j \in 1..Len(one) : b[Len(a) + j] = one[j]
      <4>1. a \in Seq(AnyLog)
        BY <1>7 DEF a
      <4>2. one \in Seq(AnyLog)
        BY SMTT(30), <1>3
      <4> QED
        BY SMTT(30), <3>1, <4>1, <4>2, ConcatProperties, LenProperties
    <3> QED
      BY <1>3, <3>2
  <2>3. /\ IdSeq(a) \in Seq(Nat) /\ Len(IdSeq(a)) = m
        /\ \A j \in 1..m : IdSeq(a)[j] = a[j].id
        /\ IdSeq(b) \in Seq(Nat) /\ Len(IdSeq(b)) = m + 1
        /\ \A j \in 1..(m + 1) : IdSeq(b)[j] = b[j].id
    <3> HIDE DEF s, t
    <3>1. /\ IdSeq(a) \in Seq(Nat) /\ Len(IdSeq(a)) = Len(a)
          /\ \A j \in 1..Len(a) : IdSeq(a)[j] = a[j].id
      BY SMTT(30), <1>7, IdSeqType
    <3>2. /\ IdSeq(b) \in Seq(Nat) /\ Len(IdSeq(b)) = Len(b)
          /\ \A j \in 1..Len(b) : IdSeq(b)[j] = b[j].id
      BY SMTT(30), <2>2, IdSeqType
    <3> QED
      BY SMTT(30), <2>2, <3>1, <3>2
  <2>4. x \in Nat /\ l.id = x
    BY SMTT(30), <1>2
  <2> DEFINE u == IdSeq(a)
             v == IdSeq(b)
             w == Append(u, x)
  <2>5. v = w
    <3> HIDE DEF a, b, l, x, u, v, m
    <3>1. /\ u \in Seq(Nat) /\ Len(u) = m /\ v \in Seq(Nat) /\ Len(v) = m + 1 /\ m \in Nat
          /\ \A j \in 1..m : v[j] = u[j]
          /\ v[m + 1] = x
      BY SMTT(30), <2>2, <2>3, <2>4 DEF u, v
    <3>2. /\ w \in Seq(Nat) /\ Len(w) = m + 1
          /\ \A j \in 1..m : w[j] = u[j]
          /\ w[m + 1] = x
      BY <2>4, <3>1, AppendProperties
    <3> HIDE DEF w
    <3>3. \A j \in 1..(m + 1) : v[j] = w[j]
      BY SMTT(30), <3>1, <3>2
    <3> QED
      BY SMTT(30), <3>1, <3>2, <3>3, SeqEqual
  <2>6. pending[i] = u /\ pending'[i] = v
    BY SMTT(30), <1>5, <1>6
  <2>7. pending' = [pending EXCEPT ![i] = Append(@, x)]
    <3>1. pending' = [j \in Types |-> Fitting(j)']
      OBVIOUS
    <3>2. \A j \in Types : Fitting(j)' = IF j = i THEN w ELSE Fitting(j)
      <4> HIDE DEF a, b, u, v, w
      <4> QED
        BY SMTT(30), <1>5, <2>5 DEF v, b
    <3>3. [pending EXCEPT ![i] = Append(@, x)] = [j \in Types |-> IF j = i THEN w ELSE Fitting(j)]
      <4>1. [pending EXCEPT ![i] = Append(@, x)]
              = [j \in Types |-> IF j = i THEN Append(pending[i], x) ELSE Fitting(j)]
        <5> HIDE DEF x
        <5> QED
          BY ZenonT(30)
      <4> HIDE DEF pending, x, u
      <4> QED
        BY SMTT(30), <2>6, <4>1
    <3> HIDE DEF w, pending
    <3> QED
      BY SMTT(30), <3>1, <3>2, <3>3
  <2>8. Len(pending'[i]) = Len(pending[i]) + 1 /\ pending'[i][Len(pending'[i])] = x
    <3> HIDE DEF pending, u, v, a, b, l, x
    <3> QED
      BY SMTT(30), <2>2, <2>3, <2>4, <2>6 DEF u, v
  <2>9. x \notin published[i]
    BY SMTT(30), <1>2 DEF StoreInv, StoreShapes, IdsFresh
  <2>10. x \notin Stores!Prefix(i, Len(pending[i]))
    <3>1. \A j \in 1..Len(s) : s[j].id <= logWrites
      BY SMTT(30) DEF StoreInv, IdsFresh
    <3>2. \A y \in LogIds(a) : y \in Nat /\ y <= logWrites
      <4> HIDE DEF s
      <4> QED
        BY SMTT(30), <1>1, <1>2, <3>1, SmallIdsBound
    <3>3. DOMAIN a = 1..m
      BY <1>7, LenProperties
    <3>4. \A j \in 1..m : u[j] \in Nat /\ u[j] <= logWrites
      <4> HIDE DEF a, m
      <4> QED
        BY ZenonT(30), <2>3, <3>2, <3>3 DEF LogIds
    <3>5. \A j \in 1..m : u[j] # x
      <4> HIDE DEF u, m
      <4> QED
        BY <1>2, <3>4
    <3> HIDE DEF u, m, x
    <3> QED
      BY SMTT(30), <2>3, <2>6, <3>5 DEF Stores!Prefix, u
  <2> HIDE DEF x
  <2> QED
    BY ZenonT(30), <1>2, <2>7, <2>8, <2>9, <2>10 DEF Stores!Put
<1> QED
  BY SMTT(30), <1>8, <1>9

(***************************************************************************)
(* The stores of extension.go implement LogQueue, for any number of types,  *)
(* any lengths and limits, and any number of writes, failures and deaths:   *)
(* logs go out in the order osquery wrote them, and one that fits leaves    *)
(* only after the server has it or from a store over its limit.             *)
(***************************************************************************)
THEOREM BufferedLogsImplementQueue == BufferedLogsSpec => ImplementsLogQueue
<1>1. BufferedLogsInit => StoreInv /\ Stores!QueueInit
  <2> SUFFICES ASSUME BufferedLogsInit PROVE Stores!QueueInit
    BY StoreInit
  <2>1. \A i \in Types : buffer[i] = <<>> /\ published = [j \in Types |-> {}]
    BY DEF BufferedLogsInit
  <2>2. Small(<<>>) = <<>> /\ Len(<<>>) = 0 /\ DOMAIN <<>> = {}
    BY SMTT(30), PickedEmpty DEF Small
  <2>3. \A i \in Types : Fitting(i) = <<>>
    BY <2>1, <2>2 DEF Fitting
  <2> QED
    BY <2>1, <2>2, <2>3 DEF Stores!QueueInit, BufferedLogsInit
<1>2. StoreInv /\ [BufferedLogsNext]_logVars => StoreInv'
  BY SMTT(30), StoreNext
<1>3. StoreInv /\ [BufferedLogsNext]_logVars => [Stores!QueueNext]_(Stores!queueVars)
  <2> SUFFICES ASSUME StoreInv, [BufferedLogsNext]_logVars
               PROVE  Stores!QueueNext \/ UNCHANGED Stores!queueVars
    OBVIOUS
  <2>1. turn \in Types
    BY DEF StoreInv, StoreShapes
  <2>2. CASE UNCHANGED <<buffer, published>>
    BY <2>2 DEF Stores!queueVars, Fitting
  <2>3. CASE Publish \/ PublishFails
    BY ZenonT(30), <2>1, <2>2, <2>3, TakenDelivers DEF Publish, PublishFails, Stores!QueueNext
  <2>4. CASE DeleteLogs
    BY SMTT(30), <2>1, <2>2, <2>4, DeleteRemoves DEF DeleteLogs, Stores!QueueNext
  <2>5. CASE PurgeLogs
    BY SMTT(30), <2>1, <2>2, <2>5, PurgePurges DEF PurgeLogs, Stores!QueueNext
  <2>6. CASE \E i \in Types, n \in Lengths : LogString(i, n)
    BY <2>6, LogStringPuts DEF Stores!QueueNext
  <2> QED
    BY SMTT(30), <2>2, <2>3, <2>4, <2>5, <2>6
       DEF BufferedLogsNext, LogLoop, Collect, CollectNothing, CountLogs, Wait, NewExtension,
           Shutdown, Die, logVars
<1> QED
  BY <1>1, <1>2, <1>3, PTL DEF BufferedLogsSpec, ImplementsLogQueue, Stores!QueueSpec

=============================================================================
