------------------------------ MODULE LogDedup ------------------------------
(***************************************************************************)
(* The deduplication of logs, pkg/log/dedup: a record is passed on when it  *)
(* is new or its window is over, otherwise it is counted; a cleanup that    *)
(* runs beside the loggers drops what has not been seen for a while, and    *)
(* the oldest when there is too much, with a summary of what was counted.   *)
(***************************************************************************)
EXTENDS Naturals, FiniteSets

CONSTANTS Contents,            \* what hashKeyValuePairs tells apart
          Windows,             \* values of DuplicateLogWindow; 0 disables
          CacheExpiry, MaxCacheSize,
          MaxNow, MaxRecords   \* bounds on time and on the records logged

Absent == [firstSeen |-> 0, lastSeen |-> 0, count |-> 0]

VARIABLE dedup

\* toEmit: the counts of the summaries about to be emitted, 0 where there is none.
\* suppressed and counted are histories: the records not passed on, and those that a
\* duplicate_count has told of.
DedupInit ==
  \E w \in Windows :
    dedup = [now |-> 0, started |-> FALSE, window |-> w, logged |-> 0,
             cache |-> [h \in Contents |-> Absent], toEmit |-> [h \in Contents |-> 0],
             suppressed |-> [h \in Contents |-> 0], counted |-> [h \in Contents |-> 0]]

Cached == {h \in Contents : dedup.cache[h].count > 0}
NothingToEmit == \A h \in Contents : dedup.toEmit[h] = 0
DedupOn == dedup.started /\ dedup.window > 0

\* Mutant of handleRecord: a window that ends keeps the count of the one before.
handleRecordKeepsCount(h) ==
  /\ dedup.logged < MaxRecords
  /\ LET e == dedup.cache[h]
         fresh == [firstSeen |-> dedup.now, lastSeen |-> dedup.now, count |-> 1]
         again == [firstSeen |-> e.firstSeen, lastSeen |-> dedup.now, count |-> e.count + 1]
     IN dedup' =
        IF ~DedupOn THEN [dedup EXCEPT !.logged = @ + 1]
        ELSE IF e.count = 0 THEN [dedup EXCEPT !.logged = @ + 1, !.cache[h] = fresh]
        ELSE IF dedup.now - e.firstSeen >= dedup.window
          THEN [dedup EXCEPT !.logged = @ + 1, !.counted[h] = @ + e.count - 1,
                             !.cache[h] = [fresh EXCEPT !.count = e.count + 1]]
        ELSE [dedup EXCEPT !.logged = @ + 1, !.suppressed[h] = @ + 1,
                           !.cache[h] = again]

\* handleRecord: one critical section of cacheLock.  A record passed at the end of a window
\* has duplicate_count = count + 1, of which the first and itself were passed on.
handleRecord(h) ==
  /\ dedup.logged < MaxRecords
  /\ LET e == dedup.cache[h]
         fresh == [firstSeen |-> dedup.now, lastSeen |-> dedup.now, count |-> 1]
         again == [firstSeen |-> e.firstSeen, lastSeen |-> dedup.now, count |-> e.count + 1]
     IN dedup' =
        IF ~DedupOn THEN [dedup EXCEPT !.logged = @ + 1]
        ELSE IF e.count = 0 THEN [dedup EXCEPT !.logged = @ + 1, !.cache[h] = fresh]
        ELSE IF dedup.now - e.firstSeen >= dedup.window
          THEN [dedup EXCEPT !.logged = @ + 1, !.counted[h] = @ + e.count - 1,
                             !.cache[h] = fresh]
        ELSE [dedup EXCEPT !.logged = @ + 1, !.suppressed[h] = @ + 1,
                           !.cache[h] = again]

StartDedup == ~dedup.started /\ dedup' = [dedup EXCEPT !.started = TRUE]

\* Stop waits for a cleanup under way; the cache stays.
StopDedup == dedup.started /\ NothingToEmit /\ dedup' = [dedup EXCEPT !.started = FALSE]

SetDuplicateLogWindow == \E w \in Windows \ {dedup.window} : dedup' = [dedup EXCEPT !.window = w]

\* performCleanup under the lock: what expired goes, and of the rest the oldest ...
RemoveEntries(gone) ==
  /\ gone # {}
  /\ dedup' = [dedup EXCEPT
       !.cache = [h \in Contents |-> IF h \in gone THEN Absent ELSE dedup.cache[h]],
       !.toEmit = [h \in Contents |-> IF h \in gone /\ dedup.cache[h].count > 1
                                        THEN dedup.cache[h].count ELSE 0]]
Expired == {h \in Cached : dedup.now - dedup.cache[h].lastSeen > CacheExpiry}
performCleanup ==
  /\ dedup.started /\ NothingToEmit
  /\ LET kept == Cached \ Expired
         excess == IF Cardinality(kept) > MaxCacheSize THEN Cardinality(kept) - MaxCacheSize ELSE 0
     IN \E evicted \in {e \in SUBSET kept : Cardinality(e) = excess} :
          /\ \A h \in evicted, g \in kept \ evicted :
               dedup.cache[h].lastSeen <= dedup.cache[g].lastSeen
          /\ RemoveEntries(Expired \cup evicted)

\* ... and the summaries, duplicate_count = count, one by one without it.
EmitSummary ==
  \E h \in Contents :
    /\ dedup.toEmit[h] > 0
    /\ dedup' = [dedup EXCEPT !.toEmit[h] = 0, !.counted[h] = @ + dedup.toEmit[h] - 1]

DedupTime == dedup.now < MaxNow /\ dedup' = [dedup EXCEPT !.now = @ + 1]

DedupNext ==
  \/ \E h \in Contents : handleRecord(h)
  \/ StartDedup \/ StopDedup \/ SetDuplicateLogWindow \/ performCleanup \/ EmitSummary \/ DedupTime

DedupSpec == DedupInit /\ [][DedupNext]_dedup

(***************************************************************************)
(* No suppressed record goes uncounted: it has been told of by a record     *)
(* passed on later or by a summary, or the cache or a summary about to be   *)
(* emitted still holds it, whatever loggers, cleanup, restarts of the       *)
(* engine and changes of the window do to each other.                       *)
(***************************************************************************)
SuppressedAreCounted ==
  \A h \in Contents :
    dedup.suppressed[h] = dedup.counted[h]
                          + (IF dedup.cache[h].count > 0 THEN dedup.cache[h].count - 1 ELSE 0)
                          + (IF dedup.toEmit[h] > 0 THEN dedup.toEmit[h] - 1 ELSE 0)
=============================================================================
