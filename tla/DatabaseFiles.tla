---------------------------- MODULE DatabaseFiles ----------------------------
(***************************************************************************)
(* The files of launcher.db: the periodic backup with its rotation, the    *)
(* restore at start-up and the offline compaction, each step of which may  *)
(* fail or be the last one before launcher dies.                           *)
(*                                                                         *)
(* A file holds NoFile, Part (not empty, but not all of a database) or the   *)
(* time of the data in it.  Slot 0 is launcher.db.bak, slot i is           *)
(* launcher.db.bak.i; "db" is launcher.db.                                 *)
(***************************************************************************)
EXTENDS Integers

CONSTANTS
  Retain,         \* numberOfOldBackupsToRetain
  MaxTime,        \* bound on the changes of the data
  MaxFileEvents   \* bound on failures, deaths, losses and compactions

ASSUME DatabaseAssumption == Retain \in Nat \ {0} /\ MaxTime \in Nat /\ MaxFileEvents \in Nat

VARIABLE dbf

NoFile == 0 - 1
Part == 0
Slots == 0 .. Retain
Whole(c) == c > 0
Exists(c) == c # NoFile

\* fails counts the backups begun since the last one that succeeded, 0 - 1
\* before the first success and after a restore; job is where backupDb is, i its loop variable.
DatabaseFilesInit ==
  dbf = [db |-> NoFile, slot |-> [s \in Slots |-> NoFile], now |-> 1, up |-> FALSE,
         job |-> "idle", i |-> 0, fails |-> 0 - 1, cpt |-> "idle", new |-> NoFile, old |-> NoFile, events |-> 0]

Budget == dbf.events < MaxFileEvents
Spend == dbf.events + 1

nonEmptyFileExists(c) == Exists(c)

\* The first backup that is not empty, newest first.
latestBackupDb(slot) == {s \in Slots : nonEmptyFileExists(slot[s]) /\ \A t \in Slots : t < s => ~nonEmptyFileExists(slot[t])}

\* Launcher starts: restores a backup if there is no database, and opens it.
\* bbolt creates a missing file and refuses one that is cut short.
UseBackupDbIfNeeded(d) ==
  IF nonEmptyFileExists(d.db) \/ latestBackupDb(d.slot) = {} THEN d
  ELSE LET s == CHOOSE s \in latestBackupDb(d.slot) : TRUE
       IN [d EXCEPT !.db = d.slot[s], !.slot = [@ EXCEPT ![s] = NoFile], !.fails = 0 - 1]

OpenLauncherDb ==
  /\ ~dbf.up /\ dbf.cpt = "idle"
  /\ LET d == UseBackupDbIfNeeded(dbf)
     IN  /\ d # dbf \/ d.db # Part
         /\ dbf' = [d EXCEPT !.up = d.db # Part, !.db = IF d.db = NoFile THEN d.now ELSE d.db]

\* Anything in launcher writes to a store.
StoreChanges ==
  /\ dbf.up /\ dbf.now < MaxTime
  /\ dbf' = [dbf EXCEPT !.now = @ + 1, !.db = dbf.now + 1]

(***************************************************************************)
(* backupDb and rotate.                                                    *)
(***************************************************************************)
BackupBegins ==
  /\ dbf.up /\ dbf.job = "idle"
  /\ dbf' = [dbf EXCEPT !.job = "oldest", !.fails = IF @ < 0 THEN @ ELSE @ + 1]

RotateOldest ==
  /\ dbf.job = "oldest"
  /\ dbf' = [dbf EXCEPT !.slot = [@ EXCEPT ![Retain] = NoFile], !.job = "older", !.i = Retain - 1]

\* Mutant of RotateOlder: the renames start with the newest backup.
RotateOlderAscending ==
  /\ dbf.job = "older"
  /\ LET j == Retain - dbf.i IN
     dbf' = IF dbf.i <= 0 THEN [dbf EXCEPT !.job = "base"]
            ELSE [dbf EXCEPT !.slot = IF Exists(@[j]) THEN [@ EXCEPT ![j + 1] = dbf.slot[j], ![j] = NoFile] ELSE @, !.i = @ - 1]

RotateOlder ==
  /\ dbf.job = "older"
  /\ dbf' = IF dbf.i <= 0 THEN [dbf EXCEPT !.job = "base"]
            ELSE [dbf EXCEPT !.slot = IF Exists(@[dbf.i]) THEN [@ EXCEPT ![dbf.i + 1] = dbf.slot[dbf.i], ![dbf.i] = NoFile] ELSE @,
                             !.i = @ - 1]

RotateBase ==
  /\ dbf.job = "base"
  /\ dbf' = [dbf EXCEPT !.job = "copy",
                        !.slot = IF Exists(@[0]) THEN [@ EXCEPT ![1] = dbf.slot[0], ![0] = NoFile] ELSE @]

\* CopyFile truncates the file and writes the pages of one read transaction.
CopyBegins ==
  /\ dbf.job = "copy"
  /\ dbf' = [dbf EXCEPT !.slot = [@ EXCEPT ![0] = Part], !.job = "copying", !.i = dbf.db]

CopyEnds ==
  /\ dbf.job = "copying"
  /\ dbf' = [dbf EXCEPT !.slot = [@ EXCEPT ![0] = dbf.i], !.job = "idle", !.i = 0, !.fails = 0]

\* A remove, a rename or the copy fails: backupDb returns.
BackupFails ==
  /\ dbf.job # "idle" /\ Budget
  /\ dbf' = [dbf EXCEPT !.job = "idle", !.i = 0, !.events = Spend]

Dies ==
  /\ dbf.up /\ Budget
  /\ dbf' = [dbf EXCEPT !.up = FALSE, !.job = "idle", !.i = 0, !.events = Spend]

\* launcher.db goes missing while launcher is not running.
DatabaseLost ==
  /\ ~dbf.up /\ dbf.cpt = "idle" /\ Budget /\ Exists(dbf.db)
  /\ dbf' = [dbf EXCEPT !.db = NoFile, !.events = Spend]

(***************************************************************************)
(* launcher compactdb, on launcher.db; bbolt's lock keeps launcher out.    *)
(* The copy is refused where an earlier attempt left its buckets behind.   *)
(***************************************************************************)
CompactBegins ==
  /\ ~dbf.up /\ dbf.cpt = "idle" /\ Budget
  /\ Whole(dbf.db)
  /\ dbf' = [dbf EXCEPT !.events = Spend, !.cpt = IF Exists(dbf.new) THEN "idle" ELSE "compact",
                        !.new = IF Exists(@) THEN @ ELSE Part]

compact ==
  /\ dbf.cpt = "compact"
  /\ dbf' = [dbf EXCEPT !.new = dbf.db, !.cpt = "rename"]

renameOld ==
  /\ dbf.cpt = "rename"
  /\ dbf' = [dbf EXCEPT !.old = dbf.db, !.db = NoFile, !.cpt = "renameNew"]

renameNew ==
  /\ dbf.cpt = "renameNew"
  /\ dbf' = [dbf EXCEPT !.db = dbf.new, !.new = NoFile, !.cpt = "idle"]

CompactFails ==
  /\ dbf.cpt # "idle" /\ Budget
  /\ dbf' = [dbf EXCEPT !.cpt = "idle", !.events = Spend]

DatabaseFilesNext ==
  \/ OpenLauncherDb \/ StoreChanges
  \/ BackupBegins \/ RotateOldest \/ RotateOlder \/ RotateBase \/ CopyBegins \/ CopyEnds
  \/ BackupFails \/ Dies \/ DatabaseLost
  \/ CompactBegins \/ compact \/ renameOld \/ renameNew \/ CompactFails

DatabaseFilesSpec == DatabaseFilesInit /\ [][DatabaseFilesNext]_dbf

-----------------------------------------------------------------------------
\* rotate and backupDb (backup.go): whatever was interrupted where, the whole
\* backups are in order of age, and after a backup succeeded it takes more than
\* Retain further attempts, all of them failing, or a restore, which uses one
\* up, to be left without a whole one; it is in slot `fails' at the latest.
BackupKept ==
  /\ \A s, t \in Slots : s < t /\ Whole(dbf.slot[s]) /\ Whole(dbf.slot[t]) => dbf.slot[s] >= dbf.slot[t]
  /\ dbf.fails \in 0 .. Retain => \E s \in 0 .. dbf.fails : Whole(dbf.slot[s])
=============================================================================
