---------------------------- MODULE HardwareReset ----------------------------
(***************************************************************************)
(* The hardware change detector: at each start of launcher it compares the *)
(* identifiers of the machine with the stored ones, resets the database    *)
(* when the machine is another one, and stores what it saw.  Every access  *)
(* to a store may fail, and launcher may die between any two steps.        *)
(***************************************************************************)
EXTENDS Integers, FiniteSets

CONSTANTS
  MaxMoves,       \* bound on the changes of the machine
  MaxHwEvents     \* bound on failures and deaths

ASSUME HardwareAssumption == MaxMoves \in Nat /\ MaxHwEvents \in Nat

VARIABLE hw

\* "" is 0, a key that is not stored is Nil.
Nil == 0 - 1
HostKeys == {"serial", "hardware_uuid", "munemo", "machine_guid"}
Stores == {"persistent_host_data", "config"}

HardwareInit ==
  \E windows \in BOOLEAN :
  hw = [windows |-> windows, cur |-> [k \in HostKeys |-> IF k = "machine_guid" /\ ~windows THEN 0 ELSE 1],
        stored |-> [k \in HostKeys |-> Nil], records |-> 0,
        pc |-> "off", seen |-> [k \in HostKeys |-> 0], changed |-> {}, left |-> {}, backup |-> 0,
        done |-> FALSE, resets |-> 0, moves |-> 0, cut |-> FALSE, events |-> 0]

HwBudget == hw.events < MaxHwEvents

\* The installation is copied to another machine, or identifiers drift.
MachineChanges ==
  /\ hw.pc = "off" /\ hw.moves < MaxMoves
  /\ \E ks \in {{"serial"}, {"hardware_uuid"}, {"serial", "hardware_uuid"} \cup (IF hw.windows THEN {"machine_guid"} ELSE {})} :
       hw' = [hw EXCEPT !.moves = @ + 1, !.cur = [k \in HostKeys |-> IF k \in ks THEN @[k] + 1 ELSE @[k]]]

\* Mutant of valueChanged: a value that was never stored counts as changed.
valueChangedIfUnset(stored, current) == current # stored

valueChanged(stored, current) == stored > 0 /\ current # stored

\* The identifiers that could be read, each compared with the store, where a
\* Get may fail too; a first value is stored at once.
Compare(failed, noGet) ==
  LET read == HostKeys \ (failed \cup noGet)
  IN hw' = [hw EXCEPT !.pc = "detected", !.events = IF failed \cup noGet = {} THEN @ ELSE @ + 1,
            !.seen = [k \in HostKeys |-> IF k \in failed THEN 0 ELSE hw.cur[k]],
            !.changed = {k \in read : valueChanged(hw.stored[k], hw.cur[k])},
            !.stored = [k \in HostKeys |-> IF k \in read /\ @[k] <= 0 /\ hw.cur[k] > 0 THEN hw.cur[k] ELSE @[k]],
            !.done = FALSE]

\* osquery gives serial and UUID in one query.
Detect ==
  /\ hw.pc = "off"
  /\ \E failed \in {{}, {"serial", "hardware_uuid"}, {"machine_guid"}, {"munemo"}} :
     \E noGet \in {{}} \cup {{k} : k \in HostKeys \ failed} :
       /\ failed \cup noGet # {} => HwBudget
       /\ Compare(failed, noGet)

remediationRequired == IF hw.windows THEN "machine_guid" \in hw.changed ELSE {"serial", "hardware_uuid"} \subseteq hw.changed

\* With the flag off the change is only noted.
Decide ==
  /\ hw.pc = "detected"
  /\ \E ResetOnHardwareChangeEnabled \in BOOLEAN :
       hw' = [hw EXCEPT !.pc = IF remediationRequired /\ ResetOnHardwareChangeEnabled THEN "prepare" ELSE "update",
                        !.left = hw.changed]

\* The new record after the previous ones, read before anything is wiped.
prepareDatabaseResetRecords ==
  /\ hw.pc = "prepare"
  /\ hw' = [hw EXCEPT !.pc = "wipe", !.backup = hw.records + 1, !.left = Stores]

\* DeleteAll on the stores in the order of a Go map.
wipeDatabase ==
  /\ hw.pc = "wipe"
  /\ \/ \E s \in hw.left :
          hw' = [hw EXCEPT !.left = @ \ {s},
                           !.records = IF s = "config" THEN @ ELSE 0,
                           !.stored = IF s = "config" THEN @ ELSE [k \in HostKeys |-> Nil]]
     \/ /\ hw.left = {}
        /\ hw' = [hw EXCEPT !.pc = "record"]

\* ResetDatabase stores the records and returns nil.
ResetDatabase ==
  /\ hw.pc = "record"
  /\ hw' = [hw EXCEPT !.pc = "update", !.records = hw.backup, !.resets = @ + 1, !.done = TRUE,
                      !.left = HostKeys]

\* A store fails in ResetDatabase: logged, and the changes are stored all the
\* same.
ResetFails ==
  /\ hw.pc \in {"prepare", "wipe", "record"} /\ HwBudget
  /\ hw' = [hw EXCEPT !.pc = "update", !.left = hw.changed, !.events = @ + 1,
                      !.cut = @ \/ (hw.pc # "prepare" /\ hw.records < hw.resets)]

\* Set for each identifier that changed, or for all of them after a reset;
\* a Set that fails is logged.
StoreSeen ==
  /\ hw.pc = "update" /\ hw.left # {}
  /\ \E k \in hw.left, ok \in BOOLEAN :
       /\ ~ok => HwBudget
       /\ hw' = [hw EXCEPT !.left = @ \ {k}, !.stored[k] = IF ok THEN hw.seen[k] ELSE @,
                           !.events = IF ok THEN @ ELSE @ + 1]

\* Execute returns ErrNewHardwareDetected, and launcher is started again, or
\* waits until launcher is stopped.
DetectorEnds ==
  /\ hw.pc = "update" /\ hw.left = {}
  /\ hw' = [hw EXCEPT !.pc = "off", !.done = FALSE]

DetectorDies ==
  /\ hw.pc # "off" /\ HwBudget
  /\ hw' = [hw EXCEPT !.pc = "off", !.left = {}, !.events = @ + 1, !.done = FALSE,
                      !.cut = @ \/ (hw.pc \in {"wipe", "record"} /\ hw.records < hw.resets)]

HardwareNext ==
  \/ MachineChanges \/ Detect \/ Decide \/ prepareDatabaseResetRecords \/ wipeDatabase
  \/ ResetDatabase \/ ResetFails \/ StoreSeen \/ DetectorEnds \/ DetectorDies

HardwareSpec == HardwareInit /\ [][HardwareNext]_hw

-----------------------------------------------------------------------------
\* detectAndRemediateHardwareChange and ResetDatabase (reset.go): a database is
\* reset at most once for each time its machine changed, however its stores
\* failed or launcher died on the way, and it keeps a record of every reset
\* unless it was cut short between the wipe and the write of the records.
ResetsAccounted ==
  /\ hw.resets <= hw.moves
  /\ hw.pc \in {"off", "detected", "prepare"} /\ ~hw.cut => hw.records = hw.resets
=============================================================================
