----------------------------- MODULE ActionQueue -----------------------------
(***************************************************************************)
(* The action queue (ee/control/actionqueue/actionqueue.go): the consumer  *)
(* of the control service that performs each action of a list once.  What  *)
(* was performed is recorded in a store; a cleanup goroutine deletes the   *)
(* records that are older than the retention period.                       *)
(*                                                                         *)
(* Only one Update runs at a time (it is called from Fetch), concurrently  *)
(* with the cleanup.  ControlActions composes it with its caller.          *)
(***************************************************************************)
EXTENDS Naturals, Sequences, FiniteSets

CONSTANTS
    Ids,            \* IDs of actions
    Actors,         \* the actions that are well formed and have an actor
    MaxUnrecorded,  \* bound: records that could not be stored or grow old
    MaxUnreadable,  \* bound: actions whose record cannot be read
    MaxExpired      \* bound: actions that expire

VARIABLES
    records,     \* the store: "none", "fresh" or "old" for each action
    expired,     \* the actions whose ValidUntil has passed
    busy,        \* an Update is running
    queue,       \* the actions it has still to look at
    acted,       \* its current action has been performed and not yet recorded
    failed,      \* processError is set
    cleaning,    \* the cleanup has read the store and not yet deleted
    deleting,    \* keysToDelete
    runs,        \* how often each action has been performed
    unrecorded,  \* how often it was performed and the record did not last
    dropped      \* the new actions passed over as the store was unreadable

vars == <<records, expired, busy, queue, acted, failed, cleaning, deleting, runs,
          unrecorded, dropped>>

Init ==
    /\ records = [a \in Ids |-> "none"]
    /\ expired = {}
    /\ busy = FALSE
    /\ queue = <<>>
    /\ acted = FALSE
    /\ failed = FALSE
    /\ cleaning = FALSE
    /\ deleting = {}
    /\ runs = [a \in Ids |-> 0]
    /\ unrecorded = [a \in Ids |-> 0]
    /\ dropped = {}

-----------------------------------------------------------------------------
(* Update. *)

Update(actions) ==
    /\ ~busy
    /\ busy' = TRUE
    /\ queue' = actions
    /\ failed' = FALSE
    /\ UNCHANGED <<records, expired, acted, cleaning, deleting, runs, unrecorded,
                   dropped>>

isActionValid(a) == a \notin expired

isActionNew(a) == records[a] = "none"

Recordable == \A a \in Ids : unrecorded[a] < MaxUnrecorded

Looking(a) == busy /\ queue # <<>> /\ ~acted /\ a = Head(queue)

\* An action is passed over: it is malformed or expired, was performed before,
\* or there is no actor for it.
Skip(a) ==
    /\ Looking(a)
    /\ a \notin Actors \/ ~isActionValid(a) \/ ~isActionNew(a)
    /\ queue' = Tail(queue)
    /\ UNCHANGED <<records, expired, busy, acted, failed, cleaning, deleting, runs,
                   unrecorded, dropped>>

\* The store cannot be read: the action is taken not to be new.
Unreadable(a) ==
    /\ Cardinality(dropped) < MaxUnreadable
    /\ Looking(a)
    /\ isActionValid(a) /\ isActionNew(a)
    /\ queue' = Tail(queue)
    /\ dropped' = dropped \cup {a}
    /\ UNCHANGED <<records, expired, busy, acted, failed, cleaning, deleting, runs,
                   unrecorded>>

Performs(a) == Looking(a) /\ a \in Actors /\ isActionValid(a) /\ isActionNew(a)

\* Mutant of DoFails: forgets the error.
DoFailsSilently(a) ==
    /\ Performs(a)
    /\ queue' = Tail(queue)
    /\ UNCHANGED <<records, expired, busy, acted, failed, cleaning, deleting, runs,
                   unrecorded, dropped>>

\* actor.Do fails: the action is not marked complete, Update will fail.
DoFails(a) ==
    /\ Performs(a)
    /\ failed' = TRUE
    /\ queue' = Tail(queue)
    /\ UNCHANGED <<records, expired, busy, acted, cleaning, deleting, runs, unrecorded,
                   dropped>>

DoSucceeds(a) ==
    /\ Performs(a)
    /\ runs' = [runs EXCEPT ![a] = @ + 1]
    /\ acted' = TRUE
    /\ UNCHANGED <<records, expired, busy, queue, failed, cleaning, deleting,
                   unrecorded, dropped>>

\* Mutant of storeActionRecord: an earlier failure leaves the rest unrecorded.
storeActionRecordUnlessFailed(a) ==
    /\ acted /\ a = Head(queue)
    /\ records' = IF failed THEN records ELSE [records EXCEPT ![a] = "fresh"]
    /\ acted' = FALSE
    /\ queue' = Tail(queue)
    /\ UNCHANGED <<expired, busy, failed, cleaning, deleting, runs, unrecorded, dropped>>

storeActionRecord(a) ==
    /\ acted /\ a = Head(queue)
    /\ records' = [records EXCEPT ![a] = "fresh"]
    /\ acted' = FALSE
    /\ queue' = Tail(queue)
    /\ UNCHANGED <<expired, busy, failed, cleaning, deleting, runs, unrecorded, dropped>>

\* The record cannot be stored: logged, and the next action is looked at.
storeFails(a) ==
    /\ acted /\ a = Head(queue)
    /\ Recordable
    /\ unrecorded' = [unrecorded EXCEPT ![a] = @ + 1]
    /\ acted' = FALSE
    /\ queue' = Tail(queue)
    /\ UNCHANGED <<records, expired, busy, failed, cleaning, deleting, runs, dropped>>

\* Mutant of UpdateReturns: returns only when no action has failed.
UpdateReturnsNil ==
    /\ busy /\ queue = <<>> /\ ~failed
    /\ busy' = FALSE
    /\ UNCHANGED <<records, expired, queue, acted, failed, cleaning, deleting, runs,
                   unrecorded, dropped>>

\* Update returns processError.
UpdateReturns ==
    /\ busy /\ queue = <<>>
    /\ busy' = FALSE
    /\ UNCHANGED <<records, expired, queue, acted, failed, cleaning, deleting, runs,
                   unrecorded, dropped>>

-----------------------------------------------------------------------------
(* The cleanup goroutine, and time. *)

\* Mutant of CleanupScan: does not look at the time of the record.
CleanupScanAll ==
    /\ ~cleaning
    /\ deleting' = {a \in Ids : records[a] # "none"}
    /\ deleting' # {}
    /\ cleaning' = TRUE
    /\ UNCHANGED <<records, expired, busy, queue, acted, failed, runs, unrecorded,
                   dropped>>

\* cleanupActions, up to the end of ForEach.  (One that finds nothing old
\* deletes nothing.)
CleanupScan ==
    /\ ~cleaning
    /\ deleting' = {a \in Ids : records[a] = "old"}
    /\ deleting' # {}
    /\ cleaning' = TRUE
    /\ UNCHANGED <<records, expired, busy, queue, acted, failed, runs, unrecorded,
                   dropped>>

\* Then the old keys are deleted, or the store fails and they stay.
CleanupDelete ==
    /\ cleaning
    /\ cleaning' = FALSE
    /\ deleting' = {}
    /\ \/ /\ records' = [a \in Ids |-> IF a \in deleting THEN "none" ELSE records[a]]
          /\ unrecorded' = [a \in Ids |->
                               unrecorded[a] + (IF a \in deleting THEN 1 ELSE 0)]
       \/ UNCHANGED <<records, unrecorded>>
    /\ UNCHANGED <<expired, busy, queue, acted, failed, runs, dropped>>

Expire(a) ==
    /\ a \in Actors \ expired /\ Cardinality(expired) < MaxExpired
    /\ expired' = expired \cup {a}
    /\ UNCHANGED <<records, busy, queue, acted, failed, cleaning, deleting, runs,
                   unrecorded, dropped>>

\* The retention period of a record has passed.
Age(a) ==
    /\ records[a] = "fresh" /\ Recordable
    /\ records' = [records EXCEPT ![a] = "old"]
    /\ UNCHANGED <<expired, busy, queue, acted, failed, cleaning, deleting, runs,
                   unrecorded, dropped>>

\* Launcher dies and is started again: the records stay, an action that was
\* performed and not yet recorded is not known to have been.
Restart ==
    /\ unrecorded' = [a \in Ids |->
                         unrecorded[a] + (IF acted /\ a = Head(queue) THEN 1 ELSE 0)]
    /\ busy' = FALSE
    /\ queue' = <<>>
    /\ acted' = FALSE
    /\ failed' = FALSE
    /\ cleaning' = FALSE
    /\ deleting' = {}
    /\ UNCHANGED <<records, expired, runs, dropped>>

=============================================================================
