--------------------------- MODULE WorkersProofs ----------------------------
(***************************************************************************)
(* Those that run goroutines and wait for them, for any finite number of   *)
(* them: the run group, the errgroup of an osquery instance, the workers   *)
(* of a table and the senders of the callback queue. Their arguments       *)
(* count: errors received, workers taken, places in a queue.               *)
(***************************************************************************)
EXTENDS RunGroup, TableWrapper, LocalServer, FiniteSetTheorems, TLAPS

-----------------------------------------------------------------------------
(* The run group.                                                           *)

\* The initial error is known from the moment the first one is received.
PhaseInv ==
    /\ pc \in {"new", "first"} => initial = None /\ collected = {}
    /\ pc = "new" => /\ actorErrors = <<>>
                     /\ execute = [a \in Actors |-> "idle"]
                     /\ interrupt = [a \in Actors |-> "idle"]
    /\ (pc \notin {"new", "first"} /\ actors # {}) => initial # None
    /\ (pc \notin {"new", "returned"}) => actors # {}
    /\ \A a \in Actors \ actors : execute[a] = "idle"

\* The errors are of different actors.
DistinctInv ==
    /\ \A i, j \in 1..Len(actorErrors) :
          i # j => actorErrors[i] # actorErrors[j]
    /\ InChannel \cap (collected \cup {initial}) = {}
    /\ initial \notin collected

InterruptedInv ==
    pc \in {"interrupted", "collect", "returned"} =>
        \A a \in actors : interrupt[a] # "idle"

IInv == /\ TypeOK /\ PhaseInv /\ DistinctInv /\ ErrorsAccounted
        /\ InterruptedInv /\ ReturnedMeansStopped

-----------------------------------------------------------------------------
\* What Append and Tail do to the elements of the channel.
LEMMA AppendElements ==
    ASSUME NEW s \in Seq(Actors), NEW a \in Actors,
           \A i, j \in 1..Len(s) : i # j => s[i] # s[j],
           a \notin {s[i] : i \in 1..Len(s)}
    PROVE  LET t == Append(s, a)
           IN  /\ t \in Seq(Actors) /\ Len(t) = Len(s) + 1
               /\ {t[i] : i \in 1..Len(t)} = {s[i] : i \in 1..Len(s)} \cup {a}
               /\ \A i, j \in 1..Len(t) : i # j => t[i] # t[j]
  <1> DEFINE t == Append(s, a)
  <1>1. t \in Seq(Actors) /\ Len(t) = Len(s) + 1 /\ Len(s) \in Nat
        /\ t[Len(s) + 1] = a /\ \A i \in 1..Len(s) : t[i] = s[i]
    OBVIOUS
  <1> HIDE DEF t
  <1>2. {t[i] : i \in 1..Len(t)} = {s[i] : i \in 1..Len(s)} \cup {a}
    <2>1. 1..Len(t) = 1..Len(s) \cup {Len(s) + 1}
      BY <1>1
    <2> QED
      BY <1>1, <2>1
  <1>3. \A i, j \in 1..Len(t) : i # j => t[i] # t[j]
    BY <1>1
  <1> QED
    BY <1>1, <1>2, <1>3 DEF t

\* The same for the rest of the channel once its first error is received.
LEMMA TailElements ==
    ASSUME NEW s \in Seq(Actors), s # <<>>,
           \A i, j \in 1..Len(s) : i # j => s[i] # s[j]
    PROVE  LET t == Tail(s)
           IN  /\ t \in Seq(Actors) /\ Len(s) = Len(t) + 1 /\ Head(s) \in Actors
               /\ {s[i] : i \in 1..Len(s)} = {t[i] : i \in 1..Len(t)} \cup {Head(s)}
               /\ Head(s) \notin {t[i] : i \in 1..Len(t)}
               /\ \A i, j \in 1..Len(t) : i # j => t[i] # t[j]
  <1> DEFINE t == Tail(s)
  <1>1. t \in Seq(Actors) /\ Len(s) = Len(t) + 1 /\ Len(t) \in Nat
        /\ Head(s) = s[1] /\ Head(s) \in Actors
        /\ \A i \in 1..Len(t) : t[i] = s[i + 1]
    OBVIOUS
  <1> HIDE DEF t
  <1>2. {s[i] : i \in 1..Len(s)} = {t[i] : i \in 1..Len(t)} \cup {s[1]}
    <2>1. ASSUME NEW i \in 1..Len(s)
          PROVE  s[i] \in {t[j] : j \in 1..Len(t)} \cup {s[1]}
      <3>1. CASE i = 1
        BY <3>1
      <3>2. CASE i # 1
        <4>1. i - 1 \in 1..Len(t) /\ (i - 1) + 1 = i
          BY <1>1, <3>2
        <4>2. s[i] = t[i - 1]
          BY <1>1, <4>1
        <4> QED
          BY <4>1, <4>2
      <3> QED
        BY <3>1, <3>2
    <2>2. ASSUME NEW i \in 1..Len(t)
          PROVE  t[i] \in {s[j] : j \in 1..Len(s)}
      <3>1. i + 1 \in 1..Len(s)
        BY <1>1
      <3> QED
        BY <1>1, <3>1
    <2>3. 1 \in 1..Len(s)
      BY <1>1
    <2> QED
      BY <2>1, <2>2, <2>3
  <1>3. s[1] \notin {t[i] : i \in 1..Len(t)}
    BY <1>1
  <1>4. \A i, j \in 1..Len(t) : i # j => t[i] # t[j]
    BY <1>1
  <1> QED
    BY <1>1, <1>2, <1>3, <1>4 DEF t

\* The sets of actors are finite, and counted by natural numbers.
LEMMA ActorsFinite ==
    ASSUME NEW S \in SUBSET Actors
    PROVE  /\ IsFiniteSet(S) /\ Cardinality(S) \in Nat
           /\ \A a \in Actors \ S : Cardinality(S \cup {a}) = Cardinality(S) + 1
  BY RunGroupAssumption, FS_Subset, FS_CardinalityType, FS_AddElement


-----------------------------------------------------------------------------
\* The invariant holds of a new group.
LEMMA InitIInv == Init => IInv
  <1> SUFFICES ASSUME Init PROVE IInv
    OBVIOUS
  <1> USE RunGroupAssumption DEF Init
  <1>1. TypeOK
    <2>1. execute \in [Actors -> Calls] /\ interrupt \in [Actors -> Calls]
      BY DEF Calls
    <2>2. actorErrors \in Seq(Actors)
      OBVIOUS
    <2>3. deadline \in BOOLEAN
      BY ZenonT(30)
    <2> QED
      BY <2>1, <2>2, <2>3 DEF TypeOK
  <1>2. InChannel = {} /\ Returned = {}
    BY DEF InChannel, Returned
  <1>3. PhaseInv /\ InterruptedInv /\ ReturnedMeansStopped
    BY DEF PhaseInv, InterruptedInv, ReturnedMeansStopped
  <1>4. DistinctInv
    BY <1>2 DEF DistinctInv
  <1>5. ErrorsAccounted
    BY <1>2, FS_EmptySet DEF ErrorsAccounted
  <1> QED
    BY <1>1, <1>3, <1>4, <1>5 DEF IInv

\* The actors that have returned were added.
LEMMA ReturnedAdded == IInv => Returned \subseteq actors
  BY DEF IInv, PhaseInv, Returned

\* Receiving an error moves an actor from the channel to those received.
LEMMA Received ==
    ASSUME IInv, actorErrors # <<>>, actorErrors' = Tail(actorErrors)
    PROVE  /\ actorErrors' \in Seq(Actors)
           /\ Len(actorErrors) = Len(actorErrors') + 1
           /\ Len(actorErrors) \in Nat /\ Len(actorErrors') \in Nat
           /\ Head(actorErrors) \in Actors
           /\ InChannel = InChannel' \cup {Head(actorErrors)}
           /\ Head(actorErrors) \notin InChannel'
           /\ \A i, j \in 1..Len(actorErrors') :
                 i # j => actorErrors'[i] # actorErrors'[j]
  <1>1. actorErrors \in Seq(Actors)
        /\ \A i, j \in 1..Len(actorErrors) :
              i # j => actorErrors[i] # actorErrors[j]
    BY DEF IInv, TypeOK, DistinctInv
  <1>2. LET t == Tail(actorErrors)
        IN  /\ t \in Seq(Actors) /\ Len(actorErrors) = Len(t) + 1
            /\ Head(actorErrors) \in Actors
            /\ InChannel = {t[i] : i \in 1..Len(t)} \cup {Head(actorErrors)}
            /\ Head(actorErrors) \notin {t[i] : i \in 1..Len(t)}
            /\ \A i, j \in 1..Len(t) : i # j => t[i] # t[j]
    BY ZenonT(30), <1>1, TailElements DEF InChannel
  <1>3. InChannel' = {actorErrors'[i] : i \in 1..Len(actorErrors')}
    BY DEF InChannel
  <1> QED
    BY <1>1, <1>2, <1>3

\* Every step keeps the invariant.
LEMMA NextIInv == ASSUME IInv, [Next]_vars PROVE IInv'
  <1> USE RunGroupAssumption
  <1>1. ASSUME NEW a \in Actors, Add(a) PROVE IInv'
    <2> USE <1>1 DEF Add
    <2>1. TypeOK'
      BY DEF IInv, TypeOK, Calls
    <2>2. PhaseInv'
      BY DEF IInv, TypeOK, PhaseInv, ErrorsAccounted, Returned
    <2>3. DistinctInv'
      BY DEF IInv, DistinctInv, InChannel
    <2>4. ErrorsAccounted'
      <3>1. Returned' = Returned
        BY DEF IInv, TypeOK, PhaseInv, Returned
      <3> QED
        BY <3>1 DEF IInv, ErrorsAccounted, InChannel
    <2>5. InterruptedInv'
      BY DEF IInv, TypeOK, PhaseInv, InterruptedInv
    <2>6. ReturnedMeansStopped'
      BY DEF IInv, TypeOK, PhaseInv, ReturnedMeansStopped
    <2> QED
      BY <2>1, <2>2, <2>3, <2>4, <2>5, <2>6 DEF IInv
  <1>2. ASSUME Run PROVE IInv'
    <2> USE <1>2 DEF Run
    <2>1. TypeOK'
      BY DEF IInv, TypeOK, Calls
    <2>2. PhaseInv'
      BY DEF IInv, TypeOK, PhaseInv, ErrorsAccounted, Returned
    <2>3. DistinctInv'
      BY DEF IInv, DistinctInv, InChannel
    <2>4. ErrorsAccounted'
      <3>1. Returned' = Returned
        BY DEF IInv, TypeOK, PhaseInv, Returned
      <3> QED
        BY <3>1 DEF IInv, ErrorsAccounted, InChannel
    <2>5. InterruptedInv'
      BY DEF IInv, TypeOK, PhaseInv, InterruptedInv
    <2>6. ReturnedMeansStopped'
      BY DEF IInv, TypeOK, PhaseInv, ReturnedMeansStopped
    <2> QED
      BY <2>1, <2>2, <2>3, <2>4, <2>5, <2>6 DEF IInv
  <1>3. ASSUME NEW a \in Actors, ExecuteReturns(a) PROVE IInv'
    <2> USE <1>3 DEF ExecuteReturns
    <2>1. a \in actors /\ a \notin Returned /\ Returned' = Returned \cup {a}
      BY DEF IInv, TypeOK, PhaseInv, Returned
    <2>2. a \notin InChannel /\ a \notin collected /\ a # initial
      BY <2>1 DEF IInv, ErrorsAccounted
    <2>3. /\ actorErrors' \in Seq(Actors)
          /\ Len(actorErrors') = Len(actorErrors) + 1
          /\ InChannel' = InChannel \cup {a}
          /\ \A i, j \in 1..Len(actorErrors') :
                i # j => actorErrors'[i] # actorErrors'[j]
      BY <2>2, AppendElements DEF IInv, TypeOK, DistinctInv, InChannel
    <2>4. TypeOK'
      BY <2>3 DEF IInv, TypeOK, Calls
    <2>5. PhaseInv'
      BY <2>1 DEF IInv, TypeOK, PhaseInv
    <2>6. DistinctInv'
      BY <2>2, <2>3 DEF IInv, DistinctInv
    <2>7. ErrorsAccounted'
      <3>1. Cardinality(Returned') = Cardinality(Returned) + 1
        BY ZenonT(30), <2>1, ActorsFinite DEF Returned
      <3>2. Cardinality(collected) \in Nat /\ Len(actorErrors) \in Nat
        BY ActorsFinite DEF IInv, TypeOK
      <3>3. Returned' = ({initial'} \ {None}) \cup collected' \cup InChannel'
        BY <2>1, <2>3 DEF IInv, ErrorsAccounted
      <3>4. Cardinality(Returned') = (IF initial' = None THEN 0 ELSE 1)
               + Cardinality(collected') + Len(actorErrors')
        <4>1. Cardinality(Returned) = (IF initial = None THEN 0 ELSE 1)
                 + Cardinality(collected) + Len(actorErrors)
          BY DEF IInv, ErrorsAccounted
        <4>2. collected' = collected /\ initial' = initial
              /\ Len(actorErrors') = Len(actorErrors) + 1
          BY <2>3
        <4> QED
          BY SMTT(30), <3>1, <3>2, <4>1, <4>2
      <3> QED
        BY <3>3, <3>4 DEF ErrorsAccounted
    <2>8. InterruptedInv' /\ ReturnedMeansStopped'
      BY <2>1 DEF IInv, TypeOK, InterruptedInv, ReturnedMeansStopped
    <2> QED
      BY <2>4, <2>5, <2>6, <2>7, <2>8 DEF IInv
  <1>4. CASE ReceiveFirst
    <2> USE <1>4 DEF ReceiveFirst
    <2>1. initial = None /\ collected = {} /\ initial' # None
      BY Received DEF IInv, PhaseInv
    <2>2. TypeOK'
      BY Received DEF IInv, TypeOK
    <2>3. PhaseInv'
      BY <2>1 DEF IInv, PhaseInv
    <2>4. DistinctInv'
      BY <2>1, Received DEF DistinctInv
    <2>5. ErrorsAccounted'
      <3>1. Returned' = Returned
        BY DEF Returned
      <3>2. Returned = {initial'} \cup InChannel'
        BY <2>1, Received DEF IInv, ErrorsAccounted
      <3>3. Cardinality(Returned) = 0 + Cardinality(collected) + Len(actorErrors)
        BY <2>1 DEF IInv, ErrorsAccounted
      <3>4. Cardinality(collected) \in Nat
        BY ActorsFinite DEF IInv, TypeOK
      <3> QED
        BY <2>1, <3>1, <3>2, <3>3, <3>4, Received DEF ErrorsAccounted
    <2>6. InterruptedInv' /\ ReturnedMeansStopped'
      BY DEF InterruptedInv, ReturnedMeansStopped
    <2> QED
      BY <2>2, <2>3, <2>4, <2>5, <2>6 DEF IInv
  <1>5. ASSUME InterruptAll PROVE IInv'
    <2> USE <1>5 DEF InterruptAll
    <2>1. TypeOK'
      BY DEF IInv, TypeOK, Calls
    <2>2. PhaseInv'
      BY DEF IInv, TypeOK, PhaseInv, ErrorsAccounted, Returned
    <2>3. DistinctInv'
      BY DEF IInv, DistinctInv, InChannel
    <2>4. ErrorsAccounted'
      <3>1. Returned' = Returned
        BY DEF IInv, TypeOK, PhaseInv, Returned
      <3> QED
        BY <3>1 DEF IInv, ErrorsAccounted, InChannel
    <2>5. InterruptedInv'
      BY DEF IInv, TypeOK, PhaseInv, InterruptedInv
    <2>6. ReturnedMeansStopped'
      BY DEF IInv, TypeOK, PhaseInv, ReturnedMeansStopped
    <2> QED
      BY <2>1, <2>2, <2>3, <2>4, <2>5, <2>6 DEF IInv
  <1>6. ASSUME NEW a \in Actors, InterruptReturns(a) PROVE IInv'
    <2> USE <1>6 DEF InterruptReturns
    <2>1. TypeOK'
      BY DEF IInv, TypeOK, Calls
    <2>2. PhaseInv'
      BY DEF IInv, TypeOK, PhaseInv, ErrorsAccounted, Returned
    <2>3. DistinctInv'
      BY DEF IInv, DistinctInv, InChannel
    <2>4. ErrorsAccounted'
      <3>1. Returned' = Returned
        BY DEF IInv, TypeOK, PhaseInv, Returned
      <3> QED
        BY <3>1 DEF IInv, ErrorsAccounted, InChannel
    <2>5. InterruptedInv'
      BY DEF IInv, TypeOK, PhaseInv, InterruptedInv
    <2>6. ReturnedMeansStopped'
      BY DEF IInv, TypeOK, PhaseInv, ReturnedMeansStopped
    <2> QED
      BY <2>1, <2>2, <2>3, <2>4, <2>5, <2>6 DEF IInv
  <1>7. ASSUME InterruptsAwaited PROVE IInv'
    <2> USE <1>7 DEF InterruptsAwaited
    <2>1. TypeOK'
      BY DEF IInv, TypeOK, Calls
    <2>2. PhaseInv'
      BY DEF IInv, TypeOK, PhaseInv, ErrorsAccounted, Returned
    <2>3. DistinctInv'
      BY DEF IInv, DistinctInv, InChannel
    <2>4. ErrorsAccounted'
      <3>1. Returned' = Returned
        BY DEF IInv, TypeOK, PhaseInv, Returned
      <3> QED
        BY <3>1 DEF IInv, ErrorsAccounted, InChannel
    <2>5. InterruptedInv'
      BY DEF IInv, TypeOK, PhaseInv, InterruptedInv
    <2>6. ReturnedMeansStopped'
      BY DEF IInv, TypeOK, PhaseInv, ReturnedMeansStopped
    <2> QED
      BY <2>1, <2>2, <2>3, <2>4, <2>5, <2>6 DEF IInv
  <1>8. CASE Collect
    <2> USE <1>8 DEF Collect
    <2>1. Head(actorErrors) \notin collected /\ Head(actorErrors) # initial
      BY Received DEF IInv, DistinctInv
    <2>2. TypeOK'
      BY Received DEF IInv, TypeOK
    <2>3. PhaseInv'
      BY DEF IInv, PhaseInv
    <2>4. DistinctInv'
      BY <2>1, Received DEF IInv, DistinctInv
    <2>5. ErrorsAccounted'
      <3>1. Returned' = Returned
        BY DEF Returned
      <3>2. Cardinality(collected') = Cardinality(collected) + 1
            /\ Cardinality(collected) \in Nat
        BY SMTT(30), <2>1, Received, ActorsFinite DEF IInv, TypeOK
      <3> QED
        BY <3>1, <3>2, Received DEF IInv, ErrorsAccounted
    <2>6. InterruptedInv' /\ ReturnedMeansStopped'
      BY DEF IInv, InterruptedInv, ReturnedMeansStopped
    <2> QED
      BY <2>2, <2>3, <2>4, <2>5, <2>6 DEF IInv
  <1>9. ASSUME Timeout PROVE IInv'
    <2> USE <1>9 DEF Timeout
    <2>1. TypeOK'
      BY DEF IInv, TypeOK, Calls
    <2>2. PhaseInv'
      BY DEF IInv, TypeOK, PhaseInv, ErrorsAccounted, Returned
    <2>3. DistinctInv'
      BY DEF IInv, DistinctInv, InChannel
    <2>4. ErrorsAccounted'
      <3>1. Returned' = Returned
        BY DEF IInv, TypeOK, PhaseInv, Returned
      <3> QED
        BY <3>1 DEF IInv, ErrorsAccounted, InChannel
    <2>5. InterruptedInv'
      BY DEF IInv, TypeOK, PhaseInv, InterruptedInv
    <2>6. ReturnedMeansStopped'
      BY DEF IInv, TypeOK, PhaseInv, ReturnedMeansStopped
    <2> QED
      BY <2>1, <2>2, <2>3, <2>4, <2>5, <2>6 DEF IInv
  <1>10. CASE Return
    <2> USE <1>10 DEF Return
    <2>1. initial \in actors \ collected /\ collected \subseteq actors
          /\ InChannel \subseteq actors
      BY ReturnedAdded DEF IInv, TypeOK, PhaseInv, DistinctInv, ErrorsAccounted
    <2>2. Cardinality(collected \cup {initial}) = Cardinality(collected) + 1
          /\ Cardinality(collected) \in Nat /\ Cardinality(actors) \in Nat
          /\ IsFiniteSet(actors)
      BY <2>1, ActorsFinite DEF IInv, TypeOK
    <2>3. collected \cup {initial} = actors
      <3>1. collected \cup {initial} \subseteq actors
        BY <2>1
      <3>2. Cardinality(collected \cup {initial}) <= Cardinality(actors)
        BY <2>2, <3>1, FS_Subset
      <3>3. Cardinality(collected \cup {initial}) = Cardinality(actors)
        BY <2>2, <3>2 DEF Remaining
      <3> QED
        BY <2>2, <3>1, <3>3, FS_Subset
    <2>4. InChannel = {} /\ Returned = actors
      BY <2>1, <2>3, ReturnedAdded DEF IInv, TypeOK, DistinctInv, ErrorsAccounted
    <2>5. actorErrors = <<>>
      <3>1. actorErrors \in Seq(Actors)
        BY DEF IInv, TypeOK
      <3>2. 1 \notin 1..Len(actorErrors)
        BY <2>4 DEF InChannel
      <3> QED
        BY <3>1, <3>2
    <2>6. ReturnedMeansStopped'
      BY <2>4, <2>5 DEF ReturnedMeansStopped, Returned
    <2>7. TypeOK' /\ PhaseInv' /\ InterruptedInv'
      BY DEF IInv, TypeOK, PhaseInv, InterruptedInv
    <2>8. DistinctInv' /\ ErrorsAccounted'
      BY DEF IInv, DistinctInv, ErrorsAccounted, InChannel, Returned
    <2> QED
      BY <2>6, <2>7, <2>8 DEF IInv
  <1>11. CASE UNCHANGED vars
    BY <1>11 DEF vars, IInv, TypeOK, PhaseInv, DistinctInv, ErrorsAccounted,
                 InterruptedInv, ReturnedMeansStopped, InChannel, Returned
  <1> QED
    BY <1>1, <1>2, <1>3, <1>4, <1>5, <1>6, <1>7, <1>8, <1>9, <1>10, <1>11
       DEF Next

\* For every finite set of actors, stuck or not: every actor that returned is
\* accounted for once; unless it gave up at its deadline, Run returns when all
\* executes have returned; and it has interrupted every actor by then.
THEOREM RunGroupSafety == Spec => [](TypeOK /\ RunAccounted)
  <1>1. IInv => TypeOK /\ RunAccounted
    BY DEF IInv, InterruptedInv, AllInterrupted, RunAccounted
  <1> QED
    BY InitIInv, NextIInv, <1>1, PTL DEF Spec

-----------------------------------------------------------------------------
(* The errgroup that an osquery instance runs its goroutines in.            *)

CONSTANTS Plain, Repeated, OnShutdown, StuckGoroutines

VARIABLES state, err, doneCtx, asked, failed, wait, result

EG == INSTANCE LoggedErrgroup WITH Stuck <- StuckGoroutines

\* Why the first error is kept: until Shutdown is called or Wait returns, the context is
\* done only because of an error, and a shutdown goroutine runs only when it is done.
ErrgroupInv ==
  /\ EG!TypeOK
  /\ EG!WaitMeansExited
  /\ \A g \in OnShutdown : /\ state[g] \notin {"delay", "ticking"}
                           /\ state[g] \in {"running", "returned"} => doneCtx
  /\ doneCtx /\ ~asked /\ wait # "returned" => err # "nil"
  /\ ~asked => err # "canceled"
  /\ EG!InitialErrorKept

(***************************************************************************)
(* For every set of goroutines, each of one sort: the error of a goroutine   *)
(* that fails before Shutdown is called is what Wait returns, whatever the   *)
(* shutdown goroutines return that it sets off; and when Wait returns        *)
(* without a timeout no goroutine is left (errgroup.go).                     *)
(***************************************************************************)
THEOREM ErrgroupSafety ==
  ASSUME OnShutdown \cap (Plain \cup Repeated) = {}
  PROVE  EG!Spec => [](EG!InitialErrorKept /\ EG!WaitMeansExited)
<1>1. EG!Init => ErrgroupInv
  BY ZenonT(30) DEF EG!Init, ErrgroupInv, EG!TypeOK, EG!WaitMeansExited, EG!InitialErrorKept, EG!Goroutines, EG!Errors
<1>2. ErrgroupInv /\ [EG!Next]_EG!vars => ErrgroupInv'
  <2> SUFFICES ASSUME ErrgroupInv, [EG!Next]_EG!vars PROVE ErrgroupInv'
    OBVIOUS
  <2> USE DEF ErrgroupInv, EG!TypeOK, EG!WaitMeansExited, EG!InitialErrorKept, EG!Goroutines, EG!Errors
  <2>1. ASSUME NEW g \in EG!Goroutines, EG!StartGoroutine(g) PROVE ErrgroupInv'
    BY <2>1 DEF EG!StartGoroutine, EG!Enter
  <2>2. ASSUME NEW g \in EG!Goroutines, EG!StartRepeatedGoroutine(g) PROVE ErrgroupInv'
    BY <2>2 DEF EG!StartRepeatedGoroutine, EG!Enter
  <2>3. ASSUME NEW g \in EG!Goroutines, EG!AddShutdownGoroutine(g) PROVE ErrgroupInv'
    BY <2>3 DEF EG!AddShutdownGoroutine, EG!Enter
  <2>4. ASSUME NEW g \in EG!Goroutines, EG!ReturnsError(g) PROVE ErrgroupInv'
    BY <2>4 DEF EG!ReturnsError, EG!Exit
  <2>5. ASSUME NEW g \in EG!Goroutines, EG!ReturnsNil(g) PROVE ErrgroupInv'
    BY <2>5 DEF EG!ReturnsNil, EG!Exit, EG!Enter
  <2>6. ASSUME NEW g \in EG!Goroutines, EG!Panics(g) PROVE ErrgroupInv'
    BY ZenonT(30), <2>6 DEF EG!Panics, EG!Exit
  <2>7. ASSUME NEW g \in EG!Goroutines, EG!Turn(g) PROVE ErrgroupInv'
    BY <2>7 DEF EG!Turn, EG!Enter
  <2>8. ASSUME NEW g \in EG!Goroutines, EG!SeesDone(g) PROVE ErrgroupInv'
    BY ZenonT(30), <2>8 DEF EG!SeesDone, EG!Exit, EG!Enter
  <2>9. CASE EG!Shutdown
    BY <2>9 DEF EG!Shutdown
  <2>10. CASE EG!Wait
    BY <2>10 DEF EG!Wait
  <2>11. CASE EG!WaitReturns
    BY <2>11 DEF EG!WaitReturns
  <2>12. CASE EG!WaitTimesOut
    BY <2>12 DEF EG!WaitTimesOut
  <2>13. CASE UNCHANGED EG!vars
    BY <2>13 DEF EG!vars
  <2> QED
    BY ZenonT(30), <2>1, <2>2, <2>3, <2>4, <2>5, <2>6, <2>7, <2>8, <2>9, <2>10, <2>11, <2>12, <2>13
    DEF EG!Next
<1>3. ErrgroupInv => EG!InitialErrorKept /\ EG!WaitMeansExited
  BY DEF ErrgroupInv
<1> QED
  BY <1>1, <1>2, <1>3, PTL DEF EG!Spec

-----------------------------------------------------------------------------
(* The workers of a table.                                                  *)

TwTypeOK ==
  /\ freeWorkers \in Nat
  /\ queryAt \in [Queries -> {"idle", "refused", "waiting", "rows", "error", "timeout"}]
  /\ genAt \in [Queries -> {"none", "running", "returned", "panicked", "done"}]
  /\ resultSent \in [Queries -> {"nothing", "rows", "error"}]

\* A goroutine is started by its query, and has sent when it gives its worker back.
GenFollowsQuery ==
  \A q \in Queries :
    /\ queryAt[q] = "idle" => genAt[q] = "none"
    /\ queryAt[q] = "waiting" /\ genAt[q] \in {"returned", "done"} => resultSent[q] # "nothing"

Counted == freeWorkers + Cardinality(Working) = numWorkers

TwInv == TwTypeOK /\ GenFollowsQuery /\ Counted

\* The count of a step that keeps the workers.
LEMMA KeepsWorkers ==
  ASSUME Counted, Working' = Working, freeWorkers' = freeWorkers
  PROVE  Counted'
BY DEF Counted

\* The count of a step that takes one.
LEMMA TakesWorker ==
  ASSUME TwTypeOK, Counted, NEW q \in Queries, q \notin Working, freeWorkers # 0,
         Working' = Working \cup {q}, freeWorkers' = freeWorkers - 1
  PROVE  Counted'
<1>1. IsFiniteSet(Working)
  BY TableWrapperAssumption, FS_Subset DEF Working
<1>2. Cardinality(Working \cup {q}) = Cardinality(Working) + 1
  BY <1>1, FS_AddElement
<1>3. Cardinality(Working) \in Nat
  BY <1>1, FS_CardinalityType
<1> QED
  BY <1>2, <1>3, TableWrapperAssumption DEF Counted, TwTypeOK

\* The count of a step that gives one back.
LEMMA GivesWorker ==
  ASSUME TwTypeOK, Counted, NEW q \in Working,
         Working' = Working \ {q}, freeWorkers' = freeWorkers + 1
  PROVE  Counted'
<1>1. IsFiniteSet(Working)
  BY TableWrapperAssumption, FS_Subset DEF Working
<1>2. Cardinality(Working \ {q}) = Cardinality(Working) - 1
  BY <1>1, FS_RemoveElement
<1>3. Cardinality(Working) \in Nat
  BY <1>1, FS_CardinalityType
<1> QED
  BY <1>2, <1>3, TableWrapperAssumption DEF Counted, TwTypeOK

\* A new table has all its workers.
LEMMA TwInit == newWrappedTable => TwInv
<1> SUFFICES ASSUME newWrappedTable PROVE TwInv
  OBVIOUS
<1>1. TwTypeOK /\ GenFollowsQuery
  BY TableWrapperAssumption DEF newWrappedTable, TwTypeOK, GenFollowsQuery
<1>2. Working = {}
  BY SMTT(30) DEF newWrappedTable, Working
<1> QED
  BY <1>1, <1>2, FS_EmptySet, TableWrapperAssumption DEF newWrappedTable, Counted, TwInv

\* The steps of a query and its goroutine keep the types and their order.
LEMMA TwTypeStep ==
  ASSUME TwTypeOK, GenFollowsQuery, TableWrapperNext
  PROVE  TwTypeOK' /\ GenFollowsQuery'
<1> PICK q \in Queries : \/ generate(q) \/ genReturns(q) \/ genReleases(q) \/ genPanics(q)
                         \/ onPanic(q) \/ resultReceived(q) \/ timedOut(q)
  BY DEF TableWrapperNext
<1> USE DEF TwTypeOK, GenFollowsQuery
<1>1. CASE generate(q)
  BY <1>1 DEF generate
<1>2. CASE genReturns(q)
  BY <1>2 DEF genReturns
<1>3. CASE genReleases(q)
  BY <1>3 DEF genReleases
<1>4. CASE genPanics(q)
  BY <1>4 DEF genPanics
<1>5. CASE onPanic(q)
  BY <1>5 DEF onPanic
<1>6. CASE resultReceived(q)
  BY <1>6 DEF resultReceived
<1>7. CASE timedOut(q)
  BY <1>7 DEF timedOut
<1> QED
  BY <1>1, <1>2, <1>3, <1>4, <1>5, <1>6, <1>7

\* They keep the count of the workers.
LEMMA TwCountStep ==
  ASSUME TwInv, TableWrapperNext
  PROVE  Counted'
<1> USE DEF TwInv
<1> PICK q \in Queries : \/ generate(q) \/ genReturns(q) \/ genReleases(q) \/ genPanics(q)
                         \/ onPanic(q) \/ resultReceived(q) \/ timedOut(q)
  BY DEF TableWrapperNext
<1>1. CASE generate(q) /\ freeWorkers = 0
  BY <1>1, KeepsWorkers DEF generate, Working, TwTypeOK
<1>2. CASE generate(q) /\ freeWorkers # 0
  <2>1. q \notin Working /\ Working' = Working \cup {q} /\ freeWorkers' = freeWorkers - 1
    BY <1>2 DEF generate, Working, TwTypeOK, GenFollowsQuery
  <2> QED
    BY <1>2, <2>1, TakesWorker
<1>3. CASE genReturns(q)
  BY <1>3, KeepsWorkers DEF genReturns, Working, TwTypeOK
<1>4. CASE genReleases(q)
  <2>1. q \in Working /\ Working' = Working \ {q} /\ freeWorkers' = freeWorkers + 1
    BY <1>4 DEF genReleases, Working, TwTypeOK
  <2> QED
    BY <2>1, GivesWorker
<1>5. CASE genPanics(q)
  <2>1. q \in Working /\ Working' = Working \ {q} /\ freeWorkers' = freeWorkers + 1
    BY <1>5 DEF genPanics, Working, TwTypeOK
  <2> QED
    BY <2>1, GivesWorker
<1>6. CASE onPanic(q)
  BY <1>6, KeepsWorkers DEF onPanic, Working, TwTypeOK
<1>7. CASE resultReceived(q)
  BY <1>7, KeepsWorkers DEF resultReceived, Working, TwTypeOK
<1>8. CASE timedOut(q)
  BY <1>8, KeepsWorkers DEF timedOut, Working, TwTypeOK
<1> QED
  BY <1>1, <1>2, <1>3, <1>4, <1>5, <1>6, <1>7, <1>8

(***************************************************************************)
(* For any number of workers and any finite set of queries of a table,      *)
(* whichever of them time out or panic: the workers taken are those of the  *)
(* generate functions still at work, and no result is lost (generate of     *)
(* tablewrapper.go).                                                        *)
(***************************************************************************)
THEOREM TableWrapperWorkers == TableWrapperSpec => []WorkersFollowTables
<1>1. TwInv /\ UNCHANGED twVars => TwInv'
  BY DEF twVars, TwInv, TwTypeOK, GenFollowsQuery, Counted, Working
<1>2. TwInv /\ [TableWrapperNext]_twVars => TwInv'
  BY <1>1, TwTypeStep, TwCountStep DEF TwInv
<1>3. TwInv => WorkersFollowTables
  BY SMTT(30) DEF TwInv, GenFollowsQuery, Counted, WorkersFollowTables
<1> QED
  BY <1>2, <1>3, TwInit, PTL DEF TableWrapperSpec

-----------------------------------------------------------------------------
(* The callback queue of the local server.                                  *)

\* The fields of loc, of a handler and of presence detection.
LocFields ==
  loc = [start |-> loc.start, port |-> loc.port, interrupt |-> loc.interrupt,
         cancelled |-> loc.cancelled, callbackQueue |-> loc.callbackQueue, worker |-> loc.worker,
         shutdown |-> loc.shutdown, tenantMunemo |-> loc.tenantMunemo, enrolled |-> loc.enrolled,
         got |-> loc.got, found |-> loc.found, poller |-> loc.poller, urlsMoved |-> loc.urlsMoved,
         serving |-> loc.serving, presence |-> loc.presence, detector |-> loc.detector,
         stuck |-> loc.stuck, accelerated |-> loc.accelerated,
         hostIdentifier |-> loc.hostIdentifier, ids |-> loc.ids, requests |-> loc.requests,
         events |-> loc.events]

ServingFields ==
  /\ loc.serving = [h \in Handlers |-> loc.serving[h]]
  /\ \A h \in Handlers :
       loc.serving[h] = [at |-> loc.serving[h].at, presence |-> loc.serving[h].presence]

PresenceFields ==
  loc.presence = [at |-> loc.presence.at, result |-> loc.presence.result,
                  timedOut |-> loc.presence.timedOut, updates |-> loc.presence.updates]

LocShape == LocFields /\ ServingFields /\ PresenceFields /\ loc.callbackQueue \in Nat

Pushers == {p \in Producers : SendAt(p) = "push"}

\* Callbacks that are queued or about to be, beyond those of the desired size, are of
\* different senders.
RoomLeft ==
  loc.callbackQueue + Cardinality(Pushers)
    <= maxDesiredCallbackQueueSize - 1 + Cardinality(Producers)

LocInv == LocShape /\ RoomLeft

\* Initially the queue is empty and nobody sends.
LEMMA LocInit == LocalServerInit => LocShape /\ loc.callbackQueue = 0 /\ Pushers = {}
BY SMTT(30), LocalServerAssumption DEF LocalServerInit, LocShape, LocFields, ServingFields, PresenceFields, NoDetection,
       Pushers, SendAt, Producers

\* Steps that leave the queue and its senders alone.
LEMMA CallbacksUntouched ==
  ASSUME LocShape,
         StartServer \/ InterruptServer \/ CloseMiddleware \/ runAsyncdWorkers \/ RecalculateInterval
         \/ DetectPresence \/ CallbackAnswered \/ SaveEnrollment \/ ExtensionEnrolls \/ getMunemoFromKnapsack
         \/ (\E r \in Dt4aRequests : accelerate(r))
  PROVE  /\ LocFields' /\ loc'.serving = loc.serving /\ loc'.presence = loc.presence
         /\ loc'.callbackQueue = loc.callbackQueue
<1>1. CASE StartServer
  BY ZenonT(30), <1>1 DEF LocShape, LocFields, StartServer
<1>2. CASE InterruptServer \/ CloseMiddleware
  BY ZenonT(30), <1>2 DEF LocShape, LocFields, InterruptServer, CloseMiddleware, Apart
<1>6. CASE runAsyncdWorkers \/ RecalculateInterval
  BY ZenonT(30), <1>6 DEF LocShape, LocFields, runAsyncdWorkers, RecalculateInterval, Apart
<1>3. CASE DetectPresence \/ CallbackAnswered
  BY ZenonT(30), <1>3 DEF LocShape, LocFields, DetectPresence, CallbackAnswered
<1>4. CASE SaveEnrollment \/ ExtensionEnrolls \/ getMunemoFromKnapsack
  BY ZenonT(30), <1>4 DEF LocShape, LocFields, SaveEnrollment, ExtensionEnrolls, getMunemoFromKnapsack, Apart
<1>5. CASE \E r \in Dt4aRequests : accelerate(r)
  BY ZenonT(30), <1>5 DEF LocShape, LocFields, accelerate, Apart
<1> QED
  BY <1>1, <1>2, <1>3, <1>4, <1>5, <1>6

\* The senders are finitely many.
LEMMA FinitelyManyProducers ==
  /\ IsFiniteSet(Producers) /\ Cardinality(Producers) = Cardinality(Handlers) + 1
  /\ Cardinality(Handlers) \in Nat
  /\ \A S \in SUBSET Producers : /\ IsFiniteSet(S) /\ Cardinality(S) \in Nat
                                 /\ Cardinality(S) <= Cardinality(Producers)
<1>1. /\ IsFiniteSet(Producers) /\ Cardinality(Producers) = Cardinality(Handlers) + 1
      /\ Cardinality(Handlers) \in Nat
  BY LocalServerAssumption, FS_AddElement, FS_CardinalityType DEF Producers
<1> QED
  BY <1>1, FS_Subset, FS_CardinalityType

\* The steps of the queue that keep room for the senders.
LEMMA RoomKept ==
  ASSUME LocInv, loc'.callbackQueue \in Nat, Pushers' \in SUBSET Producers, NEW p \in Producers,
         \/ loc'.callbackQueue <= loc.callbackQueue /\ Pushers' \subseteq Pushers
         \/ loc'.callbackQueue < maxDesiredCallbackQueueSize
         \/ /\ loc.callbackQueue = loc'.callbackQueue + 1
            /\ Pushers' \subseteq Pushers \cup {p}
         \/ /\ loc'.callbackQueue = loc.callbackQueue + 1
            /\ p \in Pushers /\ Pushers' \subseteq Pushers \ {p}
  PROVE  RoomLeft'
<1> DEFINE A == Pushers
           B == Pushers'
<1>1. A \in SUBSET Producers
  BY DEF Pushers
<1>2. /\ IsFiniteSet(A) /\ Cardinality(A) \in Nat /\ Cardinality(B) \in Nat
      /\ Cardinality(B) <= Cardinality(Producers) /\ Cardinality(Producers) \in Nat
  BY <1>1, FinitelyManyProducers
<1>3. /\ loc.callbackQueue \in Nat
      /\ loc.callbackQueue + Cardinality(A)
           <= maxDesiredCallbackQueueSize - 1 + Cardinality(Producers)
  BY DEF LocInv, LocShape, RoomLeft
<1>4. RoomLeft' = (loc'.callbackQueue + Cardinality(B)
           <= maxDesiredCallbackQueueSize - 1 + Cardinality(Producers))
  BY DEF RoomLeft, Producers
<1> HIDE DEF A, B
<1>5. B \subseteq A => Cardinality(B) <= Cardinality(A)
  BY <1>2, FS_Subset
<1>6. B \subseteq A \cup {p} => Cardinality(B) <= Cardinality(A) + 1
  <2>1. IsFiniteSet(A \cup {p}) /\ Cardinality(A \cup {p}) <= Cardinality(A) + 1
    <3>1. /\ IsFiniteSet(A \cup {p})
          /\ Cardinality(A \cup {p}) = IF p \in A THEN Cardinality(A) ELSE Cardinality(A) + 1
      BY <1>2, FS_AddElement
    <3> QED
      BY <1>2, <3>1
  <2>2. Cardinality(A \cup {p}) \in Nat
    BY <2>1, FS_CardinalityType
  <2>3. B \subseteq A \cup {p} => Cardinality(B) <= Cardinality(A \cup {p})
    BY <2>1, FS_Subset
  <2> QED
    BY <1>2, <2>1, <2>2, <2>3
<1>7. p \in A /\ B \subseteq A \ {p} => Cardinality(B) + 1 <= Cardinality(A)
  <2> SUFFICES ASSUME p \in A, B \subseteq A \ {p} PROVE Cardinality(B) + 1 <= Cardinality(A)
    OBVIOUS
  <2>1. IsFiniteSet(A \ {p}) /\ Cardinality(A \ {p}) = Cardinality(A) - 1
    BY SMTT(30), <1>2, FS_RemoveElement
  <2>2. Cardinality(B) <= Cardinality(A \ {p})
    BY <2>1, FS_Subset
  <2> QED
    BY <1>2, <2>1, <2>2
<1> DEFINE a == Cardinality(A)
           b == Cardinality(B)
           n == Cardinality(Producers)
           q == loc.callbackQueue
           r == loc'.callbackQueue
           d == maxDesiredCallbackQueueSize
<1>8. /\ a \in Nat /\ b \in Nat /\ n \in Nat /\ q \in Nat /\ r \in Nat /\ d \in Nat
      /\ b <= n /\ q + a <= d - 1 + n
      /\ \/ r <= q /\ b <= a
         \/ r < d
         \/ q = r + 1 /\ b <= a + 1
         \/ r = q + 1 /\ b + 1 <= a
  BY <1>2, <1>3, <1>5, <1>6, <1>7, LocalServerAssumption DEF A, B
<1> HIDE DEF a, b, n, q, r, d
<1>9. r + b <= d - 1 + n
  BY <1>8
<1> QED
  BY ZenonT(30), <1>4, <1>9 DEF a, b, n, q, r, d

\* A step that moves a sender leaves the others where they are.
LEMMA SendGoes ==
  ASSUME LocShape, NEW p \in Producers, NEW q \in Nat, NEW place,
         loc' = SendGo(p, [loc EXCEPT !.callbackQueue = q], place)
  PROVE  /\ LocShape' /\ loc'.callbackQueue = q
         /\ Pushers' = IF place = "push" THEN Pushers \cup {p} ELSE Pushers \ {p}
<1>0. "presence" \notin Handlers
  BY LocalServerAssumption
<1>1. CASE p = "presence"
  <2>1. loc' = [[loc EXCEPT !.callbackQueue = q] EXCEPT !.presence.at = place]
    BY <1>1 DEF SendGo
  <2>2. /\ LocFields' /\ loc'.callbackQueue = q /\ loc'.serving = loc.serving
        /\ loc'.presence = [loc.presence EXCEPT !.at = place]
    BY ZenonT(30), <2>1 DEF LocShape, LocFields
  <2>3. LocShape'
    BY <2>2 DEF LocShape, ServingFields, PresenceFields
  <2>4. loc'.presence.at = place
    BY <2>2 DEF LocShape, PresenceFields
  <2> QED
    BY <1>0, <1>1, <2>2, <2>3, <2>4 DEF Pushers, SendAt, Producers
<1>2. CASE p \in Handlers
  <2>1. loc' = [[loc EXCEPT !.callbackQueue = q] EXCEPT !.serving[p].at = place]
    BY <1>0, <1>2 DEF SendGo
  <2>2. /\ LocFields' /\ loc'.callbackQueue = q /\ loc'.presence = loc.presence
        /\ loc'.serving = [loc.serving EXCEPT ![p].at = place]
    BY ZenonT(30), <2>1 DEF LocShape, LocFields
  <2>3. \A h \in Handlers : loc'.serving[h] = IF h = p THEN [loc.serving[p] EXCEPT !.at = place]
                                               ELSE loc.serving[h]
    BY <1>2, <2>2 DEF LocShape, ServingFields
  <2>4. ServingFields'
    BY ZenonT(30), <1>2, <2>2, <2>3 DEF LocShape, ServingFields
  <2>5. LocShape'
    BY <2>2, <2>4 DEF LocShape, PresenceFields
  <2>6. \A h \in Handlers : loc'.serving[h].at = IF h = p THEN place ELSE loc.serving[h].at
    BY ZenonT(30), <1>2, <2>3 DEF LocShape, ServingFields
  <2> QED
    BY <1>0, <1>2, <2>2, <2>5, <2>6 DEF Pushers, SendAt, Producers
<1> QED
  BY <1>1, <1>2 DEF Producers

\* A sender finds room in the queue, or takes the oldest callback out.
LEMMA SendStep ==
  ASSUME LocInv, NEW p \in Producers, sendCallback(p) \/ DropOldest(p)
  PROVE  LocInv'
<1>0. LocShape /\ loc.callbackQueue \in Nat
  BY DEF LocInv, LocShape
<1>1. CASE sendCallback(p)
  <2>1. loc = [loc EXCEPT !.callbackQueue = loc.callbackQueue]
    BY <1>0 DEF LocShape, LocFields
  <2> DEFINE place == IF loc.callbackQueue >= maxDesiredCallbackQueueSize THEN "drop" ELSE "push"
  <2>2. loc' = SendGo(p, [loc EXCEPT !.callbackQueue = loc.callbackQueue], place)
    BY <1>1, <2>1 DEF sendCallback
  <2>3. /\ LocShape' /\ loc'.callbackQueue = loc.callbackQueue
        /\ Pushers' = IF place = "push" THEN Pushers \cup {p} ELSE Pushers \ {p}
    <3> HIDE DEF place
    <3> QED
      BY <1>0, <2>2, SendGoes
  <2>4. Pushers' \in SUBSET Producers
    BY DEF Pushers, Producers
  <2>5. CASE loc.callbackQueue >= maxDesiredCallbackQueueSize
    BY <1>0, <2>3, <2>4, <2>5, RoomKept DEF LocInv
  <2>6. CASE ~(loc.callbackQueue >= maxDesiredCallbackQueueSize)
    BY <1>0, <2>3, <2>4, <2>6, RoomKept, LocalServerAssumption DEF LocInv
  <2> QED
    BY <2>5, <2>6
<1>2. CASE DropOldest(p)
  <2> DEFINE q == IF loc.callbackQueue = 0 THEN 0 ELSE loc.callbackQueue - 1
  <2>1. loc' = SendGo(p, [loc EXCEPT !.callbackQueue = q], "push") /\ q \in Nat
    BY <1>0, <1>2 DEF DropOldest
  <2>2. /\ LocShape' /\ loc'.callbackQueue = q
        /\ Pushers' = Pushers \cup {p}
    <3> HIDE DEF q
    <3> QED
      BY <1>0, <2>1, SendGoes
  <2>3. Pushers' \in SUBSET Producers
    BY DEF Pushers, Producers
  <2>4. \/ loc'.callbackQueue < maxDesiredCallbackQueueSize
        \/ /\ loc.callbackQueue = loc'.callbackQueue + 1
           /\ Pushers' \subseteq Pushers \cup {p}
    BY <1>0, <2>2, LocalServerAssumption
  <2> QED
    BY <2>1, <2>2, <2>3, <2>4, RoomKept DEF LocInv
<1> QED
  BY <1>1, <1>2

\* A sender puts its callback into the room it found.
LEMMA PushStep ==
  ASSUME LocInv, NEW p \in Producers, PushCallback(p)
  PROVE  LocInv'
<1>0. LocShape /\ loc.callbackQueue \in Nat /\ "presence" \notin Handlers
  BY LocalServerAssumption DEF LocInv, LocShape
<1>1. p \in Pushers
  BY DEF PushCallback, Pushers
<1>2. CASE p = "presence"
  <2>1. PICK place \in {"none", "select"} :
          loc' = SendGo(p, [loc EXCEPT !.callbackQueue = loc.callbackQueue + 1], place)
    BY <1>2 DEF PushCallback
  <2>2. loc.callbackQueue + 1 \in Nat
    BY <1>0
  <2>3. /\ LocShape' /\ loc'.callbackQueue = loc.callbackQueue + 1
        /\ Pushers' = Pushers \ {p}
    BY <1>0, <2>1, <2>2, SendGoes
  <2>4. Pushers' \in SUBSET Producers
    BY DEF Pushers, Producers
  <2> QED
    BY <1>1, <2>2, <2>3, <2>4, RoomKept DEF LocInv
<1>3. CASE p \in Handlers
  <2> DEFINE served == [loc.serving EXCEPT ![p] = [at |-> "idle", presence |-> FALSE]]
             s == [[loc EXCEPT !.callbackQueue = @ + 1]
                     EXCEPT !.serving[p] = [at |-> "idle", presence |-> FALSE]]
  <2>1. \/ loc' = [s EXCEPT !.presence = [NoDetection EXCEPT !.at = "send"], !.detector = "asking"]
        \/ loc' = s
    BY <1>0, <1>3 DEF PushCallback
  <2>2. /\ LocFields' /\ loc'.callbackQueue = loc.callbackQueue + 1
        /\ \/ loc'.presence = loc.presence
           \/ loc'.presence = [NoDetection EXCEPT !.at = "send"]
        /\ loc'.serving = served
    <3>1. s = [loc EXCEPT !.callbackQueue = loc.callbackQueue + 1, !.serving = served]
      BY <1>0 DEF LocShape, LocFields
    <3> HIDE DEF s, served
    <3> QED
      BY ZenonT(30), <1>0, <2>1, <3>1 DEF LocShape, LocFields
  <2>3. PresenceFields' /\ (loc'.presence.at = loc.presence.at \/ loc'.presence.at = "send")
    BY <1>0, <2>2 DEF LocShape, PresenceFields, NoDetection
  <2>4. /\ loc'.serving = [h \in Handlers |-> loc'.serving[h]]
        /\ \A h \in Handlers : loc'.serving[h] = IF h = p THEN [at |-> "idle", presence |-> FALSE]
                                                  ELSE loc.serving[h]
    BY ZenonT(30), <1>0, <1>3, <2>2 DEF LocShape, ServingFields
  <2>5. ServingFields' /\ \A h \in Handlers : loc'.serving[h].at =
                            IF h = p THEN "idle" ELSE loc.serving[h].at
    <3>1. \A h \in Handlers :
            loc.serving[h] = [at |-> loc.serving[h].at, presence |-> loc.serving[h].presence]
      BY SMTT(30), <1>0 DEF LocShape, ServingFields
    <3>2. \A h \in Handlers :
            /\ loc'.serving[h] = [at |-> loc'.serving[h].at, presence |-> loc'.serving[h].presence]
            /\ loc'.serving[h].at = IF h = p THEN "idle" ELSE loc.serving[h].at
      BY <2>4, <3>1
    <3> QED
      BY SMTT(30), <2>4, <3>2 DEF ServingFields
  <2>6. LocShape' /\ loc'.callbackQueue \in Nat
    BY SMTT(30), <1>0, <2>2, <2>3, <2>5 DEF LocShape
  <2>7. Pushers' \subseteq Pushers \ {p} /\ Pushers' \in SUBSET Producers
    BY SMTT(30), <1>0, <1>3, <2>3, <2>5 DEF Pushers, SendAt, Producers
  <2> QED
    BY <1>1, <2>2, <2>6, <2>7, RoomKept DEF LocInv
<1> QED
  BY <1>2, <1>3 DEF Producers

\* A request, with or without a callback, is taken by a handler.
LEMMA WrapStep ==
  ASSUME LocInv, NEW h \in Handlers, NEW r \in Requests, Wrap(h, r)
  PROVE  LocInv'
<1>0. LocShape /\ loc.callbackQueue \in Nat /\ "presence" \notin Handlers /\ h \in Producers
  BY LocalServerAssumption DEF LocInv, LocShape, Producers
<1>1. /\ LocFields' /\ loc'.callbackQueue = loc.callbackQueue /\ loc'.presence = loc.presence
      /\ \/ loc'.serving = loc.serving
         \/ loc'.serving = [loc.serving EXCEPT ![h] = [at |-> "send", presence |-> r.presence]]
  <2> DEFINE s == [loc EXCEPT !.requests = @ + 1]
             go(f) == [f EXCEPT !.serving[h] = [at |-> "send", presence |-> r.presence]]
             acc == [s EXCEPT !.accelerated = TRUE]
             ids == [s EXCEPT !.hostIdentifier = @ \/ s.enrolled # NoMunemo]
  <2>1. \/ loc' = s \/ loc' = acc \/ loc' = ids
        \/ loc' = go(s) \/ loc' = go(acc) \/ loc' = go(ids)
    BY ZenonT(30) DEF Wrap, cmdReqToHttpReq, requestAccelerateControlFunc, requestIdHandlerFunc
  <2>2. CASE loc' = s \/ loc' = acc \/ loc' = ids
    BY ZenonT(30), <1>0, <2>2 DEF LocShape, LocFields
  <2>3. CASE loc' = go(s)
    BY ZenonT(30), <1>0, <2>3 DEF LocShape, LocFields
  <2>4. CASE loc' = go(acc)
    BY ZenonT(30), <1>0, <2>4 DEF LocShape, LocFields
  <2>5. CASE loc' = go(ids)
    BY ZenonT(30), <1>0, <2>5 DEF LocShape, LocFields
  <2> QED
    BY <2>1, <2>2, <2>3, <2>4, <2>5
<1>2. ServingFields' /\ \A g \in Handlers : loc'.serving[g].at \in {"send", loc.serving[g].at}
  BY SMTT(30), <1>0, <1>1 DEF LocShape, ServingFields
<1>3. LocShape'
  BY SMTT(30), <1>0, <1>1, <1>2 DEF LocShape, PresenceFields
<1>4. Pushers' \subseteq Pushers /\ Pushers' \in SUBSET Producers
  BY SMTT(30), <1>0, <1>1, <1>2 DEF Pushers, SendAt, Producers
<1> QED
  BY <1>0, <1>1, <1>3, <1>4, RoomKept DEF LocInv

\* Presence detection calls back as a handler does.
LEMMA DetectStep ==
  ASSUME LocInv, detectPresence
  PROVE  LocInv'
<1>0. LocShape /\ loc.callbackQueue \in Nat /\ "presence" \in Producers
  BY DEF LocInv, LocShape, Producers
<1>1. /\ LocFields' /\ loc'.callbackQueue = loc.callbackQueue /\ loc'.serving = loc.serving
  BY ZenonT(30), <1>0 DEF LocShape, LocFields, detectPresence
<1>2. PresenceFields' /\ loc'.presence.at = "send"
  <2>1. \/ loc'.presence = [loc.presence EXCEPT !.at = "send", !.updates = @ + 1]
        \/ loc'.presence = [loc.presence EXCEPT !.at = "send", !.timedOut = TRUE]
        \/ \E r \in {"complete", "error"} :
             loc'.presence = [loc.presence EXCEPT !.at = "send", !.result = r]
    BY ZenonT(30), <1>0 DEF LocShape, LocFields, PresenceFields, detectPresence
  <2> QED
    BY ZenonT(30), <1>0, <2>1 DEF LocShape, PresenceFields
<1>3. LocShape'
  BY <1>0, <1>1, <1>2 DEF LocShape, ServingFields
<1>4. Pushers' \subseteq Pushers /\ Pushers' \in SUBSET Producers
  BY <1>0, <1>1, <1>2 DEF Pushers, SendAt, Producers
<1> QED
  BY <1>0, <1>1, <1>3, <1>4, RoomKept DEF LocInv

\* The worker takes a callback out of the queue.
LEMMA WorkerStep ==
  ASSUME LocInv, loc.callbackQueue > 0 \/ loc.shutdown, callbackWorker
  PROVE  LocInv'
<1>0. LocShape /\ loc.callbackQueue \in Nat /\ "presence" \in Producers
  BY DEF LocInv, LocShape, Producers
<1>1. /\ LocFields' /\ loc'.serving = loc.serving /\ loc'.presence = loc.presence
      /\ loc'.callbackQueue \in Nat /\ loc'.callbackQueue <= loc.callbackQueue
  <2>1. CASE loc.shutdown
    <3>1. loc' = [loc EXCEPT !.worker = "stopped"]
      BY <2>1 DEF callbackWorker
    <3>2. /\ LocFields' /\ loc'.serving = loc.serving /\ loc'.presence = loc.presence
          /\ loc'.callbackQueue = loc.callbackQueue
      BY <1>0, <3>1 DEF LocShape, LocFields
    <3> QED
      BY <1>0, <3>2
  <2>2. CASE ~loc.shutdown
    <3>1. loc' = [loc EXCEPT !.worker = "sending", !.callbackQueue = @ - 1] /\ loc.callbackQueue > 0
      BY <2>2 DEF callbackWorker
    <3>2. /\ LocFields' /\ loc'.serving = loc.serving /\ loc'.presence = loc.presence
          /\ loc'.callbackQueue = loc.callbackQueue - 1
      BY ZenonT(30), <1>0, <3>1 DEF LocShape, LocFields
    <3> QED
      BY <1>0, <3>1, <3>2
  <2> QED
    BY <2>1, <2>2
<1>2. LocShape'
  BY SMTT(30), <1>0, <1>1 DEF LocShape, ServingFields, PresenceFields
<1>3. Pushers' \subseteq Pushers /\ Pushers' \in SUBSET Producers
  BY <1>0, <1>1 DEF Pushers, SendAt, Producers
<1> QED
  BY <1>0, <1>1, <1>2, <1>3, RoomKept DEF LocInv

(***************************************************************************)
(* sendCallback never waits for room in the channel, for any number of      *)
(* handlers up to the room beyond the desired size, and any requests.       *)
(***************************************************************************)
THEOREM LocalServerNeverBlocks == LocalServerSpec => []CallbacksNeverBlock
<1>1. LocalServerInit => LocInv
  <2> SUFFICES ASSUME LocalServerInit PROVE LocInv
    OBVIOUS
  <2>1. LocShape /\ loc.callbackQueue = 0 /\ Pushers = {}
    BY LocInit
  <2>2. Cardinality(Producers) \in Nat /\ Cardinality({}) = 0
    BY FinitelyManyProducers, FS_EmptySet
  <2> QED
    BY <2>1, <2>2, LocalServerAssumption DEF LocInv, RoomLeft
<1>2. LocInv /\ [LocalServerNext]_loc => LocInv'
  <2> SUFFICES ASSUME LocInv, [LocalServerNext]_loc PROVE LocInv'
    OBVIOUS
  <2>1. "presence" \in Producers /\ LocShape /\ loc.callbackQueue \in Nat
    BY DEF Producers, LocInv, LocShape
  <2>2. ASSUME LocFields', loc'.serving = loc.serving, loc'.presence = loc.presence,
               loc'.callbackQueue = loc.callbackQueue
        PROVE  LocInv'
    <3>1. LocShape'
      BY SMTT(30), <2>1, <2>2 DEF LocShape, ServingFields, PresenceFields
    <3>2. Pushers' \subseteq Pushers /\ Pushers' \in SUBSET Producers
      BY SMTT(30), <2>2 DEF Pushers, SendAt, Producers
    <3> QED
      BY SMTT(30), <2>1, <2>2, <3>1, <3>2, RoomKept DEF LocInv
  <2>3. CASE UNCHANGED loc
    BY SMTT(30), <2>1, <2>2, <2>3 DEF LocShape, LocFields
  <2> QED
    BY <2>1, <2>2, <2>3, CallbacksUntouched, SendStep, PushStep, WrapStep, DetectStep, WorkerStep
       DEF LocalServerNext
<1>3. LocInv => CallbacksNeverBlock
  <2> SUFFICES ASSUME LocInv, NEW p \in Producers, SendAt(p) = "push"
               PROVE  loc.callbackQueue < callbackQueueCapacity
    BY DEF CallbacksNeverBlock
  <2>1. p \in Pushers /\ Pushers \in SUBSET Producers
    BY DEF Pushers
  <2>2. IsFiniteSet(Pushers) /\ Cardinality(Pushers) \in Nat
    BY <2>1, FinitelyManyProducers
  <2>3. Cardinality(Pushers) # 0
    BY <2>1, <2>2, FS_EmptySet
  <2>4. loc.callbackQueue \in Nat /\ Cardinality(Producers) = Cardinality(Handlers) + 1
        /\ Cardinality(Handlers) \in Nat
    BY FinitelyManyProducers DEF LocInv, LocShape
  <2> QED
    BY <2>2, <2>3, <2>4, LocalServerAssumption DEF LocInv, RoomLeft
<1> QED
  BY <1>1, <1>2, <1>3, PTL DEF LocalServerSpec

=============================================================================
