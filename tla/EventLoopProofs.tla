-------------------------- MODULE EventLoopProofs ---------------------------
(***************************************************************************)
(* The event loop strands no timer, runs timers in order and stays empty   *)
(* once stopped, for every cap, delay and clamp.  First that every step    *)
(* keeps the types of its state, then that the timer table, the heap and   *)
(* the task queue agree after every step.                                  *)
(***************************************************************************)
EXTENDS EventLoop, FiniteSetTheorems, TLAPS

(* A leaf that names no prover is tried with these, in turn.              *)
USE ZenonT(2), SMTT(30), Z3T(30), ZenonT(30)

USE LoopAssumption, NoneAssumption, EntryAssumption

(* The table holds finitely many timers.                                   *)
LEMMA LiveFinite == IsFiniteSet(Live)
<1>1. IsFiniteSet(TimerId)
  BY ONLY LoopAssumption, FS_Interval, 1 \in Int, MaxId \in Int DEF TimerId
<1> QED
  BY <1>1, FS_Subset, Live \subseteq TimerId DEF Live

(* Steps that leave the tables alone.                                      *)
Turns ==
    \/ EvalStarts \/ ScriptReturns \/ DescribeEnds \/ MicrotaskEnds
    \/ EvalCheckpointEnds \/ StepStarts \/ ClockAdvances

(* Steps that stop script: everything is discarded.                        *)
Fails(reason) ==
    EvalFails(reason) \/ CallbackFails(reason)
    \/ DescribeFails(reason) \/ MicrotaskFails(reason)

(* The steps of the loop, one by one.                                      *)
LEMMA StepCases ==
    ASSUME [Next]_vars
    PROVE  \/ Turns
           \/ \E reason \in EngineError : Fails(reason)
           \/ QueueMicrotask
           \/ \E delay \in Delays, repeat \in BOOLEAN : AddTimer(delay, repeat)
           \/ \E i \in TimerId : ClearTimer(i)
           \/ PopMicrotask \/ FinishTimerTask
           \/ PopStale \/ PromoteTop \/ RunTask \/ SkipTask \/ NoTask
           \/ HostDrops
           \/ UNCHANGED vars
BY DEF Next, ScriptActs, ScriptFails, ScriptEnds, Checkpoint, Step, Turns, Fails

(* An armed timer is an entry.                                             *)
LEMMA NewEntryType ==
    ASSUME TypeOK, NEW delay \in Delays, NEW repeat \in BOOLEAN
    PROVE  /\ NewEntry(delay, repeat) \in Entry
           /\ NewEntry(delay, repeat) # None
           /\ NewEntry(delay, repeat).state = "Pending"
           /\ NewEntry(delay, repeat).due >= now
           /\ NewEntry(delay, repeat).seq = next_seq
<1>1. delay \in Nat
  OBVIOUS
<1>2. EffectiveDelay(delay, nesting + 1) \in Nat
  BY <1>1 DEF EffectiveDelay
<1>3. (IF repeat THEN delay ELSE None) \in Nat \cup {None}
  BY <1>1
<1>4. NewEntry(delay, repeat) \in Entry
  BY <1>2, <1>3 DEF NewEntry, Entry, TypeOK
<1> QED
  BY <1>2, <1>4 DEF NewEntry, TypeOK

LEMMA RearmedType ==
    ASSUME TypeOK, NEW e \in Entry, e.repeat # None
    PROVE  /\ Rearmed(e) \in Entry
           /\ Rearmed(e).state = "Pending"
           /\ Rearmed(e).due >= now
           /\ Rearmed(e).seq = next_seq
<1>1. e.repeat \in Nat /\ e.nesting \in Nat
  BY DEF Entry
<1>2. EffectiveDelay(e.repeat, e.nesting + 1) \in Nat
  BY <1>1 DEF EffectiveDelay
<1> QED
  BY <1>1, <1>2 DEF Rearmed, Entry, TypeOK

(* The cap on live timers holds when none is added, and when one is added  *)
(* below the cap.                                                          *)
LEMMA FewerLive ==
    ASSUME TypeOK, Live' \subseteq Live
    PROVE  Cardinality(Live') <= TimerCap
<1>1. Cardinality(Live') <= Cardinality(Live)
  BY LiveFinite, FS_Subset
<1>2. IsFiniteSet(Live')
  BY LiveFinite, FS_Subset
<1>3. Cardinality(Live') \in Nat /\ Cardinality(Live) \in Nat
  BY <1>2, LiveFinite, FS_CardinalityType
<1> QED
  BY <1>1, <1>3 DEF TypeOK

LEMMA OneMoreLive ==
    ASSUME TypeOK, NEW i, Cardinality(Live) < TimerCap, Live' \subseteq Live \cup {i}
    PROVE  Cardinality(Live') <= TimerCap
<1>1. /\ IsFiniteSet(Live \cup {i})
      /\ Cardinality(Live \cup {i}) <= Cardinality(Live) + 1
  <2>1. Cardinality(Live) \in Nat
    BY LiveFinite, FS_CardinalityType
  <2>2. CASE i \in Live
    <3>1. Live \cup {i} = Live
      BY <2>2
    <3>2. Cardinality(Live \cup {i}) = Cardinality(Live) /\ IsFiniteSet(Live \cup {i})
      BY <3>1, LiveFinite
    <3> QED
      BY <2>1, <3>2
  <2>3. CASE i \notin Live
    <3>1. /\ IsFiniteSet(Live \cup {i})
          /\ Cardinality(Live \cup {i}) = Cardinality(Live) + 1
      BY <2>3, LiveFinite, FS_AddElement
    <3> QED
      BY <2>1, <3>1
  <2> QED
    BY <2>2, <2>3
<1>2. /\ IsFiniteSet(Live')
      /\ Cardinality(Live') <= Cardinality(Live \cup {i})
  BY <1>1, FS_Subset
<1>3. /\ Cardinality(Live') \in Nat
      /\ Cardinality(Live) \in Nat
      /\ Cardinality(Live \cup {i}) \in Nat
  BY <1>1, <1>2, LiveFinite, FS_CardinalityType
<1> QED
  BY <1>1, <1>2, <1>3

(* Discarding everything satisfies the types of the tables.                *)
LEMMA DiscardType ==
    ASSUME Discard
    PROVE  /\ microtasks' \in 0 .. MicrotaskCap
           /\ tasks' \in Seq(TimerId) /\ Len(tasks') <= TaskCap
           /\ timers' \in [TimerId -> Entry \cup {None}]
           /\ Live' = {}
           /\ heap' \subseteq Arming
<1>1. Live' = {}
  BY DEF Discard, Live
<1> QED
  BY <1>1 DEF Discard

LEMMA TypeInit ==
    Init => TypeOK
<1> SUFFICES ASSUME Init PROVE TypeOK
  OBVIOUS
<1>1. Live = {}
  BY DEF Init, Live
<1>2. Cardinality(Live) <= TimerCap
  BY <1>1, FS_EmptySet
<1> QED
  BY <1>2 DEF Init, TypeOK

(* The queue without its first task.                                       *)
LEMMA HeadAndTail ==
    ASSUME NEW q \in Seq(TimerId), q # << >>
    PROVE  /\ Head(q) \in TimerId /\ Head(q) = q[1] /\ 1 \in DOMAIN q
           /\ Tail(q) \in Seq(TimerId)
           /\ Len(q) >= 1 /\ Len(Tail(q)) = Len(q) - 1
           /\ \A k \in DOMAIN Tail(q) : k + 1 \in DOMAIN q /\ Tail(q)[k] = q[k + 1]
           /\ \A k \in DOMAIN q : k # 1 => k - 1 \in DOMAIN Tail(q) /\ Tail(q)[k - 1] = q[k]
OBVIOUS

(* TypeOK, in two halves: the tables and the rest.                         *)
TablesType ==
    /\ microtasks \in 0 .. MicrotaskCap
    /\ tasks \in Seq(TimerId) /\ Len(tasks) <= TaskCap
    /\ timers \in [TimerId -> Entry \cup {None}]
    /\ Cardinality(Live) <= TimerCap
    /\ heap \subseteq Arming

HostType ==
    /\ next_id \in 1 .. MaxId + 1
    /\ next_seq \in 0 .. MaxSeq
    /\ nesting \in Nat
    /\ checkpoint_run \in 0 .. CheckpointBudget
    /\ terminated \in TerminateReason \cup {None}
    /\ now \in 0 .. MaxNow
    /\ pc \in Script \cup {"Ready", "Checkpoint", "Promote", "Dropped"}
    /\ current \in TimerId \cup {None}
    /\ turn \in 0 .. MaxNow
    /\ said \in {"Nothing", "Ran", "Waiting", "Idle"}

LEMMA HostTypeNext ==
    TypeOK /\ [Next]_vars => HostType'
<1> SUFFICES ASSUME TypeOK, [Next]_vars PROVE HostType'
  OBVIOUS
<1>0. HostType
  BY DEF TypeOK, HostType
<1> USE DEF HostType, hostVars, coreVars, Script
<1>1. CASE Turns
  <2>1. CASE EvalStarts \/ ScriptReturns \/ DescribeEnds \/ MicrotaskEnds
    BY <1>0, <2>1 DEF EvalStarts, ScriptReturns, DescribeEnds, MicrotaskEnds, BeginCheckpoint
  <2>2. CASE EvalCheckpointEnds \/ StepStarts \/ ClockAdvances
    BY <1>0, <2>2 DEF EvalCheckpointEnds, StepStarts, ClockAdvances
  <2> QED
    BY <1>1, <2>1, <2>2 DEF Turns
<1>2. ASSUME NEW reason \in EngineError, Fails(reason) PROVE HostType'
  <2>1. terminated' \in TerminateReason \cup {None}
    <3>1. reason \in TerminateReason
      BY DEF EngineError, TerminateReason
    <3>2. Stopped(reason)
      BY <1>2 DEF Fails, EvalFails, CallbackFails, DescribeFails, MicrotaskFails
    <3> QED
      BY <1>0, <3>1, <3>2 DEF Stopped, Terminate
  <2>2. CASE EvalFails(reason) \/ CallbackFails(reason)
    BY <1>0, <2>1, <2>2 DEF EvalFails, CallbackFails, BeginCheckpoint
  <2>3. CASE DescribeFails(reason) \/ MicrotaskFails(reason)
    BY <1>0, <2>1, <2>3 DEF DescribeFails, MicrotaskFails
  <2> QED
    BY <1>2, <2>2, <2>3 DEF Fails
<1>3. CASE QueueMicrotask
  BY <1>0, <1>3 DEF QueueMicrotask, Terminate, TerminateReason
<1>4. ASSUME NEW delay \in Delays, NEW repeat \in BOOLEAN, AddTimer(delay, repeat)
      PROVE  HostType'
  BY <1>0, <1>4 DEF AddTimer, Terminate, TerminateReason
<1>5. ASSUME NEW i \in TimerId, ClearTimer(i) PROVE HostType'
  BY <1>0, <1>5 DEF ClearTimer
<1>6. CASE PopMicrotask
  BY <1>0, <1>6 DEF PopMicrotask, BudgetSpent, CountRun, Terminate, TerminateReason
<1>7. CASE FinishTimerTask
  BY <1>0, <1>7 DEF FinishTimerTask
<1>8. CASE PopStale \/ SkipTask \/ NoTask \/ HostDrops
  BY <1>0, <1>8 DEF PopStale, SkipTask, NoTask, HostDrops, Answer
<1>9. CASE PromoteTop
  BY <1>0, <1>9 DEF PromoteTop, IfRoom, TerminateReason
<1>10. CASE RunTask
  <2>1. Head(tasks) \in TimerId
    BY <1>10, HeadAndTail DEF RunTask, TypeOK
  <2>2. timers[Head(tasks)].nesting \in Nat
    BY <1>10, <2>1 DEF RunTask, InState, TypeOK, Entry
  <2> QED
    BY <1>0, <1>10, <2>1, <2>2 DEF RunTask
<1>11. CASE UNCHANGED vars
  BY <1>0, <1>11 DEF vars
<1> QED
  BY <1>1, <1>2, <1>3, <1>4, <1>5, <1>6, <1>7, <1>8, <1>9, <1>10, <1>11, StepCases

LEMMA TablesTypeNext ==
    TypeOK /\ [Next]_vars => TablesType'
<1> SUFFICES ASSUME TypeOK, [Next]_vars PROVE TablesType'
  OBVIOUS
<1>0. TablesType
  BY DEF TypeOK, TablesType
<1>a. ASSUME Discard PROVE TablesType'
  <2>1. Cardinality(Live') <= TimerCap
    BY <1>a, DiscardType, FewerLive
  <2> QED
    BY <1>a, <2>1, DiscardType DEF TablesType
<1>b. ASSUME UNCHANGED <<microtasks, tasks, timers, heap>> PROVE TablesType'
  BY <1>0, <1>b DEF TablesType, Live
<1>1. CASE Turns
  BY <1>b, <1>1 DEF Turns, EvalStarts, ScriptReturns, DescribeEnds, MicrotaskEnds,
                    EvalCheckpointEnds, StepStarts, ClockAdvances, coreVars
<1>2. ASSUME NEW reason \in EngineError, Fails(reason) PROVE TablesType'
  <2>1. Stopped(reason)
    BY <1>2 DEF Fails, EvalFails, CallbackFails, DescribeFails, MicrotaskFails
  <2> QED
    BY <1>a, <1>b, <2>1 DEF Stopped, Terminate
<1>3. CASE QueueMicrotask
  <2>1. CASE MicrotasksFull
    BY <1>a, <1>3, <2>1 DEF QueueMicrotask, Terminate
  <2>2. CASE ~ MicrotasksFull
    <3>1. Live' = Live
      BY <1>3, <2>2 DEF QueueMicrotask, Live
    <3> QED
      BY <1>0, <1>3, <2>2, <3>1 DEF QueueMicrotask, MicrotasksFull, TablesType
  <2> QED
    BY <2>1, <2>2
<1>4. ASSUME NEW delay \in Delays, NEW repeat \in BOOLEAN, AddTimer(delay, repeat)
      PROVE  TablesType'
  <2>1. CASE Terminate("TimerOverflow")
    BY <1>a, <2>1 DEF Terminate
  <2>2. CASE ~ Terminate("TimerOverflow")
    <3> DEFINE e == NewEntry(delay, repeat)
    <3>1. /\ Cardinality(Live) < TimerCap
          /\ next_id <= MaxId
          /\ timers' = [timers EXCEPT ![next_id] = e]
          /\ heap' = heap \cup {<<e.due, next_seq, next_id>>}
          /\ UNCHANGED <<microtasks, tasks>>
      BY <1>4, <2>2 DEF AddTimer, FreshId
    <3>2. next_id \in TimerId /\ next_seq \in Nat
      BY <3>1 DEF TypeOK, TimerId
    <3>3. e \in Entry /\ e.due \in Nat
      BY NewEntryType DEF Entry
    <3> HIDE DEF e
    <3>4. Live' \subseteq Live \cup {next_id}
      BY <1>0, <3>1, <3>2 DEF Live, TablesType
    <3>5. Cardinality(Live') <= TimerCap
      BY <3>1, <3>4, OneMoreLive
    <3> QED
      BY <1>0, <3>1, <3>2, <3>3, <3>5 DEF TablesType, Arming
  <2> QED
    BY <2>1, <2>2
<1>5. ASSUME NEW i \in TimerId, ClearTimer(i) PROVE TablesType'
  <2>1. Live' \subseteq Live
    BY <1>0, <1>5 DEF ClearTimer, Live, TablesType
  <2>2. Cardinality(Live') <= TimerCap
    BY <2>1, FewerLive
  <2>3. LiveArmings \subseteq Arming
    BY <1>0 DEF LiveArmings, InState, ArmingOf, Arming, TablesType, Entry
  <2>4. heap' \subseteq Arming
    BY <1>0, <1>5, <2>3 DEF ClearTimer, Compacted, TablesType
  <2> QED
    BY <1>0, <1>5, <2>2, <2>4 DEF ClearTimer, TablesType
<1>6. CASE PopMicrotask
  <2>1. CASE BudgetSpent
    BY <1>a, <1>6, <2>1 DEF PopMicrotask, Terminate
  <2>2. CASE ~ BudgetSpent
    <3>1. Live' = Live
      BY <1>6, <2>2 DEF PopMicrotask, Live
    <3> QED
      BY <1>0, <1>6, <2>2, <3>1 DEF PopMicrotask, TablesType
  <2> QED
    BY <2>1, <2>2
<1>7. CASE FinishTimerTask
  <2>1. CASE /\ terminated = None
             /\ InState(current, "Running") /\ timers[current].repeat # None
    <3> DEFINE e == Rearmed(timers[current])
    <3>1. current \in TimerId
      BY <1>7 DEF FinishTimerTask, TypeOK
    <3>2. timers[current] \in Entry /\ current \in Live
      BY <1>0, <2>1, <3>1 DEF InState, TablesType, Live
    <3>3. /\ timers' = [timers EXCEPT ![current] = e]
          /\ heap' = heap \cup {<<e.due, next_seq, current>>}
          /\ UNCHANGED <<microtasks, tasks>>
      BY <1>7, <2>1 DEF FinishTimerTask, Rearm
    <3>4. e \in Entry /\ e.due \in Nat /\ next_seq \in Nat
      BY <2>1, <3>2, RearmedType DEF Entry, TypeOK
    <3> HIDE DEF e
    <3>5. Live' \subseteq Live
      BY <1>0, <3>1, <3>2, <3>3 DEF Live, TablesType
    <3>6. Cardinality(Live') <= TimerCap
      BY <3>5, FewerLive
    <3> QED
      BY <1>0, <3>1, <3>3, <3>4, <3>6 DEF TablesType, Arming
  <2>2. CASE ~ (/\ terminated = None
                /\ InState(current, "Running") /\ timers[current].repeat # None)
    BY <1>b, <1>7, <2>2 DEF FinishTimerTask
  <2> QED
    BY <2>1, <2>2
<1>8. CASE PopStale \/ NoTask
  BY <1>0, <1>8 DEF PopStale, NoTask, Pruned, TablesType, Live
<1>9. CASE PromoteTop
  <2>1. PICK a \in heap :
          /\ MayPromote(a)
          /\ timers' = [timers EXCEPT ![a[3]].state = "Queued"]
          /\ tasks' = Append(tasks, a[3])
          /\ heap' = heap \ {a}
          /\ microtasks' = microtasks
    BY <1>9 DEF PromoteTop, IfRoom, HasRoom
  <2>2. a[3] \in TimerId /\ timers[a[3]] \in Entry
    BY <1>0, <2>1 DEF MayPromote, is_live_arming, InState, TablesType, Arming
  <2>3. [timers[a[3]] EXCEPT !.state = "Queued"] \in Entry
    BY <2>2 DEF Entry
  <2>4. timers' = [timers EXCEPT ![a[3]] = [timers[a[3]] EXCEPT !.state = "Queued"]]
    BY <2>1
  <2>5. Live' \subseteq Live
    BY <1>0, <2>2, <2>4 DEF Live, TablesType
  <2>6. Cardinality(Live') <= TimerCap
    BY <2>5, FewerLive
  <2>7. Len(tasks) < TaskCap
    BY <1>9 DEF PromoteTop, HasRoom
  <2> QED
    BY <1>0, <2>1, <2>2, <2>3, <2>4, <2>6, <2>7 DEF TablesType
<1>10. CASE RunTask
  <2>1. /\ Head(tasks) \in TimerId
        /\ Tail(tasks) \in Seq(TimerId) /\ Len(Tail(tasks)) <= TaskCap
    BY <1>0, <1>10, HeadAndTail DEF RunTask, TablesType
  <2>2. timers[Head(tasks)] \in Entry
    BY <1>0, <1>10, <2>1 DEF RunTask, InState, TablesType
  <2>3. [timers[Head(tasks)] EXCEPT !.state = "Running"] \in Entry
    BY <2>2 DEF Entry
  <2>4. \/ timers' = [timers EXCEPT ![Head(tasks)] = [timers[Head(tasks)] EXCEPT !.state = "Running"]]
        \/ timers' = [timers EXCEPT ![Head(tasks)] = None]
    BY <1>10 DEF RunTask
  <2>5. timers' \in [TimerId -> Entry \cup {None}]
    BY <1>0, <2>1, <2>3, <2>4 DEF TablesType
  <2>6. Live' \subseteq Live
    BY <1>0, <2>1, <2>2, <2>4 DEF Live, TablesType
  <2>7. Cardinality(Live') <= TimerCap
    BY <2>6, FewerLive
  <2> QED
    BY <1>0, <1>10, <2>1, <2>5, <2>7 DEF RunTask, TablesType
<1>11. CASE SkipTask
  <2>1. Tail(tasks) \in Seq(TimerId) /\ Len(Tail(tasks)) <= TaskCap
    BY <1>0, <1>11, HeadAndTail DEF SkipTask, TablesType
  <2> QED
    BY <1>0, <1>11, <2>1 DEF SkipTask, TablesType, Live
<1>12. CASE HostDrops
  BY <1>a, <1>12 DEF HostDrops
<1>13. CASE UNCHANGED vars
  BY <1>b, <1>13 DEF vars, coreVars
<1> QED
  BY <1>1, <1>2, <1>3, <1>4, <1>5, <1>6, <1>7, <1>8, <1>9, <1>10, <1>11, <1>12, <1>13, StepCases

LEMMA TypeStep ==
    TypeOK /\ [Next]_vars => TypeOK'
BY HostTypeNext, TablesTypeNext DEF TypeOK, HostType, TablesType

-----------------------------------------------------------------------------
(* The tables.                                                             *)

(* The counters are ahead of everything in the tables.                     *)
Fresh ==
    /\ \A i \in TimerId : i >= next_id => timers[i] = None
    /\ \A i \in Live : timers[i].seq < next_seq
    /\ \A k \in DOMAIN tasks : tasks[k] < next_id

(* Where a timer is in its life and where it is in the tables agree.       *)
Placed ==
    /\ \A i \in TimerId : InState(i, "Pending") => ArmingOf(i) \in heap
    /\ \A i \in TimerId : InState(i, "Queued") => \E k \in DOMAIN tasks : tasks[k] = i
    /\ \A j, k \in DOMAIN tasks : tasks[j] = tasks[k] => j = k
    /\ \A k \in DOMAIN tasks :
          ~ InState(tasks[k], "Pending") /\ ~ InState(tasks[k], "Running")

(* What is queued is due, and in order.                                    *)
Ordered ==
    /\ \A i \in TimerId : InState(i, "Queued") => timers[i].due <= now
    /\ InFiringOrder

TablesInv == Fresh /\ Placed /\ Ordered

-----------------------------------------------------------------------------
(* What each kind of change to the tables does to the invariant on them.   *)

LEMMA EmptyTables ==
    ASSUME Discard
    PROVE  TablesInv' /\ (\A i \in TimerId : timers'[i] = None)
<1>1. \A i \in TimerId : timers'[i] = None
  BY DEF Discard
<1>2. DOMAIN tasks' = {}
  BY DEF Discard
<1>3. Fresh'
  BY <1>1, <1>2 DEF Fresh, Live
<1>4. Placed'
  BY <1>1, <1>2 DEF Placed, InState
<1>5. Ordered'
  BY <1>1, <1>2 DEF Ordered, InFiringOrder, InState
<1> QED
  BY <1>1, <1>3, <1>4, <1>5 DEF TablesInv

LEMMA SameTables ==
    ASSUME TypeOK, TypeOK', TablesInv, now <= now',
           UNCHANGED <<timers, tasks, next_id>>, next_seq <= next_seq',
           \A i \in TimerId : InState(i, "Pending") /\ ArmingOf(i) \in heap => ArmingOf(i) \in heap'
    PROVE  TablesInv'
<1>1. Fresh'
  BY DEF TablesInv, Fresh, Live, TypeOK, Entry
<1>2. Placed'
  BY DEF TablesInv, Placed, InState, ArmingOf
<1>3. Ordered'
  <2>1. InFiringOrder'
    BY DEF TablesInv, Ordered, InFiringOrder, InState, ArmingOf, Earlier
  <2>2. ASSUME NEW i \in TimerId, InState(i, "Queued")' PROVE timers'[i].due <= now'
    <3>1. timers'[i] = timers[i] /\ timers[i] \in Entry /\ timers[i].due <= now
      BY <2>2 DEF TablesInv, Ordered, InState, TypeOK
    <3>2. timers[i].due \in Nat /\ now \in Nat /\ now' \in Nat
      BY <3>1 DEF Entry, TypeOK
    <3> QED
      BY <3>1, <3>2
  <2> QED
    BY <2>1, <2>2 DEF Ordered, InState
<1> QED
  BY <1>1, <1>2, <1>3 DEF TablesInv

(* A timer is armed, for the first time or again after it ran.             *)
LEMMA ArmedTables ==
    ASSUME TypeOK, TypeOK', TablesInv,
           NEW i \in TimerId, NEW e \in Entry,
           e.state = "Pending", e.due >= now, e.seq = next_seq,
           timers' = [timers EXCEPT ![i] = e],
           heap' = heap \cup {<<e.due, next_seq, i>>},
           i = next_id \/ InState(i, "Running"),
           UNCHANGED <<tasks, now>>,
           next_seq' = next_seq + 1,
           next_id' = (IF i = next_id THEN next_id + 1 ELSE next_id)
    PROVE  TablesInv'
<1>1. timers'[i] = e /\ \A j \in TimerId : j # i => timers'[j] = timers[j]
  BY DEF TypeOK
<1>2. e # None
  OBVIOUS
<1>3. i < next_id'
  BY DEF TablesInv, Fresh, InState, TypeOK, TimerId
<1>4. \A k \in DOMAIN tasks : tasks[k] \in TimerId /\ tasks[k] # i
  BY DEF TablesInv, Fresh, Placed, InState, TypeOK
<1>5. Fresh'
  <2>1. next_id <= next_id' /\ next_id \in Int /\ next_id' \in Int
    BY DEF TypeOK
  <2>2. \A j \in TimerId : j >= next_id' => timers'[j] = None
    BY <1>1, <1>3, <2>1 DEF TablesInv, Fresh, TimerId
  <2>3. \A j \in TimerId : timers'[j] # None => timers'[j].seq < next_seq'
    <3>1. ASSUME NEW j \in TimerId, j # i, timers[j] # None PROVE timers[j].seq < next_seq + 1
      <4>1. timers[j] \in Entry
        BY <3>1 DEF TypeOK
      <4>2. timers[j].seq \in Nat /\ next_seq \in Nat
        BY <4>1 DEF Entry, TypeOK
      <4>3. timers[j].seq < next_seq
        BY <3>1 DEF TablesInv, Fresh, Live
      <4> QED
        BY <4>2, <4>3
    <3>2. timers'[i].seq < next_seq + 1
      <4>1. next_seq \in Nat
        BY DEF TypeOK
      <4>2. timers'[i].seq = next_seq
        BY <1>1
      <4> QED
        BY <4>1, <4>2
    <3> QED
      BY <1>1, <3>1, <3>2
  <2>4. \A k \in DOMAIN tasks : tasks[k] < next_id'
    BY <1>4, <2>1 DEF TablesInv, Fresh, TimerId
  <2> QED
    BY <2>2, <2>3, <2>4 DEF Fresh, Live
<1>6. Placed'
  BY <1>1, <1>2, <1>4 DEF TablesInv, Placed, InState, ArmingOf
<1>7. Ordered'
  <2>1. \A j \in TimerId : InState(j, "Queued")' => j # i /\ InState(j, "Queued")
    BY <1>1, <1>2 DEF InState
  <2>2. \A j \in TimerId : InState(j, "Queued") => timers[j].due <= now /\ timers[j].seq < next_seq
    BY DEF TablesInv, Ordered, Fresh, InState, Live
  <2>3. ASSUME NEW j \in TimerId, InState(j, "Queued") PROVE Earlier(ArmingOf(j), <<e.due, e.seq, i>>)
    <3>1. timers[j] \in Entry
      BY <2>3 DEF InState, TypeOK
    <3> QED
      BY <2>2, <2>3, <3>1 DEF Earlier, ArmingOf, TypeOK, Entry
  <2>4. \A j, k \in DOMAIN tasks :
          j < k /\ InState(tasks[j], "Queued")' /\ InState(tasks[k], "Queued")'
            => Earlier(ArmingOf(tasks[j])', ArmingOf(tasks[k])')
    BY <1>1, <1>4, <2>1 DEF TablesInv, Ordered, InFiringOrder, ArmingOf
  <2>5. \A j, k \in TimerId :
          InState(j, "Queued")' /\ InState(k, "Pending")' => Earlier(ArmingOf(j)', ArmingOf(k)')
    BY <1>1, <2>1, <2>3 DEF TablesInv, Ordered, InFiringOrder, InState, ArmingOf
  <2>6. \A j \in TimerId : InState(j, "Queued")' => timers'[j].due <= now'
    BY <1>1, <2>1, <2>2
  <2> QED
    BY <2>4, <2>5, <2>6 DEF Ordered, InFiringOrder, Earlier
<1> QED
  BY <1>5, <1>6, <1>7 DEF TablesInv

(* A timer leaves the table, cleared or because its only task begins.      *)
LEMMA RemovedTables ==
    ASSUME TypeOK, TypeOK', TablesInv,
           NEW i \in TimerId,
           timers' = [timers EXCEPT ![i] = None],
           \A j \in TimerId : j # i /\ InState(j, "Pending") => ArmingOf(j) \in heap',
           UNCHANGED <<tasks, now, next_id, next_seq>>
    PROVE  TablesInv'
<1>1. timers'[i] = None /\ \A j \in TimerId : j # i => timers'[j] = timers[j]
  BY DEF TypeOK
<1>2. \A s : \A j \in TimerId : InState(j, s)' => j # i /\ InState(j, s) /\ ArmingOf(j)' = ArmingOf(j)
  BY <1>1 DEF InState, ArmingOf
<1>3. \A k \in DOMAIN tasks : tasks[k] \in TimerId
  BY DEF TypeOK
<1>4. Fresh'
  BY <1>1 DEF TablesInv, Fresh, Live
<1>5. Placed'
  BY <1>2, <1>3 DEF TablesInv, Placed
<1>6. Ordered'
  BY <1>1, <1>2, <1>3 DEF TablesInv, Ordered, InFiringOrder, Earlier
<1> QED
  BY <1>4, <1>5, <1>6 DEF TablesInv

(* The first task is taken: its timer leaves the table, or is marked as    *)
(* running, or left it earlier.                                            *)
LEMMA PoppedTables ==
    ASSUME TypeOK, TypeOK', TablesInv, tasks # << >>,
           NEW i \in TimerId, i = Head(tasks), tasks' = Tail(tasks),
           \A j \in TimerId : j # i => timers'[j] = timers[j],
           \/ timers'[i] = None
           \/ /\ timers[i] # None
              /\ timers'[i] = [timers[i] EXCEPT !.state = "Running"],
           UNCHANGED <<heap, now, next_id, next_seq>>
    PROVE  TablesInv'
<1> DEFINE q == Tail(tasks)
<1>0. tasks \in Seq(TimerId)
  BY DEF TypeOK
<1>1. /\ tasks[1] = i /\ 1 \in DOMAIN tasks
      /\ \A k \in DOMAIN q : k + 1 \in DOMAIN tasks /\ q[k] = tasks[k + 1]
      /\ \A k \in DOMAIN tasks : k # 1 => k - 1 \in DOMAIN q /\ q[k - 1] = tasks[k]
  BY <1>0, HeadAndTail
<1>a. /\ \A k \in DOMAIN tasks : k \in Nat /\ tasks[k] \in TimerId
      /\ \A k \in DOMAIN q : k \in Nat /\ k # 0
  <2>1. q \in Seq(TimerId)
    BY <1>0, HeadAndTail
  <2> QED
    BY <1>0, <2>1
<1> HIDE DEF q
<1>b. tasks' = q
  BY DEF q
<1>2. ASSUME NEW k \in DOMAIN q PROVE q[k] \in TimerId /\ q[k] # i
  <2>1. k + 1 \in DOMAIN tasks /\ k + 1 # 1 /\ q[k] = tasks[k + 1]
    BY <1>1, <1>a
  <2>2. tasks[k + 1] # tasks[1]
    BY <1>1, <2>1 DEF TablesInv, Placed
  <2> QED
    BY <1>1, <1>a, <2>1, <2>2
<1>3. timers'[i] = None \/ timers[i] \in Entry
  BY DEF TypeOK
<1>4. ASSUME timers'[i] # None
      PROVE  /\ timers[i] # None /\ timers'[i].seq = timers[i].seq
             /\ timers'[i].state = "Running"
  BY <1>3, <1>4 DEF Entry
<1>5. ASSUME NEW j \in TimerId, NEW s \in {"Pending", "Queued"}, InState(j, s)'
      PROVE  j # i /\ InState(j, s) /\ ArmingOf(j)' = ArmingOf(j) /\ timers'[j] = timers[j]
  <2>1. timers'[j] # None /\ timers'[j].state = s
    BY <1>5 DEF InState
  <2>2. j # i
    BY <1>4, <1>5, <2>1
  <2> QED
    BY <1>5, <2>1, <2>2 DEF InState, ArmingOf
<1>6. Fresh'
  BY <1>1, <1>b, <1>3, <1>4 DEF TablesInv, Fresh, Live
<1>7. Placed'
  <2>1. ASSUME NEW j \in TimerId, InState(j, "Queued")' PROVE \E k \in DOMAIN q : q[k] = j
    <3>1. PICK k \in DOMAIN tasks : tasks[k] = j
      BY <1>5, <2>1 DEF TablesInv, Placed
    <3>2. k # 1
      BY <1>1, <1>5, <2>1, <3>1
    <3> QED
      BY <1>1, <3>1, <3>2
  <2>2. ASSUME NEW j \in DOMAIN q, NEW k \in DOMAIN q, q[j] = q[k] PROVE j = k
    <3>1. j + 1 = k + 1
      BY <1>1, <2>2 DEF TablesInv, Placed
    <3> QED
      BY <1>a, <3>1
  <2>3. ASSUME NEW k \in DOMAIN q, NEW j \in TimerId, j = q[k]
        PROVE  ~ InState(j, "Pending")' /\ ~ InState(j, "Running")'
    <3>1. timers'[j] = timers[j] /\ ~ InState(j, "Pending") /\ ~ InState(j, "Running")
      BY <1>1, <1>2, <2>3 DEF TablesInv, Placed
    <3> QED
      BY <3>1 DEF InState
  <2>4. \A j \in TimerId : InState(j, "Pending")' => ArmingOf(j)' \in heap'
    BY <1>5 DEF TablesInv, Placed
  <2>5. \A k \in DOMAIN q : q[k] \in TimerId
    BY <1>2
  <2> QED
    BY <1>b, <2>1, <2>2, <2>3, <2>4, <2>5 DEF Placed, InState
<1>8. Ordered'
  <2>1. ASSUME NEW j \in DOMAIN q, NEW k \in DOMAIN q, j < k,
               NEW a \in TimerId, NEW b \in TimerId, a = q[j], b = q[k],
               InState(a, "Queued")', InState(b, "Queued")'
        PROVE  Earlier(ArmingOf(a)', ArmingOf(b)')
    <3>1. j + 1 < k + 1 /\ j + 1 \in DOMAIN tasks /\ k + 1 \in DOMAIN tasks
      BY <1>1, <1>a, <2>1
    <3>2. tasks[j + 1] = a /\ tasks[k + 1] = b
      BY <1>1, <2>1
    <3>3. InState(a, "Queued") /\ InState(b, "Queued") /\ ArmingOf(a)' = ArmingOf(a) /\ ArmingOf(b)' = ArmingOf(b)
      BY <1>5, <2>1
    <3>4. Earlier(ArmingOf(a), ArmingOf(b))
      BY <3>1, <3>2, <3>3 DEF TablesInv, Ordered, InFiringOrder
    <3> QED
      BY <3>3, <3>4
  <2>2. \A j, k \in TimerId :
          InState(j, "Queued")' /\ InState(k, "Pending")' => Earlier(ArmingOf(j)', ArmingOf(k)')
    BY <1>5 DEF TablesInv, Ordered, InFiringOrder
  <2>3. \A j \in TimerId : InState(j, "Queued")' => timers'[j].due <= now'
    BY <1>5 DEF TablesInv, Ordered
  <2>4. \A k \in DOMAIN q : q[k] \in TimerId
    BY <1>2
  <2> QED
    BY <1>b, <2>1, <2>2, <2>3, <2>4 DEF Ordered, InFiringOrder, Earlier, InState, ArmingOf
<1> QED
  BY <1>6, <1>7, <1>8 DEF TablesInv

LEMMA AppendOne ==
    ASSUME NEW q \in Seq(TimerId), NEW i \in TimerId
    PROVE  /\ \A k \in DOMAIN q : k \in DOMAIN Append(q, i) /\ Append(q, i)[k] = q[k]
           /\ \E n \in DOMAIN Append(q, i) :
                 /\ Append(q, i)[n] = i /\ n \notin DOMAIN q
                 /\ \A k \in DOMAIN Append(q, i) : k = n \/ (k \in DOMAIN q /\ k < n)
           /\ \A k \in DOMAIN Append(q, i) : k \in Nat
<1>1. Append(q, i)[Len(q) + 1] = i /\ Len(q) + 1 \in DOMAIN Append(q, i)
  OBVIOUS
<1>2. \A k \in DOMAIN Append(q, i) : k = Len(q) + 1 \/ (k \in DOMAIN q /\ k < Len(q) + 1)
  OBVIOUS
<1>3. Len(q) + 1 \notin DOMAIN q
  OBVIOUS
<1>4. \A k \in DOMAIN q : k \in DOMAIN Append(q, i) /\ Append(q, i)[k] = q[k]
  OBVIOUS
<1> QED
  BY <1>1, <1>2, <1>3, <1>4

(* The earliest arming is due: its timer is queued.                        *)
LEMMA PromotedTables ==
    ASSUME TypeOK, TypeOK', TablesInv, turn <= now,
           NEW a \in heap, MayPromote(a),
           heap' = heap \ {a},
           timers' = [timers EXCEPT ![a[3]].state = "Queued"],
           tasks' = Append(tasks, a[3]),
           UNCHANGED <<now, next_id, next_seq>>
    PROVE  TablesInv'
<1> DEFINE i == a[3]
           q == Append(tasks, i)
<1>1. i \in TimerId /\ a[1] \in Nat /\ a[2] \in Nat
  BY DEF TypeOK, Arming
<1>2. InState(i, "Pending") /\ ArmingOf(i) = a /\ timers[i] \in Entry
  BY <1>1 DEF MayPromote, is_live_arming, InState, TypeOK
<1>3. timers[i].due = a[1] /\ timers[i].seq = a[2] /\ timers[i] # None
  BY <1>2 DEF ArmingOf, InState
<1>4. /\ timers'[i] # None /\ timers'[i].state = "Queued"
      /\ timers'[i].due = a[1] /\ timers'[i].seq = a[2]
  BY <1>1, <1>2, <1>3, ZenonT(30) DEF TypeOK, Entry
<1>5. \A j \in TimerId : j # i => timers'[j] = timers[j]
  BY <1>1 DEF TypeOK
<1>8. tasks' = q /\ MayPromote(a) /\ q = Append(tasks, i)
  OBVIOUS
<1> HIDE DEF i, q
<1>6. \A k \in DOMAIN tasks : tasks[k] \in TimerId /\ tasks[k] # i
  <2>0. tasks \in Seq(TimerId)
    BY DEF TypeOK
  <2>1. \A k \in DOMAIN tasks : tasks[k] \in TimerId
    BY <2>0
  <2> QED
    BY <1>2, <2>1 DEF TablesInv, Placed
<1>7. /\ \A k \in DOMAIN tasks : k \in DOMAIN q /\ q[k] = tasks[k]
      /\ \E n \in DOMAIN q :
            /\ q[n] = i /\ n \notin DOMAIN tasks
            /\ \A k \in DOMAIN q : k = n \/ (k \in DOMAIN tasks /\ k < n)
      /\ \A k \in DOMAIN q : k \in Nat
  <2>1. tasks \in Seq(TimerId)
    BY DEF TypeOK
  <2> QED
    BY <1>1, <1>8, <2>1, AppendOne
<1>9. PICK n \in DOMAIN q :
            /\ q[n] = i /\ n \notin DOMAIN tasks
            /\ \A k \in DOMAIN q : k = n \/ (k \in DOMAIN tasks /\ k < n)
  BY <1>7
<1>10. ASSUME NEW j \in TimerId, j # i, NEW s
       PROVE  InState(j, s)' = InState(j, s) /\ ArmingOf(j)' = ArmingOf(j)
  BY <1>5, <1>10 DEF InState, ArmingOf
<1>11. InState(i, "Queued")' /\ ~ InState(i, "Pending")' /\ ~ InState(i, "Running")'
  BY <1>4 DEF InState
<1>12. ArmingOf(i)' = a
  BY <1>2, <1>4 DEF ArmingOf
<1>13. ASSUME NEW j \in TimerId, j # i, InState(j, "Pending")
       PROVE  ArmingOf(j) \in heap \ {a} /\ Earlier(a, ArmingOf(j))
  <2>1. ArmingOf(j) \in heap
    BY <1>13 DEF TablesInv, Placed
  <2>2. ArmingOf(j) # a
    BY <1>2, <1>13 DEF ArmingOf
  <2> QED
    BY <1>8, <2>1, <2>2 DEF MayPromote, IsTop
<1>14. \A k \in DOMAIN q : q[k] \in TimerId /\ (q[k] = i => k = n)
  BY <1>1, <1>6, <1>7, <1>9
<1>15. Fresh'
  <2>1. i < next_id /\ a[2] < next_seq
    <3>1. next_id \in Int /\ i \in Int
      BY <1>1 DEF TypeOK, TimerId
    <3>2. ~ (i >= next_id)
      BY <1>1, <1>3 DEF TablesInv, Fresh
    <3>3. a[2] < next_seq
      BY <1>1, <1>3 DEF TablesInv, Fresh, Live
    <3> QED
      BY <3>1, <3>2, <3>3
  <2> QED
    BY <1>3, <1>4, <1>5, <1>7, <1>8, <1>9, <2>1 DEF TablesInv, Fresh, Live
<1>16. Placed'
  <2>1. \A j \in TimerId : InState(j, "Pending")' => ArmingOf(j)' \in heap'
    BY <1>10, <1>11, <1>13
  <2>2. \A j \in TimerId : InState(j, "Queued")' => \E k \in DOMAIN q : q[k] = j
    BY <1>7, <1>9, <1>10 DEF TablesInv, Placed
  <2>3. \A j, k \in DOMAIN q : q[j] = q[k] => j = k
    BY <1>7, <1>9, <1>14 DEF TablesInv, Placed
  <2>4. ASSUME NEW k \in DOMAIN q, NEW j \in TimerId, j = q[k]
        PROVE  ~ InState(j, "Pending")' /\ ~ InState(j, "Running")'
    BY <1>7, <1>9, <1>10, <1>11, <2>4 DEF TablesInv, Placed
  <2>5. \A k \in DOMAIN q : q[k] \in TimerId
    BY <1>14
  <2>6. tasks' = q
    BY <1>8
  <2> QED
    BY ONLY <2>1, <2>2, <2>3, <2>4, <2>5, <2>6 DEF Placed, InState
<1>17. Ordered'
  <2>1. ASSUME NEW j \in DOMAIN q, NEW k \in DOMAIN q, j < k,
               NEW b \in TimerId, NEW c \in TimerId, b = q[j], c = q[k],
               InState(b, "Queued")', InState(c, "Queued")'
        PROVE  Earlier(ArmingOf(b)', ArmingOf(c)')
    <3>1. j \in DOMAIN tasks /\ b = tasks[j] /\ b # i
      BY <1>6, <1>7, <1>9, <2>1
    <3>2. InState(b, "Queued") /\ ArmingOf(b)' = ArmingOf(b)
      BY <1>10, <2>1, <3>1
    <3>3. CASE c = i
      BY <1>1, <1>2, <1>12, <3>2, <3>3 DEF TablesInv, Ordered, InFiringOrder
    <3>4. CASE c # i
      BY <1>7, <1>9, <1>10, <2>1, <3>1, <3>2, <3>4 DEF TablesInv, Ordered, InFiringOrder
    <3> QED
      BY <3>3, <3>4
  <2>2. ASSUME NEW b \in TimerId, NEW c \in TimerId, InState(b, "Queued")', InState(c, "Pending")'
        PROVE  Earlier(ArmingOf(b)', ArmingOf(c)')
    <3>1. c # i /\ InState(c, "Pending") /\ ArmingOf(c)' = ArmingOf(c)
      BY <1>10, <1>11, <2>2
    <3>2. CASE b = i
      BY <1>12, <1>13, <3>1, <3>2
    <3>3. CASE b # i
      BY <1>10, <2>2, <3>1, <3>3 DEF TablesInv, Ordered, InFiringOrder
    <3> QED
      BY <3>2, <3>3
  <2>3. \A j \in TimerId : InState(j, "Queued")' => timers'[j].due <= now'
    <3>1. timers'[i].due <= now'
      <4>1. a[1] <= turn
        BY <1>8 DEF MayPromote
      <4>2. turn \in Nat /\ now \in Nat
        BY DEF TypeOK
      <4> QED
        BY <1>1, <1>4, <4>1, <4>2
    <3> QED
      BY <1>5, <1>10, <3>1 DEF TablesInv, Ordered
  <2> QED
    BY <1>8, <1>14, <2>1, <2>2, <2>3, ZenonT(30) DEF Ordered, InFiringOrder, Earlier, InState, ArmingOf
<1> QED
  BY <1>15, <1>16, <1>17 DEF TablesInv

LEMMA TablesInvNext ==
    TypeOK /\ TablesInv /\ turn <= now /\ [Next]_vars => TablesInv'
<1> SUFFICES ASSUME TypeOK, TablesInv, turn <= now, [Next]_vars PROVE TablesInv'
  OBVIOUS
<1>0. TypeOK'
  BY TypeStep
<1>a. ASSUME Discard PROVE TablesInv'
  BY <1>a, EmptyTables
<1>b. ASSUME UNCHANGED <<tasks, timers, heap, next_id>>, next_seq <= next_seq', now <= now'
      PROVE TablesInv'
  BY <1>0, <1>b, SameTables DEF ArmingOf
<1>c. next_seq <= next_seq /\ now <= now /\ next_seq <= next_seq + 1 /\ now <= now + 1
  BY DEF TypeOK
<1>1. CASE Turns
  BY <1>b, <1>c, <1>1 DEF Turns, EvalStarts, ScriptReturns, DescribeEnds, MicrotaskEnds,
                    EvalCheckpointEnds, StepStarts, ClockAdvances, coreVars
<1>2. ASSUME NEW reason \in EngineError, Fails(reason) PROVE TablesInv'
  <2>1. Stopped(reason) /\ UNCHANGED <<next_id, next_seq, now>>
    BY <1>2 DEF Fails, EvalFails, CallbackFails, DescribeFails, MicrotaskFails
  <2> QED
    BY <1>a, <1>b, <1>c, <2>1 DEF Stopped, Terminate
<1>3. CASE QueueMicrotask
  BY <1>a, <1>b, <1>c, <1>3 DEF QueueMicrotask, Terminate
<1>4. ASSUME NEW delay \in Delays, NEW repeat \in BOOLEAN, AddTimer(delay, repeat)
      PROVE  TablesInv'
  <2>1. CASE Terminate("TimerOverflow")
    BY <1>a, <2>1 DEF Terminate
  <2>2. CASE ~ Terminate("TimerOverflow")
    <3> DEFINE e == NewEntry(delay, repeat)
    <3>1. /\ next_id <= MaxId
          /\ timers' = [timers EXCEPT ![next_id] = e]
          /\ heap' = heap \cup {<<e.due, next_seq, next_id>>}
          /\ UNCHANGED <<tasks, now>>
          /\ next_id' = next_id + 1 /\ next_seq' = next_seq + 1
      BY <1>4, <2>2 DEF AddTimer, FreshId
    <3>2. next_id \in TimerId
      BY <3>1 DEF TypeOK, TimerId
    <3>3. e \in Entry /\ e.state = "Pending" /\ e.due >= now /\ e.seq = next_seq
      BY NewEntryType
    <3> HIDE DEF e
    <3> QED
      BY <1>0, <3>1, <3>2, <3>3, ArmedTables
  <2> QED
    BY <2>1, <2>2
<1>5. ASSUME NEW i \in TimerId, ClearTimer(i) PROVE TablesInv'
  <2>1. \A j \in TimerId : j # i /\ InState(j, "Pending") => ArmingOf(j) \in LiveArmings \ {ArmingOf(i)}
    BY DEF LiveArmings, ArmingOf
  <2>2. \A j \in TimerId : InState(j, "Pending") => ArmingOf(j) \in heap
    BY DEF TablesInv, Placed
  <2>3. /\ timers' = [timers EXCEPT ![i] = None]
        /\ heap' = LiveArmings \ {ArmingOf(i)} \/ heap' = heap
        /\ UNCHANGED <<tasks, now, next_id, next_seq>>
    BY <1>5 DEF ClearTimer, Compacted
  <2>4. \A j \in TimerId : j # i /\ InState(j, "Pending") => ArmingOf(j) \in heap'
    BY <2>1, <2>2, <2>3
  <2> QED
    BY <1>0, <2>3, <2>4, RemovedTables
<1>6. CASE PopMicrotask
  BY <1>a, <1>b, <1>c, <1>6 DEF PopMicrotask, Terminate
<1>7. CASE FinishTimerTask
  <2>1. CASE /\ terminated = None
             /\ InState(current, "Running") /\ timers[current].repeat # None
    <3> DEFINE e == Rearmed(timers[current])
    <3>1. current \in TimerId
      BY <1>7 DEF FinishTimerTask, TypeOK
    <3>2. timers[current] \in Entry /\ timers[current] # None
      BY <2>1, <3>1 DEF InState, TypeOK
    <3>3. current # next_id
      <4>1. next_id >= next_id
        BY DEF TypeOK
      <4> QED
        BY <3>1, <3>2, <4>1 DEF TablesInv, Fresh
    <3>4. /\ timers' = [timers EXCEPT ![current] = e]
          /\ heap' = heap \cup {<<e.due, next_seq, current>>}
          /\ UNCHANGED <<tasks, now, next_id>>
          /\ next_seq' = next_seq + 1
      BY <1>7, <2>1 DEF FinishTimerTask, Rearm
    <3>5. e \in Entry /\ e.state = "Pending" /\ e.due >= now /\ e.seq = next_seq
      BY <2>1, <3>2, RearmedType
    <3> HIDE DEF e
    <3> QED
      BY <1>0, <2>1, <3>1, <3>3, <3>4, <3>5, ArmedTables
  <2>2. CASE ~ (/\ terminated = None
                /\ InState(current, "Running") /\ timers[current].repeat # None)
    BY <1>b, <1>c, <1>7, <2>2 DEF FinishTimerTask
  <2> QED
    BY <2>1, <2>2
<1>8. CASE PopStale
  <2>1. PICK a \in heap : ~ is_live_arming(a) /\ heap' = heap \ {a}
    BY <1>8 DEF PopStale
  <2>2. \A j \in TimerId : InState(j, "Pending") => is_live_arming(ArmingOf(j))
    BY DEF is_live_arming, ArmingOf
  <2>3. UNCHANGED <<tasks, timers, next_id, next_seq, now>>
    BY <1>8 DEF PopStale
  <2> QED
    BY <1>0, <1>c, <2>1, <2>2, <2>3, SameTables
<1>9. CASE NoTask
  <2>1. heap' = Pruned /\ UNCHANGED <<tasks, timers, next_id, next_seq, now>>
    BY <1>9 DEF NoTask
  <2>2. \A j \in TimerId : InState(j, "Pending") /\ ArmingOf(j) \in heap => ArmingOf(j) \in Pruned
    BY DEF Pruned, LiveArmings
  <2> QED
    BY <1>0, <1>c, <2>1, <2>2, SameTables
<1>10. CASE PromoteTop
  <2>1. PICK a \in heap :
          /\ MayPromote(a)
          /\ timers' = [timers EXCEPT ![a[3]].state = "Queued"]
          /\ tasks' = Append(tasks, a[3])
          /\ heap' = heap \ {a}
    BY <1>10 DEF PromoteTop, IfRoom, HasRoom
  <2>2. UNCHANGED <<now, next_id, next_seq>>
    BY <1>10 DEF PromoteTop
  <2> QED
    BY <1>0, <2>1, <2>2, PromotedTables
<1>11. CASE RunTask
  <2>1. tasks \in Seq(TimerId) /\ tasks # << >> /\ timers \in [TimerId -> Entry \cup {None}]
    BY <1>11 DEF RunTask, TypeOK
  <2>2. Head(tasks) \in TimerId
    BY <2>1, HeadAndTail
  <2>3. /\ \A j \in TimerId : j # Head(tasks) => timers'[j] = timers[j]
        /\ \/ timers'[Head(tasks)] = None
           \/ timers'[Head(tasks)] = [timers[Head(tasks)] EXCEPT !.state = "Running"]
        /\ timers[Head(tasks)] # None
    BY <1>11, <2>1, <2>2 DEF RunTask, InState
  <2>4. tasks' = Tail(tasks) /\ UNCHANGED <<heap, now, next_id, next_seq>>
    BY <1>11 DEF RunTask
  <2> QED
    BY <1>0, <2>1, <2>2, <2>3, <2>4, PoppedTables
<1>12. CASE SkipTask
  <2>1. tasks \in Seq(TimerId) /\ tasks # << >> /\ timers \in [TimerId -> Entry \cup {None}]
    BY <1>12 DEF SkipTask, TypeOK
  <2>2. Head(tasks) \in TimerId /\ Head(tasks) = tasks[1] /\ 1 \in DOMAIN tasks
    BY <2>1, HeadAndTail
  <2>3. timers' = timers /\ tasks' = Tail(tasks) /\ UNCHANGED <<heap, now, next_id, next_seq>>
    BY <1>12 DEF SkipTask
  <2>4. /\ ~ InState(Head(tasks), "Queued") /\ ~ InState(Head(tasks), "Pending")
        /\ ~ InState(Head(tasks), "Running")
    BY <1>12, <2>2 DEF SkipTask, TablesInv, Placed
  <2>5. timers[Head(tasks)] = None
    BY <2>1, <2>2, <2>4 DEF InState, Entry
  <2> QED
    BY <1>0, <2>1, <2>2, <2>3, <2>5, PoppedTables
<1>13. CASE HostDrops
  BY <1>a, <1>13 DEF HostDrops
<1>14. CASE UNCHANGED vars
  BY <1>b, <1>c, <1>14 DEF vars, coreVars
<1> QED
  BY <1>1, <1>2, <1>3, <1>4, <1>5, <1>6, <1>7, <1>8, <1>9, <1>10, <1>11, <1>12, <1>13, <1>14,
     StepCases

-----------------------------------------------------------------------------
(* The host. *)

(* A timer that runs is an interval, and the one whose task the host is    *)
(* in.                                                                     *)
RunPlaced ==
    \A i \in TimerId : InState(i, "Running") =>
        /\ current = i /\ pc \in {"Callback", "Checkpoint", "Microtask"}
        /\ timers[i].repeat # None

(* Nothing is said to be idle that is not.                                 *)
Calm ==
    /\ turn <= now
    /\ said = "Idle" => pc \in {"Ready", "Dropped"}
    /\ pc \in {"Eval", "Describe"} => current = None
    /\ IdleMeansNoTimer

LoopInv ==
    TypeOK /\ TerminatedIsEmpty /\ BackPressureNotLoss
    /\ TablesInv /\ RunPlaced /\ Calm

-----------------------------------------------------------------------------
(* Script that was stopped left nothing behind, and a full task queue did  *)
(* not stop it.                                                            *)
LEMMA TerminatedNext ==
    TypeOK /\ TerminatedIsEmpty /\ BackPressureNotLoss /\ [Next]_vars
      => TerminatedIsEmpty' /\ BackPressureNotLoss'
<1> SUFFICES ASSUME TypeOK, TerminatedIsEmpty, BackPressureNotLoss, [Next]_vars
             PROVE  TerminatedIsEmpty' /\ BackPressureNotLoss'
  OBVIOUS
<1> USE DEF BackPressureNotLoss
<1>a. ASSUME Discard PROVE TerminatedIsEmpty'
  BY <1>a DEF Discard, TerminatedIsEmpty, Live
<1>b. ASSUME UNCHANGED <<microtasks, tasks, timers, heap, terminated>>
      PROVE  TerminatedIsEmpty' /\ BackPressureNotLoss'
  BY <1>b DEF TerminatedIsEmpty, Live
<1>c. ASSUME terminated = None, terminated' = terminated
      PROVE  TerminatedIsEmpty' /\ BackPressureNotLoss'
  BY <1>c DEF TerminatedIsEmpty
<1>1. CASE Turns
  BY <1>b, <1>1 DEF Turns, EvalStarts, ScriptReturns, DescribeEnds, MicrotaskEnds,
                    EvalCheckpointEnds, StepStarts, ClockAdvances, coreVars
<1>2. ASSUME NEW reason \in EngineError, Fails(reason)
      PROVE  TerminatedIsEmpty' /\ BackPressureNotLoss'
  <2>1. Stopped(reason) /\ reason # "TaskQueueOverflow"
    BY <1>2 DEF Fails, EvalFails, CallbackFails, DescribeFails, MicrotaskFails, EngineError
  <2> QED
    BY <1>a, <1>b, <2>1 DEF Stopped, Terminate
<1>3. CASE QueueMicrotask
  BY <1>a, <1>c, <1>3 DEF QueueMicrotask, Terminate
<1>4. ASSUME NEW delay \in Delays, NEW repeat \in BOOLEAN, AddTimer(delay, repeat)
      PROVE  TerminatedIsEmpty' /\ BackPressureNotLoss'
  BY <1>a, <1>c, <1>4 DEF AddTimer, Terminate
<1>5. ASSUME NEW i \in TimerId, ClearTimer(i) PROVE TerminatedIsEmpty' /\ BackPressureNotLoss'
  BY <1>c, <1>5 DEF ClearTimer
<1>6. CASE PopMicrotask
  BY <1>a, <1>c, <1>6 DEF PopMicrotask, Terminate
<1>7. CASE FinishTimerTask
  BY <1>b, <1>c, <1>7 DEF FinishTimerTask
<1>8. CASE PopStale \/ NoTask
  BY <1>8 DEF PopStale, NoTask, Pruned, TerminatedIsEmpty, Live
<1>9. CASE PromoteTop
  BY <1>c, <1>9 DEF PromoteTop, IfRoom, HasRoom
<1>10. CASE RunTask \/ SkipTask
  <2>1. terminated = None
    BY <1>10 DEF RunTask, SkipTask, TerminatedIsEmpty
  <2> QED
    BY <1>c, <1>10, <2>1 DEF RunTask, SkipTask
<1>11. CASE HostDrops
  BY <1>a, <1>11 DEF HostDrops
<1>12. CASE UNCHANGED vars
  BY <1>b, <1>12 DEF vars, coreVars
<1> QED
  BY <1>1, <1>2, <1>3, <1>4, <1>5, <1>6, <1>7, <1>8, <1>9, <1>10, <1>11, <1>12, StepCases

LEMMA RunPlacedNext ==
    TypeOK /\ TerminatedIsEmpty /\ RunPlaced /\ [Next]_vars => RunPlaced'
<1> SUFFICES ASSUME TypeOK, TerminatedIsEmpty, RunPlaced, [Next]_vars PROVE RunPlaced'
  OBVIOUS
<1>a. ASSUME Discard PROVE RunPlaced'
  BY <1>a DEF Discard, RunPlaced, InState
<1>b. ASSUME UNCHANGED <<timers, current>>,
             pc \in {"Callback", "Checkpoint", "Microtask"}
               => pc' \in {"Callback", "Checkpoint", "Microtask"}
      PROVE  RunPlaced'
  BY <1>b DEF RunPlaced, InState
<1>c. ASSUME pc \notin {"Callback", "Checkpoint", "Microtask"} \/ current = None,
             timers' = timers
      PROVE  RunPlaced'
  BY <1>c DEF RunPlaced, InState
<1>d. ASSUME terminated # None, timers' = timers PROVE RunPlaced'
  BY <1>d DEF TerminatedIsEmpty, Live, RunPlaced, InState
<1>1. CASE Turns
  <2>1. timers' = timers
    BY <1>1 DEF Turns, EvalStarts, ScriptReturns, DescribeEnds, MicrotaskEnds,
                EvalCheckpointEnds, StepStarts, ClockAdvances, coreVars
  <2>2. CASE EvalStarts \/ DescribeEnds \/ EvalCheckpointEnds \/ StepStarts
    BY <1>c, <2>1, <2>2 DEF EvalStarts, DescribeEnds, EvalCheckpointEnds, StepStarts
  <2>3. CASE ScriptReturns \/ MicrotaskEnds \/ ClockAdvances
    BY <1>b, <2>1, <2>3 DEF ScriptReturns, MicrotaskEnds, ClockAdvances, BeginCheckpoint, hostVars
  <2> QED
    BY <1>1, <2>2, <2>3 DEF Turns
<1>2. ASSUME NEW reason \in EngineError, Fails(reason) PROVE RunPlaced'
  <2>1. Stopped(reason)
    BY <1>2 DEF Fails, EvalFails, CallbackFails, DescribeFails, MicrotaskFails
  <2> QED
    BY <1>a, <1>d, <2>1 DEF Stopped, Terminate
<1>3. CASE QueueMicrotask
  BY <1>a, <1>b, <1>3 DEF QueueMicrotask, Terminate, hostVars
<1>4. ASSUME NEW delay \in Delays, NEW repeat \in BOOLEAN, AddTimer(delay, repeat)
      PROVE  RunPlaced'
  <2>1. CASE Terminate("TimerOverflow")
    BY <1>a, <2>1 DEF Terminate
  <2>2. CASE ~ Terminate("TimerOverflow")
    <3>1. timers' = [timers EXCEPT ![next_id] = NewEntry(delay, repeat)]
      BY <1>4, <2>2 DEF AddTimer, FreshId
    <3>2. NewEntry(delay, repeat).state = "Pending"
      BY NewEntryType
    <3>3. \A i \in TimerId : InState(i, "Running")' => timers'[i] = timers[i] /\ InState(i, "Running")
      BY <3>1, <3>2 DEF InState, TypeOK
    <3> QED
      BY <1>4, <3>3 DEF AddTimer, hostVars, RunPlaced
  <2> QED
    BY <2>1, <2>2
<1>5. ASSUME NEW i \in TimerId, ClearTimer(i) PROVE RunPlaced'
  <2>1. \A j \in TimerId : InState(j, "Running")' => timers'[j] = timers[j] /\ InState(j, "Running")
    BY <1>5 DEF ClearTimer, InState, TypeOK
  <2> QED
    BY <1>5, <2>1 DEF ClearTimer, hostVars, RunPlaced
<1>6. CASE PopMicrotask
  BY <1>a, <1>b, <1>6 DEF PopMicrotask, Terminate
<1>7. CASE FinishTimerTask
  <2>1. CASE terminated # None
    BY <1>7, <1>d, <2>1 DEF FinishTimerTask
  <2>2. CASE terminated = None /\ InState(current, "Running")
    <3>1. current \in TimerId
      BY <1>7 DEF FinishTimerTask, TypeOK
    <3>2. timers' = [timers EXCEPT ![current] = Rearmed(timers[current])]
      BY <1>7, <2>2, <3>1 DEF FinishTimerTask, Rearm, RunPlaced
    <3>3. Rearmed(timers[current]).state = "Pending"
      BY DEF Rearmed
    <3>4. \A j \in TimerId : ~ InState(j, "Running")'
      BY <3>1, <3>2, <3>3 DEF InState, TypeOK, RunPlaced
    <3> QED
      BY <3>4 DEF RunPlaced
  <2>3. CASE terminated = None /\ ~ InState(current, "Running")
    <3>1. timers' = timers
      BY <1>7, <2>3 DEF FinishTimerTask
    <3> QED
      BY <2>3, <3>1 DEF RunPlaced, InState
  <2> QED
    BY <2>1, <2>2, <2>3
<1>8. CASE PopStale \/ NoTask \/ SkipTask
  BY <1>c, <1>8 DEF PopStale, NoTask, SkipTask, Promoted
<1>9. CASE PromoteTop
  <2>1. PICK a \in heap : timers' = [timers EXCEPT ![a[3]].state = "Queued"]
    BY <1>9 DEF PromoteTop, IfRoom, HasRoom
  <2>2. \A j \in TimerId : ~ InState(j, "Running")
    BY <1>9 DEF PromoteTop, RunPlaced
  <2>3. a[3] \in TimerId
    BY DEF TypeOK, Arming
  <2>4. timers' = [timers EXCEPT ![a[3]] = [timers[a[3]] EXCEPT !.state = "Queued"]]
    BY <2>1
  <2>5. [timers[a[3]] EXCEPT !.state = "Queued"].state # "Running"
    BY DEF RunPlaced
  <2>6. \A j \in TimerId : ~ InState(j, "Running")'
    BY <2>2, <2>3, <2>4, <2>5 DEF InState, TypeOK
  <2> QED
    BY <2>6 DEF RunPlaced
<1>10. CASE RunTask
  <2>1. \A j \in TimerId : ~ InState(j, "Running")
    BY <1>10 DEF RunTask, Promoted, RunPlaced
  <2>2. Head(tasks) \in TimerId
    BY <1>10, HeadAndTail DEF RunTask, TypeOK
  <2>3. timers[Head(tasks)] \in Entry
    BY <1>10, <2>2 DEF RunTask, InState, TypeOK
  <2>4. \/ timers' = [timers EXCEPT ![Head(tasks)] = None]
        \/ /\ timers[Head(tasks)].repeat # None
           /\ timers' = [timers EXCEPT ![Head(tasks)] =
                           [timers[Head(tasks)] EXCEPT !.state = "Running"]]
    BY <1>10 DEF RunTask
  <2>5. [timers[Head(tasks)] EXCEPT !.state = "Running"].repeat = timers[Head(tasks)].repeat
    BY <2>3 DEF Entry
  <2>6. \A j \in TimerId : InState(j, "Running")' => j = Head(tasks) /\ timers'[j].repeat # None
    BY <2>1, <2>2, <2>4, <2>5 DEF InState, TypeOK
  <2> QED
    BY <1>10, <2>6 DEF RunTask, RunPlaced
<1>11. CASE HostDrops
  BY <1>a, <1>11 DEF HostDrops
<1>12. CASE UNCHANGED vars
  BY <1>b, <1>12 DEF vars, coreVars, hostVars
<1> QED
  BY <1>1, <1>2, <1>3, <1>4, <1>5, <1>6, <1>7, <1>8, <1>9, <1>10, <1>11, <1>12, StepCases

(* A step that finds no task and no live arming leaves no timer behind.    *)
LEMMA IdleIsEmpty ==
    ASSUME TypeOK, TablesInv, RunPlaced, NoTask, Pruned = {}
    PROVE  Live = {} /\ tasks = << >>
<1>1. tasks = << >> /\ pc = "Promote"
  BY DEF NoTask, Promoted
<1>2. ASSUME NEW i \in TimerId, timers[i] # None PROVE FALSE
  <2>1. InState(i, "Pending") \/ InState(i, "Queued") \/ InState(i, "Running")
    BY <1>2 DEF InState, TypeOK, Entry
  <2>2. ~ InState(i, "Pending")
    BY DEF TablesInv, Placed, Pruned, LiveArmings
  <2>3. ~ InState(i, "Queued")
    BY <1>1 DEF TablesInv, Placed
  <2>4. ~ InState(i, "Running")
    BY <1>1 DEF RunPlaced
  <2> QED
    BY <2>1, <2>2, <2>3, <2>4
<1> QED
  BY <1>1, <1>2 DEF Live

LEMMA CalmNext ==
    TypeOK /\ TablesInv /\ RunPlaced /\ Calm /\ [Next]_vars => Calm'
<1> SUFFICES ASSUME TypeOK, TablesInv, RunPlaced, Calm, [Next]_vars PROVE Calm'
  OBVIOUS
<1> USE DEF Script, hostVars
<1>0. turn \in Nat /\ now \in Nat
  BY DEF TypeOK
<1>a. ASSUME UNCHANGED <<turn, now>>, said' # "Idle" \/ pc' = "Dropped",
             pc' \in {"Eval", "Describe"} => current' = None
      PROVE  Calm'
  BY <1>a DEF Calm, IdleMeansNoTimer
<1>b. ASSUME pc \notin {"Ready", "Dropped"} PROVE said # "Idle"
  BY <1>b DEF Calm
<1>c. pc \in {"Eval", "Describe"} => current = None
  BY DEF Calm
<1>d. turn <= now
  BY DEF Calm
<1>1. CASE Turns
  <2>1. CASE EvalStarts \/ ScriptReturns \/ DescribeEnds \/ MicrotaskEnds \/ EvalCheckpointEnds
    BY <1>a, <1>b, <2>1 DEF EvalStarts, ScriptReturns, DescribeEnds, MicrotaskEnds,
                    BeginCheckpoint, EvalCheckpointEnds, Drained
  <2>2. CASE StepStarts
    BY <1>0, <2>2 DEF StepStarts, Calm, IdleMeansNoTimer
  <2>3. CASE ClockAdvances
    BY <1>0, <2>3 DEF ClockAdvances, coreVars, Calm, IdleMeansNoTimer, Live
  <2> QED
    BY <1>1, <2>1, <2>2, <2>3 DEF Turns
<1>2. ASSUME NEW reason \in EngineError, Fails(reason) PROVE Calm'
  BY <1>a, <1>b, <1>2 DEF Fails, EvalFails, CallbackFails, DescribeFails, MicrotaskFails,
                          BeginCheckpoint
<1>3. CASE QueueMicrotask
  BY <1>a, <1>b, <1>c, <1>3 DEF QueueMicrotask
<1>4. ASSUME NEW delay \in Delays, NEW repeat \in BOOLEAN, AddTimer(delay, repeat)
      PROVE  Calm'
  BY <1>a, <1>b, <1>c, <1>4 DEF AddTimer
<1>5. ASSUME NEW i \in TimerId, ClearTimer(i) PROVE Calm'
  BY <1>a, <1>b, <1>c, <1>5 DEF ClearTimer
<1>6. CASE PopMicrotask \/ FinishTimerTask
  BY <1>a, <1>b, <1>c, <1>6 DEF PopMicrotask, FinishTimerTask
<1>7. CASE PopStale \/ PromoteTop
  BY <1>a, <1>b, <1>c, <1>7 DEF PopStale, PromoteTop
<1>8. CASE RunTask \/ SkipTask
  BY <1>a, <1>b, <1>8 DEF RunTask, SkipTask, Promoted
<1>9. CASE NoTask
  <2>1. said' = "Idle" => Live' = {} /\ tasks' = << >>
    <3>1. said' = "Idle" => Pruned = {}
      BY <1>9 DEF NoTask, Answer
    <3> QED
      BY <1>9, <3>1, IdleIsEmpty DEF NoTask, Live
  <2> QED
    BY <1>9, <1>d, <2>1 DEF NoTask, Calm, IdleMeansNoTimer
<1>10. CASE HostDrops
  BY <1>a, <1>10 DEF HostDrops
<1>11. CASE UNCHANGED vars
  BY <1>11 DEF vars, coreVars, Calm, IdleMeansNoTimer, Live
<1> QED
  BY <1>1, <1>2, <1>3, <1>4, <1>5, <1>6, <1>7, <1>8, <1>9, <1>10, <1>11, StepCases

-----------------------------------------------------------------------------
LEMMA LoopInvInit == Init => LoopInv
<1> SUFFICES ASSUME Init PROVE LoopInv
  OBVIOUS
<1>1. TypeOK
  BY TypeInit
<1>2. \A i \in TimerId : timers[i] = None
  BY DEF Init
<1>3. tasks = << >> /\ terminated = None /\ said = "Nothing" /\ turn = 0 /\ now = 0 /\ pc = "Ready"
  BY DEF Init
<1>4. TablesInv
  BY <1>2, <1>3 DEF TablesInv, Fresh, Placed, Ordered, InFiringOrder, InState, Live
<1>5. RunPlaced
  BY <1>2 DEF RunPlaced, InState
<1>6. TerminatedIsEmpty /\ BackPressureNotLoss
  BY <1>3 DEF TerminatedIsEmpty, BackPressureNotLoss, TerminateReason
<1>7. Calm
  BY <1>3 DEF Calm, IdleMeansNoTimer
<1> QED
  BY <1>1, <1>4, <1>5, <1>6, <1>7 DEF LoopInv

LEMMA LoopInvNext == LoopInv /\ [Next]_vars => LoopInv'
BY TypeStep, TerminatedNext, TablesInvNext, RunPlacedNext, CalmNext, Calm => turn <= now
   DEF LoopInv, Calm

LEMMA LoopInvCorrect == Spec => []LoopInv
BY LoopInvInit, LoopInvNext, PTL DEF Spec

LEMMA PlacedOnce ==
    LoopInv => EveryTimerReachable
<1> SUFFICES ASSUME LoopInv, NEW i \in Live
             PROVE  /\ InState(i, "Pending") => ArmingOf(i) \in heap
                    /\ InState(i, "Queued") => \E k \in DOMAIN tasks : Occurrences(i) = {k}
                    /\ InState(i, "Running") =>
                          current = i /\ pc \in {"Callback", "Checkpoint", "Microtask"}
  BY DEF EveryTimerReachable
<1>1. i \in TimerId /\ Placed /\ RunPlaced
  BY DEF LoopInv, TablesInv, Live
<1>2. ASSUME InState(i, "Queued") PROVE \E k \in DOMAIN tasks : Occurrences(i) = {k}
  <2>1. PICK k \in DOMAIN tasks : tasks[k] = i
    BY <1>1, <1>2 DEF Placed
  <2>2. \A j \in DOMAIN tasks : tasks[j] = i => j = k
    BY <1>1, <2>1 DEF Placed
  <2> QED
    BY <2>1, <2>2 DEF Occurrences
<1> QED
  BY <1>1, <1>2 DEF Placed, RunPlaced

(* No timer is stranded, whatever script arms and clears between the steps *)
(* of the loop and whenever the heap is rebuilt: a pending timer has its   *)
(* arming, a queued one its one task, a running one its finish             *)
(* (LoopCore::add_timer, clear_timer, promote_due, begin_timer_task,       *)
(* finish_timer_task).                                                     *)
THEOREM EveryTimerReachableCorrect == Spec => []EveryTimerReachable
BY LoopInvCorrect, PlacedOnce, PTL

(* Timers run by due time and then by arming order, across promotions and  *)
(* with a bounded task queue (LoopCore::promote_due).                      *)
THEOREM InFiringOrderCorrect == Spec => []InFiringOrder
<1>1. LoopInv => InFiringOrder
  BY DEF LoopInv, TablesInv, Ordered
<1> QED
  BY LoopInvCorrect, <1>1, PTL

(* Once script is stopped the loop holds no task, microtask or timer       *)
(* (LoopCore::terminate).                                                  *)
THEOREM TerminatedIsEmptyCorrect == Spec => []TerminatedIsEmpty
<1>1. LoopInv => TerminatedIsEmpty
  BY DEF LoopInv
<1> QED
  BY LoopInvCorrect, <1>1, PTL

(* Timers that come due faster than they run never stop script             *)
(* (LoopCore::promote_due looks for room before it queues).                *)
THEOREM BackPressureCorrect == Spec => []BackPressureNotLoss
<1>1. LoopInv => BackPressureNotLoss
  BY DEF LoopInv
<1> QED
  BY LoopInvCorrect, <1>1, PTL

(* A loop that says it is idle has no timer and no task                    *)
(* (LoopCore::next_due_ns, Host::step).                                    *)
THEOREM IdleMeansNoTimerCorrect == Spec => []IdleMeansNoTimer
<1>1. LoopInv => IdleMeansNoTimer
  BY DEF LoopInv, Calm
<1> QED
  BY LoopInvCorrect, <1>1, PTL

-----------------------------------------------------------------------------
LEMMA FinalStep ==
    LoopInv /\ [Next]_vars =>
        [terminated # None =>
            /\ terminated' = terminated
            /\ pc' \in {"Eval", "Callback", "Microtask"} => pc' = pc]_vars
<1> SUFFICES ASSUME LoopInv, [Next]_vars, terminated # None
             PROVE  /\ terminated' = terminated
                    /\ pc' \in {"Eval", "Callback", "Microtask"} => pc' = pc
  OBVIOUS
<1>1. tasks = << >>
  BY DEF LoopInv, TerminatedIsEmpty
<1>2. CASE Turns
  BY <1>2 DEF Turns, EvalStarts, ScriptReturns, DescribeEnds, MicrotaskEnds, BeginCheckpoint,
              EvalCheckpointEnds, StepStarts, ClockAdvances, coreVars, hostVars
<1>3. ASSUME NEW reason \in EngineError, Fails(reason)
      PROVE  /\ terminated' = terminated
             /\ pc' \in {"Eval", "Callback", "Microtask"} => pc' = pc
  BY <1>3 DEF Fails, EvalFails, CallbackFails, DescribeFails, MicrotaskFails, Stopped,
              BeginCheckpoint
<1>4. \A delay \in Delays, repeat \in BOOLEAN : ~ AddTimer(delay, repeat)
  BY DEF AddTimer
<1>5. \A i \in TimerId : ~ ClearTimer(i)
  BY DEF ClearTimer
<1>6. ~ (QueueMicrotask \/ PopMicrotask \/ PromoteTop \/ RunTask \/ SkipTask)
  BY <1>1 DEF QueueMicrotask, PopMicrotask, PromoteTop, RunTask, SkipTask
<1>7. CASE FinishTimerTask \/ PopStale \/ NoTask \/ HostDrops
  BY <1>7 DEF FinishTimerTask, PopStale, NoTask, HostDrops, hostVars
<1>8. CASE UNCHANGED vars
  BY <1>8 DEF vars, coreVars, hostVars
<1> QED
  BY <1>2, <1>3, <1>4, <1>5, <1>6, <1>7, <1>8, StepCases

(* The first reason script was stopped for is kept, and no script starts   *)
(* again (LoopCore::terminate and the guards of LoopCore).                 *)
THEOREM TerminationIsFinalCorrect == Spec => TerminationIsFinal
BY LoopInvCorrect, FinalStep, PTL DEF Spec, TerminationIsFinal

LEMMA HandleStep ==
    LoopInv /\ [Next]_vars =>
        [\A i \in TimerId : i < next_id /\ timers[i] = None => timers'[i] = None]_vars
<1> SUFFICES ASSUME LoopInv, [Next]_vars, NEW i \in TimerId, i < next_id, timers[i] = None
             PROVE  timers'[i] = None
  OBVIOUS
<1>0. TypeOK /\ TablesInv
  BY DEF LoopInv
<1>a. ASSUME Discard PROVE timers'[i] = None
  BY <1>a, EmptyTables
<1>1. CASE Turns
  BY <1>1 DEF Turns, EvalStarts, ScriptReturns, DescribeEnds, MicrotaskEnds,
              EvalCheckpointEnds, StepStarts, ClockAdvances, coreVars
<1>2. ASSUME NEW reason \in EngineError, Fails(reason) PROVE timers'[i] = None
  <2>1. Stopped(reason)
    BY <1>2 DEF Fails, EvalFails, CallbackFails, DescribeFails, MicrotaskFails
  <2> QED
    BY <1>a, <2>1 DEF Stopped, Terminate
<1>3. CASE QueueMicrotask
  BY <1>a, <1>3 DEF QueueMicrotask, Terminate
<1>4. ASSUME NEW delay \in Delays, NEW repeat \in BOOLEAN, AddTimer(delay, repeat)
      PROVE  timers'[i] = None
  <2>1. CASE Terminate("TimerOverflow")
    BY <1>a, <2>1 DEF Terminate
  <2>2. CASE timers' = [timers EXCEPT ![next_id] = NewEntry(delay, repeat)]
    <3>1. i # next_id
      BY <1>0 DEF TypeOK, TimerId
    <3> QED
      BY <1>0, <2>2, <3>1 DEF TypeOK
  <2> QED
    BY <1>4, <2>1, <2>2 DEF AddTimer, FreshId
<1>5. ASSUME NEW j \in TimerId, ClearTimer(j) PROVE timers'[i] = None
  BY <1>0, <1>5 DEF ClearTimer, TypeOK
<1>6. CASE PopMicrotask
  BY <1>a, <1>6 DEF PopMicrotask, Terminate
<1>7. CASE FinishTimerTask
  BY <1>0, <1>7 DEF FinishTimerTask, Rearm, InState, TypeOK
<1>8. CASE PopStale \/ SkipTask \/ NoTask
  BY <1>8 DEF PopStale, SkipTask, NoTask
<1>9. CASE PromoteTop
  <2>1. PICK a \in heap : MayPromote(a) /\ timers' = [timers EXCEPT ![a[3]].state = "Queued"]
    BY <1>9 DEF PromoteTop, IfRoom, HasRoom
  <2>2. timers[a[3]] # None
    BY <2>1 DEF MayPromote, is_live_arming, InState
  <2> QED
    BY <1>0, <2>1, <2>2 DEF TypeOK
<1>10. CASE RunTask
  <2>1. \A j \in TimerId : j # Head(tasks) => timers'[j] = timers[j]
    BY <1>0, <1>10 DEF RunTask, TypeOK
  <2>2. timers[Head(tasks)] # None
    BY <1>10 DEF RunTask, InState
  <2> QED
    BY <2>1, <2>2
<1>11. CASE HostDrops
  BY <1>a, <1>11 DEF HostDrops
<1>12. CASE UNCHANGED vars
  BY <1>12 DEF vars, coreVars
<1> QED
  BY <1>1, <1>2, <1>3, <1>4, <1>5, <1>6, <1>7, <1>8, <1>9, <1>10, <1>11, <1>12, StepCases

(* A handle that was given out and is free again is never given out again: *)
(* clearTimeout with an old handle cannot stop a newer timer               *)
(* (LoopCore::add_timer).                                                  *)
THEOREM HandlesNotReusedCorrect == Spec => HandlesNotReused
BY LoopInvCorrect, HandleStep, PTL DEF Spec, HandlesNotReused

(* A step takes a timer out of the table only to run it, to clear it, or   *)
(* with all the others.                                                    *)
LEMMA DropStep ==
    LoopInv /\ [Next]_vars =>
        [\A i \in Live : timers'[i] = None => TaskRuns(i)' \/ ClearTimer(i) \/ Over']_vars
<1> SUFFICES ASSUME LoopInv, [Next]_vars, NEW i \in Live, timers'[i] = None
             PROVE  TaskRuns(i)' \/ ClearTimer(i) \/ Over'
  OBVIOUS
<1>0. /\ TypeOK /\ i \in TimerId /\ timers[i] # None
      /\ timers \in [TimerId -> Entry \cup {None}]
  BY DEF LoopInv, Live, TypeOK
<1>a. ASSUME NEW reason \in TerminateReason \ {"TaskQueueOverflow"}, Terminate(reason)
      PROVE  Over'
  BY <1>a, EntryAssumption DEF Terminate, Over
<1>b. ASSUME timers' = timers PROVE FALSE
  BY <1>0, <1>b
<1>1. CASE Turns
  BY <1>b, <1>1 DEF Turns, EvalStarts, ScriptReturns, DescribeEnds, MicrotaskEnds,
                    EvalCheckpointEnds, StepStarts, ClockAdvances, coreVars
<1>2. ASSUME NEW reason \in EngineError, Fails(reason) PROVE Over'
  <2>1. Stopped(reason)
    BY <1>2 DEF Fails, EvalFails, CallbackFails, DescribeFails, MicrotaskFails
  <2> QED
    BY <1>a, <1>b, <2>1 DEF Stopped, EngineError, TerminateReason
<1>3. CASE QueueMicrotask
  BY <1>a, <1>b, <1>3 DEF QueueMicrotask, TerminateReason
<1>4. ASSUME NEW delay \in Delays, NEW repeat \in BOOLEAN, AddTimer(delay, repeat)
      PROVE  Over'
  <2>1. CASE Terminate("TimerOverflow")
    BY <1>a, <2>1 DEF TerminateReason
  <2>2. CASE timers' = [timers EXCEPT ![next_id] = NewEntry(delay, repeat)]
    BY <1>0, <2>2, NewEntryType
  <2> QED
    BY <1>4, <2>1, <2>2 DEF AddTimer, FreshId
<1>5. ASSUME NEW j \in TimerId, ClearTimer(j) PROVE ClearTimer(i)
  <2>1. i = j
    BY <1>0, <1>5 DEF ClearTimer
  <2> QED
    BY <1>5, <2>1
<1>6. CASE PopMicrotask
  BY <1>a, <1>b, <1>6 DEF PopMicrotask, TerminateReason
<1>7. CASE FinishTimerTask
  <2>1. CASE UNCHANGED timers
    BY <1>b, <2>1
  <2>2. CASE InState(current, "Running") /\ timers[current].repeat # None /\ Rearm(current)
    <3>1. current \in TimerId /\ timers[current] \in Entry
      BY <1>0, <1>7, <2>2 DEF FinishTimerTask, TypeOK, InState
    <3>2. Rearmed(timers[current]) # None
      BY <1>0, <2>2, <3>1, RearmedType
    <3> QED
      BY <1>0, <2>2, <3>1, <3>2 DEF Rearm
  <2> QED
    BY <1>7, <2>1, <2>2 DEF FinishTimerTask
<1>8. CASE PopStale \/ SkipTask \/ NoTask
  BY <1>b, <1>8 DEF PopStale, SkipTask, NoTask
<1>9. CASE PromoteTop
  <2>1. PICK a \in heap : MayPromote(a) /\ timers' = [timers EXCEPT ![a[3]].state = "Queued"]
    BY <1>9 DEF PromoteTop, IfRoom, HasRoom
  <2>2. a[3] \in TimerId /\ timers[a[3]] \in Entry
    BY <1>0, <2>1 DEF MayPromote, is_live_arming, InState, TypeOK, Arming
  <2>3. [timers[a[3]] EXCEPT !.state = "Queued"] \in Entry
    BY <2>2 DEF Entry
  <2>4. timers'[a[3]] # None
    BY <1>0, <2>1, <2>2, <2>3
  <2>5. i # a[3] => timers'[i] = timers[i]
    BY <1>0, <2>1
  <2> QED
    BY <1>0, <2>4, <2>5
<1>10. CASE RunTask
  <2>1. i = Head(tasks)
    BY <1>0, <1>10 DEF RunTask
  <2> QED
    BY <1>10, <2>1 DEF RunTask, TaskRuns
<1>11. CASE HostDrops
  BY <1>11 DEF HostDrops, Over
<1>12. CASE UNCHANGED vars
  BY <1>b, <1>12 DEF vars, coreVars
<1> QED
  BY <1>1, <1>2, <1>3, <1>4, <1>5, <1>6, <1>7, <1>8, <1>9, <1>10, <1>11, <1>12, StepCases

(* No timer is lost to a full task queue: one leaves the table by running, *)
(* by being cleared, or with all the others when the host is dropped or    *)
(* script is stopped for something it did (promote_due: "back-pressure,    *)
(* not loss").  The half of DueTimersRun that needs no fairness.           *)
THEOREM NothingDroppedCorrect == Spec => NothingDropped
BY LoopInvCorrect, DropStep, PTL DEF Spec, NothingDropped
=============================================================================
