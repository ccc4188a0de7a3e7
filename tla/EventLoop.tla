------------------------------ MODULE EventLoop ------------------------------
(***************************************************************************)
(* The script host's event loop: the queues, the timer table and the       *)
(* termination state (crates/px-script/src/queue.rs, LoopCore), and the    *)
(* turns the host takes around them (lib.rs, Host::eval and Host::step;    *)
(* runtime.rs, the checkpoint, the timer task and the host functions).     *)
(*                                                                         *)
(* Script is what may happen between the host's own steps: while it runs   *)
(* it arms and clears timers and queues microtasks, in any order, and it   *)
(* returns or hits an engine limit.  Time is the coarse clock, which never *)
(* goes back.  A microtask is only counted: the queue is first in, first   *)
(* out and the loop never looks inside one.                                *)
(***************************************************************************)
EXTENDS Integers, Sequences, FiniteSets, Option

CONSTANTS
    TaskCap, MicrotaskCap, TimerCap, CheckpointBudget,   \* Caps
    NESTING_CLAMP_LEVEL, NESTED_MIN_DELAY,
    CompactSlack,    \* stale heap entries tolerated before a rebuild (1024)
    Delays,          \* the delays script asks for
    MaxNow,          \* bound: the last instant
    MaxId,           \* bound: timers ever armed
    MaxSeq           \* bound: armings, and attempts to re-arm

VARIABLES
    microtasks,      \* how many microtasks wait
    tasks,           \* the timers due, in the order they will run
    timers,          \* TimerId -> Entry
    heap,            \* armings (due, seq, id), some of them stale
    next_id, next_seq, nesting, checkpoint_run, terminated,
    now,             \* the coarse clock
    pc,              \* where the host is
    current,         \* the timer whose task runs, None in an eval
    turn,            \* the time next_task read
    said             \* what the last step told its caller

coreVars == <<microtasks, tasks, timers, heap, next_id, next_seq, terminated>>
hostVars == <<pc, current, turn, said>>
vars == <<coreVars, nesting, checkpoint_run, now, hostVars>>

ASSUME LoopAssumption ==
    /\ TaskCap \in Nat /\ MicrotaskCap \in Nat
    /\ TimerCap \in Nat /\ CheckpointBudget \in Nat
    /\ NESTING_CLAMP_LEVEL \in Nat /\ NESTED_MIN_DELAY \in Nat
    /\ CompactSlack \in Nat /\ Delays \subseteq Nat
    /\ MaxNow \in Nat /\ MaxId \in Nat /\ MaxSeq \in Nat

TimerId == 1 .. MaxId

ASSUME NoneAssumption == None \notin TimerId \cup Nat

TerminateReason ==
    {"TaskQueueOverflow", "MicrotaskQueueOverflow", "TimerOverflow",
     "MicrotaskBudget", "RuntimeLimit", "EnginePanic"}

(* due and seq are those of the timer's last arming; the code keeps them   *)
(* only while the timer is Pending and reads them only then.               *)
Entry ==
    [repeat  : Nat \cup {None},
     nesting : Nat,
     state   : {"Pending", "Queued", "Running"},
     due     : Nat,
     seq     : Nat]

ASSUME EntryAssumption == None \notin Entry /\ None \notin TerminateReason

Arming == Nat \X Nat \X TimerId

(* Places where script runs.                                               *)
Script == {"Eval", "Microtask", "Describe", "Callback"}

Live == {i \in TimerId : timers[i] # None}

TypeOK ==
    /\ microtasks \in 0 .. MicrotaskCap
    /\ tasks \in Seq(TimerId) /\ Len(tasks) <= TaskCap
    /\ timers \in [TimerId -> Entry \cup {None}]
    /\ Cardinality(Live) <= TimerCap
    /\ heap \subseteq Arming
    /\ next_id \in 1 .. MaxId + 1
    /\ next_seq \in 0 .. MaxSeq
    /\ nesting \in Nat
    /\ checkpoint_run \in 0 .. CheckpointBudget
    /\ terminated \in TerminateReason \cup {None}
    /\ now \in 0 .. MaxNow
    /\ pc \in Script \cup {"Ready", "Checkpoint", "Promote", "Dropped"}
    /\ current \in TimerId \cup {None}
    /\ turn \in 0 .. MaxNow
    /\ said \in {"Nothing", "Ran", "Waiting", "Idle"}

Init ==
    /\ microtasks = 0
    /\ tasks = << >>
    /\ timers = [i \in TimerId |-> None]
    /\ heap = {}
    /\ next_id = 1
    /\ next_seq = 0
    /\ nesting = 0
    /\ checkpoint_run = 0
    /\ terminated = None
    /\ now = 0
    /\ pc = "Ready"
    /\ current = None
    /\ turn = 0
    /\ said = "Nothing"

-----------------------------------------------------------------------------
(* Armings.                                                                *)

Earlier(a, b) == a[1] < b[1] \/ (a[1] = b[1] /\ a[2] < b[2])

ArmingOf(i) == <<timers[i].due, timers[i].seq, i>>

InState(i, s) == timers[i] # None /\ timers[i].state = s

is_live_arming(a) == InState(a[3], "Pending") /\ ArmingOf(a[3]) = a

LiveArmings == {ArmingOf(i) : i \in {j \in TimerId : InState(j, "Pending")}}

IsTop(a) == a \in heap /\ \A b \in heap \ {a} : Earlier(a, b)

EffectiveDelay(requested, level) ==
    IF level > NESTING_CLAMP_LEVEL /\ requested < NESTED_MIN_DELAY
    THEN NESTED_MIN_DELAY
    ELSE requested

Discard ==
    /\ microtasks' = 0
    /\ tasks' = << >>
    /\ timers' = [i \in TimerId |-> None]
    /\ heap' = {}

(* terminate, from a loop that is not terminated yet.                      *)
Terminate(reason) == terminated' = reason /\ Discard

-----------------------------------------------------------------------------
(* What running script may do.  A terminated loop refuses all of it.       *)

MicrotasksFull == microtasks >= MicrotaskCap

QueueMicrotask ==
    /\ pc \in Script /\ terminated = None
    /\ \/ /\ ~ MicrotasksFull
          /\ microtasks' = microtasks + 1
          /\ UNCHANGED <<tasks, timers, heap, terminated>>
       \/ /\ MicrotasksFull
          /\ Terminate("MicrotaskQueueOverflow")
    /\ UNCHANGED <<next_id, next_seq, nesting, checkpoint_run, now, hostVars>>

NewEntry(delay, repeat) ==
    [repeat  |-> IF repeat THEN delay ELSE None,
     nesting |-> nesting + 1,
     state   |-> "Pending",
     due     |-> now + EffectiveDelay(delay, nesting + 1),
     seq     |-> next_seq]

FreshId == next_id

AddTimer(delay, repeat) ==
    /\ pc \in Script /\ terminated = None
    /\ \/ /\ Cardinality(Live) < TimerCap
          /\ next_id <= MaxId /\ next_seq < MaxSeq
          /\ timers' = [timers EXCEPT ![FreshId] = NewEntry(delay, repeat)]
          /\ heap' = heap \cup {<<NewEntry(delay, repeat).due, next_seq, FreshId>>}
          /\ next_id' = next_id + 1
          /\ next_seq' = next_seq + 1
          /\ UNCHANGED <<microtasks, tasks, terminated>>
       \/ /\ Cardinality(Live) >= TimerCap
          /\ Terminate("TimerOverflow")
          /\ UNCHANGED <<next_id, next_seq>>
    /\ UNCHANGED <<nesting, checkpoint_run, now, hostVars>>

(* The heap after timer i was removed: rebuilt when stale entries          *)
(* dominate.                                                               *)
Compacted(i) ==
    IF Cardinality(heap) > 2 * Cardinality(Live \ {i}) + CompactSlack
    THEN LiveArmings \ {ArmingOf(i)}
    ELSE heap

ClearTimer(i) ==
    /\ pc \in Script /\ terminated = None
    /\ i \in Live
    /\ timers' = [timers EXCEPT ![i] = None]
    /\ heap' = Compacted(i)
    /\ UNCHANGED <<microtasks, tasks, next_id, next_seq, terminated,
                   nesting, checkpoint_run, now, hostVars>>

-----------------------------------------------------------------------------
(* Host::eval.                                                             *)

EvalStarts ==
    /\ pc = "Ready" /\ terminated = None
    /\ pc' = "Eval"
    /\ current' = None
    /\ said' = "Nothing"
    /\ UNCHANGED <<coreVars, nesting, checkpoint_run, now, turn>>

(* begin_checkpoint, on the way out of an eval or a callback.              *)
BeginCheckpoint ==
    /\ checkpoint_run' = 0
    /\ pc' = "Checkpoint"
    /\ UNCHANGED <<current, turn, said>>

ScriptReturns ==
    /\ pc \in {"Eval", "Callback"}
    /\ BeginCheckpoint
    /\ UNCHANGED <<coreVars, nesting, now>>

(* An engine error (note_error) is final wherever it surfaces.  In an eval *)
(* the checkpoint still begins; a timer task returns at once.              *)
Stopped(reason) ==
    IF terminated = None
    THEN Terminate(reason)
    ELSE UNCHANGED <<microtasks, tasks, timers, heap, terminated>>

EvalFails(reason) ==
    /\ pc = "Eval"
    /\ Stopped(reason)
    /\ BeginCheckpoint
    /\ UNCHANGED <<next_id, next_seq, nesting, now>>

CallbackFails(reason) ==
    /\ pc = "Callback"
    /\ Stopped(reason)
    /\ pc' = "Ready" /\ said' = "Ran"
    /\ UNCHANGED <<next_id, next_seq, nesting, checkpoint_run, now, current, turn>>

DescribeEnds ==
    /\ pc = "Describe"
    /\ pc' = "Ready"
    /\ UNCHANGED <<coreVars, nesting, checkpoint_run, now, current, turn, said>>

DescribeFails(reason) ==
    /\ pc = "Describe"
    /\ Stopped(reason)
    /\ pc' = "Ready"
    /\ UNCHANGED <<next_id, next_seq, nesting, checkpoint_run, now, current, turn, said>>

-----------------------------------------------------------------------------
(* The microtask checkpoint.                                               *)

(* Mutant: only the size of the queue is bounded. *)
CountRun_Never == checkpoint_run

CountRun == checkpoint_run + 1

BudgetSpent == checkpoint_run >= CheckpointBudget

PopMicrotask ==
    /\ pc = "Checkpoint" /\ terminated = None /\ microtasks > 0
    /\ \/ /\ ~ BudgetSpent
          /\ checkpoint_run' = CountRun
          /\ microtasks' = microtasks - 1
          /\ pc' = "Microtask"
          /\ UNCHANGED <<tasks, timers, heap, terminated>>
       \/ /\ BudgetSpent
          /\ Terminate("MicrotaskBudget")
          /\ UNCHANGED <<checkpoint_run, pc>>
    /\ UNCHANGED <<next_id, next_seq, nesting, now, current, turn, said>>

(* A job that throws is recorded and the next one still runs.              *)
MicrotaskEnds ==
    /\ pc = "Microtask"
    /\ pc' = "Checkpoint"
    /\ UNCHANGED <<coreVars, nesting, checkpoint_run, now, current, turn, said>>

MicrotaskFails(reason) ==
    /\ pc = "Microtask"
    /\ Stopped(reason)
    /\ pc' = "Checkpoint"
    /\ UNCHANGED <<next_id, next_seq, nesting, checkpoint_run, now, current, turn, said>>

Drained == pc = "Checkpoint" /\ (terminated # None \/ microtasks = 0)

(* The checkpoint of an eval is over; describing its completion runs       *)
(* script (toString) unless the loop was terminated.                       *)
EvalCheckpointEnds ==
    /\ Drained /\ current = None
    /\ pc' = IF terminated = None THEN "Describe" ELSE "Ready"
    /\ UNCHANGED <<coreVars, nesting, checkpoint_run, now, current, turn, said>>

Rearmed(e) ==
    [repeat  |-> e.repeat,
     nesting |-> e.nesting + 1,
     state   |-> "Pending",
     due     |-> now + EffectiveDelay(e.repeat, e.nesting + 1),
     seq     |-> next_seq]

(* Mutant: an interval is re-armed in the table and not in the heap. *)
Rearm_NotInHeap(i) ==
    /\ timers' = [timers EXCEPT ![i] = Rearmed(timers[i])]
    /\ UNCHANGED heap

Rearm(i) ==
    /\ timers' = [timers EXCEPT ![i] = Rearmed(timers[i])]
    /\ heap' = heap \cup {<<Rearmed(timers[i]).due, next_seq, i>>}

(* The checkpoint of a timer task is over: finish_timer_task.              *)
FinishTimerTask ==
    /\ Drained /\ current # None
    /\ nesting' = 0
    /\ \/ /\ terminated # None
          /\ UNCHANGED <<next_seq, timers, heap>>
       \/ /\ terminated = None /\ next_seq < MaxSeq
          /\ next_seq' = next_seq + 1
          /\ IF InState(current, "Running") /\ timers[current].repeat # None
             THEN Rearm(current)
             ELSE UNCHANGED <<timers, heap>>
    /\ pc' = "Ready" /\ current' = None /\ said' = "Ran"
    /\ UNCHANGED <<microtasks, tasks, next_id, terminated, checkpoint_run, now, turn>>

-----------------------------------------------------------------------------
(* Host::step: promote what is due, then run the next task.                *)

StepStarts ==
    /\ pc = "Ready" /\ terminated = None
    /\ pc' = "Promote"
    /\ turn' = now
    /\ said' = "Nothing"
    /\ UNCHANGED <<coreVars, nesting, checkpoint_run, now, current>>

(* Mutant: promotes without a look at the queue's depth. *)
HasRoom_Unbounded == TRUE

HasRoom == Len(tasks) < TaskCap

(* enqueue_task: into a queue with room, or script is stopped and          *)
(* everything discarded.                                                   *)
IfRoom(queued, discarded) ==
    IF Len(tasks) < TaskCap THEN queued ELSE discarded

PopStale ==
    /\ pc = "Promote" /\ HasRoom
    /\ \E a \in heap :
          /\ IsTop(a) /\ ~ is_live_arming(a)
          /\ heap' = heap \ {a}
    /\ UNCHANGED <<microtasks, tasks, timers, next_id, next_seq, terminated,
                   nesting, checkpoint_run, now, hostVars>>

(* Mutant: any due timer may go first. *)
MayPromote_Unordered(a) == a \in heap /\ is_live_arming(a) /\ a[1] <= turn

MayPromote(a) == IsTop(a) /\ is_live_arming(a) /\ a[1] <= turn

PromoteTop ==
    /\ pc = "Promote" /\ terminated = None /\ HasRoom
    /\ \E a \in heap :
          /\ MayPromote(a)
          /\ heap' = IfRoom(heap \ {a}, {})
          /\ timers' = IfRoom([timers EXCEPT ![a[3]].state = "Queued"],
                              [i \in TimerId |-> None])
          /\ tasks' = IfRoom(Append(tasks, a[3]), << >>)
    /\ microtasks' = IfRoom(microtasks, 0)
    /\ terminated' = IfRoom(None, "TaskQueueOverflow")
    /\ UNCHANGED <<next_id, next_seq, nesting, checkpoint_run, now, hostVars>>

(* promote_due returns: no room, an empty heap, or a live top not due.     *)
Promoted ==
    /\ pc = "Promote"
    /\ \/ ~ (terminated = None /\ HasRoom)
       \/ heap = {}
       \/ \E a \in heap : IsTop(a) /\ is_live_arming(a) /\ a[1] > turn

(* begin_timer_task of a timer that is still queued: a one-shot leaves the *)
(* table, an interval stays and is marked running.                         *)
RunTask ==
    /\ Promoted /\ tasks # << >>
    /\ InState(Head(tasks), "Queued")
    /\ tasks' = Tail(tasks)
    /\ nesting' = timers[Head(tasks)].nesting
    /\ timers' = IF timers[Head(tasks)].repeat # None
                 THEN [timers EXCEPT ![Head(tasks)].state = "Running"]
                 ELSE [timers EXCEPT ![Head(tasks)] = None]
    /\ pc' = "Callback" /\ current' = Head(tasks)
    /\ UNCHANGED <<microtasks, heap, next_id, next_seq, terminated,
                   checkpoint_run, now, turn, said>>

(* The timer was cleared after it was queued: the task does nothing.       *)
SkipTask ==
    /\ Promoted /\ tasks # << >>
    /\ ~ InState(Head(tasks), "Queued")
    /\ tasks' = Tail(tasks)
    /\ pc' = "Ready" /\ said' = "Ran"
    /\ UNCHANGED <<microtasks, timers, heap, next_id, next_seq, terminated,
                   nesting, checkpoint_run, now, current, turn>>

(* next_due_ns drops the stale armings on top of the heap.                 *)
Pruned == {a \in heap : \E b \in LiveArmings \cap heap : a = b \/ Earlier(b, a)}

Answer == IF Pruned = {} THEN "Idle" ELSE "Waiting"

NoTask ==
    /\ Promoted /\ tasks = << >>
    /\ heap' = Pruned
    /\ pc' = "Ready"
    /\ said' = Answer
    /\ UNCHANGED <<microtasks, tasks, timers, next_id, next_seq, terminated,
                   nesting, checkpoint_run, now, current, turn>>

(* Drop of the host frees what is queued.                                  *)
HostDrops ==
    /\ pc = "Ready"
    /\ pc' = "Dropped"
    /\ Discard
    /\ UNCHANGED <<next_id, next_seq, terminated, nesting, checkpoint_run, now,
                   current, turn, said>>

ClockAdvances ==
    /\ now < MaxNow
    /\ now' = now + 1
    /\ UNCHANGED <<coreVars, nesting, checkpoint_run, hostVars>>

EngineError == {"RuntimeLimit", "EnginePanic"}

ScriptActs ==
    \/ QueueMicrotask
    \/ \E delay \in Delays, repeat \in BOOLEAN : AddTimer(delay, repeat)
    \/ \E i \in TimerId : ClearTimer(i)

ScriptFails ==
    \E reason \in EngineError :
        EvalFails(reason) \/ CallbackFails(reason)
        \/ DescribeFails(reason) \/ MicrotaskFails(reason)

ScriptEnds == ScriptReturns \/ DescribeEnds \/ MicrotaskEnds

Checkpoint == PopMicrotask \/ EvalCheckpointEnds \/ FinishTimerTask

Step == StepStarts \/ PopStale \/ PromoteTop \/ RunTask \/ SkipTask \/ NoTask

Next ==
    \/ ScriptActs \/ ScriptFails \/ ScriptEnds
    \/ EvalStarts \/ Checkpoint \/ Step
    \/ HostDrops \/ ClockAdvances

Spec == Init /\ [][Next]_vars

-----------------------------------------------------------------------------
(* No timer is ever stranded: a pending one has its arming in the heap, a  *)
(* queued one is in the task queue exactly once, a running one is the      *)
(* timer whose task the host is in, so that it will be re-armed            *)
(* (clear_timer's rebuild, promote_due, begin_ and finish_timer_task).     *)
Occurrences(i) == {k \in DOMAIN tasks : tasks[k] = i}

EveryTimerReachable ==
    \A i \in Live :
        /\ InState(i, "Pending") => ArmingOf(i) \in heap
        /\ InState(i, "Queued") => \E k \in DOMAIN tasks : Occurrences(i) = {k}
        /\ InState(i, "Running") =>
              current = i /\ pc \in {"Callback", "Checkpoint", "Microtask"}

(* Timers run in the order of their due times, and in arming order among   *)
(* equals, across any number of promotions and whatever callbacks arm in   *)
(* between: the task queue is sorted, and nothing pending should have run  *)
(* before something queued (promote_due: "earliest due time first and by   *)
(* arming order among equals").                                            *)
InFiringOrder ==
    /\ \A j, k \in DOMAIN tasks :
          j < k /\ InState(tasks[j], "Queued") /\ InState(tasks[k], "Queued")
            => Earlier(ArmingOf(tasks[j]), ArmingOf(tasks[k]))
    /\ \A i, j \in TimerId :
          InState(i, "Queued") /\ InState(j, "Pending") => Earlier(ArmingOf(i), ArmingOf(j))

(* A terminated loop holds nothing: whatever script still does before it   *)
(* returns, no callback is kept and none will run (queue.rs: "discards     *)
(* every queue, and from then on refuses to hand out any work").           *)
TerminatedIsEmpty ==
    terminated # None =>
        microtasks = 0 /\ tasks = << >> /\ Live = {} /\ heap = {}

(* A full task queue is back-pressure and never ends script: a timer that  *)
(* does not fit stays pending (promote_due: "back-pressure, not loss").    *)
BackPressureNotLoss == terminated # "TaskQueueOverflow"

(* When a step says the loop is idle there is no task and no timer: a      *)
(* caller that stops asking (run_loop, the content process) strands no     *)
(* timer.                                                                  *)
IdleMeansNoTimer ==
    pc = "Ready" /\ said = "Idle" => Live = {} /\ tasks = << >>

(* The first reason script was stopped for is kept, and script never       *)
(* starts again (queue.rs: "The first reason wins and is kept.  It never   *)
(* resumes").                                                              *)
TerminationIsFinal ==
    [][terminated # None =>
          /\ terminated' = terminated
          /\ pc' \in {"Eval", "Callback", "Microtask"} => pc' = pc]_vars

(* A timer that was cleared, or that ran once, is never in the table again *)
(* under its handle (queue.rs: "Never zero, never reused").                *)
HandlesNotReused ==
    [][\A i \in TimerId : i < next_id /\ timers[i] = None => timers'[i] = None]_vars

-----------------------------------------------------------------------------
(* Fairness.  The thread that owns the engine runs until it blocks, so     *)
(* each of the host's own steps happens; script returns, or the watchdog   *)
(* ends the process; the caller of the host steps it again while it is not *)
(* idle; the clock moves.                                                  *)
FairSpec ==
    /\ Spec
    /\ WF_vars(ScriptEnds) /\ WF_vars(Checkpoint)
    /\ WF_vars(Step) /\ WF_vars(ClockAdvances)

(* A checkpoint ends even when every microtask queues another: the queue   *)
(* may stay at depth one for ever, the budget may not (queue.rs, "Two      *)
(* bounds, because one is not enough").                                    *)
CheckpointsEnd ==
    pc = "Checkpoint" ~> pc \in {"Ready", "Describe"}

(* The broker stops sending scripts: requests go before the loop's turns   *)
(* (px-content, Session::run), so an endless supply of them starves every  *)
(* timer.                                                                  *)
RequestsCease == <>[][~ EvalStarts]_vars

(* What may take a timer away before its turn: the end of the host, or of  *)
(* script for something script did.  A full task queue is neither.         *)
Over == pc = "Dropped" \/ terminated \notin {None, "TaskQueueOverflow"}

TaskRuns(i) == pc = "Callback" /\ current = i

(* A timer leaves the table by running, by being cleared, or with all the  *)
(* others.                                                                 *)
NothingDropped ==
    [][\A i \in Live :
          timers'[i] = None => TaskRuns(i)' \/ ClearTimer(i) \/ Over']_vars

(* Every timer runs once it is due: it is never dropped, and when requests *)
(* cease its callback is called each time it was armed, unless it was      *)
(* cleared or script stopped.  Earlier timers, re-armed intervals and a    *)
(* task queue too short for all that is due only delay it (promote_due:    *)
(* "back-pressure, not loss").  A timer due after the last instant of the  *)
(* bounded clock is left out.                                              *)
DueTimersRun ==
    /\ NothingDropped
    /\ RequestsCease =>
          \A i \in TimerId :
              InState(i, "Pending") ~>
                  TaskRuns(i) \/ timers[i] = None \/ timers[i].due > MaxNow
=============================================================================
