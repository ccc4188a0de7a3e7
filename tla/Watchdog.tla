------------------------------ MODULE Watchdog ------------------------------
(***************************************************************************)
(* The content process's watchdog (crates/px-content/src/watchdog.rs) and  *)
(* the heartbeat it reads (crates/px-script/src/watch.rs).                 *)
(*                                                                         *)
(* Two threads share two atomics.  The script thread enters and leaves     *)
(* script and passes boundaries inside it; entering is a beat and then a   *)
(* store, leaving is a store and then a beat.  The watchdog thread sleeps  *)
(* one tick, reads the clock, reads `active`, reads `count`, and judges.   *)
(* Each read and each write is one step.                                   *)
(*                                                                         *)
(* Time is explicit.  The script thread may stay anywhere for any time; a  *)
(* pause of the watchdog thread, between its wake-up time and the end of   *)
(* its look, is at most MaxPause: what the scheduler makes of it.          *)
(***************************************************************************)
EXTENDS Integers

CONSTANTS
    Limits,             \* values of the limit; a release build has one
    MinTick, MaxTick,   \* 2 ms and 250 ms
    MaxPause,           \* bound: how late the scheduler runs the watchdog
    MaxClock,           \* bound: the last instant
    MaxBeats            \* bound: boundaries ever passed

VARIABLES
    clock,
    count, active,      \* the heartbeat
    script,             \* where the script thread is
    limit,              \* the limit in force
    dog,                \* where the watchdog thread is
    wake,               \* when its sleep ends
    loaded,             \* the limit it loaded before sleeping
    read_now,           \* the clock reading of this look
    read_active,        \* `active` as this look read it
    last, since,        \* Tracker
    boundary,           \* history: when the count last moved
    entered             \* history: when `active` was last set

scriptVars == <<count, active, script, boundary, entered>>
dogVars == <<dog, wake, loaded, read_now, read_active, last, since>>
watchVars == <<clock, scriptVars, limit, dogVars>>

ASSUME WatchdogAssumption ==
    /\ Limits \subseteq Nat \ {0}
    /\ MinTick \in Nat \ {0} /\ MaxTick \in Nat /\ MinTick <= MaxTick
    /\ MaxPause \in Nat /\ MaxClock \in Nat /\ MaxBeats \in Nat

Beat == [count : 0 .. MaxBeats, active : BOOLEAN]

WatchTypeOK ==
    /\ clock \in 0 .. MaxClock
    /\ count \in 0 .. MaxBeats
    /\ active \in BOOLEAN
    /\ script \in {"Out", "Entering", "In", "Leaving"}
    /\ limit \in Limits
    /\ dog \in {"Asleep", "ReadClock", "ReadActive", "Aborted"}
    /\ wake \in Nat
    /\ loaded \in Limits
    /\ read_now \in 0 .. MaxClock
    /\ read_active \in BOOLEAN
    /\ last \in Beat
    /\ since \in 0 .. MaxClock
    /\ boundary \in 0 .. MaxClock
    /\ entered \in 0 .. MaxClock

(* An eighth of the limit, within bounds.                                  *)
Tick(l) ==
    LET eighth == l \div 8
    IN  IF eighth < MinTick THEN MinTick
        ELSE IF eighth > MaxTick THEN MaxTick ELSE eighth

WatchInit ==
    /\ clock = 0
    /\ count = 0 /\ active = FALSE
    /\ script = "Out"
    /\ limit \in Limits
    /\ dog = "Asleep"
    /\ loaded = limit
    /\ wake = Tick(limit)
    /\ read_now = 0 /\ read_active = FALSE
    /\ last = [count |-> 0, active |-> FALSE]
    /\ since = 0
    /\ boundary = 0
    /\ entered = 0

-----------------------------------------------------------------------------
(* The script thread.                                                      *)

MoveBeat ==
    /\ count < MaxBeats
    /\ count' = count + 1
    /\ boundary' = clock

Enter ==
    /\ script = "Out"
    /\ script' = "Entering"
    /\ MoveBeat
    /\ UNCHANGED <<clock, active, entered, limit, dogVars>>

SetActive ==
    /\ script = "Entering"
    /\ script' = "In"
    /\ active' = TRUE
    /\ entered' = clock
    /\ UNCHANGED <<clock, count, boundary, limit, dogVars>>

PassBoundary ==
    /\ script = "In"
    /\ MoveBeat
    /\ UNCHANGED <<clock, active, entered, script, limit, dogVars>>

Leave ==
    /\ script = "In"
    /\ script' = "Leaving"
    /\ active' = FALSE
    /\ UNCHANGED <<clock, count, boundary, entered, limit, dogVars>>

LeaveBeats ==
    /\ script = "Leaving"
    /\ script' = "Out"
    /\ MoveBeat
    /\ UNCHANGED <<clock, active, entered, limit, dogVars>>

(* The testing knob, handled between scripts.                              *)
SetLimit(l) ==
    /\ script = "Out"
    /\ limit' = l
    /\ UNCHANGED <<clock, scriptVars, dogVars>>

-----------------------------------------------------------------------------
(* The watchdog thread.                                                    *)

Wakes ==
    /\ dog = "Asleep" /\ clock >= wake
    /\ dog' = "ReadClock"
    /\ read_now' = clock
    /\ UNCHANGED <<clock, scriptVars, limit, wake, loaded, read_active, last, since>>

ReadsActive ==
    /\ dog = "ReadClock"
    /\ dog' = "ReadActive"
    /\ read_active' = active
    /\ UNCHANGED <<clock, scriptVars, limit, wake, loaded, read_now, last, since>>

Moved == count # last.count \/ ~ last.active

Fine == ~ read_active \/ Moved

(* Mutant: the first look at a new beat keeps the old time. *)
NewSince_Kept == IF ~ read_active THEN read_now ELSE since

(* Mutant: every look restarts the time. *)
NewSince_Always == read_now

NewSince == IF Fine THEN read_now ELSE since

Stalled == ~ Fine /\ read_now - since >= loaded

(* The count is read, and Tracker::observe judges.                         *)
Observes ==
    /\ dog = "ReadActive"
    /\ last' = [count |-> count, active |-> read_active]
    /\ since' = NewSince
    /\ \/ /\ Stalled
          /\ dog' = "Aborted"
          /\ UNCHANGED <<wake, loaded>>
       \/ /\ ~ Stalled
          /\ dog' = "Asleep"
          /\ loaded' = limit
          /\ wake' = clock + Tick(limit)
    /\ UNCHANGED <<clock, scriptVars, limit, read_now, read_active>>

(* Time passes while the watchdog is not more than MaxPause late.          *)
Timely == dog # "Aborted" => clock < wake + MaxPause

TimePasses ==
    /\ clock < MaxClock /\ Timely
    /\ clock' = clock + 1
    /\ UNCHANGED <<scriptVars, limit, dogVars>>

(* An aborted process takes no step of its own.                            *)
ScriptThread ==
    /\ dog # "Aborted"
    /\ \/ Enter \/ SetActive \/ PassBoundary \/ Leave \/ LeaveBeats
       \/ \E l \in Limits : SetLimit(l)

DogThread == Wakes \/ ReadsActive \/ Observes

WatchNext == ScriptThread \/ DogThread \/ (dog # "Aborted" /\ TimePasses)

WatchSpec == WatchInit /\ [][WatchNext]_watchVars

-----------------------------------------------------------------------------
(* The process is aborted only inside script, and only when the count has  *)
(* not moved for the limit, up to the pause of the watchdog between        *)
(* reading the clock and reading the heartbeat: an idle process is never   *)
(* aborted, and no run of beats, exits and re-entries between two looks is *)
(* taken for one long stall (Tracker::observe).                            *)
StallIsReal ==
    dog = "Aborted" =>
        /\ script \in {"In", "Leaving"}
        /\ read_now - boundary >= loaded - MaxPause

(* A stall is found: while script runs, the time since it entered or last  *)
(* passed a boundary exceeds the limit by less than a tick, the longest    *)
(* tick (the sleep in progress may be that of an earlier limit) and four   *)
(* pauses of the watchdog (watch, tick).                                   *)
QuietSince == IF boundary > entered THEN boundary ELSE entered

StallIsCaught ==
    script = "In" /\ limit = loaded /\ dog # "Aborted" =>
        clock - QuietSince < loaded + Tick(loaded) + MaxTick + 4 * MaxPause

=============================================================================
