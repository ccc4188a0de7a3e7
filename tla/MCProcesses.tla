----------------------------- MODULE MCProcesses -----------------------------
(***************************************************************************)
(* Instance for TLC of what runs in and around a content process: its      *)
(* event loop and its watchdog.  The watchdog sees of the loop only the    *)
(* heartbeat, which Watchdog models on its own, so a behaviour exercises   *)
(* one of the two and leaves the other alone.                              *)
(***************************************************************************)
EXTENDS EventLoop, Watchdog

MCDelays == {0, 1}

MCLimits == {3, 16}

VARIABLE part

ProcessesInit ==
    /\ Init /\ WatchInit
    /\ part \in {"loop", "watchdog"}
    /\ part # "watchdog" => limit = CHOOSE l \in Limits : TRUE

Looping(step) == part = "loop" /\ step /\ UNCHANGED <<watchVars, part>>
Watching(step) == part = "watchdog" /\ step /\ UNCHANGED <<vars, part>>

ProcessesNext == Looping(Next) \/ Watching(WatchNext)

(* The fairness of FairSpec. *)
ProcessesSpec ==
    /\ ProcessesInit /\ [][ProcessesNext]_<<vars, watchVars, part>>
    /\ WF_vars(Looping(ScriptEnds)) /\ WF_vars(Looping(Checkpoint))
    /\ WF_vars(Looping(Step)) /\ WF_vars(Looping(ClockAdvances))
=============================================================================
