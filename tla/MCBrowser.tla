------------------------------ MODULE MCBrowser ------------------------------
(***************************************************************************)
(* Instance of the browser process for TLC: the broker, the shell, and the *)
(* document tree of a page.  The shell shows its pages without the broker  *)
(* yet, and a document is one process's own, so a behaviour exercises one  *)
(* of the three and leaves the others alone.  The broker has two scopes:   *)
(* frames nested to the depth limit in two processes and one group, or one *)
(* frame and its child, or two groups, with a process more than the cap    *)
(* admits.                                                                 *)
(***************************************************************************)
EXTENDS MCBroker, MCShell, Dom

VARIABLE part

Nested == next_channel <= 2 /\ next_group <= 1

Swaps == slots[2] = Ungrown /\ \A i \in Index : slots[i].ordinal # e2

BrowserInit ==
    /\ Init /\ ShellInit /\ DomInit
    /\ part \in {"nested", "swaps", "shell", "dom"}
    /\ part # "shell" => input = CHOOSE i \in Inputs : i.ids = 1

Brokering(scope, bound) ==
    part = scope /\ Next /\ bound /\ UNCHANGED <<shellVars, arena, part>>

BrowserNext ==
    \/ Brokering("nested", Nested') \/ Brokering("swaps", Swaps')
    \/ part = "shell" /\ ShellNext /\ UNCHANGED <<vars, arena, part>>
    \/ part = "dom" /\ DomNext /\ UNCHANGED <<vars, shellVars, part>>

BrowserSpec == BrowserInit /\ [][BrowserNext]_<<vars, shellVars, arena, part>>

BrowserView == <<MCView, shellVars, arena, part>>
=============================================================================
