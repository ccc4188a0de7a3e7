------------------------------ MODULE Renderer ------------------------------
(***************************************************************************)
(* What the graphics session promises its caller (crates/px-gpu/src/       *)
(* session.rs, GpuSession::render): every list asked for is shown, what is *)
(* shown is that list, and once the session has turned to software it      *)
(* never shows a frame of the GPU process again.  A frame of the process   *)
(* is the list without its images, which do not cross (wire.rs).           *)
(***************************************************************************)
EXTENDS Option

CONSTANT DisplayList

VARIABLES
    wanted,      \* the list a render call is working on, or None
    shown,       \* the last frame returned and where it came from, or None
    software     \* whether the session has given the process up

rendererVars == <<wanted, shown, software>>

RendererInit == wanted = None /\ shown = None /\ software \in BOOLEAN

Ask ==
    /\ wanted = None
    /\ wanted' \in DisplayList
    /\ UNCHANGED <<shown, software>>

Drawn(list, by) == IF by = "Gpu" THEN [list EXCEPT !.images = FALSE] ELSE list

Show ==
    /\ wanted # None
    /\ \E by \in {"Gpu", "Software"} :
          /\ by = "Gpu" => ~software
          /\ shown' = [frame |-> Drawn(wanted, by), by |-> by]
    /\ wanted' = None
    /\ UNCHANGED software

GiveUp ==
    /\ software' = TRUE
    /\ UNCHANGED <<wanted, shown>>

RendererNext == Ask \/ Show \/ GiveUp

RendererSpec ==
    RendererInit /\ [][RendererNext]_rendererVars /\ WF_rendererVars(Show)
=============================================================================
