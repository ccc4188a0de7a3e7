-------------------------------- MODULE MCGpu --------------------------------
(* Instance of the graphics session for TLC. *)
EXTENDS Gpu

CONSTANTS fa, fb

MCFont == {fa, fb}

MCChunks == [f \in MCFont |-> IF f = fa THEN 2 ELSE 1]

List(fonts, height) == [fonts |-> fonts, height |-> height, fits |-> TRUE, images |-> FALSE]

(* Both fonts, one strip and a shorter last one; the font that parses, and *)
(* images; what only software can draw.                                    *)
MCDisplayList ==
    {List(<<fa, fb>>, 3), [List(<<fa>>, 2) EXCEPT !.images = TRUE],
     [List(<<>>, 1) EXCEPT !.fits = FALSE]}

MCFault == {"Exit", "Malformed", "Hang", "StallMidFrame", "Flood", "WrongRows", "WrongSerial"}
=============================================================================
