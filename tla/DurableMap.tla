----------------------------- MODULE DurableMap -----------------------------
(***************************************************************************)
(* What a durable map promises across failures and restarts: an operation  *)
(* takes effect as a whole or not at all; one that returned has taken      *)
(* effect and keeps it; one that was refused has not; only the one that a  *)
(* crash, or a failure that stops the map, cut short is in doubt until the *)
(* map is opened again.                                                    *)
(***************************************************************************)
CONSTANTS
    NoOp,            \* no operation is under way
    Operation,
    Nothing,         \* the empty map
    Effect(_, _)     \* the map after an operation

VARIABLES
    data, pending,
    result           \* what the last operation came to; "None" while that is open

mapVars == <<data, pending, result>>

MapInit == data = Nothing /\ pending = NoOp /\ result = "None"

Begin ==
    /\ pending = NoOp
    /\ pending' \in Operation
    /\ result' = "None"
    /\ UNCHANGED data

Complete ==
    /\ pending # NoOp
    /\ data' = Effect(pending, data)
    /\ pending' = NoOp /\ result' = "Ok"

Refuse ==
    /\ pending # NoOp
    /\ pending' = NoOp /\ result' = "Err"
    /\ UNCHANGED data

Crash ==
    /\ pending # NoOp
    /\ data' \in {data, Effect(pending, data)}
    /\ pending' = NoOp
    /\ UNCHANGED result

MapNext == Begin \/ Complete \/ Refuse \/ Crash

MapSpec == MapInit /\ [][MapNext]_mapVars
=============================================================================
