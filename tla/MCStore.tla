------------------------------- MODULE MCStore -------------------------------
(***************************************************************************)
(* Instances of Store: partitions 1 and 2 are of one site.                 *)
(***************************************************************************)
EXTENDS Store

MCPid == 1 .. 3

MCSite == <<1, 1, 2>>
=============================================================================
