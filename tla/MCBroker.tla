------------------------------ MODULE MCBroker ------------------------------
(* Instances of the broker for TLC: two sites that are also the two        *)
(* origins, or one site and an IP literal, which has no registrable        *)
(* domain and may only be embedded.                                        *)
EXTENDS Broker

CONSTANTS origin_a, origin_b, e1, e2

TwoOrigins == {origin_a, origin_b}
TwoSites == [o \in TwoOrigins |-> o]
OneSite == [o \in TwoOrigins |-> IF o = origin_b THEN None ELSE o]
OneOrdinal == {e1}
TwoOrdinals == {e1, e2}

(* The audit log is written and never read: states that differ only in it  *)
(* have the same future.                                                   *)
MCView == <<treeVars, poolVars, capVars, next_channel, plans>>
=============================================================================
