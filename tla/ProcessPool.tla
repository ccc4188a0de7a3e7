---------------------------- MODULE ProcessPool -----------------------------
(***************************************************************************)
(* The process pool: (group, key) -> channel, one process per entry,       *)
(* bounded (crates/px-broker/src/site.rs, ProcessPool).  The two hash maps *)
(* of the code are the two functions below; an absent entry is None.       *)
(***************************************************************************)
EXTENDS ProcessKey, FiniteSets

CONSTANT MAX_CONTENT_PROCESSES

VARIABLES
    by_key,      \* (group, key) -> channel
    by_channel   \* channel -> (group, key)

poolVars == <<by_key, by_channel>>

ASSUME PoolAssumption == MAX_CONTENT_PROCESSES \in Nat

PoolTypeOK ==
    /\ by_key \in [Entry -> ChannelId \cup {None}]
    /\ by_channel \in [ChannelId -> Entry \cup {None}]

PoolInit ==
    /\ by_key = [e \in Entry |-> None]
    /\ by_channel = [c \in ChannelId |-> None]

Registered == {c \in ChannelId : by_channel[c] # None}

AtCap == Cardinality(Registered) >= MAX_CONTENT_PROCESSES

(* lookup answers Share(by_key[e]) when this holds, else Spawn or AtCap.   *)
Shared(e) == by_key[e] # None

(* register refuses with ChannelBusy, KeyTaken, AtCap, in this order.      *)
CanRegister(e, c) ==
    /\ by_channel[c] = None
    /\ ~ Shared(e)
    /\ ~ AtCap

Register(e, c) ==
    /\ by_key' = [by_key EXCEPT ![e] = c]
    /\ by_channel' = [by_channel EXCEPT ![c] = e]

(* Mutant: the entry of the key is left behind. *)
Forget_KeepsKey(c) ==
    /\ by_channel' = [by_channel EXCEPT ![c] = None]
    /\ UNCHANGED by_key

Forget(c) ==
    /\ by_channel' = [by_channel EXCEPT ![c] = None]
    /\ by_key' = IF by_channel[c] = None
                 THEN by_key
                 ELSE [by_key EXCEPT ![by_channel[c]] = None]

(* The two maps are inverse: what serves an entry is registered for it,    *)
(* and a channel serves exactly one entry (site.rs: "A channel serves      *)
(* exactly one (group, key)").                                             *)
MapsAreInverse ==
    \A e \in Entry, c \in ChannelId : by_key[e] = c <=> by_channel[c] = e

(* The pool never holds more processes than the cap, whatever registers.   *)
PoolBounded == Cardinality(Registered) <= MAX_CONTENT_PROCESSES
=============================================================================
