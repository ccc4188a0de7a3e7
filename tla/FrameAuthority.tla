--------------------------- MODULE FrameAuthority ---------------------------
(***************************************************************************)
(* What the broker promises about authority over frames, with no tree, no  *)
(* slots and no capability sets: a handle is minted once, for one open     *)
(* channel; it is held by one open channel at a time; when its holder      *)
(* disconnects it is lost, and a lost handle is never held again.          *)
(***************************************************************************)
CONSTANTS Channel, Frame, Nobody

VARIABLES
    connected,   \* channels that are open
    spent,       \* channels that have ever been open
    minted,      \* handles ever handed out
    holder       \* who holds each handle, or Nobody

avars == <<connected, spent, minted, holder>>

AInit ==
    /\ connected = {}
    /\ spent = {}
    /\ minted = {}
    /\ holder = [f \in Frame |-> Nobody]

Connect(c) ==
    /\ c \notin spent
    /\ connected' = connected \cup {c}
    /\ spent' = spent \cup {c}
    /\ UNCHANGED <<minted, holder>>

Mint(c, f) ==
    /\ c \in connected
    /\ f \notin minted
    /\ minted' = minted \cup {f}
    /\ holder' = [holder EXCEPT ![f] = c]
    /\ UNCHANGED <<connected, spent>>

Move(f, c) ==
    /\ holder[f] \in connected
    /\ c \in connected
    /\ holder' = [holder EXCEPT ![f] = c]
    /\ UNCHANGED <<connected, spent, minted>>

(* Everything c holds is lost; frames embedded in those may be lost too. *)
Disconnect(c) ==
    /\ connected' = connected \ {c}
    /\ holder' \in [Frame -> Channel \cup {Nobody}]
    /\ \A f \in Frame :
          holder'[f] \in IF holder[f] = c THEN {Nobody} ELSE {holder[f], Nobody}
    /\ UNCHANGED <<spent, minted>>

ANext ==
    \/ \E c \in Channel : Connect(c)
    \/ \E c \in Channel, f \in Frame : Mint(c, f)
    \/ \E c \in Channel, f \in Frame : Move(f, c)
    \/ \E c \in Channel : Disconnect(c)

ASpec == AInit /\ [][ANext]_avars
=============================================================================
