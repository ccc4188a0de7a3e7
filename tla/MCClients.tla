------------------------------ MODULE MCClients ------------------------------
(***************************************************************************)
(* Instance for TLC of the two clients of a peer that may say anything:    *)
(* the script session, whose peer is a content process, and the update     *)
(* client, whose peers are mirrors.  They share nothing, so a behaviour    *)
(* exercises one and leaves the other alone.                               *)
(***************************************************************************)
EXTENDS ScriptSession, MCUpdate

VARIABLE part

ClientsInit ==
    /\ Init /\ UpdateInit
    /\ part \in {"session", "update"}
    /\ part = "session" => chain = CHOOSE c \in Chains : TRUE
    /\ part = "update" => honest

Asking(step) == part = "session" /\ step /\ UNCHANGED <<updateVars, part>>
Updating(step) == part = "update" /\ step /\ UNCHANGED <<vars, part>>

ClientsNext == Asking(Next) \/ Updating(UpdateNext)

(* The fairness of FairSpec and of UpdateFairSpec. *)
ClientsSpec ==
    /\ ClientsInit /\ [][ClientsNext]_<<vars, updateVars, part>>
    /\ WF_vars(Asking(Opening /\ UNCHANGED honest))
    /\ WF_vars(Asking(Calling /\ UNCHANGED honest))
    /\ \A g \in Gen :
          /\ WF_vars(Asking(Reader(g) /\ UNCHANGED honest))
          /\ WF_vars(Asking(Writer(g) /\ UNCHANGED honest))
    /\ WF_updateVars(Updating(ClientStep)) /\ WF_updateVars(Updating(TimePasses))
=============================================================================
