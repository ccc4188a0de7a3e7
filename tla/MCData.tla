------------------------------- MODULE MCData --------------------------------
(***************************************************************************)
(* Instance for TLC of the paths that data takes in and out of the         *)
(* browser: the fetch path, the store, the migration of the profile        *)
(* directory, and the graphics session with its process.  The store and    *)
(* the migration work on different files and never at the same time, the   *)
(* fetch path writes no file, and the graphics process shares nothing with *)
(* any of them, so a behaviour exercises one of the four and leaves the    *)
(* others alone.                                                           *)
(***************************************************************************)
EXTENDS MCStore, MCMigration, MCFetch, MCGpu

VARIABLE part

DataInit ==
    /\ StoreInit /\ MigInit /\ FetchInit /\ GpuInit
    /\ part \in {"store", "migration", "fetch", "gpu"}
    /\ part # "migration" => version = MaxVersion /\ \A n \in Name : dir[n] = None
    /\ part # "gpu" => ~ given_up

Storing(step) == part = "store" /\ step /\ UNCHANGED <<migVars, fetchVars, gpuVars, part>>
Migrating(step) == part = "migration" /\ step /\ UNCHANGED <<storeVars, fetchVars, gpuVars, part>>
Fetching(step) == part = "fetch" /\ step /\ UNCHANGED <<storeVars, migVars, gpuVars, part>>
Drawing(step) ==
    part = "gpu" /\ step /\ UNCHANGED <<storeVars, migVars, fetchVars, part>>

DataNext ==
    \/ Storing(StoreNext) \/ Migrating(MigNext)
    \/ Fetching(FetchNext) \/ Drawing(GpuNext)

(* The fairness of MigFairSpec, FetchSpec and GpuSpec. *)
DataSpec ==
    /\ DataInit /\ [][DataNext]_<<storeVars, migVars, fetchVars, gpuVars, part>>
    /\ WF_migVars(Migrating(MigStep))
    /\ WF_fetchVars(Fetching(FetchStep))
    /\ WF_gpuVars(Drawing(SessionStep))
=============================================================================
