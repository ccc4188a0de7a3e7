-------------------------------- MODULE Store --------------------------------
(***************************************************************************)
(* The partitioned store (crates/px-store): an append-only log that is     *)
(* rewritten atomically (store.rs), the recovery of a torn log and the     *)
(* quotas (engine.rs, format.rs).                                          *)
(*                                                                         *)
(* A log is a sequence of records; a record that a failure cut short is    *)
(* "Torn": its checksum does not match.  Every system call may fail, and   *)
(* the process or the machine may stop between any two of them.  A rename  *)
(* that returned is durable; what was appended and not yet synced may be   *)
(* lost, torn or whole.  A key stands for a namespace and a key, a value   *)
(* for its size.                                                           *)
(***************************************************************************)
EXTENDS Integers, Sequences, FiniteSetsExt, Option

CONSTANTS
    Pid, Key,        \* intervals of numbers: both are ordered
    Site,            \* the top-level site of each partition id
    Value,           \* numbers: a value is its size
    PID_BYTES,       \* size of an encoded partition id
    HEADER_LEN,
    FRAME_LEN,       \* bytes of a record around its id and its value
    ENTRY_OVERHEAD_BYTES,
    MAX_VALUE_BYTES, MAX_ENTRIES_PER_PARTITION,
    PARTITION_QUOTA_BYTES, GLOBAL_QUOTA_BYTES,
    MAX_LOG_BYTES, COMPACT_SLACK

VARIABLES
    log, tmp,        \* the files: a sequence of records, or None
    store_pc, op,    \* the operation under way and how far it is
    engine, log_len, poisoned,
    forgotten,       \* history: partitions cleared and not written since
    outcome          \* history: what the last put, delete or clear came to

storeVars == <<log, tmp, store_pc, op, engine, log_len, poisoned, forgotten, outcome>>

Record ==
    {r \in [kind : {"Put", "Delete", "Torn"}, pid : Pid, key : Key, value : Value \cup {0}] :
        r.kind = "Put" => r.value \in Value}

Op == [kind : {"None", "Create", "Put", "Delete", "ClearPartition", "ClearSite", "Compact", "Tidy"},
       pid : Pid \cup {0}, key : Key \cup {0}, value : Value \cup {0}]

NoOp == [kind |-> "None", pid |-> 0, key |-> 0, value |-> 0]

Changes == {"Put", "Delete", "ClearPartition", "ClearSite"}

(* A record takes room, so that two prefixes of a log differ in length.    *)
ASSUME StoreAssumption ==
    /\ IsFiniteSet(Pid) /\ Pid \subseteq Int
    /\ IsFiniteSet(Key) /\ Key \subseteq Int
    /\ Value \subseteq Nat /\ None \notin Value /\ None \notin Seq(Record)
    /\ HEADER_LEN \in Nat /\ PID_BYTES \in Nat /\ FRAME_LEN \in Nat
    /\ FRAME_LEN + PID_BYTES > 0
    /\ ENTRY_OVERHEAD_BYTES \in Nat
    /\ MAX_VALUE_BYTES \in Nat /\ MAX_ENTRIES_PER_PARTITION \in Nat
    /\ PARTITION_QUOTA_BYTES \in Nat /\ GLOBAL_QUOTA_BYTES \in Nat
    /\ MAX_LOG_BYTES \in Nat /\ COMPACT_SLACK \in Nat

-----------------------------------------------------------------------------
(* The engine: the entries, and what they are counted as.                  *)

EmptyEngine ==
    [entries |-> [x \in Pid \X Key |-> None],
     bytes   |-> [p \in Pid |-> 0],
     total   |-> 0]

cost(value) == value + ENTRY_OVERHEAD_BYTES

CostOf(e, p, k) == IF e.entries[<<p, k>>] = None THEN 0 ELSE cost(e.entries[<<p, k>>])

KeysOf(e, p) == {k \in Key : e.entries[<<p, k>>] # None}

check_put(e, p, k, value) ==
    /\ value <= MAX_VALUE_BYTES
    /\ k \in KeysOf(e, p) \/ Cardinality(KeysOf(e, p)) < MAX_ENTRIES_PER_PARTITION
    /\ e.bytes[p] - CostOf(e, p, k) + cost(value) <= PARTITION_QUOTA_BYTES
    /\ e.total - CostOf(e, p, k) + cost(value) <= GLOBAL_QUOTA_BYTES

put(e, p, k, value) ==
    [entries |-> [e.entries EXCEPT ![<<p, k>>] = value],
     bytes   |-> [e.bytes EXCEPT ![p] = @ - CostOf(e, p, k) + cost(value)],
     total   |-> e.total - CostOf(e, p, k) + cost(value)]

(* Mutant: the partition's count is freed, the store's is not. *)
delete_KeepsTotal(e, p, k) ==
    [entries |-> [e.entries EXCEPT ![<<p, k>>] = None],
     bytes   |-> [e.bytes EXCEPT ![p] = @ - CostOf(e, p, k)],
     total   |-> e.total]

delete(e, p, k) ==
    [entries |-> [e.entries EXCEPT ![<<p, k>>] = None],
     bytes   |-> [e.bytes EXCEPT ![p] = @ - CostOf(e, p, k)],
     total   |-> e.total - CostOf(e, p, k)]

(* remove_partition, and remove_site for every partition of one site.      *)
remove(e, gone) ==
    [entries |-> [x \in Pid \X Key |-> IF x[1] \in gone THEN None ELSE e.entries[x]],
     bytes   |-> [p \in Pid |-> IF p \in gone THEN 0 ELSE e.bytes[p]],
     total   |-> e.total - SumFunctionOnSet(e.bytes, gone)]

(* A record read back is held to every rule a live write is.               *)
apply_logged(e, r) ==
    IF r.kind = "Put" THEN put(e, r.pid, r.key, r.value) ELSE delete(e, r.pid, r.key)

Accepts(e, r) ==
    /\ r.kind # "Torn"
    /\ r.kind = "Put" => check_put(e, r.pid, r.key, r.value)

(* The engine of the longest prefix that is whole and acceptable.          *)
recover(records) ==
    LET reads[n \in 0 .. Len(records)] ==
            IF n = 0 THEN [engine |-> EmptyEngine, valid |-> 0]
            ELSE LET before == reads[n - 1] r == records[n] IN
                 IF before.valid = n - 1 /\ Accepts(before.engine, r)
                 THEN [engine |-> apply_logged(before.engine, r), valid |-> n]
                 ELSE before
    IN  reads[Len(records)]

(* The order of the engine's maps, and of what a snapshot writes.          *)
Before(x, y) == x[1] < y[1] \/ (x[1] = y[1] /\ x[2] < y[2])

(* The records of these entries, in that order.                            *)
Written(e, kept) ==
    LET nth(i) == CHOOSE x \in kept : Cardinality({y \in kept : Before(y, x)}) = i - 1
    IN  [i \in 1 .. Cardinality(kept) |->
            [kind |-> "Put", pid |-> nth(i)[1], key |-> nth(i)[2], value |-> e.entries[nth(i)]]]

(* Mutant: everything that lives is written out. *)
snapshot_excluding_None(e, gone) == Written(e, {x \in Pid \X Key : e.entries[x] # None})

snapshot_excluding(e, gone) ==
    Written(e, {x \in Pid \X Key : e.entries[x] # None /\ x[1] \notin gone})

RecordSize(r) == FRAME_LEN + PID_BYTES + r.value

LogSize(records) ==
    LET size[n \in 0 .. Len(records)] ==
            IF n = 0 THEN HEADER_LEN ELSE size[n - 1] + RecordSize(records[n])
    IN  size[Len(records)]

Torn(r) == [r EXCEPT !.kind = "Torn"]

-----------------------------------------------------------------------------
StoreInit ==
    /\ log = None /\ tmp = None
    /\ store_pc = "Closed" /\ op = NoOp
    /\ engine = EmptyEngine /\ log_len = 0 /\ poisoned = FALSE
    /\ forgotten = {} /\ outcome = "None"

(* The call returns, for better or worse.                                  *)
Return == store_pc' = "Idle" /\ op' = NoOp

Tells(o, result) == outcome' = IF o.kind \in Changes THEN result ELSE outcome

(* The store is gone: it was dropped, or opening it failed.                *)
Close ==
    /\ store_pc' = "Closed" /\ op' = NoOp
    /\ engine' = EmptyEngine /\ log_len' = 0 /\ poisoned' = FALSE
    /\ UNCHANGED outcome

(* Store::open removes an unfinished replacement, then reads the log.      *)
OpenRemovesTmp ==
    /\ store_pc = "Closed"
    /\ store_pc' = "Opening"
    /\ tmp' = None
    /\ UNCHANGED <<log, op, engine, log_len, poisoned, forgotten, outcome>>

OpenCreates ==
    /\ store_pc = "Opening" /\ log = None
    /\ store_pc' = "WriteTmp" /\ op' = [NoOp EXCEPT !.kind = "Create"]
    /\ UNCHANGED <<log, tmp, engine, log_len, poisoned, forgotten, outcome>>

OpenRefuses ==
    /\ store_pc = "Opening" /\ log # None
    /\ LogSize(log) > MAX_LOG_BYTES
    /\ Close
    /\ UNCHANGED <<log, tmp, forgotten>>

OpenRecovers ==
    /\ store_pc = "Opening" /\ log # None
    /\ LogSize(log) <= MAX_LOG_BYTES
    /\ LET found == recover(log) IN
          /\ log' = SubSeq(log, 1, found.valid)
          /\ engine' = found.engine
    /\ log_len' = LogSize(log')
    /\ store_pc' = "Idle"
    /\ UNCHANGED <<tmp, op, poisoned, forgotten, outcome>>

(* A call of open fails, perhaps the sync after the truncation.            *)
OpenFails ==
    /\ store_pc = "Opening"
    /\ \/ UNCHANGED log
       \/ /\ log # None /\ LogSize(log) <= MAX_LOG_BYTES
          /\ log' = SubSeq(log, 1, recover(log).valid)
    /\ Close
    /\ UNCHANGED <<tmp, forgotten>>

-----------------------------------------------------------------------------
(* The calls.  A refused one (a quota, a key that is not there) changes    *)
(* nothing.                                                                *)

TheRecord(o) == [kind |-> o.kind, pid |-> o.pid, key |-> o.key, value |-> o.value]

MayStart(o) ==
    /\ store_pc = "Idle" /\ ~ poisoned
    /\ o.kind = "Put" => check_put(engine, o.pid, o.key, o.value)
    /\ o.kind = "Delete" => engine.entries[<<o.pid, o.key>>] # None

(* Store::append rewrites the log first when the record would not fit.     *)
StartAppend(o) ==
    /\ MayStart(o)
    /\ op' = o
    /\ store_pc' = IF log_len + RecordSize(TheRecord(o)) > MAX_LOG_BYTES
                   THEN "WriteTmp" ELSE "Append"
    /\ forgotten' = forgotten \ {o.pid}
    /\ Tells(o, "None")
    /\ UNCHANGED <<log, tmp, engine, log_len, poisoned>>

Put(p, k, value) == StartAppend([kind |-> "Put", pid |-> p, key |-> k, value |-> value])

Delete(p, k) == StartAppend([kind |-> "Delete", pid |-> p, key |-> k, value |-> 0])

StartRewrite(o) ==
    /\ MayStart(o)
    /\ op' = o
    /\ store_pc' = "WriteTmp"
    /\ Tells(o, "None")
    /\ UNCHANGED <<log, tmp, engine, log_len, poisoned, forgotten>>

Rewrites ==
    [kind : {"ClearPartition", "ClearSite"}, pid : Pid, key : {0}, value : {0}]
    \cup {[NoOp EXCEPT !.kind = "Compact"]}

(* The partitions a rewrite leaves out.                                    *)
Dropped(o) ==
    {p \in Pid : \/ o.kind = "ClearPartition" /\ p = o.pid
                 \/ o.kind = "ClearSite" /\ Site[p] = Site[o.pid]}

-----------------------------------------------------------------------------
(* rewrite and write_atomic.                                               *)

Snapshot == snapshot_excluding(engine, Dropped(op))

(* What a write that did not finish leaves of a file.                      *)
Partial(records) ==
    {SubSeq(records, 1, n) : n \in DOMAIN records}
    \cup {Append(SubSeq(records, 1, n - 1), Torn(records[n])) : n \in DOMAIN records}
    \cup {<< >>}

(* The error of a system call goes to the caller; for open, there is then  *)
(* no store; for the compaction after a put, nobody is told.               *)
RewriteFails ==
    IF op.kind = "Create" THEN Close
    ELSE Return /\ Tells(op, "Err") /\ UNCHANGED <<engine, log_len, poisoned>>

WriteTmp ==
    /\ store_pc = "WriteTmp"
    /\ \/ /\ tmp' = Snapshot
          /\ store_pc' = "Rename"
          /\ UNCHANGED <<op, engine, log_len, poisoned, outcome>>
       \/ /\ tmp' \in Partial(Snapshot)
          /\ RewriteFails
    /\ UNCHANGED <<log, forgotten>>

Rename ==
    /\ store_pc = "Rename"
    /\ \/ /\ log' = tmp /\ tmp' = None
          /\ store_pc' = "Reopen"
          /\ UNCHANGED <<op, engine, log_len, poisoned, outcome>>
       \/ /\ RewriteFails
          /\ UNCHANGED <<log, tmp>>
    /\ UNCHANGED forgotten

(* The rename happened; the new file is opened, and the call goes on.      *)
Reopen ==
    /\ store_pc = "Reopen"
    /\ log_len' = LogSize(log)
    /\ engine' = remove(engine, Dropped(op))
    /\ forgotten' = forgotten \cup Dropped(op)
    /\ IF op.kind \in {"Put", "Delete"}
       THEN store_pc' = "Append" /\ UNCHANGED <<op, outcome>>
       ELSE Return /\ Tells(op, "Ok")
    /\ UNCHANGED <<log, tmp, poisoned>>

ReopenFails ==
    /\ store_pc = "Reopen"
    /\ IF op.kind = "Create"
       THEN Close
       ELSE /\ store_pc' = "Idle" /\ poisoned' = TRUE
            /\ UNCHANGED <<op, engine, log_len, outcome>>
    /\ UNCHANGED <<log, tmp, forgotten>>

-----------------------------------------------------------------------------
(* append: write and sync, then apply in memory.                           *)

Applied(o, e) ==
    IF o.kind = "Put" THEN put(e, o.pid, o.key, o.value) ELSE delete(e, o.pid, o.key)

(* maybe_compact, after a put.                                             *)
Compacts == log_len' > 2 * engine'.total + COMPACT_SLACK

AppendRecord ==
    /\ store_pc = "Append"
    /\ log' = Append(log, TheRecord(op))
    /\ log_len' = log_len + RecordSize(TheRecord(op))
    /\ engine' = Applied(op, engine)
    /\ IF op.kind = "Put" /\ Compacts
       THEN store_pc' = "WriteTmp" /\ op' = [NoOp EXCEPT !.kind = "Tidy"]
       ELSE Return
    /\ Tells(op, "Ok")
    /\ UNCHANGED <<tmp, poisoned, forgotten>>

(* What the log may hold after a write that was not synced.                *)
Unsynced(vouched, r) == {vouched, Append(vouched, Torn(r)), Append(vouched, r)}

AppendFails ==
    /\ store_pc = "Append"
    /\ log' \in Unsynced(log, TheRecord(op))
    /\ store_pc' = "Restore"
    /\ UNCHANGED <<tmp, op, engine, log_len, poisoned, forgotten, outcome>>

(* set_len: the records of the first log_len bytes.                        *)
Vouched ==
    SubSeq(log, 1, Max({n \in 0 .. Len(log) : LogSize(SubSeq(log, 1, n)) <= log_len}))

(* Mutant: the store goes on with a log it could not restore. *)
RestoreFails_GoesOn ==
    /\ store_pc = "Restore"
    /\ log' \in {log, Vouched}
    /\ Return /\ Tells(op, "Err")
    /\ UNCHANGED <<tmp, engine, log_len, poisoned, forgotten>>

RestoreFails ==
    /\ store_pc = "Restore"
    /\ log' \in {log, Vouched}
    /\ poisoned' = TRUE /\ store_pc' = "Idle"
    /\ UNCHANGED <<tmp, op, engine, log_len, forgotten, outcome>>

Restore ==
    /\ store_pc = "Restore"
    /\ log' = Vouched
    /\ Return /\ Tells(op, "Err")
    /\ UNCHANGED <<tmp, engine, log_len, poisoned, forgotten>>

-----------------------------------------------------------------------------
(* The process or the machine stops, or the store is dropped: what was not *)
(* synced may be gone, torn or whole (after a failed append, AppendFails   *)
(* and RestoreFails have chosen which).                                    *)
InDoubt == IF store_pc = "Append" THEN Unsynced(log, TheRecord(op)) ELSE {log}

Stops ==
    /\ store_pc # "Closed"
    /\ log' \in InDoubt
    /\ tmp' \in {tmp} \cup (IF store_pc = "WriteTmp" THEN Partial(Snapshot) ELSE {})
    /\ Close
    /\ UNCHANGED forgotten

Calls ==
    \/ \E p \in Pid, k \in Key : Delete(p, k) \/ \E value \in Value : Put(p, k, value)
    \/ \E o \in Rewrites : StartRewrite(o)

Opens == OpenRemovesTmp \/ OpenCreates \/ OpenRefuses \/ OpenRecovers \/ OpenFails

StoreNext ==
    \/ Opens \/ Calls
    \/ WriteTmp \/ Rename \/ Reopen \/ ReopenFails
    \/ AppendRecord \/ AppendFails \/ Restore \/ RestoreFails
    \/ Stops

StoreSpec == StoreInit /\ [][StoreNext]_storeVars

-----------------------------------------------------------------------------
LogFile == Seq(Record) \cup {None}

(* Type invariant: the counts stay within the quotas of engine.rs.         *)
StoreTypeOK ==
    /\ log \in LogFile /\ tmp \in LogFile
    /\ store_pc \in {"Closed", "Opening", "Idle", "WriteTmp", "Rename", "Reopen", "Append", "Restore"}
    /\ op \in Op
    /\ engine.entries \in [Pid \X Key -> Value \cup {None}]
    /\ engine.bytes \in [Pid -> 0 .. PARTITION_QUOTA_BYTES]
    /\ engine.total \in 0 .. GLOBAL_QUOTA_BYTES
    /\ log_len \in Nat
    /\ poisoned \in BOOLEAN
    /\ forgotten \subseteq Pid
    /\ outcome \in {"None", "Ok", "Err"}

(* The quota counters, which put, delete, the clear calls and recovery     *)
(* each adjust by differences, always equal what a recount of the live     *)
(* entries would give, whatever sequence of overwrites, clears, failures   *)
(* and restarts came before.                                               *)
AccountingIsExact ==
    /\ \A p \in Pid :
          engine.bytes[p] = SumFunctionOnSet([k \in Key |-> CostOf(engine, p, k)], Key)
    /\ engine.total = SumFunctionOnSet(engine.bytes, Pid)

(* After clear_partition or clear_site returned, the bytes are physically  *)
(* gone: neither the log nor a leftover temporary holds a record of a      *)
(* partition that was cleared and not written since, whatever failed or    *)
(* crashed in between.                                                     *)
ForgottenIsGone ==
    \A file \in {log, tmp} \ {None} :
        \A i \in DOMAIN file : file[i].pid \notin forgotten

-----------------------------------------------------------------------------
(* The store as a durable map.  While it is open the map is the engine in  *)
(* memory; while it is not, it is the last whole write of every key in the *)
(* log, which recovery has to find.                                        *)

MemoryIsTheMap == store_pc \notin {"Closed", "Opening"} /\ op.kind # "Create"

WritesOf(x, records) ==
    {i \in DOMAIN records : records[i].kind # "Torn" /\ x = <<records[i].pid, records[i].key>>}

LastWrite(x, records) ==
    LET writes == WritesOf(x, records) IN
    IF writes = {} \/ records[Max(writes)].kind = "Delete" THEN None
    ELSE records[Max(writes)].value

TheMap ==
    IF MemoryIsTheMap THEN engine.entries
    ELSE [x \in Pid \X Key |-> IF log = None THEN None ELSE LastWrite(x, log)]

Effect(o, entries) ==
    [x \in Pid \X Key |->
        IF x = <<o.pid, o.key>> /\ o.kind = "Put" THEN o.value
        ELSE IF x = <<o.pid, o.key>> /\ o.kind = "Delete" THEN None
        ELSE IF x[1] \in Dropped(o) THEN None ELSE entries[x]]

Map == INSTANCE DurableMap WITH
           Operation <- [kind : Changes, pid : Pid, key : Key \cup {0}, value : Value \cup {0}],
           Nothing   <- EmptyEngine.entries,
           data      <- TheMap,
           pending   <- IF op.kind \in Changes THEN op ELSE NoOp,
           result    <- outcome

(* The store implements a durable map: every call is atomic across system  *)
(* call failures, torn appends, the rewrite of the log and a stop at any   *)
(* point; a call that returned an error had no effect, and one that        *)
(* returned is never lost.                                                 *)
StoreIsDurable == Map!MapSpec

(* px-store/src/lib.rs: "Hitting one returns QuotaError; nothing panics on *)
(* a limit": the quotas keep the log within what open is willing to read.  *)
LogCanBeReopened == log # None => LogSize(log) <= MAX_LOG_BYTES
=============================================================================
