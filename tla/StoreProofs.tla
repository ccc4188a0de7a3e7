---------------------------- MODULE StoreProofs -----------------------------
(***************************************************************************)
(* Proofs about the partitioned store, for every set of partitions, keys,  *)
(* values, sizes and quotas: the inductive invariant, what it implies, and *)
(* that the store is a durable map.                                        *)
(***************************************************************************)
EXTENDS StoreLemmas

(* A leaf that names no prover is tried with these, in turn.               *)
USE ZenonT(2), SMTT(30), Z3T(30), ZenonT(30)

-----------------------------------------------------------------------------
(* A log that is whole but for a torn last record.                         *)

Readable(s) ==
    /\ s \in Seq(Record)
    /\ \/ recover(s).valid = Len(s)
       \/ recover(s).valid = Len(s) - 1 /\ s[Len(s)].kind = "Torn"

(* What the writes in a file amount to.                                    *)
Content(s) == [x \in Pid \X Key |-> IF s = None THEN None ELSE LastWrite(x, s)]

LEMMA NoneIsNoLog ==
    ASSUME NEW s \in Seq(Record)
    PROVE  s # None
BY StoreAssumption

LEMMA ContentOfWhole ==
    ASSUME NEW s, NEW e, Holds(s, e)
    PROVE  Content(s) = e.entries
<1>1. s \in Seq(Record) /\ recover(s).engine = e /\ recover(s).valid = Len(s)
  BY DEF Holds
<1>2. \A x \in Pid \X Key : e.entries[x] = LastWrite(x, s)
  BY <1>1, RecoverLastWrites DEF ReadsLastWrites
<1>3. e.entries \in Entries /\ s # None
  BY <1>1, HoldsSound, NoneIsNoLog DEF Engine
<1>4. e.entries = [x \in Pid \X Key |-> e.entries[x]]
  BY <1>3 DEF Entries
<1> QED
  BY <1>2, <1>3, <1>4 DEF Content

LEMMA ContentOfTorn ==
    ASSUME NEW s, NEW e, Holds(s, e), NEW r \in Record, r.kind = "Torn"
    PROVE  Content(Append(s, r)) = e.entries
<1>1. s \in Seq(Record) /\ Append(s, r) \in Seq(Record)
  BY DEF Holds
<1>2. \A x : LastWrite(x, Append(s, r)) = LastWrite(x, s)
  BY <1>1, LastWriteAppend
<1>3. Content(Append(s, r)) = Content(s)
  BY <1>1, <1>2, NoneIsNoLog DEF Content
<1> QED
  BY <1>3, ContentOfWhole

LEMMA ReadableHolds ==
    ASSUME NEW s, NEW e, Holds(s, e)
    PROVE  /\ Readable(s)
           /\ \A r \in Record : r.kind = "Torn" => Readable(Append(s, r))
<1>1. s \in Seq(Record) /\ recover(s).valid = Len(s)
  BY DEF Holds
<1>2. ASSUME NEW r \in Record, r.kind = "Torn"
      PROVE  Readable(Append(s, r))
  <2> DEFINE t == Append(s, r)
  <2>1. t \in Seq(Record) /\ Len(t) = Len(s) + 1 /\ t[Len(t)] = r /\ Len(s) \in Nat
    BY <1>1
  <2>2. recover(t).valid = Len(s)
    BY <1>2, TornIsLeft
  <2> HIDE DEF t
  <2>3. recover(t).valid = Len(t) - 1
    BY <2>1, <2>2
  <2> QED
    BY <1>2, <2>1, <2>3 DEF Readable, t
<1> QED
  BY <1>1, <1>2 DEF Readable

(* Recovery finds the content of such a log, and cuts back to it.          *)
LEMMA ReadableRecovers ==
    ASSUME NEW s, Readable(s)
    PROVE  LET found == recover(s) IN
           /\ Holds(SubSeq(s, 1, found.valid), found.engine)
           /\ Content(s) = found.engine.entries
           /\ found.valid \in 0 .. Len(s)
<1>1. s \in Seq(Record)
  BY DEF Readable
<1>2. /\ Holds(SubSeq(s, 1, recover(s).valid), recover(s).engine)
      /\ recover(s).valid \in 0 .. Len(s)
  BY <1>1, RecoverSound DEF RecoversWell
<1>3. CASE recover(s).valid = Len(s)
  <2>1. SubSeq(s, 1, Len(s)) = s
    BY <1>1, SubSeqFull
  <2>2. Holds(s, recover(s).engine)
    BY <1>2, <1>3, <2>1
  <2> QED
    BY <1>2, <2>2, ContentOfWhole
<1>4. CASE recover(s).valid = Len(s) - 1 /\ s[Len(s)].kind = "Torn"
  <2> DEFINE n == Len(s)
             w == SubSeq(s, 1, n - 1)
  <2>1. n \in 1 .. Len(s)
    BY <1>1, <1>2, <1>4
  <2>2. s[n] \in Record
    BY <1>1, <2>1
  <2>3. SubSeq(s, 1, n) = Append(w, s[n])
    BY <1>1, <2>1, PrefixGrows
  <2>4. SubSeq(s, 1, n) = s
    BY <1>1, SubSeqFull
  <2>5. Holds(w, recover(s).engine)
    BY <1>2, <1>4
  <2>6. Content(Append(w, s[n])) = recover(s).engine.entries
    BY <1>4, <2>2, <2>5, ContentOfTorn
  <2> QED
    BY <1>2, <2>3, <2>4, <2>6
<1> QED
  BY <1>3, <1>4 DEF Readable

-----------------------------------------------------------------------------
(* What the operations make of the map.                                    *)

LEMMA DroppedPids ==
    ASSUME NEW o
    PROVE  /\ Dropped(o) \in SUBSET Pid
           /\ o.kind \notin {"ClearPartition", "ClearSite"} => Dropped(o) = {}
BY DEF Dropped

LEMMA RemoveNothing ==
    ASSUME NEW e, Sound(e)
    PROVE  remove(e, {}) = e
<1>1. e \in Engine /\ Exact(e)
  BY DEF Sound
<1>2. Sound(remove(e, {}))
  BY RemoveSound
<1>3. remove(e, {}) \in Engine /\ Exact(remove(e, {}))
  BY <1>2 DEF Sound
<1>4. \A x \in Pid \X Key : remove(e, {}).entries[x] = e.entries[x]
  BY <1>1, RemoveFields
<1>5. remove(e, {}).entries = e.entries
  BY <1>1, <1>3, <1>4 DEF Engine, Entries
<1> QED
  BY <1>1, <1>3, <1>5, SameEntries

LEMMA RemoveIsEffect ==
    ASSUME NEW e, Sound(e), NEW o, o.kind \notin {"Put", "Delete"}
    PROVE  remove(e, Dropped(o)).entries = Effect(o, e.entries)
<1>1. e \in Engine /\ Dropped(o) \in SUBSET Pid
  BY DroppedPids DEF Sound
<1> DEFINE d == remove(e, Dropped(o))
<1>2. d \in Engine /\ \A x \in Pid \X Key : d.entries[x] = IF x[1] \in Dropped(o) THEN None ELSE e.entries[x]
  BY <1>1, RemoveFields
<1> HIDE DEF d
<1>3. d.entries = [x \in Pid \X Key |-> d.entries[x]]
  BY <1>2 DEF Engine, Entries
<1>4. Effect(o, e.entries) = [x \in Pid \X Key |-> IF x[1] \in Dropped(o) THEN None ELSE e.entries[x]]
  BY DEF Effect
<1> QED
  BY <1>2, <1>3, <1>4 DEF d

LEMMA ApplyIsEffect ==
    ASSUME NEW e, Sound(e), NEW o, o.kind \in {"Put", "Delete"}, TheRecord(o) \in Record
    PROVE  /\ Applied(o, e) = apply_logged(e, TheRecord(o))
           /\ Applied(o, e).entries = Effect(o, e.entries)
<1> DEFINE r == TheRecord(o)
           d == apply_logged(e, r)
<1>1. r.kind = o.kind /\ r.pid = o.pid /\ r.key = o.key /\ r.value = o.value
  BY DEF TheRecord
<1>2. Applied(o, e) = d
  BY <1>1 DEF Applied, apply_logged
<1>3. e \in Engine
  BY DEF Sound
<1>4. d \in Engine
  BY <1>1, <1>3, AppliedType
<1>5. \A x \in Pid \X Key :
         d.entries[x] = IF x # <<r.pid, r.key>> THEN e.entries[x]
                        ELSE IF r.kind = "Delete" THEN None ELSE r.value
  BY <1>1, <1>3, AppliedEntries
<1>6. Dropped(o) = {}
  BY DroppedPids
<1> HIDE DEF d, r
<1>7. \A x \in Pid \X Key :
         d.entries[x] = IF x = <<o.pid, o.key>> /\ o.kind = "Put" THEN o.value
                        ELSE IF x = <<o.pid, o.key>> /\ o.kind = "Delete" THEN None
                        ELSE IF x[1] \in Dropped(o) THEN None ELSE e.entries[x]
  BY <1>1, <1>5, <1>6
<1>8. d.entries = [x \in Pid \X Key |-> d.entries[x]]
  BY <1>4 DEF Engine, Entries
<1>9. d.entries = Effect(o, e.entries)
  BY <1>7, <1>8 DEF Effect
<1> QED
  BY <1>2, <1>9 DEF d, r

(* What a write that was not synced may leave is the map before it or      *)
(* after it.                                                               *)
LEMMA UnsyncedContent ==
    ASSUME NEW w, NEW e, Holds(w, e), NEW o, o.kind \in {"Put", "Delete"},
           TheRecord(o) \in Record, Accepts(e, TheRecord(o)),
           NEW s \in Unsynced(w, TheRecord(o))
    PROVE  /\ Readable(s)
           /\ Content(s) \in {e.entries, Effect(o, e.entries)}
<1> DEFINE r == TheRecord(o)
<1>1. Sound(e)
  BY HoldsSound
<1>2. Torn(r) \in Record /\ Torn(r).kind = "Torn"
  BY TornRecord
<1>3. CASE s = w
  BY <1>3, ContentOfWhole, ReadableHolds
<1>4. CASE s = Append(w, Torn(r))
  BY <1>2, <1>4, ContentOfTorn, ReadableHolds
<1>5. CASE s = Append(w, r)
  <2> DEFINE d == apply_logged(e, r)
  <2>1. Holds(s, d)
    BY <1>5, HoldsAppend
  <2>2. d.entries = Effect(o, e.entries)
    BY <1>1, ApplyIsEffect
  <2> QED
    BY <2>1, <2>2, ContentOfWhole, ReadableHolds
<1> QED
  BY <1>3, <1>4, <1>5 DEF Unsynced

-----------------------------------------------------------------------------
(* Files without a record of some partitions.                              *)

Clean(s, gone) == s # None => \A i \in DOMAIN s : s[i].pid \notin gone

LEMMA CleanAppend ==
    ASSUME NEW s \in Seq(Record), NEW r \in Record, NEW gone, Clean(s, gone), r.pid \notin gone
    PROVE  Clean(Append(s, r), gone)
<1> DEFINE t == Append(s, r)
<1>1. /\ DOMAIN t = 1 .. Len(s) + 1 /\ DOMAIN s = 1 .. Len(s) /\ Len(s) \in Nat
      /\ t[Len(s) + 1] = r /\ \A i \in 1 .. Len(s) : t[i] = s[i]
  OBVIOUS
<1> HIDE DEF t
<1>2. \A i \in 1 .. Len(s) + 1 : i \in 1 .. Len(s) \/ i = Len(s) + 1
  BY <1>1
<1>3. \A i \in DOMAIN s : s[i].pid \notin gone
  BY NoneIsNoLog DEF Clean
<1> QED
  BY <1>1, <1>2, <1>3 DEF Clean, t

LEMMA CleanPrefix ==
    ASSUME NEW s \in Seq(Record), NEW n \in 0 .. Len(s), NEW gone, Clean(s, gone)
    PROVE  SubSeq(s, 1, n) \in Seq(Record) /\ Clean(SubSeq(s, 1, n), gone)
<1> DEFINE t == SubSeq(s, 1, n)
<1>1. t \in Seq(Record) /\ Len(t) = n /\ \A i \in 1 .. n : t[i] = s[i]
  BY Prefix
<1> HIDE DEF t
<1>2. DOMAIN t = 1 .. n /\ DOMAIN s = 1 .. Len(s) /\ \A i \in 1 .. n : i \in 1 .. Len(s)
  BY <1>1
<1>3. \A i \in DOMAIN s : s[i].pid \notin gone
  BY NoneIsNoLog DEF Clean
<1>4. Clean(t, gone)
  BY <1>1, <1>2, <1>3 DEF Clean
<1> QED
  BY <1>1, <1>4 DEF t

LEMMA CleanPartial ==
    ASSUME NEW s \in Seq(Record), NEW t \in Partial(s), NEW gone, Clean(s, gone)
    PROVE  t \in Seq(Record) /\ Clean(t, gone)
<1>1. DOMAIN s = 1 .. Len(s) /\ Len(s) \in Nat
  OBVIOUS
<1>2. CASE t = << >>
  BY <1>2 DEF Clean
<1>3. ASSUME NEW n \in DOMAIN s, t = SubSeq(s, 1, n)
      PROVE  t \in Seq(Record) /\ Clean(t, gone)
  <2>1. n \in 0 .. Len(s)
    BY <1>1
  <2> QED
    BY <1>3, <2>1, CleanPrefix
<1>4. ASSUME NEW n \in DOMAIN s, t = Append(SubSeq(s, 1, n - 1), Torn(s[n]))
      PROVE  t \in Seq(Record) /\ Clean(t, gone)
  <2> DEFINE m == n - 1
             u == SubSeq(s, 1, m)
             r == Torn(s[n])
  <2>1. m \in 0 .. Len(s) /\ s[n] \in Record
    BY <1>1
  <2>2. s[n].pid \notin gone
    BY NoneIsNoLog DEF Clean
  <2>3. r \in Record /\ r.pid \notin gone
    BY <2>1, <2>2, TornRecord
  <2>4. u \in Seq(Record) /\ Clean(u, gone)
    <3> HIDE DEF m
    <3> QED BY <2>1, CleanPrefix
  <2>5. t = Append(u, r)
    BY <1>4
  <2> HIDE DEF u, r
  <2>6. Append(u, r) \in Seq(Record) /\ Clean(Append(u, r), gone)
    BY <2>3, <2>4, CleanAppend
  <2> QED
    BY <2>5, <2>6
<1> QED
  BY <1>2, <1>3, <1>4 DEF Partial

LEMMA CleanUnsynced ==
    ASSUME NEW w \in Seq(Record), NEW r \in Record, NEW s \in Unsynced(w, r)
    PROVE  /\ s \in Seq(Record)
           /\ \A gone : Clean(w, gone) /\ r.pid \notin gone => Clean(s, gone)
           /\ \A gone : Clean(s, gone) => Clean(w, gone)
<1>1. Torn(r) \in Record /\ Torn(r).pid = r.pid
  BY TornRecord
<1>2. ASSUME NEW q \in Record, q.pid = r.pid, s = Append(w, q)
      PROVE  /\ s \in Seq(Record)
             /\ \A gone : Clean(w, gone) /\ r.pid \notin gone => Clean(s, gone)
             /\ \A gone : Clean(s, gone) => Clean(w, gone)
  <2>1. s \in Seq(Record) /\ Len(w) \in 0 .. Len(s)
    BY <1>2
  <2>2. SubSeq(s, 1, Len(w)) = w
    BY <1>2, PrefixOfAppend
  <2>3. \A gone : Clean(s, gone) => Clean(SubSeq(s, 1, Len(w)), gone)
    BY <2>1, CleanPrefix
  <2>4. \A gone : Clean(w, gone) /\ r.pid \notin gone => Clean(s, gone)
    BY <1>2, CleanAppend
  <2> QED
    BY <2>1, <2>2, <2>3, <2>4
<1> QED
  BY <1>1, <1>2 DEF Unsynced

LEMMA CleanSnapshot ==
    ASSUME NEW e, Sound(e), NEW drop \in SUBSET Pid, NEW gone,
           \A x \in Pid \X Key : e.entries[x] # None => x[1] \notin gone
    PROVE  /\ snapshot_excluding(e, drop) \in Seq(Record)
           /\ Clean(snapshot_excluding(e, drop), gone \cup drop)
           /\ Clean(snapshot_excluding(e, drop), gone)
<1> DEFINE s == snapshot_excluding(e, drop)
<1>1. s \in Seq(Record)
  BY SnapshotHolds DEF Holds
<1>2. ASSUME NEW i \in DOMAIN s
      PROVE  s[i].pid \notin drop /\ s[i].pid \notin gone
  <2> DEFINE p == s[i].pid
  <2>1. p \notin drop /\ \E k \in Key : e.entries[<<p, k>>] # None
    BY SnapshotHolds
  <2>2. PICK k \in Key : e.entries[<<p, k>>] # None
    BY <2>1
  <2>3. p \in Pid
    <3>1. s[i] \in Record
      BY <1>1
    <3> QED
      BY <3>1, RecordFields
  <2> HIDE DEF p
  <2>4. <<p, k>> \in Pid \X Key /\ <<p, k>>[1] = p
    BY <2>3
  <2>5. p \notin gone
    BY <2>2, <2>4
  <2> QED
    BY <2>1, <2>5 DEF p
<1> QED
  BY <1>1, <1>2 DEF Clean

LEMMA CleanEntries ==
    ASSUME NEW s, NEW e, Holds(s, e), NEW gone, Clean(s, gone)
    PROVE  \A x \in Pid \X Key : e.entries[x] # None => x[1] \notin gone
<1>1. s \in Seq(Record) /\ recover(s).engine = e
  BY DEF Holds
<1>2. \A x \in Pid \X Key : e.entries[x] # None => \E i \in 1 .. Len(s) : s[i].pid = x[1]
  BY <1>1, RecoverLastWrites DEF ReadsLastWrites
<1>3. \A i \in 1 .. Len(s) : s[i].pid \notin gone
  BY <1>1, NoneIsNoLog DEF Clean
<1> QED
  BY <1>2, <1>3

-----------------------------------------------------------------------------
(* The inductive invariant.                                                *)

Writing == op.kind \in {"Put", "Delete"}

(* The log on disk is the engine in memory.                                *)
InStep == Holds(log, engine) /\ log_len = LogSize(log)

(* It is, up to log_len; after that may come the record under way.         *)
Unsure ==
    /\ Writing
    /\ Holds(Vouched, engine) /\ log_len = LogSize(Vouched)
    /\ log \in Unsynced(Vouched, TheRecord(op))

Shut ==
    /\ op = NoOp /\ engine = EmptyEngine /\ ~ poisoned
    /\ log = None \/ Readable(log)

Creating == op.kind = "Create" /\ engine = EmptyEngine /\ log = None

Rewriting == op.kind \notin {"None", "Create"} /\ InStep

Renamed ==
    /\ op.kind # "None" /\ log = Snapshot
    /\ op.kind = "Create" => engine = EmptyEngine

PhaseInv ==
    \/ store_pc \in {"Closed", "Opening"} /\ Shut
    \/ /\ store_pc \in {"WriteTmp", "Rename"} /\ ~ poisoned
       /\ Creating \/ Rewriting
       /\ store_pc = "Rename" => tmp = Snapshot
    \/ store_pc = "Reopen" /\ ~ poisoned /\ Renamed /\ tmp = None
    \/ store_pc = "Append" /\ ~ poisoned /\ Writing /\ InStep
    \/ store_pc = "Restore" /\ ~ poisoned /\ Unsure
    \/ store_pc = "Idle" /\ ~ poisoned /\ op = NoOp /\ InStep
    \/ store_pc = "Idle" /\ poisoned /\ op.kind # "Create" /\ (Renamed \/ Unsure)

TypeInv ==
    /\ op \in Op /\ tmp \in LogFile /\ log_len \in Nat
    /\ poisoned \in BOOLEAN /\ forgotten \in SUBSET Pid

(* What is about to be written would be accepted when it is read back.     *)
WriteInv == Writing => TheRecord(op) \in Record /\ Accepts(engine, TheRecord(op))

(* Nothing is left of what was forgotten: not in the files, not in memory, *)
(* and not in the call under way.                                          *)
GoneInv ==
    /\ Clean(log, forgotten) /\ Clean(tmp, forgotten)
    /\ \A x \in Pid \X Key : engine.entries[x] # None => x[1] \notin forgotten
    /\ Writing => op.pid \notin forgotten

StoreInv == TypeInv /\ Sound(engine) /\ WriteInv /\ PhaseInv /\ GoneInv

LEMMA NoOpIsIdle == NoOp \in Op /\ NoOp.kind = "None"
BY DEF NoOp, Op

LEMMA InitInv == StoreInit => StoreInv
<1> SUFFICES ASSUME StoreInit PROVE StoreInv
  OBVIOUS
<1>1. Sound(engine) /\ \A x \in Pid \X Key : engine.entries[x] = None
  BY EmptySound DEF StoreInit
<1>2. TypeInv
  BY NoOpIsIdle DEF StoreInit, TypeInv, LogFile
<1>3. WriteInv /\ GoneInv
  BY <1>1, NoOpIsIdle DEF StoreInit, WriteInv, GoneInv, Writing, Clean
<1>4. PhaseInv
  BY DEF StoreInit, PhaseInv, Shut
<1> QED
  BY <1>1, <1>2, <1>3, <1>4 DEF StoreInv

LEMMA ClosedInv ==
    ASSUME StoreInv, Close, UNCHANGED forgotten,
           log' = None \/ Readable(log'), Clean(log', forgotten),
           tmp' \in LogFile, Clean(tmp', forgotten)
    PROVE  StoreInv'
<1>1. /\ store_pc' = "Closed" /\ op' = NoOp /\ engine' = EmptyEngine /\ log_len' = 0 /\ poisoned' = FALSE
  BY DEF Close
<1>2. Sound(engine)' /\ \A x \in Pid \X Key : engine'.entries[x] = None
  BY <1>1, EmptySound
<1>3. TypeInv'
  BY <1>1, NoOpIsIdle DEF StoreInv, TypeInv
<1>4. WriteInv' /\ GoneInv'
  BY <1>1, <1>2, NoOpIsIdle DEF WriteInv, GoneInv, Writing
<1>5. PhaseInv'
  BY <1>1 DEF PhaseInv, Shut
<1> QED
  BY <1>2, <1>3, <1>4, <1>5 DEF StoreInv

LEMMA ReturnedInv ==
    ASSUME StoreInv, Return, UNCHANGED <<engine, log_len, poisoned, forgotten>>,
           ~ poisoned, Holds(log', engine), log_len = LogSize(log'), Clean(log', forgotten),
           tmp' \in LogFile, Clean(tmp', forgotten)
    PROVE  StoreInv'
<1>1. store_pc' = "Idle" /\ op' = NoOp
  BY DEF Return
<1>2. Sound(engine)'
  BY DEF StoreInv
<1>3. TypeInv'
  BY <1>1, NoOpIsIdle DEF StoreInv, TypeInv
<1>4. WriteInv' /\ GoneInv'
  BY <1>1, NoOpIsIdle DEF StoreInv, WriteInv, GoneInv, Writing
<1>5. PhaseInv'
  BY <1>1 DEF PhaseInv, InStep
<1> QED
  BY <1>2, <1>3, <1>4, <1>5 DEF StoreInv

LEMMA Phases ==
    ASSUME StoreInv
    PROVE  /\ store_pc \in {"Closed", "Opening"} => Shut
           /\ store_pc \in {"WriteTmp", "Rename"} => ~ poisoned /\ (Creating \/ Rewriting)
           /\ store_pc = "Rename" => tmp = Snapshot
           /\ store_pc = "Reopen" => ~ poisoned /\ Renamed /\ tmp = None
           /\ store_pc = "Append" => ~ poisoned /\ Writing /\ InStep
           /\ store_pc = "Restore" => ~ poisoned /\ Unsure
           /\ store_pc = "Idle" /\ ~ poisoned => op = NoOp /\ InStep
           /\ store_pc = "Idle" /\ poisoned => op.kind # "Create" /\ (Renamed \/ Unsure)
           /\ store_pc \in {"Closed", "Opening", "Idle", "WriteTmp", "Rename", "Reopen", "Append", "Restore"}
BY DEF StoreInv, PhaseInv

LEMMA VouchedIsFirstBytes == Vouched = FirstBytes(log, log_len)
BY DEF Vouched, FirstBytes

(* What a rewrite writes, and what it stands for.                          *)
LEMMA SnapshotIsWhole ==
    ASSUME StoreInv
    PROVE  /\ Holds(Snapshot, remove(engine, Dropped(op)))
           /\ Snapshot \in Seq(Record)
           /\ Clean(Snapshot, forgotten \cup Dropped(op)) /\ Clean(Snapshot, forgotten)
<1>1. Sound(engine) /\ Dropped(op) \in SUBSET Pid
  BY DroppedPids DEF StoreInv
<1>2. \A x \in Pid \X Key : engine.entries[x] # None => x[1] \notin forgotten
  BY DEF StoreInv, GoneInv
<1> QED
  BY <1>1, <1>2, SnapshotHolds, CleanSnapshot DEF Snapshot

LEMMA LogIsFile ==
    ASSUME StoreInv
    PROVE  log \in LogFile
<1>1. Shut \/ Creating \/ Rewriting \/ Renamed \/ InStep \/ Unsure
  BY Phases
<1>2. ASSUME Shut \/ Creating PROVE log \in LogFile
  BY <1>2 DEF Shut, Creating, Readable, LogFile
<1>3. ASSUME Rewriting \/ InStep PROVE log \in LogFile
  BY <1>3 DEF Rewriting, InStep, Holds, LogFile
<1>4. ASSUME Renamed PROVE log \in LogFile
  BY <1>4, SnapshotIsWhole DEF Renamed, LogFile
<1>5. ASSUME Unsure PROVE log \in LogFile
  <2>1. Vouched \in Seq(Record) /\ TheRecord(op) \in Record /\ log \in Unsynced(Vouched, TheRecord(op))
    BY <1>5 DEF Unsure, Holds, StoreInv, WriteInv
  <2>2. log \in Seq(Record)
    BY <2>1, CleanUnsynced
  <2> QED
    BY <2>2 DEF LogFile
<1> QED
  BY <1>1, <1>2, <1>3, <1>4, <1>5

LEMMA OpensInv ==
    ASSUME StoreInv, Opens
    PROVE  StoreInv'
<1>1. /\ TypeInv /\ Sound(engine) /\ WriteInv /\ GoneInv
      /\ Clean(log, forgotten) /\ Clean(tmp, forgotten) /\ tmp \in LogFile
  BY DEF StoreInv, GoneInv, TypeInv
<1>2. store_pc \in {"Closed", "Opening"}
  BY DEF Opens, OpenRemovesTmp, OpenCreates, OpenRefuses, OpenRecovers, OpenFails
<1>3. /\ op = NoOp /\ engine = EmptyEngine /\ ~ poisoned
      /\ log = None \/ Readable(log)
      /\ op.kind = "None"
  BY <1>2, Phases, NoOpIsIdle DEF Shut
<1>4. CASE OpenRemovesTmp
  <2>1. /\ store_pc' = "Opening" /\ tmp' = None
        /\ UNCHANGED <<log, op, engine, log_len, poisoned, forgotten>>
    BY <1>4 DEF OpenRemovesTmp
  <2>2. TypeInv' /\ WriteInv' /\ GoneInv'
    BY <1>1, <2>1 DEF TypeInv, WriteInv, GoneInv, Writing, LogFile, Clean
  <2>3. PhaseInv'
    BY <1>3, <2>1 DEF PhaseInv, Shut
  <2> QED
    BY <1>1, <2>1, <2>2, <2>3 DEF StoreInv
<1>5. CASE OpenCreates
  <2>1. /\ store_pc' = "WriteTmp" /\ op' = [NoOp EXCEPT !.kind = "Create"] /\ log = None
        /\ UNCHANGED <<log, tmp, engine, log_len, poisoned, forgotten>>
    BY <1>5 DEF OpenCreates
  <2>2. op' \in Op /\ op'.kind = "Create"
    BY <2>1 DEF NoOp, Op
  <2>3. TypeInv' /\ WriteInv' /\ GoneInv'
    BY <1>1, <2>1, <2>2 DEF TypeInv, WriteInv, GoneInv, Writing
  <2>4. PhaseInv'
    BY <1>3, <2>1, <2>2 DEF PhaseInv, Creating
  <2> QED
    BY <1>1, <2>1, <2>3, <2>4 DEF StoreInv
<1>6. CASE OpenRefuses
  BY <1>1, <1>3, <1>6, ClosedInv DEF OpenRefuses
<1>7. ASSUME log # None
      PROVE  LET found == recover(log) w == SubSeq(log, 1, found.valid) IN
             Holds(w, found.engine) /\ Clean(w, forgotten)
  <2>1. Readable(log) /\ log \in Seq(Record)
    BY <1>3, <1>7 DEF Readable
  <2>2. /\ Holds(SubSeq(log, 1, recover(log).valid), recover(log).engine)
        /\ recover(log).valid \in 0 .. Len(log)
    BY <2>1, ReadableRecovers
  <2> QED
    BY <1>1, <2>1, <2>2, CleanPrefix
<1>8. CASE OpenRecovers
  <2> DEFINE found == recover(log)
  <2>1. /\ log # None /\ log' = SubSeq(log, 1, found.valid) /\ engine' = found.engine
        /\ log_len' = LogSize(log') /\ store_pc' = "Idle"
        /\ UNCHANGED <<tmp, op, poisoned, forgotten>>
    BY <1>8 DEF OpenRecovers
  <2>2. Holds(log', engine') /\ Clean(log', forgotten)
    BY <1>7, <2>1
  <2>3. Sound(engine') /\ log' \in Seq(Record)
    BY <2>2, HoldsSound
  <2>4. \A x \in Pid \X Key : engine'.entries[x] # None => x[1] \notin forgotten
    BY <2>2, CleanEntries
  <2>5. log_len' \in Nat
    BY <2>1, <2>3, LogSizeType
  <2>6. TypeInv' /\ WriteInv' /\ GoneInv'
    BY <1>1, <1>3, <2>1, <2>2, <2>4, <2>5 DEF TypeInv, WriteInv, GoneInv, Writing
  <2>7. PhaseInv'
    BY <1>3, <2>1, <2>2 DEF PhaseInv, InStep
  <2> QED
    BY <2>3, <2>6, <2>7 DEF StoreInv
<1>9. CASE OpenFails
  <2>1. /\ Close /\ UNCHANGED <<tmp, forgotten>>
        /\ log' = log \/ (log # None /\ log' = SubSeq(log, 1, recover(log).valid))
    BY <1>9 DEF OpenFails
  <2>2. (log' = None \/ Readable(log')) /\ Clean(log', forgotten)
    <3>1. CASE log' = log
      BY <1>1, <1>3, <3>1
    <3>2. CASE log # None /\ log' = SubSeq(log, 1, recover(log).valid)
      <4>1. Holds(log', recover(log).engine) /\ Clean(log', forgotten)
        BY <1>7, <3>2
      <4> QED
        BY <4>1, ReadableHolds
    <3> QED
      BY <2>1, <3>1, <3>2
  <2> QED
    BY <1>1, <2>1, <2>2, ClosedInv
<1> QED
  BY <1>4, <1>5, <1>6, <1>8, <1>9 DEF Opens

LEMMA StartAppendInv ==
    ASSUME StoreInv, NEW o \in Op, o.kind \in {"Put", "Delete"}, TheRecord(o) \in Record,
           StartAppend(o)
    PROVE  StoreInv'
<1>1. /\ TypeInv /\ Sound(engine) /\ GoneInv
  BY DEF StoreInv
<1>2. /\ store_pc = "Idle" /\ ~ poisoned /\ op' = o
      /\ store_pc' \in {"WriteTmp", "Append"}
      /\ forgotten' = forgotten \ {o.pid}
      /\ UNCHANGED <<log, tmp, engine, log_len, poisoned>>
      /\ o.kind = "Put" => check_put(engine, o.pid, o.key, o.value)
  BY DEF StartAppend, MayStart
<1>3. InStep
  BY <1>2, Phases
<1>4. Accepts(engine, TheRecord(o))
  BY <1>2 DEF Accepts, TheRecord
<1>5. TypeInv'
  BY <1>1, <1>2 DEF TypeInv
<1>6. WriteInv'
  BY <1>2, <1>4 DEF WriteInv
<1>7. GoneInv'
  BY <1>1, <1>2 DEF GoneInv, Clean
<1>8. Writing' /\ InStep' /\ Rewriting'
  BY <1>2, <1>3 DEF Writing, InStep, Rewriting
<1>9. PhaseInv'
  BY <1>2, <1>8 DEF PhaseInv
<1> QED
  BY <1>1, <1>2, <1>5, <1>6, <1>7, <1>9 DEF StoreInv

LEMMA CallsInv ==
    ASSUME StoreInv, Calls
    PROVE  StoreInv'
<1>1. ASSUME NEW p \in Pid, NEW k \in Key, Delete(p, k)
      PROVE  StoreInv'
  <2> DEFINE o == [kind |-> "Delete", pid |-> p, key |-> k, value |-> 0]
  <2>1. o \in Op /\ o.kind = "Delete" /\ TheRecord(o) \in Record
    BY DEF Op, TheRecord, Record
  <2>2. StartAppend(o)
    BY <1>1 DEF Delete
  <2> HIDE DEF o
  <2> QED
    BY <2>1, <2>2, StartAppendInv
<1>2. ASSUME NEW p \in Pid, NEW k \in Key, NEW value \in Value, Put(p, k, value)
      PROVE  StoreInv'
  <2> DEFINE o == [kind |-> "Put", pid |-> p, key |-> k, value |-> value]
  <2>1. o \in Op /\ o.kind = "Put" /\ TheRecord(o) \in Record
    BY DEF Op, TheRecord, Record
  <2>2. StartAppend(o)
    BY <1>2 DEF Put
  <2> HIDE DEF o
  <2> QED
    BY <2>1, <2>2, StartAppendInv
<1>3. ASSUME NEW o \in Rewrites, StartRewrite(o)
      PROVE  StoreInv'
  <2>1. /\ TypeInv /\ Sound(engine) /\ GoneInv
    BY DEF StoreInv
  <2>2. o \in Op /\ o.kind \in {"ClearPartition", "ClearSite", "Compact"}
    BY DEF Rewrites, NoOp, Op
  <2>3. /\ store_pc = "Idle" /\ ~ poisoned /\ op' = o /\ store_pc' = "WriteTmp"
        /\ UNCHANGED <<log, tmp, engine, log_len, poisoned, forgotten>>
    BY <1>3 DEF StartRewrite, MayStart
  <2>4. InStep
    BY <2>3, Phases
  <2>5. TypeInv' /\ WriteInv' /\ GoneInv'
    BY <2>1, <2>2, <2>3 DEF TypeInv, WriteInv, GoneInv, Writing
  <2>6. Rewriting'
    BY <2>2, <2>3, <2>4 DEF Rewriting, InStep
  <2>7. PhaseInv'
    BY <2>3, <2>6 DEF PhaseInv
  <2> QED
    BY <2>1, <2>3, <2>5, <2>7 DEF StoreInv
<1> QED
  BY <1>1, <1>2, <1>3 DEF Calls

LEMMA RewriteFailsInv ==
    ASSUME StoreInv, store_pc \in {"WriteTmp", "Rename"}, RewriteFails, UNCHANGED <<log, forgotten>>,
           tmp' \in LogFile, Clean(tmp', forgotten)
    PROVE  StoreInv'
<1>1. ~ poisoned /\ (Creating \/ Rewriting) /\ Clean(log', forgotten)
  BY Phases DEF StoreInv, GoneInv
<1>2. CASE op.kind = "Create"
  <2>1. Close /\ log' = None
    BY <1>1, <1>2 DEF RewriteFails, Creating, Rewriting
  <2> QED
    BY <1>1, <2>1, ClosedInv
<1>3. CASE op.kind # "Create"
  <2>1. Return /\ UNCHANGED <<engine, log_len, poisoned, forgotten>>
    BY <1>3 DEF RewriteFails
  <2>2. Holds(log', engine) /\ log_len = LogSize(log')
    BY <1>1, <1>3 DEF Creating, Rewriting, InStep
  <2> QED
    BY <1>1, <2>1, <2>2, ReturnedInv
<1> QED
  BY <1>2, <1>3

LEMMA WriteTmpInv ==
    ASSUME StoreInv, WriteTmp
    PROVE  StoreInv'
<1>1. /\ TypeInv /\ Sound(engine) /\ WriteInv /\ GoneInv
      /\ store_pc = "WriteTmp" /\ UNCHANGED <<log, forgotten>>
  BY DEF StoreInv, WriteTmp
<1>2. ~ poisoned /\ (Creating \/ Rewriting)
  BY <1>1, Phases
<1>3. Snapshot \in Seq(Record) /\ Clean(Snapshot, forgotten)
  BY SnapshotIsWhole
<1>4. CASE tmp' \in Partial(Snapshot) /\ RewriteFails
  <2>1. tmp' \in Seq(Record) /\ Clean(tmp', forgotten)
    BY <1>3, <1>4, CleanPartial
  <2> QED
    BY <1>1, <1>4, <2>1, RewriteFailsInv DEF LogFile
<1>5. CASE tmp' = Snapshot /\ store_pc' = "Rename" /\ UNCHANGED <<op, engine, log_len, poisoned>>
  <2>1. TypeInv' /\ WriteInv'
    BY <1>1, <1>3, <1>5 DEF TypeInv, WriteInv, Writing, LogFile
  <2>2. GoneInv'
    BY <1>1, <1>3, <1>5 DEF GoneInv, Writing
  <2>3. tmp' = Snapshot'
    BY <1>5 DEF Snapshot
  <2>4. (Creating \/ Rewriting)'
    BY <1>1, <1>2, <1>5 DEF Creating, Rewriting, InStep
  <2>5. PhaseInv'
    BY <1>2, <1>5, <2>3, <2>4 DEF PhaseInv
  <2> QED
    BY <1>1, <1>5, <2>1, <2>2, <2>5 DEF StoreInv
<1> QED
  BY <1>4, <1>5 DEF WriteTmp

LEMMA RenameInv ==
    ASSUME StoreInv, Rename
    PROVE  StoreInv'
<1>1. /\ TypeInv /\ Sound(engine) /\ WriteInv /\ GoneInv
      /\ store_pc = "Rename" /\ UNCHANGED forgotten
  BY DEF StoreInv, Rename
<1>2. ~ poisoned /\ (Creating \/ Rewriting) /\ tmp = Snapshot
  BY <1>1, Phases
<1>3. tmp \in LogFile /\ Clean(tmp, forgotten)
  BY <1>1 DEF TypeInv, GoneInv
<1>4. CASE RewriteFails /\ UNCHANGED <<log, tmp>>
  BY <1>1, <1>3, <1>4, RewriteFailsInv
<1>5. CASE /\ log' = tmp /\ tmp' = None /\ store_pc' = "Reopen"
           /\ UNCHANGED <<op, engine, log_len, poisoned>>
  <2>1. TypeInv' /\ WriteInv'
    BY <1>1, <1>5 DEF TypeInv, WriteInv, Writing, LogFile
  <2>2. Clean(None, forgotten)
    BY DEF Clean
  <2>3. GoneInv'
    BY <1>1, <1>3, <1>5, <2>2 DEF GoneInv, Writing
  <2>4. log' = Snapshot'
    BY <1>2, <1>5 DEF Snapshot
  <2>5. op.kind # "None" /\ (op.kind = "Create" => engine = EmptyEngine)
    BY <1>2 DEF Creating, Rewriting
  <2>6. Renamed'
    BY <1>5, <2>4, <2>5 DEF Renamed
  <2>7. PhaseInv'
    BY <1>2, <1>5, <2>6 DEF PhaseInv
  <2> QED
    BY <1>1, <1>5, <2>1, <2>3, <2>7 DEF StoreInv
<1> QED
  BY <1>4, <1>5 DEF Rename

LEMMA ReopenInv ==
    ASSUME StoreInv, Reopen
    PROVE  StoreInv'
<1> DEFINE D == Dropped(op)
           d == remove(engine, D)
<1>1. /\ TypeInv /\ Sound(engine) /\ WriteInv /\ GoneInv /\ store_pc = "Reopen"
  BY DEF StoreInv, Reopen
<1>2. ~ poisoned /\ Renamed /\ tmp = None /\ log = Snapshot
  BY <1>1, Phases DEF Renamed
<1>3. /\ log_len' = LogSize(log) /\ engine' = d /\ forgotten' = forgotten \cup D
      /\ UNCHANGED <<log, tmp, poisoned>>
  BY DEF Reopen
<1>4. D \in SUBSET Pid /\ (op.kind \notin {"ClearPartition", "ClearSite"} => D = {})
  BY DroppedPids
<1>5. Sound(d)
  BY <1>1, <1>4, RemoveSound
<1>6. Holds(log, d) /\ Clean(log, forgotten \cup D) /\ log \in Seq(Record)
  BY <1>2, SnapshotIsWhole
<1>7. LogSize(log) \in Nat
  BY <1>6, LogSizeType
<1> HIDE DEF D, d
<1>8. InStep' /\ Clean(log', forgotten') /\ Clean(tmp', forgotten')
  BY <1>2, <1>3, <1>6 DEF InStep, Clean
<1>9. \A x \in Pid \X Key : engine'.entries[x] # None => x[1] \notin forgotten'
  BY <1>3, <1>6, CleanEntries
<1>10. CASE op.kind \in {"Put", "Delete"}
  <2>1. store_pc' = "Append" /\ UNCHANGED op
    BY <1>10 DEF Reopen
  <2>2. D = {}
    BY <1>4, <1>10
  <2>3. engine' = engine /\ forgotten' = forgotten
    <3>1. remove(engine, {}) = engine
      BY <1>1, RemoveNothing
    <3> QED
      BY <1>3, <2>2, <3>1 DEF d
  <2>4. TypeInv' /\ WriteInv' /\ GoneInv'
    BY <1>1, <1>3, <1>7, <1>8, <2>1, <2>3 DEF TypeInv, WriteInv, GoneInv, Writing
  <2>5. PhaseInv'
    BY <1>2, <1>3, <1>8, <1>10, <2>1 DEF PhaseInv, Writing
  <2> QED
    BY <1>1, <2>3, <2>4, <2>5 DEF StoreInv
<1>11. CASE op.kind \notin {"Put", "Delete"}
  <2>1. store_pc' = "Idle" /\ op' = NoOp
    BY <1>11 DEF Reopen, Return
  <2>2. TypeInv'
    BY <1>1, <1>3, <1>4, <1>7, <2>1, NoOpIsIdle DEF TypeInv
  <2>3. WriteInv' /\ GoneInv'
    BY <1>8, <1>9, <2>1, NoOpIsIdle DEF WriteInv, GoneInv, Writing
  <2>4. PhaseInv'
    BY <1>2, <1>3, <1>8, <2>1 DEF PhaseInv
  <2> QED
    BY <1>3, <1>5, <2>2, <2>3, <2>4 DEF StoreInv
<1> QED
  BY <1>10, <1>11

LEMMA ReopenFailsInv ==
    ASSUME StoreInv, ReopenFails
    PROVE  StoreInv'
<1>1. /\ TypeInv /\ Sound(engine) /\ WriteInv /\ GoneInv
      /\ store_pc = "Reopen" /\ UNCHANGED <<log, tmp, forgotten>>
  BY DEF StoreInv, ReopenFails
<1>2. Renamed /\ log = Snapshot
  BY <1>1, Phases DEF Renamed
<1>3. CASE op.kind = "Create"
  <2>1. Close /\ tmp' \in LogFile /\ Clean(tmp', forgotten) /\ Clean(log', forgotten)
    BY <1>1, <1>3 DEF ReopenFails, TypeInv, GoneInv
  <2>2. Readable(log)
    BY <1>2, SnapshotIsWhole, ReadableHolds
  <2> QED
    BY <1>1, <2>1, <2>2, ClosedInv
<1>4. CASE op.kind # "Create"
  <2>1. store_pc' = "Idle" /\ poisoned' = TRUE /\ UNCHANGED <<op, engine, log_len>>
    BY <1>4 DEF ReopenFails
  <2>2. TypeInv' /\ WriteInv' /\ GoneInv'
    BY <1>1, <2>1 DEF TypeInv, WriteInv, GoneInv, Writing
  <2>3. Renamed'
    BY <1>1, <1>2, <2>1 DEF Renamed, Snapshot
  <2>4. PhaseInv'
    BY <1>4, <2>1, <2>3 DEF PhaseInv
  <2> QED
    BY <1>1, <2>1, <2>2, <2>4 DEF StoreInv
<1> QED
  BY <1>3, <1>4

LEMMA AppendRecordInv ==
    ASSUME StoreInv, AppendRecord
    PROVE  StoreInv'
<1> DEFINE r == TheRecord(op)
           d == apply_logged(engine, r)
<1>1. /\ TypeInv /\ Sound(engine) /\ WriteInv /\ GoneInv /\ store_pc = "Append"
  BY DEF StoreInv, AppendRecord
<1>2. ~ poisoned /\ Writing /\ InStep
  BY <1>1, Phases
<1>3. r \in Record /\ Accepts(engine, r) /\ Holds(log, engine) /\ log \in Seq(Record)
  BY <1>1, <1>2 DEF WriteInv, InStep, Holds
<1>4. r.pid \notin forgotten /\ Clean(log, forgotten)
  BY <1>1, <1>2 DEF GoneInv, TheRecord
<1>5. /\ log' = Append(log, r) /\ log_len' = log_len + RecordSize(r) /\ engine' = Applied(op, engine)
      /\ UNCHANGED <<tmp, poisoned, forgotten>>
      /\ \/ store_pc' = "WriteTmp" /\ op' = [NoOp EXCEPT !.kind = "Tidy"]
         \/ store_pc' = "Idle" /\ op' = NoOp
  BY DEF AppendRecord, Return
<1>6. engine' = d
  BY <1>1, <1>2, <1>3, <1>5, ApplyIsEffect DEF Writing
<1>7. Sound(d)
  BY <1>1, <1>3, AppliedSound
<1>8. Holds(log', d)
  BY <1>3, <1>5, HoldsAppend
<1>9. Clean(log', forgotten)
  BY <1>3, <1>4, <1>5, CleanAppend
<1>10. log_len' = LogSize(log') /\ log_len' \in Nat
  <2>1. LogSize(log') = LogSize(log) + RecordSize(r) /\ log' \in Seq(Record)
    BY <1>3, <1>5, LogSizeAppend
  <2>2. LogSize(log') \in Nat
    BY <2>1, LogSizeType
  <2>3. log_len = LogSize(log)
    BY <1>2 DEF InStep
  <2> QED
    BY <1>5, <2>1, <2>2, <2>3
<1> HIDE DEF r, d
<1>11. \A x \in Pid \X Key : engine'.entries[x] # None => x[1] \notin forgotten
  BY <1>6, <1>8, <1>9, CleanEntries
<1>12. op' \in Op /\ op'.kind \in {"Tidy", "None"}
  BY <1>5 DEF NoOp, Op
<1>13. TypeInv'
  BY <1>1, <1>5, <1>10, <1>12 DEF TypeInv
<1>14. WriteInv' /\ GoneInv'
  BY <1>1, <1>5, <1>9, <1>11, <1>12 DEF WriteInv, GoneInv, Writing
<1>15. InStep'
  BY <1>6, <1>8, <1>10 DEF InStep
<1>16. PhaseInv'
  <2>1. CASE store_pc' = "WriteTmp" /\ op' = [NoOp EXCEPT !.kind = "Tidy"]
    <3>1. op'.kind = "Tidy"
      BY <2>1 DEF NoOp
    <3>2. Rewriting'
      BY <1>15, <3>1 DEF Rewriting
    <3> QED
      BY <1>2, <1>5, <2>1, <3>2 DEF PhaseInv
  <2>2. CASE store_pc' = "Idle" /\ op' = NoOp
    BY <1>2, <1>5, <1>15, <2>2 DEF PhaseInv
  <2> QED
    BY <1>5, <2>1, <2>2
<1> QED
  BY <1>6, <1>7, <1>13, <1>14, <1>16 DEF StoreInv

LEMMA AppendFailsInv ==
    ASSUME StoreInv, AppendFails
    PROVE  StoreInv'
<1>1. /\ TypeInv /\ Sound(engine) /\ WriteInv /\ GoneInv /\ store_pc = "Append"
      /\ store_pc' = "Restore" /\ log' \in Unsynced(log, TheRecord(op))
      /\ UNCHANGED <<tmp, op, engine, log_len, poisoned, forgotten>>
  BY DEF StoreInv, AppendFails
<1>2. ~ poisoned /\ Writing /\ Holds(log, engine) /\ log_len = LogSize(log) /\ log \in Seq(Record)
  BY <1>1, Phases DEF InStep, Holds
<1>3. TheRecord(op) \in Record /\ op.pid \notin forgotten
  BY <1>1, <1>2 DEF WriteInv, GoneInv
<1>4. FirstBytes(log', log_len') = log
  BY <1>1, <1>2, <1>3, FirstBytesAreVouched
<1>5. Vouched' = log
  BY <1>4 DEF Vouched, FirstBytes
<1>6. TheRecord(op)' = TheRecord(op) /\ TheRecord(op).pid = op.pid
  BY <1>1 DEF TheRecord
<1>7. Unsure'
  BY <1>1, <1>2, <1>5, <1>6 DEF Unsure, Writing
<1>8. Clean(log', forgotten)
  BY <1>1, <1>2, <1>3, <1>6, CleanUnsynced DEF GoneInv
<1>9. TypeInv' /\ WriteInv' /\ GoneInv'
  BY <1>1, <1>6, <1>8 DEF TypeInv, WriteInv, GoneInv, Writing
<1>10. PhaseInv'
  BY <1>1, <1>2, <1>7 DEF PhaseInv
<1> QED
  BY <1>1, <1>9, <1>10 DEF StoreInv

(* What is restored is what the failed append started from.                *)
LEMMA UnsureFacts ==
    ASSUME StoreInv, Unsure
    PROVE  /\ Vouched \in Seq(Record) /\ Holds(Vouched, engine) /\ log_len = LogSize(Vouched)
           /\ Writing /\ TheRecord(op) \in Record /\ Accepts(engine, TheRecord(op))
           /\ log \in Unsynced(Vouched, TheRecord(op))
           /\ Clean(Vouched, forgotten) /\ Clean(log, forgotten)
           /\ FirstBytes(Vouched, log_len) = Vouched
<1>1. /\ Vouched \in Seq(Record) /\ Holds(Vouched, engine) /\ log_len = LogSize(Vouched)
      /\ Writing /\ log \in Unsynced(Vouched, TheRecord(op))
  BY DEF Unsure, Holds
<1>2. TheRecord(op) \in Record /\ Accepts(engine, TheRecord(op)) /\ Clean(log, forgotten)
  BY <1>1 DEF StoreInv, WriteInv, GoneInv
<1>3. Clean(Vouched, forgotten)
  BY <1>1, <1>2, CleanUnsynced
<1>4. Vouched \in Unsynced(Vouched, TheRecord(op))
  BY DEF Unsynced
<1>5. FirstBytes(Vouched, LogSize(Vouched)) = Vouched
  BY <1>1, <1>2, <1>4, FirstBytesAreVouched
<1> QED
  BY <1>1, <1>2, <1>3, <1>5

LEMMA RestoreInv ==
    ASSUME StoreInv, Restore
    PROVE  StoreInv'
<1>1. /\ store_pc = "Restore" /\ log' = Vouched /\ Return
      /\ UNCHANGED <<tmp, engine, log_len, poisoned, forgotten>>
  BY DEF Restore
<1>2. ~ poisoned /\ Unsure
  BY <1>1, Phases
<1>3. Holds(log', engine) /\ log_len = LogSize(log') /\ Clean(log', forgotten)
  BY <1>1, <1>2, UnsureFacts
<1>4. tmp' \in LogFile /\ Clean(tmp', forgotten)
  BY <1>1 DEF StoreInv, TypeInv, GoneInv
<1> QED
  BY <1>1, <1>2, <1>3, <1>4, ReturnedInv

LEMMA RestoreFailsInv ==
    ASSUME StoreInv, RestoreFails
    PROVE  StoreInv'
<1>1. /\ TypeInv /\ Sound(engine) /\ WriteInv /\ GoneInv
      /\ store_pc = "Restore" /\ log' \in {log, Vouched} /\ poisoned' = TRUE /\ store_pc' = "Idle"
      /\ UNCHANGED <<tmp, op, engine, log_len, forgotten>>
  BY DEF StoreInv, RestoreFails
<1>2. Unsure
  BY <1>1, Phases
<1> DEFINE w == Vouched
<1>3. /\ Holds(w, engine) /\ log_len = LogSize(w)
      /\ Writing /\ log \in Unsynced(w, TheRecord(op))
      /\ Clean(w, forgotten) /\ Clean(log, forgotten)
      /\ FirstBytes(w, log_len) = w /\ FirstBytes(log, log_len) = w
  BY <1>2, UnsureFacts, VouchedIsFirstBytes
<1>4. w \in Unsynced(w, TheRecord(op))
  BY DEF Unsynced
<1> HIDE DEF w
<1>5. log' \in Unsynced(w, TheRecord(op)) /\ FirstBytes(log', log_len) = w /\ Clean(log', forgotten)
  BY <1>1, <1>3, <1>4 DEF w
<1>6. FirstBytes(log', log_len') = w
  BY <1>1, <1>5
<1>7. Vouched' = w
  BY <1>6 DEF Vouched, FirstBytes
<1>8. TheRecord(op)' = TheRecord(op)
  BY <1>1 DEF TheRecord
<1>9. Unsure'
  BY <1>1, <1>3, <1>5, <1>7, <1>8 DEF Unsure, Writing
<1>10. TypeInv' /\ WriteInv' /\ GoneInv'
  BY <1>1, <1>5, <1>8 DEF TypeInv, WriteInv, GoneInv, Writing
<1>11. op'.kind # "Create"
  BY <1>1, <1>3 DEF Writing
<1>12. PhaseInv'
  BY <1>1, <1>9, <1>11 DEF PhaseInv
<1> QED
  BY <1>1, <1>10, <1>12 DEF StoreInv

(* The two views of the map, before and after a step.                      *)
LEMMA TwoViews ==
    /\ MemoryIsTheMap => TheMap = engine.entries
    /\ ~ MemoryIsTheMap => TheMap = Content(log)
    /\ MemoryIsTheMap' => TheMap' = engine'.entries
    /\ ~ MemoryIsTheMap' => TheMap' = Content(log')
BY DEF TheMap, Content

(* What a renamed rewrite stands for.                                      *)
LEMMA RenamedContent ==
    ASSUME StoreInv, Renamed
    PROVE  /\ Readable(log)
           /\ Content(log) = remove(engine, Dropped(op)).entries
           /\ op.kind \notin {"ClearPartition", "ClearSite"} => remove(engine, Dropped(op)) = engine
           /\ op.kind \in {"ClearPartition", "ClearSite"} =>
                 remove(engine, Dropped(op)).entries = Effect(op, engine.entries)
<1>1. Sound(engine) /\ Holds(log, remove(engine, Dropped(op)))
  BY SnapshotIsWhole DEF StoreInv, Renamed
<1>2. Readable(log) /\ Content(log) = remove(engine, Dropped(op)).entries
  BY <1>1, ReadableHolds, ContentOfWhole
<1>3. ASSUME op.kind \notin {"ClearPartition", "ClearSite"} PROVE remove(engine, Dropped(op)) = engine
  <2>1. Dropped(op) = {}
    BY <1>3, DroppedPids
  <2> QED
    BY <1>1, <2>1, RemoveNothing
<1>4. ASSUME op.kind \in {"ClearPartition", "ClearSite"}
      PROVE  remove(engine, Dropped(op)).entries = Effect(op, engine.entries)
  BY <1>1, <1>4, RemoveIsEffect
<1> QED
  BY <1>2, <1>3, <1>4

(* What a stop leaves on disk can be read back, and amounts to the map     *)
(* before the call under way or to the map after it.                       *)
LEMMA StopsLeaves ==
    ASSUME StoreInv, Stops
    PROVE  /\ log' = None \/ Readable(log')
           /\ \/ Content(log') = TheMap
              \/ op.kind \in Changes /\ Content(log') = Effect(op, TheMap)
<1>1. CASE store_pc \in {"Closed", "Opening"}
  <2>1. log' = log /\ (log = None \/ Readable(log)) /\ ~ MemoryIsTheMap
    BY <1>1, Phases DEF Stops, InDoubt, Shut, MemoryIsTheMap
  <2> QED
    BY <2>1, TwoViews
<1>2. CASE store_pc \in {"WriteTmp", "Rename"} /\ Creating
  <2>1. log' = log /\ log = None /\ ~ MemoryIsTheMap
    BY <1>2 DEF Stops, InDoubt, Creating, MemoryIsTheMap
  <2> QED
    BY <2>1, TwoViews
<1>3. CASE \/ store_pc \in {"WriteTmp", "Rename"} /\ Rewriting
           \/ store_pc = "Idle" /\ op = NoOp /\ InStep
  <2>1. log' = log /\ Holds(log, engine) /\ MemoryIsTheMap
    BY <1>3, NoOpIsIdle DEF Stops, InDoubt, Rewriting, InStep, MemoryIsTheMap
  <2>2. Readable(log) /\ Content(log) = engine.entries
    BY <2>1, ReadableHolds, ContentOfWhole
  <2> QED
    BY <2>1, <2>2, TwoViews
<1>4. CASE store_pc \in {"Reopen", "Idle"} /\ Renamed
  <2>1. log' = log
    BY <1>4 DEF Stops, InDoubt
  <2>2. CASE op.kind = "Create"
    <3>1. ~ MemoryIsTheMap
      BY <2>2 DEF MemoryIsTheMap
    <3> QED
      BY <1>4, <2>1, <3>1, RenamedContent, TwoViews
  <2>3. CASE op.kind # "Create"
    <3>1. TheMap = engine.entries
      BY <1>4, <2>3, TwoViews DEF MemoryIsTheMap
    <3>2. Readable(log') /\ (Content(log') = engine.entries \/
             (op.kind \in {"ClearPartition", "ClearSite"} /\ Content(log') = Effect(op, engine.entries)))
      BY <1>4, <2>1, RenamedContent
    <3> QED
      BY <3>1, <3>2 DEF Changes
  <2> QED
    BY <2>2, <2>3
<1>5. ASSUME NEW w, Holds(w, engine), Writing, store_pc \notin {"Closed", "Opening"},
             log' \in Unsynced(w, TheRecord(op))
      PROVE  /\ Readable(log')
             /\ \/ Content(log') = TheMap
                \/ op.kind \in Changes /\ Content(log') = Effect(op, TheMap)
  <2>1. TheRecord(op) \in Record /\ Accepts(engine, TheRecord(op))
    BY <1>5 DEF StoreInv, WriteInv
  <2>2. Readable(log') /\ Content(log') \in {engine.entries, Effect(op, engine.entries)}
    BY <1>5, <2>1, UnsyncedContent DEF Writing
  <2>3. MemoryIsTheMap /\ op.kind \in Changes
    BY <1>5 DEF MemoryIsTheMap, Writing, Changes
  <2>4. TheMap = engine.entries
    BY <2>3, TwoViews
  <2> QED
    BY <2>2, <2>3, <2>4
<1>6. CASE store_pc = "Append"
  <2>1. Holds(log, engine) /\ Writing /\ log' \in Unsynced(log, TheRecord(op))
    BY <1>6, Phases DEF InStep, Stops, InDoubt
  <2> QED
    BY <1>5, <1>6, <2>1
<1>7. CASE store_pc \in {"Restore", "Idle"} /\ Unsure
  <2>1. Holds(Vouched, engine) /\ Writing /\ log' \in Unsynced(Vouched, TheRecord(op))
    BY <1>7 DEF Unsure, Stops, InDoubt
  <2> QED
    BY <1>5, <1>7, <2>1
<1> QED
  BY <1>1, <1>2, <1>3, <1>4, <1>6, <1>7, Phases

LEMMA StopsInv ==
    ASSUME StoreInv, Stops
    PROVE  StoreInv'
<1>1. /\ TypeInv /\ WriteInv /\ GoneInv
      /\ log' \in InDoubt /\ Close /\ UNCHANGED forgotten
      /\ tmp' = tmp \/ tmp' \in Partial(Snapshot)
  BY DEF StoreInv, Stops
<1>2. tmp' \in LogFile /\ Clean(tmp', forgotten)
  <2>1. CASE tmp' = tmp
    BY <1>1, <2>1 DEF TypeInv, GoneInv
  <2>2. CASE tmp' \in Partial(Snapshot)
    <3>1. tmp' \in Seq(Record) /\ Clean(tmp', forgotten)
      BY <2>2, SnapshotIsWhole, CleanPartial
    <3> QED
      BY <3>1 DEF LogFile
  <2> QED
    BY <1>1, <2>1, <2>2
<1>3. Clean(log', forgotten)
  <2>1. CASE store_pc = "Append"
    <3>1. log' \in Unsynced(log, TheRecord(op)) /\ Writing /\ log \in Seq(Record)
      BY <1>1, <2>1, Phases DEF InDoubt, InStep, Holds
    <3>2. TheRecord(op) \in Record /\ TheRecord(op).pid \notin forgotten /\ Clean(log, forgotten)
      BY <1>1, <3>1 DEF WriteInv, GoneInv, TheRecord
    <3> QED
      BY <3>1, <3>2, CleanUnsynced
  <2>2. CASE store_pc # "Append"
    BY <1>1, <2>2 DEF InDoubt, GoneInv
  <2> QED
    BY <2>1, <2>2
<1> QED
  BY <1>1, <1>2, <1>3, StopsLeaves, ClosedInv

(* StoreInv is inductive.                                                  *)
LEMMA StepInv ==
    ASSUME StoreInv, [StoreNext]_storeVars
    PROVE  StoreInv'
<1>1. CASE UNCHANGED storeVars
  <2>1. UNCHANGED <<log, tmp, store_pc, op, engine, log_len, poisoned, forgotten>>
    BY <1>1 DEF storeVars
  <2>2. TypeInv' /\ WriteInv' /\ GoneInv'
    BY <2>1 DEF StoreInv, TypeInv, WriteInv, GoneInv, Writing
  <2>3. UNCHANGED <<Shut, Creating, Rewriting, Renamed, InStep, Unsure, Writing, Snapshot>>
    BY <2>1 DEF Shut, Creating, Rewriting, Renamed, InStep, Unsure, Writing, Snapshot, Vouched
  <2>4. PhaseInv'
    BY <2>1, <2>3 DEF StoreInv, PhaseInv
  <2> QED
    BY <2>1, <2>2, <2>4 DEF StoreInv
<1>2. CASE StoreNext
  BY <1>2, OpensInv, CallsInv, WriteTmpInv, RenameInv, ReopenInv, ReopenFailsInv,
     AppendRecordInv, AppendFailsInv, RestoreInv, RestoreFailsInv, StopsInv DEF StoreNext
<1> QED
  BY <1>1, <1>2

LEMMA OutcomeInv ==
    ASSUME outcome \in {"None", "Ok", "Err"}, [StoreNext]_storeVars
    PROVE  outcome' \in {"None", "Ok", "Err"}
<1>1. ASSUME StoreNext PROVE outcome' \in {outcome, "None", "Ok", "Err"}
  <2>1. ASSUME Opens PROVE outcome' = outcome
    BY <2>1 DEF Opens, OpenRemovesTmp, OpenCreates, OpenRefuses, OpenRecovers, OpenFails, Close
  <2>2. ASSUME Calls PROVE outcome' \in {outcome, "None"}
    BY <2>2 DEF Calls, Put, Delete, StartAppend, StartRewrite, Tells
  <2>3. ASSUME WriteTmp \/ Rename \/ Reopen \/ ReopenFails PROVE outcome' \in {outcome, "None", "Ok", "Err"}
    BY <2>3 DEF WriteTmp, Rename, Reopen, ReopenFails, RewriteFails, Tells, Close
  <2>4. ASSUME AppendRecord \/ AppendFails \/ Restore \/ RestoreFails
        PROVE  outcome' \in {outcome, "None", "Ok", "Err"}
    BY <2>4 DEF AppendRecord, AppendFails, Restore, RestoreFails, Tells
  <2>5. ASSUME Stops PROVE outcome' = outcome
    BY <2>5 DEF Stops, Close
  <2> QED
    BY <1>1, <2>1, <2>2, <2>3, <2>4, <2>5 DEF StoreNext
<1> QED
  BY <1>1 DEF storeVars

LEMMA Invariant == StoreSpec => [](StoreInv /\ outcome \in {"None", "Ok", "Err"})
<1> DEFINE Both == StoreInv /\ outcome \in {"None", "Ok", "Err"}
<1>1. StoreInit => Both
  BY InitInv DEF StoreInit
<1>2. Both /\ [StoreNext]_storeVars => Both'
  <2> SUFFICES ASSUME Both, [StoreNext]_storeVars PROVE Both'
    OBVIOUS
  <2> QED
    BY StepInv, OutcomeInv
<1> QED
  BY <1>1, <1>2, PTL DEF StoreSpec

(* The store's state is of its types, and the counters never pass the      *)
(* quotas of engine.rs, whatever the sizes, the quotas and the number of   *)
(* partitions and keys.                                                    *)
THEOREM StoreTypeCorrect == StoreSpec => []StoreTypeOK
<1>1. ASSUME StoreInv, outcome \in {"None", "Ok", "Err"} PROVE StoreTypeOK
  <2>1. engine \in Engine /\ Exact(engine) /\ Within(engine)
    BY <1>1 DEF StoreInv, Sound
  <2>2. /\ engine.entries \in [Pid \X Key -> Value \cup {None}]
        /\ engine.bytes \in [Pid -> 0 .. PARTITION_QUOTA_BYTES]
        /\ engine.total \in 0 .. GLOBAL_QUOTA_BYTES
    <3>1. engine.entries \in Entries
      BY <2>1 DEF Engine
    <3>2. engine.bytes \in [Pid -> Nat] /\ engine.total \in Nat
      BY <2>1, ExactCounts
    <3>3. /\ \A p \in Pid : engine.bytes[p] <= PARTITION_QUOTA_BYTES
          /\ engine.total <= GLOBAL_QUOTA_BYTES
      BY <2>1 DEF Within
    <3>4. PARTITION_QUOTA_BYTES \in Nat /\ GLOBAL_QUOTA_BYTES \in Nat
      BY StoreAssumption
    <3>5. \A p \in Pid : engine.bytes[p] \in 0 .. PARTITION_QUOTA_BYTES
      BY <3>2, <3>3, <3>4
    <3> QED
      BY <3>1, <3>2, <3>3, <3>4, <3>5 DEF Entries
  <2>3. TypeInv /\ log \in LogFile
    BY <1>1, LogIsFile DEF StoreInv
  <2>4. store_pc \in {"Closed", "Opening", "Idle", "WriteTmp", "Rename", "Reopen", "Append", "Restore"}
    BY <1>1, Phases
  <2> QED
    BY <1>1, <2>2, <2>3, <2>4 DEF StoreTypeOK, TypeInv
<1> QED
  BY <1>1, Invariant, PTL

(* The quota counters equal what a recount of the live entries would give, *)
(* for any number of partitions and keys and any sizes and quotas.         *)
THEOREM AccountingIsExactCorrect == StoreSpec => []AccountingIsExact
<1>1. ASSUME StoreInv PROVE AccountingIsExact
  BY <1>1 DEF StoreInv, Sound, Exact, Costs, AccountingIsExact
<1> QED
  BY <1>1, Invariant, PTL

(* What a clear that returned has removed is in neither file, whatever     *)
(* failed or stopped in between.                                           *)
THEOREM ForgottenIsGoneCorrect == StoreSpec => []ForgottenIsGone
<1>1. ASSUME StoreInv PROVE ForgottenIsGone
  BY <1>1 DEF StoreInv, GoneInv, Clean, ForgottenIsGone
<1> QED
  BY <1>1, Invariant, PTL

-----------------------------------------------------------------------------
(* The refinement of DurableMap, step by step.                             *)

Pending == IF op.kind \in Changes THEN op ELSE NoOp

LEMMA StutterStep ==
    ASSUME UNCHANGED <<TheMap, Pending, outcome>>
    PROVE  [Map!MapNext]_(Map!mapVars)
BY DEF Map!mapVars, Pending

LEMMA BeginStep ==
    ASSUME Pending = NoOp, op'.kind \in Changes,
           op' \in [kind : Changes, pid : Pid, key : Key \cup {0}, value : Value \cup {0}],
           outcome' = "None", UNCHANGED TheMap
    PROVE  [Map!MapNext]_(Map!mapVars)
BY DEF Map!MapNext, Map!Begin, Pending

LEMMA CompleteStep ==
    ASSUME op.kind \in Changes, op'.kind \notin Changes,
           TheMap' = Effect(op, TheMap), outcome' = "Ok"
    PROVE  [Map!MapNext]_(Map!mapVars)
<1>1. op # NoOp
  BY NoOpIsIdle DEF Changes
<1> QED
  BY <1>1 DEF Map!MapNext, Map!Complete, Pending

LEMMA RefuseStep ==
    ASSUME op.kind \in Changes, op'.kind \notin Changes, UNCHANGED TheMap, outcome' = "Err"
    PROVE  [Map!MapNext]_(Map!mapVars)
<1>1. op # NoOp
  BY NoOpIsIdle DEF Changes
<1> QED
  BY <1>1 DEF Map!MapNext, Map!Refuse, Pending

LEMMA CrashStep ==
    ASSUME op.kind \in Changes, op'.kind \notin Changes, UNCHANGED outcome,
           TheMap' \in {TheMap, Effect(op, TheMap)}
    PROVE  [Map!MapNext]_(Map!mapVars)
<1>1. op # NoOp
  BY NoOpIsIdle DEF Changes
<1> QED
  BY <1>1 DEF Map!MapNext, Map!Crash, Pending

(* A step without a call under way, before or after, that leaves the map.  *)
LEMMA QuietStep ==
    ASSUME op.kind \notin Changes, op'.kind \notin Changes, UNCHANGED <<TheMap, outcome>>
    PROVE  [Map!MapNext]_(Map!mapVars)
BY StutterStep DEF Pending

LEMMA OpensStep ==
    ASSUME StoreInv, Opens
    PROVE  [Map!MapNext]_(Map!mapVars)
<1>1. store_pc \in {"Closed", "Opening"} /\ outcome' = outcome
  BY DEF Opens, OpenRemovesTmp, OpenCreates, OpenRefuses, OpenRecovers, OpenFails, Close
<1>2. op = NoOp /\ (log = None \/ Readable(log))
  BY <1>1, Phases DEF Shut
<1>3. TheMap = Content(log)
  BY <1>1, TwoViews DEF MemoryIsTheMap
<1>4. op'.kind \in {"None", "Create"}
  BY <1>2 DEF Opens, OpenRemovesTmp, OpenCreates, OpenRefuses, OpenRecovers, OpenFails, Close, NoOp
<1>5. ASSUME log # None
      PROVE  /\ Content(log) = recover(log).engine.entries
             /\ Content(SubSeq(log, 1, recover(log).valid)) = recover(log).engine.entries
  <2>1. /\ Holds(SubSeq(log, 1, recover(log).valid), recover(log).engine)
        /\ Content(log) = recover(log).engine.entries
    BY <1>2, <1>5, ReadableRecovers
  <2> QED
    BY <2>1, ContentOfWhole
<1>6. TheMap' = TheMap
  <2>1. CASE OpenRecovers
    <3>1. log # None /\ engine' = recover(log).engine /\ store_pc' = "Idle" /\ op' = NoOp
      BY <1>2, <2>1 DEF OpenRecovers
    <3>2. MemoryIsTheMap'
      BY <3>1, NoOpIsIdle DEF MemoryIsTheMap
    <3> QED
      BY <1>3, <1>5, <3>1, <3>2, TwoViews
  <2>2. CASE OpenFails
    <3>1. /\ store_pc' = "Closed"
          /\ log' = log \/ (log # None /\ log' = SubSeq(log, 1, recover(log).valid))
      BY <2>2 DEF OpenFails, Close
    <3>2. ~ MemoryIsTheMap'
      BY <3>1 DEF MemoryIsTheMap
    <3>3. Content(log') = Content(log)
      BY <1>5, <3>1
    <3> QED
      BY <1>3, <3>2, <3>3, TwoViews
  <2>3. CASE OpenRemovesTmp \/ OpenCreates \/ OpenRefuses
    <3>1. log' = log /\ (store_pc' \in {"Closed", "Opening"} \/ op'.kind = "Create")
      BY <2>3 DEF OpenRemovesTmp, OpenCreates, OpenRefuses, Close, NoOp
    <3>2. ~ MemoryIsTheMap'
      BY <3>1 DEF MemoryIsTheMap
    <3> QED
      BY <1>3, <3>1, <3>2, TwoViews
  <2> QED
    BY <2>1, <2>2, <2>3 DEF Opens
<1> QED
  BY <1>1, <1>2, <1>4, <1>6, NoOpIsIdle, QuietStep DEF Changes

LEMMA StartAppendStep ==
    ASSUME StoreInv, NEW o \in Op, o.kind \in {"Put", "Delete"}, o.pid \in Pid, StartAppend(o)
    PROVE  [Map!MapNext]_(Map!mapVars)
<1>1. /\ store_pc = "Idle" /\ ~ poisoned /\ op' = o /\ engine' = engine
      /\ store_pc' \in {"WriteTmp", "Append"} /\ outcome' = "None"
  BY DEF StartAppend, MayStart, Tells, Changes
<1>2. op = NoOp /\ op.kind = "None"
  BY <1>1, Phases, NoOpIsIdle
<1>3. MemoryIsTheMap /\ MemoryIsTheMap'
  BY <1>1, <1>2 DEF MemoryIsTheMap
<1>4. TheMap' = TheMap
  BY <1>1, <1>3, TwoViews
<1>5. /\ o \in [kind : Changes, pid : Pid, key : Key \cup {0}, value : Value \cup {0}]
      /\ o.kind \in Changes /\ Pending = NoOp
  BY <1>2 DEF Op, Changes, Pending
<1> QED
  BY <1>1, <1>4, <1>5, BeginStep

LEMMA CallsStep ==
    ASSUME StoreInv, Calls
    PROVE  [Map!MapNext]_(Map!mapVars)
<1>1. ASSUME NEW p \in Pid, NEW k \in Key, Delete(p, k)
      PROVE  [Map!MapNext]_(Map!mapVars)
  <2> DEFINE o == [kind |-> "Delete", pid |-> p, key |-> k, value |-> 0]
  <2>1. o \in Op /\ o.kind = "Delete" /\ o.pid \in Pid
    BY DEF Op
  <2>2. StartAppend(o)
    BY <1>1 DEF Delete
  <2> HIDE DEF o
  <2> QED
    BY <2>1, <2>2, StartAppendStep
<1>2. ASSUME NEW p \in Pid, NEW k \in Key, NEW value \in Value, Put(p, k, value)
      PROVE  [Map!MapNext]_(Map!mapVars)
  <2> DEFINE o == [kind |-> "Put", pid |-> p, key |-> k, value |-> value]
  <2>1. o \in Op /\ o.kind = "Put" /\ o.pid \in Pid
    BY DEF Op
  <2>2. StartAppend(o)
    BY <1>2 DEF Put
  <2> HIDE DEF o
  <2> QED
    BY <2>1, <2>2, StartAppendStep
<1>3. ASSUME NEW o \in Rewrites, StartRewrite(o)
      PROVE  [Map!MapNext]_(Map!mapVars)
  <2>1. /\ store_pc = "Idle" /\ ~ poisoned /\ op' = o /\ engine' = engine /\ store_pc' = "WriteTmp"
        /\ outcome' = IF o.kind \in Changes THEN "None" ELSE outcome
    BY <1>3 DEF StartRewrite, MayStart, Tells
  <2>2. op = NoOp /\ op.kind = "None"
    BY <2>1, Phases, NoOpIsIdle
  <2>3. \/ o.kind = "Compact"
        \/ /\ o \in [kind : Changes, pid : Pid, key : Key \cup {0}, value : Value \cup {0}]
           /\ o.kind \in {"ClearPartition", "ClearSite"}
    BY DEF Rewrites, NoOp, Changes
  <2>4. MemoryIsTheMap /\ MemoryIsTheMap'
    BY <2>1, <2>2, <2>3 DEF MemoryIsTheMap
  <2>5. TheMap' = TheMap
    BY <2>1, <2>4, TwoViews
  <2>6. CASE o.kind = "Compact"
    BY <2>1, <2>2, <2>5, <2>6, QuietStep DEF Changes
  <2>7. CASE o.kind # "Compact"
    <3>1. /\ Pending = NoOp /\ op'.kind \in Changes /\ outcome' = "None"
          /\ op' \in [kind : Changes, pid : Pid, key : Key \cup {0}, value : Value \cup {0}]
      BY <2>1, <2>2, <2>3, <2>7 DEF Pending, Changes
    <3> QED
      BY <2>5, <3>1, BeginStep
  <2> QED
    BY <2>6, <2>7
<1> QED
  BY <1>1, <1>2, <1>3 DEF Calls

LEMMA RewriteFailsStep ==
    ASSUME StoreInv, store_pc \in {"WriteTmp", "Rename"}, RewriteFails, UNCHANGED log
    PROVE  [Map!MapNext]_(Map!mapVars)
<1>1. CASE op.kind = "Create"
  <2>1. store_pc' = "Closed" /\ op' = NoOp /\ outcome' = outcome
    BY <1>1 DEF RewriteFails, Close
  <2>2. ~ MemoryIsTheMap /\ ~ MemoryIsTheMap'
    BY <1>1, <2>1 DEF MemoryIsTheMap
  <2>3. TheMap' = TheMap
    BY <2>2, TwoViews
  <2> QED
    BY <1>1, <2>1, <2>3, NoOpIsIdle, QuietStep DEF Changes
<1>2. CASE op.kind # "Create"
  <2>1. /\ store_pc' = "Idle" /\ op' = NoOp /\ engine' = engine
        /\ outcome' = IF op.kind \in Changes THEN "Err" ELSE outcome
    BY <1>2 DEF RewriteFails, Return, Tells
  <2>2. MemoryIsTheMap /\ MemoryIsTheMap'
    BY <1>2, <2>1, NoOpIsIdle DEF MemoryIsTheMap
  <2>3. TheMap' = TheMap /\ op'.kind \notin Changes
    BY <2>1, <2>2, NoOpIsIdle, TwoViews DEF Changes
  <2> QED
    BY <2>1, <2>3, QuietStep, RefuseStep
<1> QED
  BY <1>1, <1>2

LEMMA WriteTmpStep ==
    ASSUME StoreInv, WriteTmp
    PROVE  [Map!MapNext]_(Map!mapVars)
<1>1. store_pc = "WriteTmp" /\ log' = log
  BY DEF WriteTmp
<1>2. CASE RewriteFails
  BY <1>1, <1>2, RewriteFailsStep
<1>3. CASE store_pc' = "Rename" /\ UNCHANGED <<op, engine, outcome>>
  <2>1. MemoryIsTheMap' = MemoryIsTheMap
    BY <1>1, <1>3 DEF MemoryIsTheMap
  <2>2. TheMap' = TheMap
    BY <1>1, <1>3, <2>1, TwoViews
  <2> QED
    BY <1>3, <2>2, StutterStep DEF Pending
<1> QED
  BY <1>2, <1>3 DEF WriteTmp

LEMMA RenameStep ==
    ASSUME StoreInv, Rename
    PROVE  [Map!MapNext]_(Map!mapVars)
<1>1. store_pc = "Rename"
  BY DEF Rename
<1>2. CASE RewriteFails /\ log' = log
  BY <1>1, <1>2, RewriteFailsStep
<1>3. CASE log' = tmp /\ store_pc' = "Reopen" /\ UNCHANGED <<op, engine, outcome>>
  <2>1. tmp = Snapshot /\ (Creating \/ Rewriting)
    BY <1>1, Phases
  <2>2. MemoryIsTheMap' = MemoryIsTheMap
    BY <1>1, <1>3 DEF MemoryIsTheMap
  <2>3. ASSUME Creating PROVE Content(log') = Content(log)
    <3>1. engine = EmptyEngine /\ log = None /\ op.kind = "Create"
      BY <2>3 DEF Creating
    <3>2. remove(engine, Dropped(op)) = engine
      <4>1. Dropped(op) = {} /\ Sound(engine)
        BY <3>1, DroppedPids DEF StoreInv
      <4> QED
        BY <4>1, RemoveNothing
    <3>3. Holds(log', engine)
      BY <1>3, <2>1, <3>2, SnapshotIsWhole
    <3>4. Content(log') = EmptyEngine.entries
      BY <3>1, <3>3, ContentOfWhole
    <3> QED
      BY <3>1, <3>4 DEF Content, EmptyEngine
  <2>4. TheMap' = TheMap
    <3>1. CASE Creating
      <4>1. ~ MemoryIsTheMap
        BY <3>1 DEF Creating, MemoryIsTheMap
      <4> QED
        BY <2>2, <2>3, <3>1, <4>1, TwoViews
    <3>2. CASE Rewriting
      <4>1. MemoryIsTheMap
        BY <1>1, <3>2 DEF Rewriting, MemoryIsTheMap
      <4> QED
        BY <1>3, <2>2, <4>1, TwoViews
    <3> QED
      BY <2>1, <3>1, <3>2
  <2> QED
    BY <1>3, <2>4, StutterStep DEF Pending
<1> QED
  BY <1>2, <1>3 DEF Rename

LEMMA ReopenStep ==
    ASSUME StoreInv, Reopen
    PROVE  [Map!MapNext]_(Map!mapVars)
<1>1. store_pc = "Reopen" /\ engine' = remove(engine, Dropped(op)) /\ log' = log
  BY DEF Reopen
<1>2. Renamed
  BY <1>1, Phases
<1>3. CASE op.kind \in {"Put", "Delete"}
  <2>1. store_pc' = "Append" /\ UNCHANGED <<op, outcome>>
    BY <1>3 DEF Reopen
  <2>2. engine' = engine
    BY <1>1, <1>2, <1>3, RenamedContent
  <2>3. MemoryIsTheMap /\ MemoryIsTheMap'
    BY <1>1, <1>3, <2>1 DEF MemoryIsTheMap
  <2>4. TheMap' = TheMap
    BY <2>2, <2>3, TwoViews
  <2> QED
    BY <2>1, <2>4, StutterStep DEF Pending
<1>4. CASE op.kind \notin {"Put", "Delete"}
  <2>1. /\ store_pc' = "Idle" /\ op' = NoOp
        /\ outcome' = IF op.kind \in Changes THEN "Ok" ELSE outcome
    BY <1>4 DEF Reopen, Return, Tells
  <2>2. TheMap' = remove(engine, Dropped(op)).entries
    BY <1>1, <2>1, NoOpIsIdle, TwoViews DEF MemoryIsTheMap
  <2>3. CASE op.kind = "Create"
    <3>1. TheMap = Content(log)
      BY <2>3, TwoViews DEF MemoryIsTheMap
    <3>2. TheMap' = TheMap
      BY <1>2, <2>2, <3>1, RenamedContent
    <3> QED
      BY <2>1, <2>3, <3>2, NoOpIsIdle, QuietStep DEF Changes
  <2>4. CASE op.kind # "Create"
    <3>1. TheMap = engine.entries
      BY <1>1, <2>4, TwoViews DEF MemoryIsTheMap
    <3>2. CASE op.kind \in {"ClearPartition", "ClearSite"}
      <4>1. TheMap' = Effect(op, TheMap)
        BY <1>2, <2>2, <3>1, <3>2, RenamedContent
      <4>2. op.kind \in Changes /\ outcome' = "Ok" /\ op'.kind \notin Changes
        BY <2>1, <3>2, NoOpIsIdle DEF Changes
      <4> QED
        BY <4>1, <4>2, CompleteStep
    <3>3. CASE op.kind \notin {"ClearPartition", "ClearSite"}
      <4>1. TheMap' = TheMap
        BY <1>2, <2>2, <3>1, <3>3, RenamedContent
      <4>2. op.kind \notin Changes /\ outcome' = outcome /\ op'.kind \notin Changes
        BY <1>4, <2>1, <3>3, NoOpIsIdle DEF Changes
      <4> QED
        BY <4>1, <4>2, QuietStep
    <3> QED
      BY <3>2, <3>3
  <2> QED
    BY <2>3, <2>4
<1> QED
  BY <1>3, <1>4

LEMMA ReopenFailsStep ==
    ASSUME StoreInv, ReopenFails
    PROVE  [Map!MapNext]_(Map!mapVars)
<1>1. store_pc = "Reopen" /\ log' = log
  BY DEF ReopenFails
<1>2. CASE op.kind = "Create"
  <2>1. store_pc' = "Closed" /\ op' = NoOp /\ outcome' = outcome
    BY <1>2 DEF ReopenFails, Close
  <2>2. ~ MemoryIsTheMap /\ ~ MemoryIsTheMap'
    BY <1>2, <2>1 DEF MemoryIsTheMap
  <2>3. TheMap' = TheMap
    BY <1>1, <2>2, TwoViews
  <2> QED
    BY <1>2, <2>1, <2>3, NoOpIsIdle, QuietStep DEF Changes
<1>3. CASE op.kind # "Create"
  <2>1. store_pc' = "Idle" /\ UNCHANGED <<op, engine, outcome>>
    BY <1>3 DEF ReopenFails
  <2>2. MemoryIsTheMap /\ MemoryIsTheMap'
    BY <1>1, <1>3, <2>1 DEF MemoryIsTheMap
  <2>3. TheMap' = TheMap
    BY <2>1, <2>2, TwoViews
  <2> QED
    BY <2>1, <2>3, StutterStep DEF Pending
<1> QED
  BY <1>2, <1>3

LEMMA AppendRecordStep ==
    ASSUME StoreInv, AppendRecord
    PROVE  [Map!MapNext]_(Map!mapVars)
<1>1. store_pc = "Append" /\ engine' = Applied(op, engine)
  BY DEF AppendRecord
<1>2. op.kind \in {"Put", "Delete"} /\ TheRecord(op) \in Record /\ Sound(engine)
  BY <1>1, Phases DEF StoreInv, WriteInv, Writing
<1>3. op'.kind \in {"Tidy", "None"} /\ store_pc' \in {"WriteTmp", "Idle"} /\ outcome' = "Ok"
  BY <1>2 DEF AppendRecord, Return, Tells, Changes, NoOp
<1>4. MemoryIsTheMap /\ MemoryIsTheMap'
  BY <1>1, <1>2, <1>3 DEF MemoryIsTheMap
<1>5. engine'.entries = Effect(op, engine.entries)
  BY <1>1, <1>2, ApplyIsEffect
<1>6. TheMap' = Effect(op, TheMap)
  BY <1>4, <1>5, TwoViews
<1>7. op.kind \in Changes /\ op'.kind \notin Changes
  BY <1>2, <1>3 DEF Changes
<1> QED
  BY <1>3, <1>6, <1>7, CompleteStep

LEMMA AppendFailsStep ==
    ASSUME StoreInv, AppendFails \/ Restore \/ RestoreFails
    PROVE  [Map!MapNext]_(Map!mapVars)
<1>1. store_pc \in {"Append", "Restore"} /\ engine' = engine /\ store_pc' \in {"Restore", "Idle"}
  BY DEF AppendFails, Restore, RestoreFails, Return
<1>2. op.kind \in {"Put", "Delete"}
  BY <1>1, Phases DEF Writing, Unsure
<1>3. op' \in {op, NoOp}
  BY DEF AppendFails, Restore, RestoreFails, Return
<1>4. MemoryIsTheMap /\ MemoryIsTheMap'
  BY <1>1, <1>2, <1>3, NoOpIsIdle DEF MemoryIsTheMap
<1>5. TheMap' = TheMap
  BY <1>1, <1>4, TwoViews
<1>6. CASE AppendFails \/ RestoreFails
  <2>1. UNCHANGED <<op, outcome>>
    BY <1>6 DEF AppendFails, RestoreFails
  <2> QED
    BY <1>5, <2>1, StutterStep DEF Pending
<1>7. CASE Restore
  <2>1. op' = NoOp /\ outcome' = "Err" /\ op.kind \in Changes
    BY <1>2, <1>7 DEF Restore, Return, Tells, Changes
  <2>2. op'.kind \notin Changes
    BY <2>1, NoOpIsIdle DEF Changes
  <2> QED
    BY <1>5, <2>1, <2>2, RefuseStep
<1> QED
  BY <1>6, <1>7

LEMMA StopsStep ==
    ASSUME StoreInv, Stops
    PROVE  [Map!MapNext]_(Map!mapVars)
<1>1. store_pc' = "Closed" /\ op' = NoOp /\ outcome' = outcome
  BY DEF Stops, Close
<1>2. TheMap' = Content(log')
  BY <1>1, TwoViews DEF MemoryIsTheMap
<1>3. op'.kind \notin Changes
  BY <1>1, NoOpIsIdle DEF Changes
<1>4. CASE op.kind \in Changes
  BY <1>1, <1>2, <1>3, <1>4, StopsLeaves, CrashStep
<1>5. CASE op.kind \notin Changes
  BY <1>1, <1>2, <1>3, <1>5, StopsLeaves, QuietStep
<1> QED
  BY <1>4, <1>5

(* The store implements a durable map, for any number of partitions and    *)
(* keys, any sizes and any quotas: a put, a delete or a clear that         *)
(* returned stays, one that returned an error had no effect, and one that  *)
(* a stop or a poisoned store cut short happened as a whole or not at all. *)
THEOREM StoreIsDurableCorrect == StoreSpec => StoreIsDurable
<1>1. StoreInit => Map!MapInit
  <2> SUFFICES ASSUME StoreInit PROVE Map!MapInit
    OBVIOUS
  <2>1. TheMap = EmptyEngine.entries
    BY DEF StoreInit, TheMap, MemoryIsTheMap, EmptyEngine
  <2> QED
    BY <2>1 DEF StoreInit, Map!MapInit, Changes, NoOp
<1>2. StoreInv /\ [StoreNext]_storeVars => [Map!MapNext]_(Map!mapVars)
  <2> SUFFICES ASSUME StoreInv, [StoreNext]_storeVars PROVE [Map!MapNext]_(Map!mapVars)
    OBVIOUS
  <2>1. CASE UNCHANGED storeVars
    <3>1. UNCHANGED <<log, store_pc, op, engine, outcome>>
      BY <2>1 DEF storeVars
    <3>2. UNCHANGED <<TheMap, Pending>>
      BY <3>1 DEF TheMap, MemoryIsTheMap, Pending
    <3> QED
      BY <3>1, <3>2, StutterStep
  <2>2. CASE StoreNext
    BY <2>2, OpensStep, CallsStep, WriteTmpStep, RenameStep, ReopenStep, ReopenFailsStep,
       AppendRecordStep, AppendFailsStep, StopsStep DEF StoreNext
  <2> QED
    BY <2>1, <2>2
<1> QED
  BY <1>1, <1>2, Invariant, PTL DEF StoreSpec, StoreIsDurable, Map!MapSpec
=============================================================================
