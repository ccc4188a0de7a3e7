----------------------------- MODULE FrameTree ------------------------------
(***************************************************************************)
(* The frame tree, a generational arena (crates/px-broker/src/lib.rs,      *)
(* FrameTree).                                                             *)
(*                                                                         *)
(* The Vec of slots is a function on every index a u32 can address.  An    *)
(* index the Vec has not grown to is a Free slot of generation -1, so that *)
(* "reuse the first free slot, else push one of generation 0" is "take the *)
(* first free slot and add one to its generation".                         *)
(***************************************************************************)
EXTENDS ProcessKey, FiniteSets

CONSTANTS
    MaxIndex,                 \* stands for u32::MAX, the last slot index
    MaxGeneration,            \* stands for u32::MAX, the last generation
    MAX_FRAME_DEPTH,
    MAX_CHILDREN_PER_FRAME,
    Ordinal                   \* element ordinals of child frames

VARIABLES
    slots,        \* Vec<FrameSlot>
    next_group    \* the next browsing context group

treeVars == <<slots, next_group>>

ASSUME TreeAssumption ==
    /\ MaxIndex \in Nat
    /\ MaxGeneration \in Nat
    /\ MAX_FRAME_DEPTH \in Nat
    /\ MAX_CHILDREN_PER_FRAME \in Nat
    /\ None \notin Ordinal

Index == 0 .. MaxIndex

FrameId == Index \X (0 .. MaxGeneration)

ASSUME FrameAssumption == None \notin FrameId

FrameSlot ==
    [generation : -1 .. MaxGeneration,
     owner      : ChannelId \cup {None},
     retired    : BOOLEAN,
     lifecycle  : {"Free", "Live", "Crashed"},
     parent     : FrameId \cup {None},
     depth      : 0 .. MAX_FRAME_DEPTH,
     ordinal    : Ordinal \cup {None},
     group      : GroupId,
     origin     : Origin \cup {None}]

TreeTypeOK ==
    /\ slots \in [Index -> FrameSlot]
    /\ next_group \in 0 .. MaxGroup

Ungrown ==
    [generation |-> -1, owner |-> None, retired |-> FALSE,
     lifecycle |-> "Free", parent |-> None, depth |-> 0,
     ordinal |-> None, group |-> 0, origin |-> None]

TreeInit ==
    /\ slots = [i \in Index |-> Ungrown]
    /\ next_group = 0

-----------------------------------------------------------------------------
(* Accessors.  `Resolves` is the code's resolve: a handle names a slot     *)
(* that is not free, at its generation.                                    *)

Resolves(f) ==
    /\ slots[f[1]].generation = f[2]
    /\ slots[f[1]].lifecycle # "Free"

LiveFrame(f) == Resolves(f) /\ slots[f[1]].lifecycle = "Live"

OwnerOf(f) == IF Resolves(f) THEN slots[f[1]].owner ELSE None

ParentOf(f) == IF Resolves(f) THEN slots[f[1]].parent ELSE None

Handle(i) == <<i, slots[i].generation>>

(* A handle's ancestors: the parent links from it.  The code's walks are   *)
(* bounded by MAX_FRAME_DEPTH + 1 links, no fewer than a frame's depth.    *)
AncestorAt[n \in Nat] ==
    [f \in FrameId |-> IF n = 0 \/ ParentOf(f) = None THEN f
                       ELSE AncestorAt[n - 1][ParentOf(f)]]

Ancestors(f) == {AncestorAt[n][f] : n \in 1 .. MAX_FRAME_DEPTH + 1} \ {f}

RootOf(f) == AncestorAt[MAX_FRAME_DEPTH + 1][f]

(* process_key of a live frame whose document has `origin`: None unless    *)
(* the walk reached a top-level frame that has committed and has a site.   *)
KeyOfDocument(f, origin) ==
    LET r == RootOf(f)
        topLevel == IF r = f THEN origin ELSE slots[r[1]].origin
    IN IF ParentOf(r) # None \/ topLevel = None
       THEN None
       ELSE NewProcessKey(topLevel, origin)

KeyOf(f) ==
    IF LiveFrame(f) /\ slots[f[1]].origin # None
    THEN KeyOfDocument(f, slots[f[1]].origin)
    ELSE None

-----------------------------------------------------------------------------
(* Sets of slots. *)

OwnedBy(c) ==
    {i \in Index : slots[i].lifecycle = "Live" /\ slots[i].owner = c}

ChildSlots(f) ==
    {i \in Index : slots[i].lifecycle # "Free" /\ slots[i].parent = f}

ClosedUnderChildren(seed, S) ==
    \A i \in Index :
        /\ slots[i].lifecycle # "Free"
        /\ slots[i].parent # None
        /\ Resolves(slots[i].parent)
        /\ slots[i].parent[1] \in seed \cup S
        => i \in S

(* Mutant: one level of children only. *)
Descendants_Children(seed) ==
    {i \in Index : slots[i].lifecycle # "Free" /\ slots[i].parent # None
                   /\ slots[i].parent[1] \in seed}

(* The strict descendants of `seed`: what the loop of descendants() grows  *)
(* to, the least set that holds every child of the seed and of itself.     *)
Descendants(seed) ==
    LET closed == {S \in SUBSET Index : ClosedUnderChildren(seed, S)}
    IN {i \in Index : \A S \in closed : i \in S}

Freed(slot) ==
    [slot EXCEPT !.owner = None, !.lifecycle = "Free", !.parent = None,
                 !.ordinal = None, !.origin = None]

Crashed(slot) == [slot EXCEPT !.owner = None, !.lifecycle = "Crashed"]

-----------------------------------------------------------------------------
(* Allocation.  A free slot at the last generation is retired when the     *)
(* scan meets it; the scan stops at the first slot it can take.            *)

Reusable ==
    {i \in Index : /\ slots[i].lifecycle = "Free"
                   /\ ~ slots[i].retired
                   /\ slots[i].generation < MaxGeneration}

Exhausted ==
    {i \in Index : /\ slots[i].lifecycle = "Free"
                   /\ slots[i].generation = MaxGeneration}

FirstReusable(i) == i \in Reusable /\ \A j \in Reusable : i <= j

Retired(slot) == [slot EXCEPT !.retired = TRUE]

(* Mutant: a reused slot keeps its generation. *)
NewSlot_SameGeneration(i, owner, parent, depth, ordinal, group) ==
    [generation |-> IF slots[i].generation < 0 THEN 0 ELSE slots[i].generation,
     owner |-> owner, retired |-> FALSE, lifecycle |-> "Live",
     parent |-> parent, depth |-> depth, ordinal |-> ordinal, group |-> group,
     origin |-> None]

NewSlot(i, owner, parent, depth, ordinal, group) ==
    [generation |-> slots[i].generation + 1, owner |-> owner,
     retired |-> FALSE, lifecycle |-> "Live", parent |-> parent,
     depth |-> depth, ordinal |-> ordinal, group |-> group, origin |-> None]

Alloc(i, new) ==
    /\ FirstReusable(i)
    /\ slots' = [j \in Index |->
                    IF j = i THEN new
                    ELSE IF j < i /\ j \in Exhausted THEN Retired(slots[j])
                    ELSE slots[j]]

AllocFails ==
    /\ Reusable = {}
    /\ slots' = [j \in Index |-> IF j \in Exhausted THEN Retired(slots[j])
                                 ELSE slots[j]]

-----------------------------------------------------------------------------
(* Operations.  `i` is the slot that the new handle names. *)

Create(owner, i) ==
    /\ next_group < MaxGroup
    /\ Alloc(i, NewSlot(i, owner, None, 0, None, next_group))
    /\ next_group' = next_group + 1

CreateFull ==
    /\ next_group < MaxGroup
    /\ AllocFails
    /\ UNCHANGED next_group

(* The checks of create_child before it allocates. *)
NoParent(owner, parent) ==
    ~ (LiveFrame(parent) /\ slots[parent[1]].owner = owner)

TooDeep(parent) == slots[parent[1]].depth + 1 > MAX_FRAME_DEPTH

OrdinalTaken(parent, ordinal) ==
    \E i \in ChildSlots(parent) : slots[i].ordinal = ordinal

TooManyChildren(parent) ==
    Cardinality(ChildSlots(parent)) >= MAX_CHILDREN_PER_FRAME

MayCreateChild(owner, parent, ordinal) ==
    /\ ~ NoParent(owner, parent)
    /\ ~ TooDeep(parent)
    /\ ~ OrdinalTaken(parent, ordinal)
    /\ ~ TooManyChildren(parent)

CreateChild(owner, parent, ordinal, i) ==
    /\ MayCreateChild(owner, parent, ordinal)
    /\ Alloc(i, NewSlot(i, owner, parent, slots[parent[1]].depth + 1,
                        ordinal, slots[parent[1]].group))
    /\ UNCHANGED next_group

CreateChildFull(owner, parent, ordinal) ==
    /\ MayCreateChild(owner, parent, ordinal)
    /\ AllocFails
    /\ UNCHANGED next_group

FreeWithDescendants(roots) ==
    /\ LET doomed == roots \cup Descendants(roots) IN
       slots' = [i \in Index |-> IF i \in doomed THEN Freed(slots[i])
                                 ELSE slots[i]]
    /\ UNCHANGED next_group

Destroy(owner, f) ==
    /\ LiveFrame(f)
    /\ slots[f[1]].owner = owner
    /\ FreeWithDescendants({f[1]})

CommitOrigin(f, origin) ==
    /\ LiveFrame(f)
    /\ slots' = [slots EXCEPT ![f[1]].origin = origin]
    /\ UNCHANGED next_group

TransferOwner(f, from, to) ==
    /\ LiveFrame(f)
    /\ slots[f[1]].owner = from
    /\ slots' = [slots EXCEPT ![f[1]].owner = to]
    /\ UNCHANGED next_group

ReleaseAll(c) == FreeWithDescendants(OwnedBy(c))

(* The slots that become Crashed when c dies: its frames that no dead      *)
(* frame embeds.  The embedded ones are freed.                             *)
CrashRoots(c) == OwnedBy(c) \ Descendants(OwnedBy(c))

CrashChannel(c) ==
    /\ LET roots == OwnedBy(c)
           doomed == Descendants(roots)
       IN slots' = [i \in Index |-> IF i \in doomed THEN Freed(slots[i])
                                    ELSE IF i \in roots THEN Crashed(slots[i])
                                    ELSE slots[i]]
    /\ UNCHANGED next_group

(* The notices crash_channel returns: (owner of the embedder, frame). *)
CrashNotices(c) ==
    {<<OwnerOf(slots[i].parent), Handle(i)>> :
        i \in {j \in CrashRoots(c) :
                  /\ slots[j].parent # None
                  /\ OwnerOf(slots[j].parent) \notin {None, c}}}

TreeNext ==
    \/ \E c \in ChannelId, i \in Index : Create(c, i)
    \/ CreateFull
    \/ \E c \in ChannelId, p \in FrameId, o \in Ordinal, i \in Index :
          CreateChild(c, p, o, i)
    \/ \E c \in ChannelId, p \in FrameId, o \in Ordinal :
          CreateChildFull(c, p, o)
    \/ \E c \in ChannelId, f \in FrameId : Destroy(c, f)
    \/ \E f \in FrameId, o \in Origin : CommitOrigin(f, o)
    \/ \E f \in FrameId, c, d \in ChannelId : TransferOwner(f, c, d)
    \/ \E c \in ChannelId : ReleaseAll(c)
    \/ \E c \in ChannelId : CrashChannel(c)

TreeSpec == TreeInit /\ [][TreeNext]_treeVars
-----------------------------------------------------------------------------
(* Properties *)

(* An owner is recorded exactly while a frame is live (the FrameSlot       *)
(* comment "Some only while lifecycle is Live"), whatever order of         *)
(* transfers, crashes and releases the slot went through.                  *)
OwnedIffLive ==
    \A i \in Index : slots[i].lifecycle = "Live" <=> slots[i].owner # None

(* The parent links form a forest whose inner nodes are live: the parent   *)
(* of every frame resolves at its generation, is not crashed, is one level *)
(* up and in the same group; a top-level frame is at depth 0.  A crash, a  *)
(* release or a slot reuse that left a child behind would break it.        *)
Forest ==
    \A i \in Index : slots[i].lifecycle # "Free" =>
        LET p == slots[i].parent IN
        IF p = None THEN slots[i].depth = 0
        ELSE /\ LiveFrame(p)
             /\ slots[i].depth = slots[p[1]].depth + 1
             /\ slots[i].group = slots[p[1]].group

(* A handle that has been handed out, and one that no longer resolves. *)
Minted(f) == f[2] <= slots[f[1]].generation

Dead(f) == Minted(f) /\ ~ Resolves(f)

(* No handle comes back: once a frame is gone its FrameId never resolves   *)
(* again, through slot reuse and generation overflow.                      *)
DeadHandlesStayDead == [][\A f \in FrameId : Dead(f) => Dead(f)']_treeVars

Place(slot) == <<slot.parent, slot.depth, slot.ordinal, slot.group>>

(* A FrameId is stable for the life of the frame: transfer, commit and     *)
(* crash never move it in the tree, to another group or to another slot.   *)
PlaceIsStable ==
    [][\A f \in FrameId : Resolves(f) /\ Resolves(f)' =>
          Place(slots'[f[1]]) = Place(slots[f[1]])]_treeVars

=============================================================================
