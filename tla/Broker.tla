------------------------------- MODULE Broker -------------------------------
(***************************************************************************)
(* The capability broker (crates/px-broker/src/lib.rs, Broker): the frame  *)
(* tree, the process pool, and what each channel hosts and may see.        *)
(*                                                                         *)
(* Every public operation that changes state is one action.  The channel   *)
(* of a request comes from the transport, so it is a parameter of its own; *)
(* any channel id the broker ever issued may still be used by a caller,    *)
(* and any handle may be named by a peer.  An operation that neither       *)
(* changes state nor writes the audit log is not an action.                *)
(*                                                                         *)
(* `plans` is the caller's state: the NeedsProcess answers it has been     *)
(* given and not yet answered with attach_process.  Spawning takes time,   *)
(* so any other operation may come between the two.                        *)
(***************************************************************************)
EXTENDS FrameTree, ProcessPool, Sequences

CONSTANTS
    AUDIT_CAPACITY,
    MaxPlans             \* bound on the spawns in flight

VARIABLES
    next_channel,
    open,       \* the channels in the capabilities map
    hosts,      \* ChannelCaps::hosts, {} for a channel not in the map
    visible,    \* ChannelCaps::visible
    audit,      \* denials, oldest first
    plans

capVars == <<open, hosts, visible>>
vars == <<treeVars, poolVars, capVars, next_channel, audit, plans>>

ASSUME BrokerAssumption ==
    AUDIT_CAPACITY \in Nat \ {0} /\ MaxPlans \in Nat

DenyReason == {"NotYourFrame", "NoSuchFrame", "UnknownChannel", "TooDeep",
               "FrameLimit", "NotAncestor", "NoProcessKey", "BadUrl", "Internal"}

TypeOK ==
    /\ TreeTypeOK
    /\ PoolTypeOK
    /\ next_channel \in 0 .. MaxChannel
    /\ open \in SUBSET ChannelId
    /\ hosts \in [ChannelId -> SUBSET FrameId]
    /\ visible \in [ChannelId -> SUBSET FrameId]
    /\ audit \in Seq(ChannelId \X DenyReason)
    /\ Len(audit) <= AUDIT_CAPACITY
    /\ plans \in SUBSET (FrameId \X ProcessKeys)

Init ==
    /\ TreeInit
    /\ PoolInit
    /\ next_channel = 0
    /\ open = {}
    /\ hosts = [c \in ChannelId |-> {}]
    /\ visible = [c \in ChannelId |-> {}]
    /\ audit = <<>>
    /\ plans = {}

(* Every channel id a caller can hold. *)
Issued == 0 .. next_channel - 1

-----------------------------------------------------------------------------
(* Authority *)

HoldsFrame(c, f) == OwnerOf(f) = c /\ c \in open /\ f \in hosts[c]

CanSee(c, f) == OwnerOf(f) # None /\ c \in open /\ f \in visible[c]

(* holds_frame for the frame or one of its ancestors. *)
MayNavigate(c, f) ==
    \E g \in {f} \cup Ancestors(f) : HoldsFrame(c, g)

Record(c, reason) ==
    audit' = Append(IF Len(audit) >= AUDIT_CAPACITY THEN Tail(audit) ELSE audit,
                    <<c, reason>>)

(* Mutant: the channel stays in the capabilities map. *)
RevokeAndPurge_StaysOpen(gone) ==
    /\ UNCHANGED open
    /\ hosts' = [c \in ChannelId |-> {f \in hosts[c] : OwnerOf(f)' = c}]
    /\ visible' = [c \in ChannelId |-> {f \in visible[c] : Resolves(f)'}]

(* Mutant: nobody else's references are purged. *)
RevokeAndPurge_NoPurge(gone) ==
    /\ open' = open \ {gone}
    /\ hosts' = [hosts EXCEPT ![gone] = {}]
    /\ visible' = [visible EXCEPT ![gone] = {}]

(* Drop the references of every channel but `gone` to frames that no       *)
(* longer exist, and host references to frames it no longer owns.  The     *)
(* capabilities of `gone` are removed.                                     *)
RevokeAndPurge(gone) ==
    /\ open' = open \ {gone}
    /\ hosts' = [c \in ChannelId |-> IF c = gone THEN {}
                    ELSE {f \in hosts[c] : OwnerOf(f)' = c}]
    /\ visible' = [c \in ChannelId |-> IF c = gone THEN {}
                    ELSE {f \in visible[c] : Resolves(f)'}]

(* Grant a frame just created to its channel. *)
GrantNew(c, i) ==
    LET f == Handle(i)' IN
    /\ hosts' = [hosts EXCEPT ![c] = @ \cup {f}]
    /\ visible' = [visible EXCEPT ![c] = @ \cup {f}]
    /\ UNCHANGED open

-----------------------------------------------------------------------------
(* Channels *)

OpenChannel ==
    /\ next_channel < MaxChannel
    /\ open' = open \cup {next_channel}
    /\ next_channel' = next_channel + 1
    /\ UNCHANGED <<treeVars, poolVars, hosts, visible, audit, plans>>

Close(c) == ReleaseAll(c) /\ Forget(c) /\ RevokeAndPurge(c)

CloseChannel(c) ==
    /\ Close(c)
    /\ UNCHANGED <<next_channel, audit, plans>>

ChannelDied(c) ==
    /\ CrashChannel(c)
    /\ Forget(c)
    /\ RevokeAndPurge(c)
    /\ UNCHANGED <<next_channel, audit, plans>>

-----------------------------------------------------------------------------
(* Frames *)

CreateFrame(c, i) ==
    /\ c \in open
    /\ Create(c, i)
    /\ GrantNew(c, i)
    /\ UNCHANGED <<poolVars, next_channel, audit, plans>>

CreateFrameFull(c) ==
    /\ c \in open
    /\ CreateFull
    /\ UNCHANGED <<poolVars, capVars, next_channel, audit, plans>>

(* dispatch_frame with CreateChildFrame: created, refused because no       *)
(* handle can be minted, or refused for one of the reasons of ChildDenial. *)
CreateChildFrame(c, parent, ordinal, i) ==
    /\ HoldsFrame(c, parent)
    /\ CreateChild(c, parent, ordinal, i)
    /\ GrantNew(c, i)
    /\ UNCHANGED <<poolVars, next_channel, audit, plans>>

CreateChildFrameFull(c, parent, ordinal) ==
    /\ HoldsFrame(c, parent)
    /\ CreateChildFull(c, parent, ordinal)
    /\ Record(c, "Internal")
    /\ UNCHANGED <<poolVars, capVars, next_channel, plans>>

GrantVisibility(viewer, f) ==
    /\ OwnerOf(f) # None
    /\ viewer \in open
    /\ visible' = [visible EXCEPT ![viewer] = @ \cup {f}]
    /\ UNCHANGED <<treeVars, poolVars, open, hosts, next_channel, audit, plans>>

-----------------------------------------------------------------------------
(* Process swaps *)

(* transfer_frame: the previous owner stops hosting the frame and, unless  *)
(* it hosts the parent, seeing it; the new owner does both; the parent's   *)
(* owner sees it.  Nothing moves when `to` already owns the frame or is    *)
(* not open.                                                               *)
Moves(f, to) == OwnerOf(f) # to /\ to \in open

(* Mutant: the previous owner keeps hosting the frame. *)
TransferCaps_Kept(f, to) ==
    /\ hosts' = [hosts EXCEPT ![to] = @ \cup {f}]
    /\ visible' = [visible EXCEPT ![to] = @ \cup {f}]
    /\ UNCHANGED open

TransferCaps(f, to) ==
    LET from == OwnerOf(f)
        embedder == IF ParentOf(f) = None THEN None ELSE OwnerOf(ParentOf(f))
    IN /\ hosts' = [c \in ChannelId |->
                       IF c = to THEN hosts[c] \cup {f}
                       ELSE IF c = from THEN hosts[c] \ {f}
                       ELSE hosts[c]]
       /\ visible' = [c \in ChannelId |->
                       IF c \in {to, embedder} \cap open THEN visible[c] \cup {f}
                       ELSE IF c = from THEN visible[c] \ {f}
                       ELSE visible[c]]
       /\ UNCHANGED open

(* The entry of the pool a document of `key` in frame f belongs to. *)
EntryFor(f, key) == <<slots[f[1]].group, key>>

(* commit_document, by the plan it answers.  The origin is         *)
(* recorded first, also when the commit is then refused.                   *)
CommitRefused(f, origin) ==
    /\ KeyOfDocument(f, origin) = None
    /\ CommitOrigin(f, origin)
    /\ UNCHANGED <<poolVars, capVars, next_channel, audit, plans>>

CommitInPlace(f, origin, key) ==
    /\ by_channel[OwnerOf(f)] = EntryFor(f, key)
    /\ CommitOrigin(f, origin)
    /\ UNCHANGED <<poolVars, capVars, next_channel, audit, plans>>

CommitTransferred(f, origin, key) ==
    /\ by_channel[OwnerOf(f)] # EntryFor(f, key)
    /\ Shared(EntryFor(f, key))
    /\ LET to == by_key[EntryFor(f, key)] IN
       IF Moves(f, to)
       THEN /\ slots' = [slots EXCEPT ![f[1]].origin = origin,
                                      ![f[1]].owner = to]
            /\ UNCHANGED next_group
            /\ TransferCaps(f, to)
       ELSE CommitOrigin(f, origin) /\ UNCHANGED capVars
    /\ UNCHANGED <<poolVars, next_channel, audit, plans>>

(* The first commit in a process that serves no key claims the key for it, *)
(* or is refused (FrameLimit) at the cap.                                  *)
CommitClaims(f, origin, key) ==
    /\ by_channel[OwnerOf(f)] = None
    /\ ~ Shared(EntryFor(f, key))
    /\ IF CanRegister(EntryFor(f, key), OwnerOf(f))
       THEN Register(EntryFor(f, key), OwnerOf(f))
       ELSE UNCHANGED poolVars
    /\ CommitOrigin(f, origin)
    /\ UNCHANGED <<capVars, next_channel, audit, plans>>

(* Mutant: a new process is asked for without a look into the pool. *)
CommitElsewhere_NoLookup(f, origin, key) ==
    /\ by_channel[OwnerOf(f)] \notin {None, EntryFor(f, key)}
    /\ CommitOrigin(f, origin)
    /\ IF AtCap THEN UNCHANGED plans
       ELSE /\ Cardinality(plans \cup {<<f, key>>}) <= MaxPlans
            /\ plans' = plans \cup {<<f, key>>}
    /\ UNCHANGED <<poolVars, capVars, next_channel, audit>>

(* NeedsProcess, or AtCap with no plan. *)
CommitElsewhere(f, origin, key) ==
    /\ by_channel[OwnerOf(f)] \notin {None, EntryFor(f, key)}
    /\ ~ Shared(EntryFor(f, key))
    /\ CommitOrigin(f, origin)
    /\ IF AtCap THEN UNCHANGED plans
       ELSE /\ Cardinality(plans \cup {<<f, key>>}) <= MaxPlans
            /\ plans' = plans \cup {<<f, key>>}
    /\ UNCHANGED <<poolVars, capVars, next_channel, audit>>

CommitDocument(f, origin) ==
    /\ OwnerOf(f) # None
    /\ \/ CommitRefused(f, origin)
       \/ \E key \in {KeyOfDocument(f, origin)} \cap ProcessKeys :
             \/ CommitInPlace(f, origin, key)
             \/ CommitTransferred(f, origin, key)
             \/ CommitClaims(f, origin, key)
             \/ CommitElsewhere(f, origin, key)

(* The caller answers a plan with a process: refused if the frame is gone, *)
(* the process is not open or the pool will not register it; otherwise the *)
(* process is registered, and the frame moves to it unless it has crashed. *)
AttachProcess(f, key, process) ==
    /\ plans' = plans \ {<<f, key>>}
    /\ IF /\ Resolves(f)
          /\ process \in open
          /\ CanRegister(EntryFor(f, key), process)
       THEN /\ Register(EntryFor(f, key), process)
            /\ IF OwnerOf(f) # None /\ Moves(f, process)
               THEN /\ TransferOwner(f, OwnerOf(f), process)
                    /\ TransferCaps(f, process)
               ELSE UNCHANGED <<treeVars, capVars>>
       ELSE UNCHANGED <<treeVars, poolVars, capVars>>
    /\ UNCHANGED <<next_channel, audit>>

-----------------------------------------------------------------------------
(* Refusals.  A request that is refused changes only the audit log; the    *)
(* reason it is refused for, None if it is not.  The frame vocabulary has  *)
(* no request besides the two below, so that the last arm of               *)
(* dispatch_frame (Internal) has none to refuse; commit_document answers   *)
(* NoProcessKey to the embedder and audits nothing.                        *)

ChildDenial(c, parent, ordinal) ==
    CASE c \notin open -> "UnknownChannel"
      [] c \in open /\ ~ HoldsFrame(c, parent) ->
            IF OwnerOf(parent) = None THEN "NoSuchFrame" ELSE "NotYourFrame"
      [] HoldsFrame(c, parent) ->
            IF NoParent(c, parent) THEN "NoSuchFrame"
            ELSE IF TooDeep(parent) THEN "TooDeep"
            ELSE IF OrdinalTaken(parent, ordinal) \/ TooManyChildren(parent)
                 THEN "FrameLimit" ELSE None

(* A channel that may navigate is refused only for a URL that does not     *)
(* parse.                                                                  *)
NavigateDenial(c, f) ==
    CASE c \notin open -> "UnknownChannel"
      [] c \in open /\ ~ LiveFrame(f) -> "NoSuchFrame"
      [] c \in open /\ LiveFrame(f) ->
            IF MayNavigate(c, f) THEN "BadUrl" ELSE "NotAncestor"

(* dispatch: Ping and Echo are refused on a closed channel only. *)
FrameHostDenial(c, f) ==
    CASE c \notin open -> "UnknownChannel"
      [] c \in open /\ CanSee(c, f) -> None
      [] c \in open /\ ~ CanSee(c, f) ->
            IF OwnerOf(f) = None THEN "NoSuchFrame" ELSE "NotYourFrame"

Denials(c) ==
    {ChildDenial(c, f, o) : f \in FrameId, o \in Ordinal}
        \cup {NavigateDenial(c, f) : f \in FrameId}
        \cup {FrameHostDenial(c, f) : f \in FrameId}

RequestDenied(c) ==
    /\ \E reason \in Denials(c) \cap DenyReason : Record(c, reason)
    /\ UNCHANGED <<treeVars, poolVars, capVars, next_channel, plans>>

(* dispatch_guarded catches a panic: the channel is closed, then audited. *)
DispatchPanics(c) ==
    /\ Close(c)
    /\ Record(c, "Internal")
    /\ UNCHANGED <<next_channel, plans>>

-----------------------------------------------------------------------------
Next ==
    \/ OpenChannel
    \/ \E c \in Issued : CloseChannel(c)
    \/ \E c \in Issued : ChannelDied(c)
    \/ \E c \in Issued, i \in Index : CreateFrame(c, i)
    \/ \E c \in Issued : CreateFrameFull(c)
    \/ \E c \in Issued, p \in FrameId, o \in Ordinal, i \in Index :
          CreateChildFrame(c, p, o, i)
    \/ \E c \in Issued, p \in FrameId, o \in Ordinal :
          CreateChildFrameFull(c, p, o)
    \/ \E c \in Issued, f \in FrameId : GrantVisibility(c, f)
    \/ \E f \in FrameId, o \in Origin : CommitDocument(f, o)
    \/ \E p \in plans, c \in Issued : AttachProcess(p[1], p[2], c)
    \/ \E c \in Issued : RequestDenied(c)
    \/ \E c \in Issued : DispatchPanics(c)

Spec == Init /\ [][Next]_vars
-----------------------------------------------------------------------------
(* Properties *)

(* The capability sets and the tree agree: a channel hosts exactly the     *)
(* frames the tree says it owns, and every owner is open.  Broker::frames  *)
(* is read-only "so that the capability sets and the tree cannot           *)
(* disagree"; any operation that updated one and not the other would.      *)
CapsMatchTree ==
    /\ \A c \in ChannelId : hosts[c] = {f \in FrameId : OwnerOf(f) = c}
    /\ \A f \in FrameId : OwnerOf(f) \in open \cup {None}

(* Hosting implies visibility, a closed channel sees nothing, and no set   *)
(* keeps a handle whose frame is gone (purge_dead_frames: the sets of a    *)
(* long-lived channel must not grow without bound).                        *)
VisibilityIsCurrent ==
    \A c \in ChannelId :
        /\ hosts[c] \subseteq visible[c]
        /\ \A f \in visible[c] : c \in open /\ Resolves(f)

(* A pool entry always leads to a running process and back: the two maps   *)
(* are inverse, every registered channel is open and the cap holds.  A     *)
(* commit can therefore never be told to share a process that is gone.     *)
PoolIsSound ==
    /\ MapsAreInverse
    /\ Registered \subseteq open
    /\ PoolBounded

(* Crash isolation: a frame stops running only in a step that closes the   *)
(* channel that hosts it or the one that hosts an ancestor of it.          *)
FramesOutliveOtherChannels ==
    [][slots' # slots => \A f \in FrameId : LiveFrame(f) /\ ~ LiveFrame(f)' =>
          \E g \in {f} \cup Ancestors(f) :
              OwnerOf(g) \in open /\ OwnerOf(g) \notin open']_treeVars

(* The process that hosts f serves the key of f's document. *)
WellPlaced(f) ==
    /\ KeyOf(f) # None
    /\ by_channel[OwnerOf(f)] = EntryFor(f, KeyOf(f))

(* f is hosted elsewhere although a process of its group serves the key of *)
(* its document.                                                           *)
Misplaced(f) ==
    LET key == KeyOf(f)
    IN  /\ key # None
        /\ Shared(EntryFor(f, key))
        /\ by_channel[OwnerOf(f)] # EntryFor(f, key)

(* A commit that returns never leaves its frame misplaced: whichever       *)
(* process claimed the key first, and whatever crashed, closed or moved    *)
(* since, frames with equal keys in a group come together as they commit   *)
(* (commit_document, plan_other_process; ADR 045 section 1).               *)
CommitsShareProcesses ==
    [][\A f \in FrameId :
          Misplaced(f)' => ~ \E o \in Origin : CommitDocument(f, o)]_vars

(* While a process hosts a frame the key it serves does not change under   *)
(* the frame: what a channel claimed it serves until it is closed.         *)
ServedKeyIsStable ==
    [][\A c \in ChannelId :
          by_channel[c] # None /\ by_channel'[c] # by_channel[c] =>
              c \notin open']_poolVars

(* The broker implements the abstract authority: handles minted once, held *)
(* by one open channel, lost for good.                                     *)
Authority ==
    INSTANCE FrameAuthority WITH
        Channel <- ChannelId,
        Frame <- FrameId,
        Nobody <- None,
        connected <- open,
        spent <- Issued,
        minted <- {f \in FrameId : Minted(f)},
        holder <- [f \in FrameId |-> OwnerOf(f)]

AuthoritySpec == Authority!ASpec
-----------------------------------------------------------------------------
(* What comments and design documents say and the code does not do. *)

(* ADR 045 section 1: "Frames with equal keys in one browsing context      *)
(* group share a process; anything else gets its own".  A commit in a      *)
(* top-level frame changes the key of every frame below it, and those      *)
(* frames stay where they are.                                             *)
PlacementIsKept ==
    [][\A f \in FrameId :
          /\ WellPlaced(f)
          /\ LiveFrame(f)'
          /\ slots'[f[1]].origin = slots[f[1]].origin
          => WellPlaced(f)']_vars

(* The same line of ADR 045, of the frames that move: the process a frame  *)
(* is moved to serves the key of its document.  attach_process moves it    *)
(* for the key of an earlier NeedsProcess answer and does not look at what *)
(* the frame has committed since.                                          *)
TransfersFollowKeys ==
    [][\A f \in FrameId :
          LiveFrame(f) /\ LiveFrame(f)' /\ OwnerOf(f)' # OwnerOf(f) =>
              WellPlaced(f)']_vars
=============================================================================
