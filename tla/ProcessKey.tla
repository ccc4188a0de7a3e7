----------------------------- MODULE ProcessKey -----------------------------
(***************************************************************************)
(* Identifiers of the broker and the key of a content process              *)
(* (crates/px-broker/src/site.rs, ProcessKey).                             *)
(*                                                                         *)
(* Every integer counter of the code keeps its overflow behaviour: the     *)
(* largest value of its type is a constant here, and reaching it is the    *)
(* `None` of the code's checked_add.                                       *)
(***************************************************************************)
EXTENDS Integers, Option

CONSTANTS
    MaxChannel,         \* stands for u64::MAX in ChannelId
    MaxGroup,           \* stands for u64::MAX in GroupId
    Origin,             \* committed origins, px_websec::Origin
    RegistrableDomain   \* SiteResolver and Origin::host: the site of an origin,
                        \* None for an IP literal, a bare suffix, an opaque origin

ChannelId == 0 .. MaxChannel - 1

GroupId == 0 .. MaxGroup - 1

Site == {RegistrableDomain[o] : o \in Origin} \ {None}

ProcessKeys == Site \X Origin

(* A process entry of the pool: (group, key). *)
Entry == GroupId \X ProcessKeys

ASSUME IdentifierAssumption ==
    /\ MaxChannel \in Nat \ {0}
    /\ MaxGroup \in Nat \ {0}
    /\ RegistrableDomain \in [Origin -> {RegistrableDomain[o] : o \in Origin}]
    /\ None \notin Int \cup Origin \cup ProcessKeys \cup Entry

(* The key of a document of `origin` in a page whose top level is          *)
(* `topLevel`; None when the top level has no registrable domain.          *)
NewProcessKey(topLevel, origin) ==
    IF RegistrableDomain[topLevel] = None
    THEN None
    ELSE <<RegistrableDomain[topLevel], origin>>
=============================================================================
