------------------------------- MODULE Update -------------------------------
(***************************************************************************)
(* The update client of px-update (client.rs, trust.rs): a check asks the  *)
(* mirrors one after another for the signed manifest, catches up with the  *)
(* key rotations it has missed, and accepts a release; what the release    *)
(* offers is then downloaded.  The client is pure: it returns the state    *)
(* and the trust to store, and a crash before they are stored loses them.  *)
(*                                                                         *)
(* The publisher, the mirrors, the clock and the caller of the client are  *)
(* the environment.  A mirror answers with any document the publisher ever *)
(* signed, with the signature file of another one, with a document that is *)
(* out of its time window, with something that does not parse, or not at   *)
(* all.  Of the clock, the model keeps what the code asks it.             *)
(***************************************************************************)
EXTENDS Integers, Sequences, FiniteSets, Option

CONSTANTS Mirror,                   \* the configured mirrors, 1 .. n
          GoodMirror,               \* the one that recovers for good
          Key, Chains,              \* keys, and the key sets of each epoch
          MAX_FAILURES, MAX_KEYS, MAX_ROTATIONS_PER_CHECK,
          MaxSequence, MaxVersion   \* bounds on what is published

ASSUME MirrorAssumption == Mirror \subseteq Nat \ {0} /\ GoodMirror \in Mirror
ASSUME LimitAssumption ==
    /\ MAX_FAILURES \in Nat \ {0} /\ MAX_ROTATIONS_PER_CHECK \in Nat
    /\ MaxSequence \in Nat \ {0} /\ MaxVersion \in Nat

(* A chain of key sets that a publisher may sign for: every set is valid   *)
(* and no key that was dropped comes back.                                 *)
validate_set(set) ==
    /\ Cardinality(set.keys) \in 1 .. MAX_KEYS
    /\ set.threshold \in 1 .. Cardinality(set.keys)

Dropped(c, e) == (UNION {c[i].keys : i \in 1 .. e}) \ c[e].keys

ASSUME ChainAssumption ==
    \A c \in Chains :
        /\ c \in Seq([keys : SUBSET Key, threshold : Nat]) /\ c # << >>
        /\ \A e \in DOMAIN c :
              /\ validate_set(c[e])
              /\ \A f \in 1 .. e : c[e].keys \cap Dropped(c, f) = {}

VARIABLES
    chain, rotated, releases, settled,        \* the publisher and the world
    floor_blocks, due,                        \* what the clock says
    state, trust,                             \* what is stored
    doing, check,                                \* the call in progress
    pending, accepted                         \* the decision; a history of it

worldVars == <<chain, rotated, releases, settled>>
clockVars == <<floor_blocks, due>>
updateVars == <<worldVars, clockVars, state, trust, doing, check, pending, accepted>>
-----------------------------------------------------------------------------
(* Documents *)

RotationTo(e) ==
    [type |-> "rotation", key_epoch |-> e, keys |-> chain[e].keys,
     threshold |-> chain[e].threshold]

Published == {releases[i] : i \in DOMAIN releases} \cup {RotationTo(e) : e \in 2 .. rotated}

(* A release is signed by the set of its epoch, a rotation by the one      *)
(* before it.                                                              *)
Signers(doc) ==
    chain[IF doc.type = "release" THEN doc.key_epoch ELSE doc.key_epoch - 1].keys

Newest == releases[Len(releases)]

(* fetch_signed: a document and its signature file, inside the document's  *)
(* window or not, or a document with the signature file of another one (it *)
(* does not matter which).                                                 *)
Answer == [doc : Published, signed : {TRUE}, fresh : BOOLEAN]
          \cup [doc : {Newest}, signed : {FALSE}, fresh : {TRUE}]

(* No answer, one above the cap, or a signature file that does not parse.  *)
FetchMayFail(m) == settled => m # GoodMirror

(* Once the world has settled old releases are expired, and one mirror     *)
(* serves what it is asked for.                                            *)
MayServe(m, wanted, answer) ==
    settled =>
        /\ answer.fresh = (answer.doc.type = "rotation" \/ answer.doc = Newest)
        /\ m = GoodMirror => answer = [doc |-> wanted, signed |-> TRUE, fresh |-> TRUE]
-----------------------------------------------------------------------------
(* Trust *)

verify(t, answer) ==
    answer.signed /\ Cardinality(Signers(answer.doc) \cap t.keys) >= t.threshold

open_release(t, answer) ==
    CASE ~ verify(t, answer) -> "ThresholdNotMet"
      [] verify(t, answer) /\ ~ answer.fresh -> "Expired"
      [] verify(t, answer) /\ answer.fresh /\ answer.doc.type = "rotation" -> "WrongType"
      [] OTHER -> IF answer.doc.key_epoch = t.epoch THEN "Ok" ELSE "EpochMismatch"

(* Mutant: any later epoch will do. *)
Rotates_Skips(t, answer) ==
    /\ verify(t, answer) /\ answer.fresh /\ answer.doc.type = "rotation"
    /\ answer.doc.key_epoch > t.epoch
    /\ validate_set(answer.doc)
    /\ answer.doc.keys \cap t.revoked = {}

Rotates(t, answer) ==
    /\ verify(t, answer) /\ answer.fresh /\ answer.doc.type = "rotation"
    /\ answer.doc.key_epoch = t.epoch + 1
    /\ validate_set(answer.doc)
    /\ answer.doc.keys \cap t.revoked = {}

apply_rotation(t, doc) ==
    [epoch |-> doc.key_epoch, keys |-> doc.keys, threshold |-> doc.threshold,
     revoked |-> t.revoked \cup (t.keys \ doc.keys)]
-----------------------------------------------------------------------------
(* The mirrors.  They are tried fewest failures first, ties in configured    *)
(* order.                                                                  *)

Before(failures, i, j) ==
    failures[i] < failures[j] \/ (failures[i] = failures[j] /\ i <= j)

NextMirror ==
    CHOOSE i \in check.untried : \A j \in check.untried : Before(check.failures, i, j)

charge(failures, m) ==
    [failures EXCEPT ![m] = IF @ < MAX_FAILURES THEN @ + 1 ELSE MAX_FAILURES]

clear(failures, m) == [failures EXCEPT ![m] = 0]
-----------------------------------------------------------------------------
NoCheck == [trust |-> None, failures |-> None, untried |-> {}, manifest |-> None,
            rotations |-> 0, file |-> None]

FirstRelease ==
    [type |-> "release", sequence |-> 1, key_epoch |-> 1, version |-> 0,
     data |-> 0, artifact |-> TRUE]

UpdateInit ==
    /\ chain \in Chains
    /\ rotated = 1 /\ releases = <<FirstRelease>> /\ settled = FALSE
    /\ floor_blocks = FALSE /\ due = TRUE
    /\ state = [installed |-> 0, max_sequence |-> 0, data |-> 0,
                failures |-> [m \in Mirror |-> 0]]
    /\ trust = [epoch |-> 1, keys |-> chain[1].keys,
                threshold |-> chain[1].threshold, revoked |-> {}]
    /\ doing = "Idle" /\ check = NoCheck
    /\ pending = {} /\ accepted = 0
-----------------------------------------------------------------------------
(* check *)

(* A scheduled check that is not due, and any check within the retry floor *)
(* of the last attempt, changes nothing.                                   *)
Check(trigger) ==
    /\ doing = "Idle" /\ pending = {}
    /\ ~ floor_blocks
    /\ trigger = "Scheduled" => due
    /\ doing' = "Manifest"
    /\ check' = [NoCheck EXCEPT !.trust = trust, !.failures = state.failures,
                                !.untried = Mirror]
    /\ UNCHANGED <<worldVars, clockVars, state, trust, pending, accepted>>

(* Mutant: only an accepted check hands back the trust it reached. *)
Rejected_DropsTrust(failures) ==
    /\ state' = [state EXCEPT !.failures = failures]
    /\ UNCHANGED trust
    /\ floor_blocks' = TRUE /\ UNCHANGED due
    /\ doing' = "Idle" /\ check' = NoCheck

(* The last mirror failed too: failure counts, the time of the attempt and *)
(* the rotations that were verified are kept.                              *)
Rejected(failures) ==
    /\ state' = [state EXCEPT !.failures = failures]
    /\ trust' = check.trust
    /\ floor_blocks' = TRUE /\ UNCHANGED due
    /\ doing' = "Idle" /\ check' = NoCheck

MirrorFails ==
    LET m == NextMirror
        failures == charge(check.failures, m) IN
    /\ IF check.untried = {m} THEN Rejected(failures)
       ELSE /\ doing' = "Manifest"
            /\ check' = [check EXCEPT !.failures = failures, !.untried = @ \ {m},
                                      !.manifest = None, !.rotations = 0]
            /\ UNCHANGED <<clockVars, state, trust>>
    /\ UNCHANGED <<worldVars, pending, accepted>>

ManifestFails ==
    /\ doing = "Manifest"
    /\ FetchMayFail(NextMirror)
    /\ MirrorFails

FetchManifest ==
    /\ doing = "Manifest"
    /\ \E answer \in Answer :
          /\ MayServe(NextMirror, Newest, answer)
          /\ check' = [check EXCEPT !.manifest = answer]
    /\ doing' = "Open"
    /\ UNCHANGED <<worldVars, clockVars, state, trust, pending, accepted>>

Opened == open_release(check.trust, check.manifest)

MayBeNewer == Opened \in {"ThresholdNotMet", "EpochMismatch"}

(* Possibly signed under a newer epoch: one rotation at a time.            *)
CatchUp ==
    /\ doing = "Open" /\ MayBeNewer
    /\ check.rotations < MAX_ROTATIONS_PER_CHECK
    /\ doing' = "Rotation"
    /\ UNCHANGED <<worldVars, clockVars, state, trust, check, pending, accepted>>

EnvelopeFails ==
    /\ doing = "Open"
    /\ \/ MayBeNewer /\ check.rotations >= MAX_ROTATIONS_PER_CHECK
       \/ Opened \in {"Expired", "WrongType"}
    /\ MirrorFails

(* rotation-N.txt, where N is the next epoch. *)
NextIsOut == check.trust.epoch < rotated

RotationAnswer(answer) ==
    NextIsOut => MayServe(NextMirror, RotationTo(check.trust.epoch + 1), answer)

FetchRotation ==
    /\ doing = "Rotation"
    /\ \E answer \in Answer :
          /\ RotationAnswer(answer)
          /\ Rotates(check.trust, answer)
          /\ check' = [check EXCEPT !.trust = apply_rotation(@, answer.doc),
                                    !.rotations = @ + 1]
    /\ doing' = "Open"
    /\ UNCHANGED <<worldVars, clockVars, state, trust, pending, accepted>>

RotationFails ==
    /\ doing = "Rotation"
    /\ \/ ~ NextIsOut \/ FetchMayFail(NextMirror)
       \/ \E answer \in Answer : RotationAnswer(answer) /\ ~ Rotates(check.trust, answer)
    /\ MirrorFails

(* Mutant: the sequence is not compared. *)
GoesBack_VersionOnly(release) ==
    release.version < state.installed \/ release.data < state.data

GoesBack(release) ==
    \/ release.sequence < state.max_sequence
    \/ release.version < state.installed
    \/ release.data < state.data

(* A manifest of another channel, or an older one. *)
ReleaseRefused ==
    /\ doing = "Open" /\ Opened = "Ok"
    /\ FetchMayFail(NextMirror) \/ GoesBack(check.manifest.doc)
    /\ MirrorFails

Offered(release) ==
    (IF release.artifact /\ release.version > state.installed THEN {"release"} ELSE {})
    \cup (IF release.data > state.data THEN {"data"} ELSE {})

(* The verified release stays with the decision while it offers a file.    *)
Decided(files) ==
    IF files = {} THEN NoCheck ELSE [NoCheck EXCEPT !.manifest = check.manifest]

ReleaseAccepted ==
    LET release == check.manifest.doc IN
    /\ doing = "Open" /\ Opened = "Ok"
    /\ ~ GoesBack(release)
    /\ state' = [state EXCEPT
                    !.failures = clear(check.failures, NextMirror),
                    !.max_sequence = IF @ < release.sequence THEN release.sequence ELSE @]
    /\ trust' = check.trust
    /\ floor_blocks' = TRUE /\ due' \in {FALSE, due}
    /\ pending' = Offered(release) /\ accepted' = release.sequence
    /\ doing' = "Idle" /\ check' = Decided(pending')
    /\ UNCHANGED worldVars
-----------------------------------------------------------------------------
(* download, and the caller that records what it has installed.            *)

Download(file) ==
    /\ doing = "Idle" /\ file \in pending
    /\ doing' = "Download"
    /\ check' = [check EXCEPT !.failures = state.failures, !.untried = Mirror,
                              !.file = file]
    /\ UNCHANGED <<worldVars, clockVars, state, trust, pending, accepted>>

Larger(x, y) == IF x < y THEN y ELSE x

Recorded(release) ==
    IF check.file = "release" THEN [state EXCEPT !.installed = Larger(@, release.version)]
    ELSE [state EXCEPT !.data = Larger(@, release.data)]

DownloadEnds(failures, recorded) ==
    /\ state' = [recorded EXCEPT !.failures = failures]
    /\ pending' = pending \ {check.file}
    /\ doing' = "Idle"
    /\ check' = Decided(pending')

(* The body has the size and both digests of the manifest's entry.         *)
BodyVerified ==
    /\ doing = "Download"
    /\ DownloadEnds(clear(check.failures, NextMirror), Recorded(check.manifest.doc))
    /\ due' \in IF check.file = "data" THEN {FALSE, due} ELSE {due}
    /\ UNCHANGED <<worldVars, floor_blocks, trust, accepted>>

BodyFails ==
    LET m == NextMirror
        failures == charge(check.failures, m) IN
    /\ doing = "Download"
    /\ FetchMayFail(m)
    /\ IF check.untried = {m} THEN DownloadEnds(failures, state)
       ELSE /\ check' = [check EXCEPT !.failures = failures, !.untried = @ \ {m}]
            /\ UNCHANGED <<doing, state, pending>>
    /\ UNCHANGED <<worldVars, clockVars, trust, accepted>>
-----------------------------------------------------------------------------
(* The world *)

PublishRelease ==
    /\ ~ settled /\ Len(releases) < MaxSequence
    /\ \E version \in {Newest.version, Newest.version + 1},
          data \in {Newest.data, Newest.data + 1}, artifact \in BOOLEAN :
          /\ version <= MaxVersion /\ data <= MaxVersion
          /\ releases' = Append(releases,
                [type |-> "release", sequence |-> Len(releases) + 1,
                 key_epoch |-> rotated, version |-> version, data |-> data,
                 artifact |-> artifact])
    /\ UNCHANGED <<chain, rotated, settled, clockVars, state, trust, doing, check,
                   pending, accepted>>

PublishRotation ==
    /\ ~ settled /\ rotated < Len(chain)
    /\ rotated' = rotated + 1
    /\ UNCHANGED <<chain, releases, settled, clockVars, state, trust, doing, check,
                   pending, accepted>>

(* The publisher has signed a release under its last key set and is done.  *)
Settle ==
    /\ ~ settled /\ Newest.key_epoch = rotated
    /\ doing = "Idle"
    /\ settled' = TRUE
    /\ UNCHANGED <<chain, rotated, releases, clockVars, state, trust, doing, check,
                   pending, accepted>>

(* The retry floor has passed, and the cadence or the age a data file may  *)
(* have.                                                                   *)
TimePasses ==
    /\ doing = "Idle"
    /\ floor_blocks' = FALSE /\ due' = TRUE
    /\ UNCHANGED <<worldVars, state, trust, doing, check, pending, accepted>>

(* Less time passes, or the clock is set back: behind the last attempt or  *)
(* check, which then does not hold back the next, or after it.             *)
ClockMoves ==
    /\ ~ settled /\ doing = "Idle"
    /\ floor_blocks' \in BOOLEAN /\ due' \in BOOLEAN
    /\ UNCHANGED <<worldVars, state, trust, doing, check, pending, accepted>>

(* The process ends: what the call in progress reached, and what was still *)
(* to be downloaded, is gone.                                              *)
BrowserStops ==
    /\ ~ settled
    /\ doing # "Idle" \/ pending # {}
    /\ doing' = "Idle" /\ check' = NoCheck /\ pending' = {}
    /\ UNCHANGED <<worldVars, clockVars, state, trust, accepted>>
-----------------------------------------------------------------------------
ClientStep ==
    \/ Check("Scheduled") \/ ManifestFails \/ FetchManifest \/ CatchUp \/ EnvelopeFails
    \/ FetchRotation \/ RotationFails \/ ReleaseRefused \/ ReleaseAccepted
    \/ \E file \in {"release", "data"} : Download(file)
    \/ BodyVerified \/ BodyFails

UpdateNext ==
    \/ ClientStep \/ Check("Manual")
    \/ PublishRelease \/ PublishRotation \/ Settle
    \/ TimePasses \/ ClockMoves \/ BrowserStops

UpdateSpec == UpdateInit /\ [][UpdateNext]_updateVars

(* The caller keeps making scheduled checks and downloading, and time      *)
(* passes.                                                                 *)
UpdateFairSpec == UpdateSpec /\ WF_updateVars(ClientStep) /\ WF_updateVars(TimePasses)
-----------------------------------------------------------------------------
(* Properties *)

TrustOf(t) ==
    t = [epoch |-> t.epoch, keys |-> chain[t.epoch].keys,
         threshold |-> chain[t.epoch].threshold, revoked |-> Dropped(chain, t.epoch)]

(* The keys the client trusts, stored or in the middle of a check, are     *)
(* exactly the set the publisher gave out for that epoch, and every key    *)
(* dropped on the way there is known to be revoked: no answer of a mirror, *)
(* in whatever order, makes a client miss a rotation (apply_rotation).     *)
TrustIsPublished ==
    /\ TrustOf(trust) /\ trust.epoch <= rotated
    /\ check.trust # None => TrustOf(check.trust) /\ check.trust.epoch <= rotated

(* A release that a check accepts is never older than one an earlier check *)
(* accepted and stored ("Never go backwards"), across mirrors that lag     *)
(* behind, rotations and crashes.                                          *)
NeverBackwards == [][accepted' >= accepted]_updateVars

CaughtUp ==
    /\ trust.epoch = rotated /\ state.max_sequence = Len(releases)
    /\ state.data = Newest.data
    /\ Newest.artifact => state.installed = Newest.version

(* One working mirror is enough: however many rotations the client missed  *)
(* and whatever the other mirrors answer, it gets to the newest key set    *)
(* and release, a few rotations a check.  Once settled (MayServe), older   *)
(* manifests are taken to have expired, and the rotations up to the newest *)
(* not to: a client offline for longer than a rotation's validity is       *)
(* stranded (ADR 041, Consequences).  It rests on a rotation being kept    *)
(* when the check that brought it is then rejected (client.rs, Outcome).   *)
CatchesUp == settled ~> CaughtUp
=============================================================================
