-------------------------- MODULE MigrationProofs ---------------------------
(***************************************************************************)
(* Proofs about the migration of a profile, for every number of names,     *)
(* files and writes.  The invariant says, for every point a run may stop   *)
(* at, what the new profile, the staging directory and the marker hold.    *)
(***************************************************************************)
EXTENDS Migration, WellFoundedInduction, TLAPS

(* A leaf that names no prover is tried with these, in turn.              *)
USE ZenonT(2), SMTT(30), Z3T(30), ZenonT(30)

(* Finite sets of numbers have ends: Min and Max are in them.              *)

LEMMA Least ==
    ASSUME NEW T, T \subseteq Nat, T # {}
    PROVE  \E x \in T : \A y \in T : x <= y
<1> DEFINE R == OpToRel(<, Nat)
<1>1. IsWellFoundedOn(R, Nat)
  BY NatLessThanWellFounded
<1>2. \A x, y \in Nat : <<y, x>> \in R <=> y < x
  BY DEF OpToRel
<1> HIDE DEF R
<1>3. PICK x \in T : \A y \in T : ~ (<<y, x>> \in R)
  BY <1>1, WFMin
<1>4. \A y \in T : x \in Nat /\ y \in Nat /\ ~ (y < x)
  BY <1>2, <1>3
<1>5. \A y \in T : x <= y
  BY <1>4
<1> QED
  BY <1>5

LEMMA MinIn ==
    ASSUME NEW T, T \subseteq Nat, T # {}
    PROVE  Min(T) \in T
BY Least DEF Min

LEMMA MaxIn ==
    ASSUME NEW n \in Nat, NEW T, T \subseteq 1 .. n, T # {}
    PROVE  Max(T) \in T
<1> DEFINE U == {k \in 0 .. n : n - k \in T}
<1>0. U \subseteq Nat
  OBVIOUS
<1>1. U # {}
  <2>1. PICK t \in T : TRUE
    OBVIOUS
  <2>2. n - t \in 0 .. n /\ n - (n - t) = t
    BY <2>1
  <2>3. n - t \in U
    BY <2>1, <2>2
  <2> QED
    BY <2>3
<1> HIDE DEF U
<1>2. PICK k \in U : \A j \in U : k <= j
  BY <1>0, <1>1, Least
<1>3. n - k \in T /\ k \in Nat
  BY <1>2 DEF U
<1>4. \A t \in T : n - k >= t
  <2> SUFFICES ASSUME NEW t \in T
               PROVE  n - k >= t
    OBVIOUS
  <2>1. t \in 1 .. n
    OBVIOUS
  <2>2. n - t \in 0 .. n /\ n - (n - t) = t
    BY <2>1
  <2>3. n - t \in U
    BY <2>2 DEF U
  <2>4. k <= n - t
    BY <1>2, <2>3
  <2> QED
    BY <1>3, <2>1, <2>4
<1>5. \E x \in T : \A y \in T : x >= y
  BY <1>3, <1>4
<1> QED
  BY <1>5 DEF Max

(* What has been written.                                                  *)
Written == Name \X File \X (0 .. writes)

FilesOf(W) == [File -> W \cup {None}]

MarkerOf(W) == [from : Name, manifest : FilesOf(W)]

ProfileOf(W) == [files : FilesOf(W), marker : MarkerOf(W) \cup {None}]

(* Types, and no content from the future.                                  *)
TypesInv ==
    /\ version \in Name /\ writes \in 0 .. MaxWrites /\ owed \subseteq Written
    /\ dir \in [Name -> ProfileOf(Written) \cup {None}]
    /\ staging \in ProfileOf(Written) \cup {None}
    /\ manifest \in FilesOf(Written)
    /\ todo \subseteq File /\ checked \in File \cup {None}
    /\ mig_pc \in {"Off", "Scan", "RemoveEmpty", "Stage", "Copy", "Verify", "Commit", "Clean", "InUse"}

(* A profile with a marker came from an older one without, and still holds *)
(* what it took over and nobody has written since.                         *)
TakenOver(n) ==
    LET m == dir[n].marker
    IN  /\ m.from \in 1 .. n - 1
        /\ dir[m.from] # None => dir[m.from].marker = None
        /\ \A f \in File :
              m.manifest[f] # None /\ m.manifest[f] \in owed \ raced
                 => dir[n].files[f] = m.manifest[f]

MarkersInv ==
    /\ \A n \in Name : dir[n] # None /\ dir[n].marker # None => TakenOver(n)
    /\ \A n \in Name : n > version => dir[n] = None

(* What a run relies on, by where it is.                                   *)
RunInv ==
    /\ mig_pc \notin {"Off", "InUse"} => source \in 1 .. version - 1 /\ dir[source] # None
    /\ mig_pc \notin {"Off", "InUse", "Scan"} => dir[source].marker = None
    /\ mig_pc # "Clean" => checked = None
    /\ mig_pc \in {"Stage", "Copy", "Verify", "Commit"} => dir[version] = None
    /\ mig_pc \in {"Copy", "Verify", "Commit"} => staging # None
    /\ mig_pc \in {"Verify", "Commit"} => staging.files = manifest
    /\ mig_pc = "Commit" => staging.marker = [from |-> source, manifest |-> manifest]

CleanInv ==
    mig_pc = "Clean" =>
        /\ dir[version] # None
        /\ dir[version].marker = [from |-> source, manifest |-> manifest]
        /\ todo \subseteq Present(manifest) /\ checked \in todo \cup {None}
        /\ checked # None => \/ dir[source].files[checked] = manifest[checked]
                             \/ dir[source].files[checked] \in raced

MigInv == TypesInv /\ MarkersInv /\ RunInv /\ CleanInv /\ NothingLost

-----------------------------------------------------------------------------
(* Types.  The sets of contents, files and profiles grow with the writes.  *)

LEMMA TypesGrow ==
    ASSUME NEW V, NEW W, V \subseteq W
    PROVE  /\ FilesOf(V) \subseteq FilesOf(W)
           /\ ProfileOf(V) \subseteq ProfileOf(W)
<1>1. FilesOf(V) \subseteq FilesOf(W)
  BY DEF FilesOf
<1> QED
  BY <1>1 DEF ProfileOf, MarkerOf

LEMMA ProfileParts ==
    ASSUME NEW W, NEW p \in ProfileOf(W)
    PROVE  /\ p.files \in FilesOf(W)
           /\ p.marker \in MarkerOf(W) \cup {None}
           /\ p.marker # None => p.marker.from \in Name /\ p.marker.manifest \in FilesOf(W)
BY DEF ProfileOf, MarkerOf, FilesOf

WithFile(p, f, c) == [p EXCEPT !.files[f] = c]

LEMMA SetFile ==
    ASSUME NEW W, NEW p \in ProfileOf(W), NEW f \in File, NEW c \in W \cup {None}
    PROVE  /\ WithFile(p, f, c) \in ProfileOf(W) /\ WithFile(p, f, c).marker = p.marker
           /\ WithFile(p, f, c).files[f] = c
           /\ \A g \in File : g # f => WithFile(p, f, c).files[g] = p.files[g]
BY DEF ProfileOf, MarkerOf, FilesOf, WithFile

LEMMA EmptyTypes ==
    ASSUME NEW W
    PROVE  EmptyProfile \in ProfileOf(W) /\ NoFiles \in FilesOf(W) /\ EmptyProfile.marker = None
           /\ \A f \in File : EmptyProfile.files[f] = None
BY DEF EmptyProfile, NoFiles, ProfileOf, FilesOf

LEMMA NotAProfile ==
    ASSUME writes \in 0 .. MaxWrites
    PROVE  None \notin ProfileOf(Written)
<1>1. Written \subseteq Content
  BY MigAssumption DEF Written, Content
<1>2. ProfileOf(Written) \subseteq ProfileOf(Content)
  BY <1>1, TypesGrow
<1>3. ProfileOf(Content) = Profile
  BY DEF ProfileOf, MarkerOf, FilesOf, Profile, Marker, Files
<1> QED
  BY <1>2, <1>3, MigAssumption

LEMMA NotAMarker ==
    ASSUME writes \in 0 .. MaxWrites
    PROVE  None \notin MarkerOf(Written)
<1>1. Written \subseteq Content
  BY MigAssumption DEF Written, Content
<1>2. MarkerOf(Written) \subseteq Marker
  BY <1>1 DEF MarkerOf, FilesOf, Marker, Files
<1> QED
  BY <1>2, MigAssumption

-----------------------------------------------------------------------------
(* Steps.  Those that leave the profiles alone concern the run only.       *)

LEMMA EndsTypes ==
    ASSUME TypesInv, NEW pc \in {"Off", "InUse"}, Ends(pc),
           UNCHANGED <<version, dir, writes, owed>>, staging' \in {staging, None}
    PROVE  TypesInv' /\ RunInv' /\ CleanInv'
<1>1. Written' = Written
  BY DEF Written
<1>2. TypesInv'
  BY <1>1, EmptyTypes DEF TypesInv, Ends
<1> QED
  BY <1>2 DEF RunInv, CleanInv, Ends

LEMMA QuietStep ==
    ASSUME MigInv, UNCHANGED <<version, dir, history>>, TypesInv', RunInv', CleanInv'
    PROVE  MigInv'
<1>1. MarkersInv'
  BY DEF MigInv, MarkersInv, TakenOver, history
<1>2. NothingLost'
  BY DEF MigInv, NothingLost, Held, history
<1> QED
  BY <1>1, <1>2 DEF MigInv

(* The start of a run, and the scan.                                       *)
Finding ==
    \/ FindsMarker \/ FindsProfile \/ FindsNoLegacy \/ FindsLegacy
    \/ ScanRefuses \/ ScanFile \/ Scanned

LEMMA FindingInv ==
    ASSUME MigInv, Finding
    PROVE  MigInv'
<1>0. TypesInv /\ MarkersInv /\ RunInv /\ CleanInv
  BY DEF MigInv
<1>1. UNCHANGED <<version, dir, history>> /\ staging' \in {staging, None}
  BY DEF Finding, FindsMarker, FindsProfile, FindsNoLegacy, FindsLegacy, ScanRefuses, ScanFile, Scanned
<1>2. Written' = Written /\ UNCHANGED <<version, dir, writes, owed>>
  BY <1>1 DEF Written, history
<1>3. ASSUME NEW pc \in {"Off", "InUse"}, Ends(pc)
      PROVE  MigInv'
  BY <1>0, <1>1, <1>2, <1>3, EndsTypes, QuietStep
<1>4. CASE FindsProfile \/ FindsNoLegacy \/ ScanRefuses
  BY <1>3, <1>4 DEF FindsProfile, FindsNoLegacy, ScanRefuses
<1>5. CASE FindsMarker
  <2>1. CASE dir[Dest.marker.from] = None
    BY <1>3, <1>5, <2>1 DEF FindsMarker
  <2>2. CASE dir[Dest.marker.from] # None
    <3>1. /\ mig_pc' = "Clean" /\ source' = Dest.marker.from
          /\ manifest' = Dest.marker.manifest /\ todo' = Present(manifest')
          /\ checked' = checked /\ staging' = staging /\ mig_pc = "Off"
      BY <1>5, <2>2 DEF FindsMarker
    <3>2. Dest \in ProfileOf(Written) /\ Dest # None /\ Dest.marker # None
      BY <1>0, <1>5 DEF FindsMarker, TypesInv, Dest
    <3>3. TakenOver(version)
      BY <1>0, <3>2 DEF MarkersInv, Dest, TypesInv
    <3>4. Dest.marker \in MarkerOf(Written) /\ manifest' \in FilesOf(Written)
      BY <3>1, <3>2, ProfileParts
    <3>5. TypesInv'
      BY <1>0, <1>1, <1>2, <3>1, <3>4 DEF TypesInv, Present
    <3>6. RunInv'
      BY <1>2, <2>2, <3>1, <3>3 DEF RunInv, TakenOver, Dest
    <3>7. Dest.marker = [from |-> source', manifest |-> manifest']
      BY <3>1, <3>4 DEF MarkerOf
    <3>8. checked = None
      BY <1>0, <3>1 DEF RunInv
    <3>9. CleanInv'
      BY <1>2, <3>1, <3>2, <3>7, <3>8 DEF CleanInv, Dest
    <3> QED
      BY <1>1, <3>5, <3>6, <3>9, QuietStep
  <2> QED
    BY <2>1, <2>2
<1>6. CASE FindsLegacy
  <2>1. Legacy \subseteq 1 .. version - 1 /\ Legacy # {} /\ version - 1 \in Nat
    BY <1>0, <1>6, MigAssumption DEF FindsLegacy, Legacy, TypesInv
  <2>2. source' \in Legacy
    BY <1>6, <2>1, MaxIn DEF FindsLegacy
  <2>3. TypesInv'
    BY <1>0, <1>1, <1>2, <1>6, EmptyTypes DEF FindsLegacy, TypesInv
  <2>4. RunInv' /\ CleanInv'
    BY <1>0, <1>2, <1>6, <2>2 DEF FindsLegacy, RunInv, CleanInv, Legacy
  <2> QED
    BY <1>1, <2>3, <2>4, QuietStep
<1>7. CASE ScanFile
  <2>1. dir[source] \in ProfileOf(Written) /\ source \in Name
    BY <1>0, <1>7, MigAssumption DEF ScanFile, RunInv, TypesInv
  <2>2. dir[source].files \in FilesOf(Written)
    BY <2>1, ProfileParts
  <2>3. manifest' \in FilesOf(Written) /\ todo' \subseteq File
    BY <1>0, <1>7, <2>2 DEF ScanFile, TypesInv, FilesOf
  <2>4. TypesInv'
    BY <1>0, <1>2, <1>7, <2>3 DEF ScanFile, TypesInv
  <2>5. RunInv' /\ CleanInv'
    BY <1>0, <1>7 DEF ScanFile, RunInv, CleanInv
  <2> QED
    BY <1>1, <2>4, <2>5, QuietStep
<1>8. CASE Scanned
  <2>1. TypesInv'
    BY <1>0, <1>2, <1>8 DEF Scanned, TypesInv, runVars
  <2>2. RunInv' /\ CleanInv'
    BY <1>0, <1>8 DEF Scanned, RunInv, CleanInv, runVars, Dest
  <2> QED
    BY <1>1, <2>1, <2>2, QuietStep
<1> QED
  BY <1>4, <1>5, <1>6, <1>7, <1>8 DEF Finding

(* The copy and its checks, up to the marker.                              *)
Copying ==
    MakeStaging \/ CopyFile \/ VerifyCopy \/ VerifySource \/ WriteMarker \/ MigFails

LEMMA CopyingInv ==
    ASSUME MigInv, Copying
    PROVE  MigInv'
<1>0. TypesInv /\ RunInv /\ CleanInv
  BY DEF MigInv
<1>1. UNCHANGED <<version, dir, history>>
  BY DEF Copying, MakeStaging, CopyFile, VerifyCopy, VerifySource, WriteMarker, MigFails
<1>2. Written' = Written /\ UNCHANGED <<version, dir, writes, owed>>
  BY <1>1 DEF Written, history
<1>3. CASE MigFails
  BY <1>0, <1>1, <1>2, <1>3, EndsTypes, QuietStep DEF MigFails
<1>4. CASE Differs
  BY <1>0, <1>1, <1>2, <1>4, EndsTypes, QuietStep DEF Differs
<1>5. CASE MakeStaging
  <2>1. TypesInv'
    BY <1>0, <1>2, <1>5, EmptyTypes DEF MakeStaging, TypesInv, Present
  <2>2. EmptyProfile # None
    BY <1>0, EmptyTypes, NotAProfile DEF TypesInv
  <2>3. RunInv' /\ CleanInv'
    BY <1>0, <1>5, <2>2 DEF MakeStaging, RunInv, CleanInv
  <2> QED
    BY <1>1, <2>1, <2>3, QuietStep
<1>6. CASE CopyFile
  <2>1. staging \in ProfileOf(Written) /\ dir[source] \in ProfileOf(Written)
    BY <1>0, <1>6, MigAssumption DEF CopyFile, RunInv, TypesInv
  <2>2. Min(todo) \in File
    BY <1>0, <1>6, MinIn, MigAssumption DEF CopyFile, TypesInv
  <2>3. dir[source].files[Min(todo)] \in Written \cup {None}
    BY <2>1, <2>2, ProfileParts DEF FilesOf
  <2>4. staging' \in ProfileOf(Written)
    BY <1>6, <2>1, <2>2, <2>3, SetFile DEF CopyFile, WithFile
  <2>5. TypesInv'
    BY <1>0, <1>2, <1>6, <2>4 DEF CopyFile, TypesInv
  <2>6. staging' # None
    BY <1>0, <2>4, NotAProfile DEF TypesInv
  <2>7. RunInv' /\ CleanInv'
    BY <1>0, <1>6, <2>6 DEF CopyFile, RunInv, CleanInv
  <2> QED
    BY <1>1, <2>5, <2>7, QuietStep
<1>7. CASE VerifyCopy /\ staging.files = manifest
  <2>1. TypesInv'
    BY <1>0, <1>2, <1>7 DEF VerifyCopy, TypesInv
  <2>2. RunInv' /\ CleanInv'
    BY <1>0, <1>7 DEF VerifyCopy, RunInv, CleanInv
  <2> QED
    BY <1>1, <2>1, <2>2, QuietStep
<1>8. ASSUME NEW f \in todo, VerifySource, todo' = todo \ {f},
             UNCHANGED <<staging, mig_pc, source, manifest, checked>>
      PROVE  MigInv'
  <2>1. TypesInv'
    BY <1>0, <1>2, <1>8 DEF TypesInv
  <2>2. RunInv' /\ CleanInv'
    BY <1>0, <1>2, <1>8 DEF VerifySource, RunInv, CleanInv
  <2> QED
    BY <1>1, <2>1, <2>2, QuietStep
<1>9. CASE WriteMarker
  <2>1. staging \in ProfileOf(Written) /\ source \in Name
    BY <1>0, <1>9, MigAssumption DEF WriteMarker, RunInv, TypesInv
  <2>2. [from |-> source, manifest |-> manifest] \in MarkerOf(Written)
    BY <1>0, <2>1 DEF TypesInv, MarkerOf
  <2>3. staging' \in ProfileOf(Written) /\ staging'.files = staging.files
        /\ staging'.marker = [from |-> source, manifest |-> manifest]
    BY <1>9, <2>1, <2>2 DEF WriteMarker, ProfileOf
  <2>4. TypesInv'
    BY <1>0, <1>2, <1>9, <2>3 DEF WriteMarker, TypesInv, runVars
  <2>5. staging' # None
    BY <1>0, <2>3, NotAProfile DEF TypesInv
  <2>6. RunInv' /\ CleanInv'
    BY <1>0, <1>9, <2>3, <2>5 DEF WriteMarker, RunInv, CleanInv, runVars
  <2> QED
    BY <1>1, <2>4, <2>6, QuietStep
<1> QED
  BY <1>3, <1>4, <1>5, <1>6, <1>7, <1>8, <1>9 DEF Copying, VerifyCopy, VerifySource

-----------------------------------------------------------------------------
(* Steps that change a profile.                                            *)

(* Content that is somewhere is held.                                      *)
LEMMA HeldIn ==
    ASSUME NEW n \in Name, dir[n] # None, NEW f \in File
    PROVE  dir[n].files[f] \in Held
BY DEF Held

(* Nothing of what is owed is lost when one profile changes as long as     *)
(* what it held is held afterwards, or is not owed any more.               *)
LEMMA LossOf ==
    ASSUME MigInv, NEW n \in Name, \A m \in Name : m # n => dir'[m] = dir[m],
           \A c \in owed' \ raced' : c \in owed \ raced \/ c \in Held',
           dir[n] # None => \A f \in File : dir[n].files[f] \in owed' \ raced'
                                               => dir[n].files[f] \in Held'
    PROVE  NothingLost'
<1> SUFFICES ASSUME NEW c \in owed' \ raced', c \in owed \ raced
             PROVE  c \in Held'
  BY DEF NothingLost
<1>1. PICK m \in Name : dir[m] # None /\ \E f \in File : dir[m].files[f] = c
  BY DEF MigInv, NothingLost, Held
<1>2. CASE m = n
  BY <1>1, <1>2
<1>3. CASE m # n
  BY <1>1, <1>3 DEF Held
<1> QED
  BY <1>2, <1>3

LEMMA CommitInv ==
    ASSUME MigInv, Commit
    PROVE  MigInv'
<1>0. TypesInv /\ MarkersInv /\ RunInv /\ CleanInv
  BY DEF MigInv
<1>1. Written' = Written /\ UNCHANGED <<writes, owed, raced>>
  BY DEF Commit, Written, history
<1>2. /\ dir' = [dir EXCEPT ![version] = staging] /\ version' = version
      /\ source' = source /\ manifest' = manifest /\ mig_pc' = "Clean"
      /\ staging' = None /\ todo' = Present(manifest) /\ checked' = checked
  BY DEF Commit
<1>3. /\ staging \in ProfileOf(Written) /\ staging # None /\ staging.files = manifest
      /\ staging.marker = [from |-> source, manifest |-> manifest]
      /\ source \in 1 .. version - 1 /\ dir[source] # None /\ dir[source].marker = None
      /\ dir[version] = None /\ checked = None /\ version \in Name /\ version \in Nat
  BY <1>0, MigAssumption DEF Commit, RunInv, TypesInv
<1>4. TypesInv'
  BY <1>0, <1>1, <1>2, <1>3 DEF TypesInv, Present
<1>5. /\ dir'[version] = staging
      /\ \A n \in Name : n # version => dir'[n] = dir[n]
      /\ source \in Name /\ source # version
  BY <1>0, <1>2, <1>3, MigAssumption DEF TypesInv
<1>6. RunInv' /\ CleanInv'
  BY <1>2, <1>3, <1>5 DEF RunInv, CleanInv
<1>7. MarkersInv'
  <2>1. \A n \in Name : n > version' => dir'[n] = None
    BY <1>0, <1>2, <1>3, <1>5 DEF MarkersInv
  <2>2. ASSUME NEW n \in Name, dir'[n] # None, dir'[n].marker # None
        PROVE  TakenOver(n)'
    <3>1. CASE n = version
      BY <1>1, <1>2, <1>3, <1>5, <3>1 DEF TakenOver
    <3>2. CASE n # version
      <4>1. TakenOver(n) /\ dir'[n] = dir[n] /\ ~ (n > version)
        BY <1>0, <1>5, <2>2, <3>2 DEF MarkersInv
      <4>2. dir[n].marker.from # version /\ dir[n].marker.from \in Name
        BY <1>3, <4>1, MigAssumption DEF TakenOver
      <4> QED
        BY <1>1, <1>5, <4>1, <4>2 DEF TakenOver
    <3> QED
      BY <3>1, <3>2
  <2> QED
    BY <2>1, <2>2 DEF MarkersInv
<1>8. NothingLost'
  BY <1>1, <1>3, <1>5, LossOf
<1> QED
  BY <1>4, <1>6, <1>7, <1>8 DEF MigInv

(* A profile that is not owed anything and has no marker comes or goes.    *)
LEMMA BareProfile ==
    ASSUME MigInv, NEW n \in Name, n <= version,
           dir' \in [Name -> ProfileOf(Written) \cup {None}],
           \A m \in Name : m # n => dir'[m] = dir[m],
           dir[n] \in {None, EmptyProfile}, dir'[n] \in {None, EmptyProfile},
           UNCHANGED <<version, history>>
    PROVE  MarkersInv' /\ NothingLost'
<1>0. MarkersInv /\ version \in Nat /\ TypesInv
  BY MigAssumption DEF MigInv, TypesInv
<1>1. \A m \in Name : dir'[m] # None /\ dir'[m].marker # None => m # n
  BY EmptyTypes
<1>2. \A m \in Name : m > version' => dir'[m] = None
  <2> SUFFICES ASSUME NEW m \in Name, m > version'
               PROVE  dir'[m] = None
    OBVIOUS
  <2>1. m # n /\ m > version
    BY <1>0, MigAssumption
  <2> QED
    BY <1>0, <2>1 DEF MarkersInv
<1>3. ASSUME NEW m \in Name, dir'[m] # None, dir'[m].marker # None
      PROVE  TakenOver(m)'
  <2>1. m # n /\ dir'[m] = dir[m] /\ TakenOver(m)
    BY <1>0, <1>1, <1>3 DEF MarkersInv
  <2>2. dir[m].marker.from \in Name
    BY <1>0, <2>1, MigAssumption DEF TakenOver
  <2> QED
    BY <2>1, <2>2, EmptyTypes DEF TakenOver, history
<1>4. MarkersInv'
  BY <1>2, <1>3 DEF MarkersInv
<1>5. NothingLost'
  <2>1. owed' = owed /\ raced' = raced
    BY DEF history
  <2>2. None \notin owed
    <3>1. Written \subseteq Content
      BY <1>0, MigAssumption DEF TypesInv, Written, Content
    <3> QED
      BY <1>0, <3>1, MigAssumption DEF TypesInv
  <2>3. dir[n] # None => \A f \in File : dir[n].files[f] = None
    BY EmptyTypes
  <2> QED
    BY <2>1, <2>2, <2>3, LossOf
<1> QED
  BY <1>4, <1>5

LEMMA RemoveEmptyInv ==
    ASSUME MigInv, RemoveEmpty
    PROVE  MigInv'
<1>0. TypesInv /\ RunInv
  BY DEF MigInv
<1>1. Written' = Written /\ UNCHANGED <<version, history>>
  BY DEF RemoveEmpty, Written, history
<1>2. /\ dir' = [dir EXCEPT ![version] = None] /\ dir[version] = EmptyProfile
      /\ version \in Name /\ version \in Nat
  BY <1>0, MigAssumption DEF RemoveEmpty, Dest, TypesInv
<1>3. /\ source \in Name /\ source # version /\ dir'[source] = dir[source] /\ dir'[version] = None
      /\ \A m \in Name : m # version => dir'[m] = dir[m]
  BY <1>0, <1>2, MigAssumption DEF RemoveEmpty, RunInv, TypesInv
<1>4. TypesInv'
  BY <1>0, <1>1, <1>2 DEF RemoveEmpty, TypesInv, runVars, history
<1>5. RunInv' /\ CleanInv'
  BY <1>0, <1>1, <1>3 DEF RemoveEmpty, RunInv, CleanInv, runVars
<1>6. MarkersInv' /\ NothingLost'
  BY <1>1, <1>2, <1>3, <1>4, BareProfile DEF TypesInv
<1> QED
  BY <1>4, <1>5, <1>6 DEF MigInv

LEMMA CheckFileInv ==
    ASSUME MigInv, CheckFile
    PROVE  MigInv'
<1>0. TypesInv /\ RunInv /\ CleanInv
  BY DEF MigInv
<1>1. Written' = Written /\ UNCHANGED <<version, dir, history, staging, mig_pc, source, manifest>>
  BY DEF CheckFile, Written, history
<1>2. Min(todo) \in todo /\ todo \subseteq File
  BY <1>0, MinIn, MigAssumption DEF CheckFile, TypesInv
<1>3. /\ checked' \in {None, Min(todo)} /\ todo' \subseteq todo
      /\ checked' # None => todo' = todo /\ dir[source].files[checked'] = manifest[checked']
  BY DEF CheckFile
<1>4. TypesInv'
  BY <1>0, <1>1, <1>2, <1>3 DEF TypesInv, history
<1>5. RunInv' /\ CleanInv'
  BY <1>0, <1>1, <1>2, <1>3 DEF CheckFile, RunInv, CleanInv
<1> QED
  BY <1>1, <1>4, <1>5, QuietStep

LEMMA RemoveFileInv ==
    ASSUME MigInv, RemoveFile
    PROVE  MigInv'
<1>0. TypesInv /\ MarkersInv /\ RunInv /\ CleanInv
  BY DEF MigInv
<1>1. Written' = Written /\ UNCHANGED <<version, history, staging, mig_pc, source, manifest>>
  BY DEF RemoveFile, Written, history
<1>2. /\ mig_pc = "Clean" /\ checked \in File /\ checked \in todo
      /\ dir' = [dir EXCEPT ![source].files[checked] = None]
      /\ todo' = todo \ {checked} /\ checked' = None
  BY <1>0 DEF RemoveFile, TypesInv, CleanInv
<1>3. /\ source \in 1 .. version - 1 /\ dir[source].marker = None
      /\ dir[source] \in ProfileOf(Written) /\ dir[source] # None
      /\ version \in Name /\ version \in Nat /\ source \in Name /\ source # version
  BY <1>0, <1>2, MigAssumption DEF RunInv, TypesInv
<1>4. /\ dir'[source] = [dir[source] EXCEPT !.files[checked] = None]
      /\ \A n \in Name : n # source => dir'[n] = dir[n]
  BY <1>0, <1>2, <1>3 DEF TypesInv
<1>5. /\ dir'[source] \in ProfileOf(Written) /\ dir'[source].marker = None
      /\ \A f \in File : f # checked => dir'[source].files[f] = dir[source].files[f]
  <2>1. None \in Written \cup {None}
    OBVIOUS
  <2>2. dir'[source] = WithFile(dir[source], checked, None)
    BY <1>4 DEF WithFile
  <2> QED
    BY <1>2, <1>3, <2>1, <2>2, SetFile
<1>6. dir'[source] # None
  BY <1>0, <1>5, NotAProfile DEF TypesInv
<1>7. dir' \in [Name -> ProfileOf(Written) \cup {None}]
  BY <1>0, <1>2, <1>4, <1>5 DEF TypesInv
<1>8. TypesInv'
  BY <1>0, <1>1, <1>2, <1>7 DEF TypesInv, history
<1>9. RunInv' /\ CleanInv'
  BY <1>0, <1>1, <1>2, <1>3, <1>4, <1>5, <1>6 DEF RunInv, CleanInv
<1>10. MarkersInv'
  <2>1. ASSUME NEW n \in Name, dir'[n] # None, dir'[n].marker # None
        PROVE  TakenOver(n)'
    <3>1. n # source /\ dir'[n] = dir[n] /\ TakenOver(n)
      BY <1>0, <1>4, <1>5, <2>1 DEF MarkersInv
    <3>2. dir[n].marker.from \in Name
      BY <3>1, MigAssumption DEF TakenOver
    <3> QED
      BY <1>1, <1>4, <1>5, <3>1, <3>2 DEF TakenOver, history
  <2>2. \A n \in Name : n > version' => dir'[n] = None
    BY <1>0, <1>1, <1>3, <1>4 DEF MarkersInv
  <2> QED
    BY <2>1, <2>2 DEF MarkersInv
<1>11. NothingLost'
  <2>1. owed' = owed /\ raced' = raced
    BY <1>1 DEF history
  <2>2. ASSUME NEW f \in File, dir[source].files[f] \in owed \ raced
        PROVE  dir[source].files[f] \in Held'
    <3>1. CASE f # checked
      BY <1>3, <1>5, <1>6, <3>1 DEF Held
    <3>2. CASE f = checked
      <4>1. dir[source].files[f] = manifest[f] /\ manifest[f] # None
        <5>1. checked # None /\ checked \in Present(manifest)
          BY <1>0, <1>2, MigAssumption DEF CleanInv, RemoveFile
        <5> QED
          BY <1>0, <1>2, <2>2, <3>2, <5>1 DEF CleanInv, Present
      <4>2. /\ dir[version] # None /\ dir[version].marker # None
            /\ dir[version].marker.manifest = manifest
        <5>1. dir[version] # None /\ dir[version].marker = [from |-> source, manifest |-> manifest]
          BY <1>0, <1>2 DEF CleanInv
        <5>2. dir[version].marker # None
          <6>1. [from |-> source, manifest |-> manifest] \in MarkerOf(Written)
            BY <1>0, <1>3 DEF MarkerOf, TypesInv
          <6> QED
            BY <5>1, <6>1, NotAMarker, <1>0 DEF TypesInv
        <5> QED
          BY <5>1, <5>2
      <4>3. dir[version].files[f] = manifest[f]
        BY <1>0, <1>3, <2>2, <4>1, <4>2 DEF MarkersInv, TakenOver
      <4>4. dir'[version] = dir[version]
        BY <1>3, <1>4
      <4> QED
        BY <1>3, <4>1, <4>2, <4>3, <4>4 DEF Held
    <3> QED
      BY <3>1, <3>2
  <2> QED
    BY <1>3, <1>4, <2>1, <2>2, LossOf
<1> QED
  BY <1>8, <1>9, <1>10, <1>11 DEF MigInv

LEMMA RemoveDirsInv ==
    ASSUME MigInv, RemoveDirs
    PROVE  MigInv'
<1>0. TypesInv /\ MarkersInv /\ RunInv /\ CleanInv
  BY DEF MigInv
<1>1. Written' = Written /\ UNCHANGED <<version, writes, owed, raced, history, staging>>
  BY DEF RemoveDirs, Written, history
<1>2. CASE dir' = dir
  BY <1>0, <1>1, <1>2, EndsTypes, QuietStep DEF RemoveDirs
<1>3. CASE dir[source] = EmptyProfile /\ dir' = [dir EXCEPT ![source] = None]
  <2>1. source \in Name /\ source <= version
    BY <1>0, MigAssumption DEF RemoveDirs, RunInv, TypesInv
  <2>2. dir' \in [Name -> ProfileOf(Written) \cup {None}] /\ dir'[source] = None
        /\ \A m \in Name : m # source => dir'[m] = dir[m]
    BY <1>0, <1>3, <2>1 DEF TypesInv
  <2>3. MarkersInv' /\ NothingLost'
    BY <1>1, <1>3, <2>1, <2>2, BareProfile
  <2>4. TypesInv'
    BY <1>0, <1>1, <2>2, EmptyTypes DEF TypesInv, RemoveDirs, Ends
  <2>5. RunInv' /\ CleanInv'
    BY DEF RunInv, CleanInv, RemoveDirs, Ends
  <2> QED
    BY <2>3, <2>4, <2>5 DEF MigInv
<1> QED
  BY <1>2, <1>3 DEF RemoveDirs

(* A write: the content is new, and what it replaces is owed no longer.    *)
LEMMA WritesInv ==
    ASSUME MigInv, NEW n \in 1 .. version, NEW f \in File, Writes(n, f),
           n < version \/ mig_pc = "InUse",
           UNCHANGED <<version, staging, mig_pc, runVars>>
    PROVE  MigInv'
<1> DEFINE profile == IF dir[n] = None THEN EmptyProfile ELSE dir[n]
           content == <<n, f, writes + 1>>
<1>0. TypesInv /\ MarkersInv /\ RunInv /\ CleanInv
  BY DEF MigInv
<1>1. UNCHANGED <<version, staging, mig_pc, source, manifest, todo, checked>>
  BY DEF runVars
<1>2. /\ writes' = writes + 1 /\ writes' \in 0 .. MaxWrites
      /\ n \in Name /\ version \in Nat /\ version \in Name /\ writes \in Nat
  BY <1>0, MigAssumption DEF Writes, TypesInv
<1>3. /\ dir' = [dir EXCEPT ![n] = [profile EXCEPT !.files[f] = content]]
      /\ owed' = (owed \ {profile.files[f]}) \cup {content}
      /\ raced' = IF n = source /\ f = checked THEN raced \cup {content} ELSE raced
  BY DEF Writes
<1>4. Written \subseteq Written' /\ content \in Written' /\ content \notin Written
  BY <1>2 DEF Written
<1>5. profile \in ProfileOf(Written')
  <2>1. profile \in ProfileOf(Written)
    BY <1>0, <1>2, EmptyTypes DEF TypesInv
  <2> QED
    BY <1>4, <2>1, TypesGrow
<1>6. profile.marker = (IF dir[n] = None THEN None ELSE dir[n].marker)
  BY EmptyTypes
<1> HIDE DEF profile, content
<1>7. dir'[n] = [profile EXCEPT !.files[f] = content] /\ \A m \in Name : m # n => dir'[m] = dir[m]
  BY <1>0, <1>2, <1>3 DEF TypesInv
<1>8. /\ dir'[n] \in ProfileOf(Written') /\ dir'[n].marker = profile.marker
      /\ dir'[n].files[f] = content
      /\ \A g \in File : g # f => dir'[n].files[g] = profile.files[g]
  <2>1. content \in Written' \cup {None}
    BY <1>4
  <2>2. dir'[n] = WithFile(profile, f, content)
    BY <1>7 DEF WithFile
  <2> QED
    BY <1>5, <2>1, <2>2, SetFile
<1>9. TypesInv'
  <2>1. /\ dir' \in [Name -> ProfileOf(Written') \cup {None}]
        /\ staging' \in ProfileOf(Written') \cup {None} /\ manifest' \in FilesOf(Written')
    <3>1. \A m \in Name : dir'[m] \in ProfileOf(Written') \cup {None}
      BY <1>0, <1>4, <1>7, <1>8, TypesGrow DEF TypesInv
    <3>2. dir' \in [Name -> ProfileOf(Written') \cup {None}]
      BY <1>0, <1>3, <3>1 DEF TypesInv
    <3>3. staging' \in ProfileOf(Written') \cup {None} /\ manifest' \in FilesOf(Written')
      BY <1>0, <1>1, <1>4, TypesGrow DEF TypesInv
    <3> QED
      BY <3>2, <3>3
  <2>2. owed' \subseteq Written'
    BY <1>0, <1>3, <1>4 DEF TypesInv
  <2> QED
    BY <1>0, <1>1, <1>2, <2>1, <2>2 DEF TypesInv
<1>10. dir'[n] # None
  <2>1. None \notin ProfileOf(Written')
    <3>1. Written' \subseteq Content
      BY <1>2, MigAssumption DEF Written, Content
    <3>2. ProfileOf(Written') \subseteq ProfileOf(Content)
      BY <3>1, TypesGrow
    <3>3. ProfileOf(Content) = Profile
      BY DEF ProfileOf, MarkerOf, FilesOf, Profile, Marker, Files
    <3> QED
      BY <3>2, <3>3, MigAssumption
  <2> QED
    BY <1>8, <2>1
<1>11. RunInv'
  <2>1. mig_pc \notin {"Off", "InUse"} => n # version /\ source \in Name
    BY <1>0, <1>2, MigAssumption DEF RunInv
  <2>2. mig_pc \notin {"Off", "InUse"} => dir'[source] # None
    BY <1>0, <1>7, <1>10, <2>1 DEF RunInv
  <2>3. mig_pc \notin {"Off", "InUse", "Scan"} => dir'[source].marker = None
    BY <1>0, <1>6, <1>7, <1>8, <2>1 DEF RunInv
  <2>4. mig_pc \notin {"Off", "InUse"} => dir'[version] = dir[version]
    BY <1>2, <1>7, <2>1
  <2> QED
    BY <1>0, <1>1, <2>2, <2>3, <2>4 DEF RunInv
<1>12. CleanInv'
  <2> SUFFICES ASSUME mig_pc = "Clean"
               PROVE  CleanInv'
    BY <1>1 DEF CleanInv
  <2>1. n # version /\ source \in Name /\ dir[source] # None
    BY <1>0, <1>2, MigAssumption DEF RunInv
  <2>2. dir'[version] = dir[version]
    BY <1>2, <1>7, <2>1
  <2>3. ASSUME checked # None
        PROVE  \/ dir'[source].files[checked] = manifest[checked]
               \/ dir'[source].files[checked] \in raced'
    <3>1. checked \in File
      BY <1>0, <2>3 DEF TypesInv
    <3>2. \/ dir[source].files[checked] = manifest[checked]
          \/ dir[source].files[checked] \in raced
      BY <1>0, <2>3 DEF CleanInv
    <3>3. CASE n = source /\ f = checked
      BY <1>3, <1>8, <3>3
    <3>4. CASE n = source /\ f # checked
      <4>1. dir'[source].files[checked] = dir[source].files[checked] /\ raced' = raced
        BY <1>3, <1>8, <2>1, <3>1, <3>4 DEF profile
      <4> QED
        BY <3>2, <4>1
    <3>5. CASE n # source
      BY <1>3, <1>7, <2>1, <3>2, <3>5
    <3> QED
      BY <3>3, <3>4, <3>5
  <2> QED
    BY <1>0, <1>1, <2>2, <2>3 DEF CleanInv
<1>13. MarkersInv'
  <2>1. ASSUME NEW m \in Name, m > version'
        PROVE  dir'[m] = None
    <3>1. m # n /\ m > version
      BY <1>1, <1>2, <2>1, MigAssumption
    <3> QED
      BY <1>0, <1>7, <3>1 DEF MarkersInv
  <2>2. ASSUME NEW m \in Name, dir'[m] # None, dir'[m].marker # None
        PROVE  TakenOver(m)'
    <3>1. dir[m] # None /\ dir'[m].marker = dir[m].marker /\ TakenOver(m)
      BY <1>0, <1>6, <1>7, <1>8, <2>2 DEF MarkersInv
    <3> DEFINE from == dir[m].marker.from
               taken == dir[m].marker.manifest
    <3>2. from \in 1 .. m - 1 /\ from \in Name
      BY <3>1, MigAssumption DEF TakenOver
    <3>3. dir'[from] # None => dir'[from].marker = None
      BY <1>6, <1>7, <1>8, <3>1, <3>2 DEF TakenOver
    <3>4. ASSUME NEW g \in File, taken[g] # None, taken[g] \in owed' \ raced'
          PROVE  dir'[m].files[g] = taken[g]
      <4>1. taken[g] \in Written
        <5>1. dir[m] \in ProfileOf(Written) /\ dir[m].marker # None
          BY <1>0, <2>2, <3>1 DEF TypesInv
        <5>2. taken \in FilesOf(Written)
          BY <5>1, ProfileParts
        <5> QED
          BY <3>4, <5>2 DEF FilesOf
      <4>2. taken[g] \in owed \ raced /\ taken[g] # profile.files[f]
        BY <1>3, <1>4, <3>4, <4>1
      <4>3. dir[m].files[g] = taken[g]
        BY <3>1, <3>4, <4>2 DEF TakenOver
      <4>4. CASE m # n
        BY <1>7, <4>3, <4>4
      <4>5. CASE m = n
        <5>1. profile = dir[m]
          BY <3>1, <4>5 DEF profile
        <5>2. g # f
          BY <4>2, <4>3, <5>1
        <5> QED
          BY <1>8, <4>3, <4>5, <5>1, <5>2
      <4> QED
        BY <4>4, <4>5
    <3> QED
      BY <3>1, <3>2, <3>3, <3>4 DEF TakenOver
  <2> QED
    BY <2>1, <2>2 DEF MarkersInv
<1>14. NothingLost'
  <2>1. content \in Held'
    BY <1>2, <1>8, <1>10 DEF Held
  <2>2. \A c \in owed' \ raced' : c \in owed \ raced \/ c \in Held'
    BY <1>3, <2>1
  <2>3. ASSUME dir[n] # None, NEW g \in File, dir[n].files[g] \in owed' \ raced'
        PROVE  dir[n].files[g] \in Held'
    <3>1. profile = dir[n]
      BY <2>3 DEF profile
    <3>2. CASE g # f
      BY <1>2, <1>8, <1>10, <3>1, <3>2 DEF Held
    <3>3. CASE g = f
      BY <1>3, <2>1, <2>3, <3>1, <3>3
    <3> QED
      BY <3>2, <3>3
  <2> QED
    BY <1>2, <1>7, <2>2, <2>3, LossOf
<1> QED
  BY <1>9, <1>11, <1>12, <1>13, <1>14 DEF MigInv

(* The browsers, the end of one and the next rename.                       *)
Outside == Use \/ OldVersionWrites \/ Quit \/ Upgrade

LEMMA OutsideInv ==
    ASSUME MigInv, Outside
    PROVE  MigInv'
<1>0. TypesInv /\ MarkersInv /\ RunInv /\ CleanInv
  BY DEF MigInv
<1>1. version \in Nat /\ version \in Name /\ version \in 1 .. version
  BY <1>0, MigAssumption DEF TypesInv
<1>2. ASSUME Use, NEW f \in File, Writes(version, f)
      PROVE  MigInv'
  BY <1>1, <1>2, WritesInv DEF Use
<1>3. CASE OldVersionWrites
  <2>1. PICK n \in 1 .. version - 1, f \in File : Writes(n, f)
    BY <1>3 DEF OldVersionWrites
  <2>2. n \in 1 .. version /\ n < version
    BY <1>1, <2>1
  <2> QED
    BY <1>3, <2>1, <2>2, WritesInv DEF OldVersionWrites
<1>4. CASE Use /\ dir[version] = None /\ dir' = [dir EXCEPT ![version] = EmptyProfile]
           /\ UNCHANGED history
  <2>1. UNCHANGED <<version, staging, mig_pc, source, manifest, todo, checked, writes, owed, raced>>
        /\ Written' = Written
    BY <1>4 DEF Use, runVars, history, Written
  <2>2. dir' \in [Name -> ProfileOf(Written) \cup {None}] /\ dir'[version] = EmptyProfile
        /\ \A m \in Name : m # version => dir'[m] = dir[m]
    BY <1>0, <1>1, <1>4, EmptyTypes DEF TypesInv
  <2>3. MarkersInv' /\ NothingLost'
    BY <1>1, <1>4, <2>1, <2>2, BareProfile
  <2>4. TypesInv'
    BY <1>0, <2>1, <2>2 DEF TypesInv
  <2>5. RunInv' /\ CleanInv'
    BY <1>0, <1>4, <2>1 DEF RunInv, CleanInv, Use
  <2> QED
    BY <2>3, <2>4, <2>5 DEF MigInv
<1>5. CASE Quit
  <2>1. UNCHANGED <<version, dir, staging, source, manifest, todo, checked, writes, owed, raced>>
        /\ Written' = Written
    BY <1>5 DEF Quit, runVars, history, Written
  <2>2. TypesInv' /\ RunInv' /\ CleanInv'
    BY <1>0, <1>5, <2>1 DEF TypesInv, RunInv, CleanInv, Quit
  <2> QED
    BY <1>5, <2>2, QuietStep DEF Quit
<1>6. CASE Upgrade
  <2>1. UNCHANGED <<dir, mig_pc, source, manifest, todo, checked, writes, owed, raced>>
        /\ Written' = Written /\ staging' = None /\ mig_pc = "Off"
    BY <1>6 DEF Upgrade, runVars, history, Written
  <2>2. version' \in Name /\ version' = version + 1
    BY <1>1, <1>6, MigAssumption DEF Upgrade
  <2>3. TypesInv' /\ RunInv' /\ CleanInv'
    BY <1>0, <2>1, <2>2 DEF TypesInv, RunInv, CleanInv
  <2>4. MarkersInv'
    <3>1. \A n \in Name : n > version' => n > version
      BY <1>1, <2>2, MigAssumption
    <3> QED
      BY <1>0, <2>1, <3>1 DEF MarkersInv, TakenOver
  <2>5. NothingLost'
    BY <2>1 DEF MigInv, NothingLost, Held
  <2> QED
    BY <2>3, <2>4, <2>5 DEF MigInv
<1> QED
  BY <1>2, <1>3, <1>4, <1>5, <1>6 DEF Outside, Use, Dest

LEMMA MigInit_MigInv == MigInit => MigInv
<1> SUFFICES ASSUME MigInit
             PROVE  MigInv
  OBVIOUS
<1>1. PICK there \in SUBSET (1 .. version - 1), fs \in [Name -> SUBSET File] :
          dir = [n \in Name |-> IF n \in there THEN Initially(n, fs[n]) ELSE None]
  BY DEF MigInit
<1>2. /\ version \in Name /\ version \in Nat /\ writes = 0 /\ writes \in 0 .. MaxWrites
      /\ staging = None /\ mig_pc = "Off" /\ manifest = NoFiles /\ todo = {} /\ checked = None
  BY MigAssumption DEF MigInit
<1>3. \A n \in Name : dir[n] # None =>
          /\ n \in there /\ dir[n] \in ProfileOf(Written) /\ dir[n].marker = None
  <2> SUFFICES ASSUME NEW n \in Name, dir[n] # None
               PROVE  n \in there /\ dir[n] \in ProfileOf(Written) /\ dir[n].marker = None
    OBVIOUS
  <2>1. n \in there /\ dir[n] = Initially(n, fs[n])
    BY <1>1
  <2>2. \A f \in File : <<n, f, 0>> \in Written
    BY <1>2 DEF Written
  <2> QED
    BY <2>1, <2>2 DEF Initially, ProfileOf, FilesOf
<1>4. dir \in [Name -> ProfileOf(Written) \cup {None}]
  BY <1>1, <1>3
<1>5. owed \subseteq Written /\ owed \subseteq Held
  <2> SUFFICES ASSUME NEW c \in owed
               PROVE  c \in Written /\ c \in Held
    OBVIOUS
  <2>1. PICK n \in Name : dir[n] # None /\ \E f \in Present(dir[n].files) : c = dir[n].files[f]
    BY DEF MigInit
  <2>2. PICK f \in File : c = dir[n].files[f] /\ c # None
    BY <2>1 DEF Present
  <2>3. dir[n].files \in FilesOf(Written)
    BY <1>3, <2>1, ProfileParts
  <2> QED
    BY <2>1, <2>2, <2>3 DEF FilesOf, Held
<1>6. TypesInv
  BY <1>2, <1>4, <1>5, EmptyTypes DEF TypesInv
<1>7. MarkersInv
  <2>1. \A n \in Name : n > version => dir[n] = None
    BY <1>1, <1>2, <1>3, MigAssumption
  <2> QED
    BY <1>3, <2>1 DEF MarkersInv
<1>8. RunInv /\ CleanInv /\ NothingLost
  BY <1>2, <1>5 DEF RunInv, CleanInv, NothingLost
<1> QED
  BY <1>6, <1>7, <1>8 DEF MigInv

LEMMA MigStep_MigInv == MigInv /\ [MigNext]_migVars => MigInv'
<1> SUFFICES ASSUME MigInv, [MigNext]_migVars
             PROVE  MigInv'
  OBVIOUS
<1>1. CASE UNCHANGED migVars
  <2>1. UNCHANGED <<version, dir, staging, mig_pc, source, manifest, todo, checked, writes, owed, raced>>
        /\ Written' = Written
    BY <1>1 DEF migVars, runVars, history, Written
  <2>2. TypesInv' /\ RunInv' /\ CleanInv'
    BY <2>1 DEF MigInv, TypesInv, RunInv, CleanInv
  <2> QED
    BY <2>1, <2>2, QuietStep DEF history
<1>2. CASE MigNext
  BY <1>2, FindingInv, CopyingInv, CommitInv, RemoveEmptyInv, CheckFileInv, RemoveFileInv,
     RemoveDirsInv, OutsideInv, Zenon DEF MigNext, MigStep, Finding, Copying, Outside
<1> QED
  BY <1>1, <1>2

(* Whatever fails, crashes or is written meanwhile, each file's last       *)
(* content is under some profile name (migrate.rs: the copy is verified    *)
(* before the rename, and cleanup removes only what it has hashed).        *)
THEOREM NoFileIsLost == MigSpec => []NothingLost
<1>1. MigInv => NothingLost
  BY DEF MigInv
<1> QED
  BY <1>1, MigInit_MigInv, MigStep_MigInv, PTL DEF MigSpec

(* What a run works from is there at each of its steps, and every marker,  *)
(* manifest and profile is well formed (migrate_inner, scan, cleanup).     *)
THEOREM MigrationTypes == MigSpec => []MigTypeOK
<1>1. MigInv => MigTypeOK
  <2> SUFFICES ASSUME MigInv
               PROVE  MigTypeOK
    OBVIOUS
  <2>0. TypesInv /\ RunInv
    BY DEF MigInv
  <2>1. Written \subseteq Content
    BY <2>0, MigAssumption DEF TypesInv, Written, Content
  <2>2. ProfileOf(Written) \subseteq Profile /\ FilesOf(Written) \subseteq Files
    <3>1. ProfileOf(Content) = Profile /\ FilesOf(Content) = Files
      BY DEF ProfileOf, MarkerOf, FilesOf, Profile, Marker, Files
    <3> QED
      BY <2>1, <3>1, TypesGrow
  <2>3. dir \in [Name -> Profile \cup {None}] /\ staging \in Profile \cup {None} /\ manifest \in Files
    BY <2>0, <2>2 DEF TypesInv
  <2> QED
    BY <2>0, <2>3 DEF MigTypeOK, TypesInv, RunInv
<1> QED
  BY <1>1, MigInit_MigInv, MigStep_MigInv, PTL DEF MigSpec

(* The new profile appears at once and whole: the rename that gives a      *)
(* profile its marker gives it exactly the files the marker lists          *)
(* (migrate.rs, the commit by rename of the verified staging directory).   *)
THEOREM ProfileAppearsWhole == MigSpec => NewProfileIsWhole
<1> DEFINE Whole ==
        \A n \in Name :
           /\ dir'[n] # None /\ dir'[n].marker # None
           /\ dir[n] = None \/ dir[n].marker = None
           => dir'[n].files = dir'[n].marker.manifest
<1>1. ASSUME MigInv, MigNext
      PROVE  Whole
  <2>0. TypesInv /\ RunInv
    BY <1>1 DEF MigInv
  <2>1. CASE Commit
    <3>1. /\ staging.files = manifest /\ staging.marker = [from |-> source, manifest |-> manifest]
          /\ version \in Name /\ dir' = [dir EXCEPT ![version] = staging]
      BY <2>0, <2>1 DEF Commit, RunInv, TypesInv
    <3>2. \A n \in Name : dir'[n] = IF n = version THEN staging ELSE dir[n]
      BY <2>0, <3>1 DEF TypesInv
    <3>3. staging.marker.manifest = manifest
      BY <3>1
    <3> QED
      BY <3>1, <3>2, <3>3
  <2>2. ASSUME NEW n \in Name, NEW q, dir' = [dir EXCEPT ![n] = q],
               q # None => q.marker = None \/ (dir[n] # None /\ q.marker = dir[n].marker)
        PROVE  Whole
    <3>1. \A m \in Name : dir'[m] = IF m = n THEN q ELSE dir[m]
      BY <2>0, <2>2 DEF TypesInv
    <3> QED
      BY <2>2, <3>1
  <2>3. CASE dir' = dir
    BY <2>3
  <2>4. version \in Name /\ version \in Nat
    BY <2>0, MigAssumption DEF TypesInv
  <2>5. ASSUME NEW n \in 1 .. version, NEW f \in File, Writes(n, f)
        PROVE  Whole
    <3> DEFINE profile == IF dir[n] = None THEN EmptyProfile ELSE dir[n]
               content == <<n, f, writes + 1>>
    <3>1. dir' = [dir EXCEPT ![n] = [profile EXCEPT !.files[f] = content]] /\ n \in Name
      BY <2>4, <2>5, MigAssumption DEF Writes
    <3>2. profile \in ProfileOf(Written)
      BY <2>0, <3>1, EmptyTypes DEF TypesInv
    <3>3. profile.marker = None \/ (dir[n] # None /\ profile.marker = dir[n].marker)
      BY EmptyTypes
    <3> HIDE DEF profile, content
    <3>4. [profile EXCEPT !.files[f] = content].marker = profile.marker
      BY <3>2 DEF ProfileOf
    <3> QED
      BY <2>2, <3>1, <3>3, <3>4
  <2>6. CASE RemoveFile
    <3>1. /\ source \in Name /\ dir[source] \in ProfileOf(Written) /\ dir[source] # None
          /\ dir' = [dir EXCEPT ![source].files[checked] = None]
      BY <2>0, <2>6, MigAssumption DEF RemoveFile, RunInv, TypesInv
    <3> DEFINE p == dir[source]
    <3>2. [p EXCEPT !.files[checked] = None].marker = p.marker
      BY <3>1 DEF ProfileOf
    <3>3. dir' = [dir EXCEPT ![source] = [p EXCEPT !.files[checked] = None]]
      BY <3>1
    <3> QED
      BY <2>2, <3>1, <3>2, <3>3
  <2>7. CASE RemoveEmpty
    BY <2>2, <2>4, <2>7 DEF RemoveEmpty
  <2>8. CASE RemoveDirs
    <3>1. source \in Name
      BY <2>0, <2>8, MigAssumption DEF RemoveDirs, RunInv, TypesInv
    <3> QED
      BY <2>2, <2>3, <2>8, <3>1 DEF RemoveDirs
  <2>9. CASE Use
    <3>1. CASE dir' = [dir EXCEPT ![version] = EmptyProfile]
      BY <2>2, <2>4, <3>1, EmptyTypes
    <3>2. ASSUME NEW f \in File, Writes(version, f)
          PROVE  Whole
      <4>1. version \in 1 .. version
        BY <2>4, MigAssumption
      <4> QED
        BY <2>5, <3>2, <4>1
    <3> HIDE DEF Whole
    <3> QED
      BY <2>9, <3>1, <3>2 DEF Use
  <2>10. CASE OldVersionWrites
    <3>1. PICK n \in 1 .. version - 1, f \in File : Writes(n, f)
      BY <2>10 DEF OldVersionWrites
    <3>2. n \in 1 .. version
      BY <2>4, <3>1
    <3> QED
      BY <2>5, <3>1, <3>2
  <2>11. CASE Finding \/ Copying \/ CheckFile \/ Quit \/ Upgrade
    <3>1. dir' = dir
      BY <2>11 DEF Finding, FindsMarker, FindsProfile, FindsNoLegacy, FindsLegacy, ScanRefuses,
            ScanFile, Scanned, Copying, MakeStaging, CopyFile, VerifyCopy, VerifySource,
            WriteMarker, MigFails, CheckFile, Quit, Upgrade
    <3> QED
      BY <2>3, <3>1
  <2> HIDE DEF Whole
  <2> QED
    BY <1>1, <2>1, <2>6, <2>7, <2>8, <2>9, <2>10, <2>11
       DEF MigNext, MigStep, Finding, Copying
<1>2. ASSUME MigInv, [MigNext]_migVars
      PROVE  [Whole]_migVars
  BY <1>1, <1>2
<1> QED
  BY <1>2, MigInit_MigInv, MigStep_MigInv, PTL DEF MigSpec, NewProfileIsWhole
=============================================================================
