------------------------------ MODULE Migration ------------------------------
(***************************************************************************)
(* The migration of a profile after a rename of the product                *)
(* (crates/px-store/src/migrate.rs): the tree under the newest legacy name *)
(* is copied into a staging directory, verified, marked, renamed into      *)
(* place, and only then removed where it still is what was copied.         *)
(*                                                                         *)
(* Names are numbered in the order they were given up: version v of the    *)
(* product keeps its profile under name v, and 1 .. v-1 are its legacy     *)
(* names.  A profile is its files and its marker; the directories inside   *)
(* it are left out.  Any step may fail or be the last before a crash.      *)
(* Beside the migration run the browser itself, once a run is over, and    *)
(* an older version that still writes under its own name.                  *)
(***************************************************************************)
EXTENDS Integers, FiniteSetsExt, Option

CONSTANTS
    Name,            \* 1 .. n
    File,            \* numbers: a manifest is sorted
    StartVersion,    \* versions the first start may be of
    MaxVersion,
    MaxWrites        \* bound on what the browsers write

VARIABLES
    version,         \* the installed version
    dir,             \* name -> a profile, or None
    staging,         \* the staging directory of the version
    mig_pc, source, manifest, todo,
    checked,         \* the file cleanup has hashed and is about to remove
    writes, owed, raced   \* history: what was written and not superseded

runVars == <<source, manifest, todo, checked>>
history == <<writes, owed, raced>>
migVars == <<version, dir, staging, mig_pc, runVars, history>>

(* The k-th write, to file f under name n; 0 is what was there at first.   *)
Content == Name \X File \X (0 .. MaxWrites)

Files == [File -> Content \cup {None}]

Marker == [from : Name, manifest : Files]

Profile == [files : Files, marker : Marker \cup {None}]

ASSUME MigAssumption ==
    /\ MaxVersion \in Nat /\ Name = 1 .. MaxVersion /\ StartVersion \subseteq Name
    /\ File \subseteq Nat /\ MaxWrites \in Nat
    /\ None \notin Profile \cup Marker \cup Content

NoFiles == [f \in File |-> None]

EmptyProfile == [files |-> NoFiles, marker |-> None]

Present(files) == {f \in File : files[f] # None}

Populated(profile) ==
    profile # None /\ (Present(profile.files) # {} \/ profile.marker # None)

Initially(n, fs) ==
    [files |-> [f \in File |-> IF f \in fs THEN <<n, f, 0>> ELSE None], marker |-> None]

MigInit ==
    /\ version \in StartVersion
    /\ \E there \in SUBSET (1 .. version - 1), fs \in [Name -> SUBSET File] :
          dir = [n \in Name |-> IF n \in there THEN Initially(n, fs[n]) ELSE None]
    /\ staging = None
    /\ mig_pc = "Off" /\ source = None /\ manifest = NoFiles /\ todo = {} /\ checked = None
    /\ writes = 0 /\ raced = {}
    /\ owed = UNION {{dir[n].files[f] : f \in Present(dir[n].files)} : n \in {m \in Name : dir[m] # None}}

-----------------------------------------------------------------------------
(* The run is over: the browser comes up, or the error is returned.        *)
Ends(pc) ==
    /\ mig_pc' = pc
    /\ source' = None /\ manifest' = NoFiles /\ todo' = {} /\ checked' = None

Dest == dir[version]

Legacy == {n \in 1 .. version - 1 : dir[n] # None}

(* A marker in the new profile: an earlier run got as far as the rename.   *)
FindsMarker ==
    /\ mig_pc = "Off" /\ Dest # None /\ Dest.marker # None
    /\ IF dir[Dest.marker.from] = None
       THEN Ends("InUse")
       ELSE /\ mig_pc' = "Clean"
            /\ source' = Dest.marker.from
            /\ manifest' = Dest.marker.manifest
            /\ todo' = Present(Dest.marker.manifest)
            /\ UNCHANGED checked
    /\ UNCHANGED <<version, dir, staging, history>>

FindsProfile ==
    /\ mig_pc = "Off" /\ Populated(Dest) /\ Dest.marker = None
    /\ Ends("InUse")
    /\ UNCHANGED <<version, dir, staging, history>>

FindsNoLegacy ==
    /\ mig_pc = "Off" /\ ~ Populated(Dest) /\ Legacy = {}
    /\ Ends("InUse")
    /\ UNCHANGED <<version, dir, staging, history>>

FindsLegacy ==
    /\ mig_pc = "Off" /\ ~ Populated(Dest) /\ Legacy # {}
    /\ mig_pc' = "Scan"
    /\ source' = Max(Legacy) /\ manifest' = NoFiles /\ todo' = File
    /\ UNCHANGED <<version, dir, staging, checked, history>>

-----------------------------------------------------------------------------
(* scan, file by file; a marker at the top of the tree refuses it.         *)
ScanRefuses ==
    /\ mig_pc = "Scan" /\ dir[source].marker # None
    /\ Ends("Off")
    /\ UNCHANGED <<version, dir, staging, history>>

ScanFile ==
    /\ mig_pc = "Scan" /\ dir[source].marker = None
    /\ \E f \in todo :
          /\ manifest' = [manifest EXCEPT ![f] = dir[source].files[f]]
          /\ todo' = todo \ {f}
    /\ UNCHANGED <<version, dir, staging, mig_pc, source, checked, history>>

Scanned ==
    /\ mig_pc = "Scan" /\ dir[source].marker = None /\ todo = {}
    /\ mig_pc' = IF Dest = None THEN "Stage" ELSE "RemoveEmpty"
    /\ UNCHANGED <<version, dir, staging, runVars, history>>

RemoveEmpty ==
    /\ mig_pc = "RemoveEmpty" /\ Dest = EmptyProfile
    /\ dir' = [dir EXCEPT ![version] = None]
    /\ mig_pc' = "Stage"
    /\ UNCHANGED <<version, staging, runVars, history>>

(* Mutant: what an earlier attempt left stops the next one. *)
MakeStaging_NoWipe ==
    /\ mig_pc = "Stage"
    /\ IF staging # None
       THEN Ends("Off") /\ UNCHANGED staging
       ELSE /\ staging' = EmptyProfile
            /\ mig_pc' = "Copy" /\ todo' = Present(manifest)
            /\ UNCHANGED <<source, manifest, checked>>
    /\ UNCHANGED <<version, dir, history>>

(* What an earlier attempt left is wiped, and the directory made anew.     *)
MakeStaging ==
    /\ mig_pc = "Stage"
    /\ staging' = EmptyProfile
    /\ mig_pc' = "Copy" /\ todo' = Present(manifest)
    /\ UNCHANGED <<version, dir, source, manifest, checked, history>>

CopyFile ==
    /\ mig_pc = "Copy" /\ todo # {}
    /\ LET f == Min(todo) IN
          /\ staging' = [staging EXCEPT !.files[f] = dir[source].files[f]]
          /\ todo' = todo \ {f}
    /\ UNCHANGED <<version, dir, mig_pc, source, manifest, checked, history>>

(* The copy, or the source, is not what the manifest says.                 *)
Differs ==
    /\ staging' \in {None, staging}
    /\ Ends("Off")

(* Mutant: nothing is verified. *)
VerifyCopy_Trusts ==
    /\ mig_pc = "Copy" /\ todo = {}
    /\ mig_pc' = "Verify" /\ todo' = {}
    /\ UNCHANGED <<version, dir, staging, source, manifest, checked, history>>

VerifyCopy ==
    /\ mig_pc = "Copy" /\ todo = {}
    /\ IF staging.files = manifest
       THEN /\ mig_pc' = "Verify" /\ todo' = File
            /\ UNCHANGED <<staging, source, manifest, checked>>
       ELSE Differs
    /\ UNCHANGED <<version, dir, history>>

VerifySource ==
    /\ mig_pc = "Verify"
    /\ \E f \in todo :
          IF dir[source].files[f] = manifest[f]
          THEN /\ todo' = todo \ {f}
               /\ UNCHANGED <<staging, mig_pc, source, manifest, checked>>
          ELSE Differs
    /\ UNCHANGED <<version, dir, history>>

WriteMarker ==
    /\ mig_pc = "Verify" /\ todo = {}
    /\ staging' = [staging EXCEPT !.marker = [from |-> source, manifest |-> manifest]]
    /\ mig_pc' = "Commit"
    /\ UNCHANGED <<version, dir, runVars, history>>

Commit ==
    /\ mig_pc = "Commit"
    /\ dir' = [dir EXCEPT ![version] = staging]
    /\ staging' = None
    /\ mig_pc' = "Clean" /\ todo' = Present(manifest)
    /\ UNCHANGED <<version, source, manifest, checked, history>>

-----------------------------------------------------------------------------
(* cleanup: a file that still has the recorded length and checksums goes.  *)

(* Mutant: what was copied goes. *)
CheckFile_Unchecked ==
    /\ mig_pc = "Clean" /\ checked = None /\ todo # {}
    /\ checked' = Min(todo)
    /\ UNCHANGED <<version, dir, staging, mig_pc, source, manifest, todo, history>>

CheckFile ==
    /\ mig_pc = "Clean" /\ checked = None /\ todo # {}
    /\ IF dir[source].files[Min(todo)] = manifest[Min(todo)]
       THEN checked' = Min(todo) /\ UNCHANGED todo
       ELSE todo' = todo \ {Min(todo)} /\ UNCHANGED checked
    /\ UNCHANGED <<version, dir, staging, mig_pc, source, manifest, history>>

RemoveFile ==
    /\ mig_pc = "Clean" /\ checked # None
    /\ dir' = [dir EXCEPT ![source].files[checked] = None]
    /\ todo' = todo \ {checked} /\ checked' = None
    /\ UNCHANGED <<version, staging, mig_pc, source, manifest, history>>

(* remove_dir takes only an empty directory; that it fails is no error.    *)
RemoveDirs ==
    /\ mig_pc = "Clean" /\ todo = {}
    /\ dir' \in {dir} \cup {[dir EXCEPT ![source] = None] : p \in {dir[source]} \cap {EmptyProfile}}
    /\ Ends("InUse")
    /\ UNCHANGED <<version, staging, history>>

-----------------------------------------------------------------------------
(* A step of the run fails, refuses a symlink or a special file, or is cut *)
(* short by a crash.                                                       *)
MigFails ==
    /\ mig_pc \notin {"Off", "InUse"}
    /\ staging' \in {staging} \cup (IF mig_pc = "Stage" THEN {None} ELSE {})
    /\ Ends("Off")
    /\ UNCHANGED <<version, dir, history>>

(* A browser writes a file of the profile under name n.                    *)
Writes(n, f) ==
    LET profile == IF dir[n] = None THEN EmptyProfile ELSE dir[n]
        content == <<n, f, writes + 1>>
    IN  /\ writes < MaxWrites
        /\ writes' = writes + 1
        /\ dir' = [dir EXCEPT ![n] = [profile EXCEPT !.files[f] = content]]
        /\ owed' = (owed \ {profile.files[f]}) \cup {content}
        /\ raced' = IF n = source /\ f = checked THEN raced \cup {content} ELSE raced

Use ==
    /\ mig_pc = "InUse"
    /\ \/ \E f \in File : Writes(version, f)
       \/ /\ Dest = None
          /\ dir' = [dir EXCEPT ![version] = EmptyProfile]
          /\ UNCHANGED history
    /\ UNCHANGED <<version, staging, mig_pc, runVars>>

OldVersionWrites ==
    /\ \E n \in 1 .. version - 1, f \in File : Writes(n, f)
    /\ UNCHANGED <<version, staging, mig_pc, runVars>>

Quit ==
    /\ mig_pc = "InUse"
    /\ mig_pc' = "Off"
    /\ UNCHANGED <<version, dir, staging, runVars, history>>

(* The product is renamed again; nobody looks at the old name's staging.   *)
Upgrade ==
    /\ mig_pc = "Off" /\ version < MaxVersion
    /\ version' = version + 1
    /\ staging' = None
    /\ UNCHANGED <<dir, mig_pc, runVars, history>>

MigStep ==
    \/ FindsMarker \/ FindsProfile \/ FindsNoLegacy \/ FindsLegacy
    \/ ScanRefuses \/ ScanFile \/ Scanned
    \/ RemoveEmpty \/ MakeStaging \/ CopyFile
    \/ VerifyCopy \/ VerifySource \/ WriteMarker \/ Commit
    \/ CheckFile \/ RemoveFile \/ RemoveDirs

MigNext == MigStep \/ MigFails \/ Use \/ OldVersionWrites \/ Quit \/ Upgrade

MigSpec == MigInit /\ [][MigNext]_migVars

(* Every start of the browser runs the migration to its end.               *)
MigFairSpec == MigSpec /\ WF_migVars(MigStep)

-----------------------------------------------------------------------------
(* Type invariant: a marker names a legacy name, and what the run works    *)
(* from is there.                                                          *)
MigTypeOK ==
    /\ version \in Name
    /\ dir \in [Name -> Profile \cup {None}] /\ staging \in Profile \cup {None}
    /\ mig_pc \in {"Off", "Scan", "RemoveEmpty", "Stage", "Copy", "Verify", "Commit", "Clean", "InUse"}
    /\ mig_pc \notin {"Off", "InUse"} => source \in 1 .. version - 1 /\ dir[source] # None
    /\ manifest \in Files /\ todo \subseteq File
    /\ checked \in File \cup {None}

Held == UNION {{dir[n].files[f] : f \in File} : n \in {m \in Name : dir[m] # None}}

(* Whatever fails, crashes or is written meanwhile, each file's last       *)
(* content is under some profile name: the source loses a file only when   *)
(* the new profile has it.  The exception is a write that falls between    *)
(* the hash and the removal of the same file in cleanup.                   *)
NothingLost == owed \ raced \subseteq Held

(* The new profile appears at once and whole: at the moment it carries a   *)
(* marker it holds exactly the files the marker lists.                     *)
NewProfileIsWhole ==
    [][\A n \in Name :
          /\ dir'[n] # None /\ dir'[n].marker # None
          /\ dir[n] = None \/ dir[n].marker = None
          => dir'[n].files = dir'[n].marker.manifest]_migVars

(* Failures other than the run's own refusals cease, and the browser is    *)
(* started again and again.                                                *)
Calm == <>[][MigFails => MigStep]_migVars /\ []<>(mig_pc = "Off")

Waiting == ~ Populated(Dest) /\ Legacy # {}

(* A profile that was not itself made by a migration is carried over,      *)
(* through any number of failed attempts.                                  *)
FirstRenameIsCarriedOver ==
    Calm => (Waiting /\ dir[Max(Legacy)].marker = None ~> Populated(Dest))

(* The module's first paragraph: after a rename the next start "finds the  *)
(* populated profile under the old name and carries it to the new one".    *)
ProfileIsCarriedOver ==
    Calm => (Waiting ~> Populated(Dest))
=============================================================================
