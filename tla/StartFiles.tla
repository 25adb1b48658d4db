----------------------------- MODULE StartFiles ------------------------------
(***************************************************************************)
(* What a start of a task does to files before it launches: setupMounts    *)
(* links each volume_mount destination to its volume (mounts.go), and      *)
(* after the install stageConfigFiles copies each config file into         *)
(* install_dir (stage.go).  One file operation is one step.  Any of them   *)
(* may fail, the plugin may crash between any two, and the next start      *)
(* begins again on what is there.  install_dir lies in the first target.   *)
(***************************************************************************)
EXTENDS Naturals, Sequences, FiniteSets

CONSTANTS
  Volume,      \* host paths of volumes
  None,        \* no file
  Targets,     \* number of volume_mount destinations
  Sources,     \* number of config files, numbered as their names sort
  Dest,        \* destinations of config files
  MaxStarts,   \* bound: starts
  MaxMishaps   \* bound: crashes, and renames that fail

ASSUME FileBounds ==
  /\ {Targets, Sources, MaxStarts, MaxMishaps} \subseteq Nat /\ Targets > 0
ASSUME KindsDiffer == Volume \cap {"none", "empty", "full", "file"} = {}

Target == 1..Targets
Source == 1..Sources
InstallTarget == 1

VARIABLES
  \* the file system
  node,      \* what is at each target: a link to a volume, or something else
  disk,      \* the file at each destination, on each volume
  left,      \* .stage-* files that nothing will remove
  \* what Nomad gave this start
  want,      \* the volume of each target
  dst,       \* the destination of each source
  rendered,  \* the version of the sources
  \* the start
  pc,        \* the next operation
  at,        \* the target or source it is about
  tmp,       \* the temporary file
  \* bounds
  starts, mishaps

files == <<node, disk, left>>
job == <<want, dst, rendered>>
vars == <<files, job, pc, at, tmp, starts, mishaps>>

\* A symlink, a directory, empty or not, or anything else.
Node == {"none", "empty", "full", "file"} \cup Volume

\* mode: CreateTemp's 0600, or the source's.  The game writes files of its own.
Copy == [src : 0..Sources, version : 0..MaxStarts, whole : BOOLEAN,
         mode : {"private", "source"}]
OwnFile == [src |-> 0, version |-> 0, whole |-> TRUE, mode |-> "source"]

Init ==
  /\ node \in [Target -> {"none", "empty", "file"} \cup Volume]
  /\ disk = [v \in Volume |-> [d \in Dest |-> None]]
  /\ left = 0
  /\ want \in [Target -> Volume] /\ dst \in [Source -> Dest] /\ rendered = 0
  /\ pc = "idle" /\ at = 0 /\ tmp = None
  /\ starts = 0 /\ mishaps = 0

-----------------------------------------------------------------------------
(* Around the start (external).                                            *)

\* Where install_dir is: the volume its target links to.
Here == node[InstallTarget]

\* Nomad starts the task (again): its volumes may be staged elsewhere, its
\* templates rendered anew.
Begins ==
  /\ pc = "idle" /\ starts < MaxStarts
  /\ starts' = starts + 1
  /\ want' \in [Target -> Volume] /\ UNCHANGED dst
  /\ rendered' \in {rendered, starts + 1}
  /\ pc' = "mount" /\ at' = 1
  /\ UNCHANGED <<files, tmp, mishaps>>

\* A template, or another process, creates or fills a directory at a target.
OthersWrite ==
  /\ \E t \in Target :
       \/ node[t] = "none" /\ node' = [node EXCEPT ![t] = "empty"]
       \/ node[t] = "empty" /\ node' = [node EXCEPT ![t] = "full"]
  /\ UNCHANGED <<disk, left, job, pc, at, tmp, starts, mishaps>>

\* The game of a start that succeeded writes its configuration itself.
GameWrites ==
  /\ pc = "launch"
  /\ \E d \in Dest : disk' = [disk EXCEPT ![Here][d] = OwnFile]
  /\ pc' = "idle" /\ at' = 0
  /\ UNCHANGED <<node, left, job, tmp, starts, mishaps>>

GameEnds ==
  /\ pc = "launch"
  /\ pc' = "idle" /\ at' = 0
  /\ UNCHANGED <<files, job, tmp, starts, mishaps>>

\* The plugin dies: a temporary file stays.
Crashes ==
  /\ pc \notin {"idle", "launch"} /\ mishaps < MaxMishaps
  /\ mishaps' = mishaps + 1
  /\ left' = IF tmp = None THEN left ELSE left + 1
  /\ pc' = "idle" /\ at' = 0 /\ tmp' = None
  /\ UNCHANGED <<node, disk, job, starts>>

-----------------------------------------------------------------------------
(* setupMounts.                                                            *)

Goto(l, n) == pc' = l /\ at' = n

\* An error return: StartTask fails.
Fails == Goto("idle", 0) /\ tmp' = None

NextMount == IF at = Targets THEN Goto("stage", 1) ELSE Goto("mount", at + 1)

\* A destination outside the task directory, or MkdirAll fails.
MountRefused ==
  /\ pc = "mount"
  /\ Fails
  /\ UNCHANGED <<files, job, starts, mishaps>>

\* Slip: being content with any link.
AnyLinkWillDo(t) == node[t] \in Volume

\* Readlink(target) = HostPath.
LinkedRight(t) == node[t] = want[t]

\* Lstat of the target.
Looks ==
  /\ pc = "mount"
  /\ IF LinkedRight(at)             THEN NextMount
     ELSE IF node[at] \in Volume    THEN Goto("unlink", at)
     ELSE IF node[at] \in {"empty", "full"} THEN Goto("rmdir", at)
     ELSE IF node[at] = "none"      THEN Goto("symlink", at)
     ELSE Goto("idle", 0)
  /\ UNCHANGED <<files, job, tmp, starts, mishaps>>

\* os.Remove of the old link.
Unlinks ==
  /\ pc = "unlink"
  /\ \/ node' = [node EXCEPT ![at] = "none"] /\ Goto("symlink", at)
     \/ Goto("idle", 0) /\ UNCHANGED node
  /\ UNCHANGED <<disk, left, job, tmp, starts, mishaps>>

\* Slip: removing the directory with what is in it.
RemovesAll ==
  /\ pc = "rmdir"
  /\ node' = [node EXCEPT ![at] = "none"] /\ Goto("symlink", at)
  /\ UNCHANGED <<disk, left, job, tmp, starts, mishaps>>

\* os.Remove of a directory, which succeeds only if it is empty now.
Rmdir ==
  /\ pc = "rmdir"
  /\ \/ /\ node[at] = "empty"
        /\ node' = [node EXCEPT ![at] = "none"] /\ Goto("symlink", at)
     \/ Goto("idle", 0) /\ UNCHANGED node
  /\ UNCHANGED <<disk, left, job, tmp, starts, mishaps>>

\* os.Symlink, which fails if the target exists.
Symlinks ==
  /\ pc = "symlink"
  /\ \/ /\ node[at] = "none"
        /\ node' = [node EXCEPT ![at] = want[at]] /\ NextMount
     \/ Goto("idle", 0) /\ UNCHANGED node
  /\ UNCHANGED <<disk, left, job, tmp, starts, mishaps>>

Mount == MountRefused \/ Looks \/ Unlinks \/ Rmdir \/ Symlinks

-----------------------------------------------------------------------------
(* stageConfigFiles, after the install.                                    *)

\* Slip: leaving a destination alone that is already there.
SkipsExisting ==
  /\ pc = "stage" /\ at <= Sources
  /\ IF disk[Here][dst[at]] # None THEN Goto("stage", at + 1) ELSE Goto("create", at)
  /\ UNCHANGED <<files, job, tmp, starts, mishaps>>

\* The source is opened.
Opens ==
  /\ pc = "stage" /\ at <= Sources
  /\ Goto("create", at)
  /\ UNCHANGED <<files, job, tmp, starts, mishaps>>

\* A bad destination, a missing source, no directory, no temporary file.
OpenFails ==
  /\ pc \in {"stage", "create"} /\ at <= Sources
  /\ Fails
  /\ UNCHANGED <<files, job, starts, mishaps>>

Creates ==
  /\ pc = "create"
  /\ tmp' = [src |-> at, version |-> rendered, whole |-> FALSE, mode |-> "private"]
  /\ Goto("copy", at)
  /\ UNCHANGED <<files, job, starts, mishaps>>

Copies ==
  /\ pc = "copy"
  /\ tmp' = [tmp EXCEPT !.whole = TRUE]
  /\ Goto("chmod", at)
  /\ UNCHANGED <<files, job, starts, mishaps>>

\* Slip: putting the file in its place before its mode is set.
RenamesFirst ==
  /\ pc = "chmod"
  /\ tmp' = [tmp EXCEPT !.mode = "source"]
  /\ disk' = [disk EXCEPT ![Here][dst[at]] = tmp]
  /\ Goto("rename", at)
  /\ UNCHANGED <<node, left, job, starts, mishaps>>

\* Slip: the usual permissions for every file.
ChmodsDefault ==
  /\ pc = "chmod"
  /\ tmp' = [tmp EXCEPT !.mode = "default"]
  /\ Goto("rename", at)
  /\ UNCHANGED <<files, job, starts, mishaps>>

\* The permissions of the source.
Chmods ==
  /\ pc = "chmod"
  /\ tmp' = [tmp EXCEPT !.mode = "source"]
  /\ Goto("rename", at)
  /\ UNCHANGED <<files, job, starts, mishaps>>

\* Copy, Close or Chmod fails: the temporary file is removed.
CopyFails ==
  /\ pc \in {"copy", "chmod"}
  /\ Fails
  /\ UNCHANGED <<files, job, starts, mishaps>>

Renames ==
  /\ pc = "rename"
  /\ disk' = [disk EXCEPT ![Here][dst[at]] = tmp]
  /\ tmp' = None
  /\ Goto("stage", at + 1)
  /\ UNCHANGED <<node, left, job, starts, mishaps>>

\* Rename fails (the destination is a directory): nothing removes the file.
RenameFails ==
  /\ pc = "rename" /\ mishaps < MaxMishaps
  /\ mishaps' = mishaps + 1
  /\ left' = left + 1
  /\ Fails
  /\ UNCHANGED <<node, disk, job, starts>>

Staged ==
  /\ pc = "stage" /\ at > Sources
  /\ Goto("launch", 0)
  /\ UNCHANGED <<files, job, tmp, starts, mishaps>>

Stage ==
  \/ Opens \/ OpenFails \/ Creates \/ Copies \/ Chmods \/ CopyFails
  \/ Renames \/ RenameFails \/ Staged

-----------------------------------------------------------------------------

Next == Begins \/ OthersWrite \/ GameWrites \/ GameEnds \/ Crashes \/ Mount \/ Stage

Spec == Init /\ [][Next]_vars

-----------------------------------------------------------------------------

\* Every variable has its type.
TypeOK ==
  /\ node \in [Target -> Node]
  /\ disk \in [Volume -> [Dest -> Copy \cup {None}]]
  /\ left \in Nat
  /\ want \in [Target -> Volume] /\ dst \in [Source -> Dest]
  /\ rendered \in 0..MaxStarts
  /\ pc \in {"idle", "mount", "unlink", "rmdir", "symlink", "stage", "create",
             "copy", "chmod", "rename", "launch"}
  /\ at \in 0..(Targets + Sources + 1)
  /\ tmp \in Copy \cup {None}
  /\ starts \in 0..MaxStarts /\ mishaps \in 0..MaxMishaps

\* A task is launched on its own volumes: whatever an earlier start left at a
\* destination, and wherever it stopped, this start's volume is behind it.
MountedAtLaunch == pc = "launch" => \A t \in Target : node[t] = want[t]

\* What is at the destination of source s once it is staged, and whether s is
\* the last of the first n sources that goes there.
Staging(s) == [src |-> s, version |-> rendered, whole |-> TRUE, mode |-> "source"]
LastOf(n, s) == \A r \in 1..n : dst[r] = dst[s] => r <= s

\* "Existing destinations are overwritten on every start": at launch every
\* destination on the task's volume is this start's source, the last one of
\* those that go there, over whatever the game, another source or an earlier
\* start wrote.
StagedAtLaunch ==
  pc = "launch" =>
    \A s \in Source :
      LastOf(Sources, s) => disk[want[InstallTarget]][dst[s]] = Staging(s)

\* "A game never sees a half-written config", and "a 0600 secret must not become
\* 0644": at every moment, after every crash, what is at a destination is a
\* whole file with its source's permissions.
NeverHalf ==
  \A v \in Volume, d \in Dest :
    disk[v][d] # None => disk[v][d].whole /\ disk[v][d].mode = "source"

\* A temporary file is left behind only by a crash or by a rename that failed (a
\* part of the inductive invariant).
LeftByMishaps == left <= mishaps

\* "refusing to clobber real content": what is at a target, other than a link or
\* an empty directory, stays, even when it appears while the target is looked at.
RealContentStays ==
  [][\A t \in Target : node[t] \in {"full", "file"} => node'[t] = node[t]]_vars
=============================================================================
