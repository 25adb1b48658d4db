-------------------------- MODULE StartFiles_proofs --------------------------
(***************************************************************************)
(* Proofs about StartFiles, for any number of volumes, targets, config     *)
(* files, starts, crashes and failures: what is linked and staged when a   *)
(* task is launched, and what is never lost or seen half-written.          *)
(***************************************************************************)
EXTENDS StartFiles, TLAPS

-----------------------------------------------------------------------------
(* The inductive invariant behind the properties of StartFiles.             *)

AtMount == {"mount", "unlink", "rmdir", "symlink"}
AtStage == {"create", "copy", "chmod", "rename"}

\* The targets before `at' are linked; once they all are, they stay so.  Only a
\* link is about to be removed as one.
MountedSoFar ==
  /\ pc = "unlink" => node[at] \in Volume
  /\ pc \in AtMount => at \in Target /\ \A t \in 1..(at - 1) : node[t] = want[t]
  /\ pc \in AtStage \cup {"stage", "launch"} => \A t \in Target : node[t] = want[t]

\* The sources before `at' are staged.
StagedSoFar ==
  /\ pc \in AtStage => at \in Source
  /\ pc = "stage" => at \in 1..(Sources + 1)
  /\ pc \in AtStage \cup {"stage"} =>
       \A s \in 1..(at - 1) :
         LastOf(at - 1, s) => disk[want[InstallTarget]][dst[s]] = Staging(s)

\* The temporary file at each step, and none between two sources.
TempSoFar ==
  /\ pc \in {"copy", "chmod"} =>
       /\ tmp \in Copy /\ tmp.src = at /\ tmp.version = rendered
       /\ pc = "chmod" => tmp.whole
  /\ pc = "rename" => tmp = Staging(at)
  /\ pc \notin {"copy", "chmod", "rename"} => tmp = None

FilesInv ==
  /\ TypeOK
  /\ MountedSoFar
  /\ StagedSoFar
  /\ TempSoFar
  /\ NeverHalf
  /\ LeftByMishaps
  /\ StagedAtLaunch

-----------------------------------------------------------------------------

\* Nothing at a target but the link to a volume is taken for that volume.
LEMMA LinksDiffer ==
  ASSUME NEW v \in Volume
  PROVE  v \notin {"none", "empty", "full", "file"}
  BY KindsDiffer

-----------------------------------------------------------------------------
(* The invariant.                                                          *)

LEMMA InitFiles == Init => FilesInv
<1> SUFFICES ASSUME Init PROVE FilesInv
  OBVIOUS
<1>1. TypeOK
  BY FileBounds DEF Init, TypeOK, Node, Target, Source
<1>2. MountedSoFar /\ StagedSoFar /\ TempSoFar /\ StagedAtLaunch
  BY DEF Init, MountedSoFar, StagedSoFar, TempSoFar, StagedAtLaunch, AtMount,
         AtStage
<1>3. NeverHalf /\ LeftByMishaps
  BY DEF Init, NeverHalf, LeftByMishaps
<1> QED
  BY <1>1, <1>2, <1>3 DEF FilesInv

\* A start begins, fails or dies, or its game ends: the files stay as they are.
LEMMA AroundFiles ==
  ASSUME FilesInv, Begins \/ GameEnds \/ Crashes
  PROVE  FilesInv'
<1> USE FileBounds DEF FilesInv, files, job, AtMount, AtStage, Target, Source
<1>1. CASE Begins
  <2>1. TypeOK'
    BY <1>1 DEF Begins, TypeOK
  <2>2. MountedSoFar' /\ StagedSoFar' /\ TempSoFar' /\ StagedAtLaunch'
    BY <1>1 DEF Begins, TypeOK, MountedSoFar, StagedSoFar, TempSoFar, StagedAtLaunch
  <2>3. NeverHalf' /\ LeftByMishaps'
    BY <1>1 DEF Begins, NeverHalf, LeftByMishaps
  <2> QED
    BY <2>1, <2>2, <2>3
<1>2. CASE GameEnds
  BY <1>2 DEF GameEnds, TypeOK, MountedSoFar, StagedSoFar, TempSoFar,
              StagedAtLaunch, NeverHalf, LeftByMishaps
<1>3. CASE Crashes
  BY <1>3 DEF Crashes, TypeOK, MountedSoFar, StagedSoFar, TempSoFar,
              StagedAtLaunch, NeverHalf, LeftByMishaps
<1> QED
  BY <1>1, <1>2, <1>3

\* What others do to a directory does not touch a link that is right.
LEMMA OthersFiles ==
  ASSUME FilesInv, OthersWrite
  PROVE  FilesInv'
<1> USE FileBounds DEF FilesInv, job
<1>1. TypeOK'
  BY DEF OthersWrite, TypeOK, Node
<1>2. \A t \in Target : node[t] = want[t] => node'[t] = want[t]
  BY LinksDiffer DEF OthersWrite, TypeOK
<1>3. MountedSoFar'
  <2>1. pc = "unlink" => node'[at] \in Volume
    BY LinksDiffer DEF OthersWrite, TypeOK, MountedSoFar, AtMount
  <2> QED
    BY <1>2, <2>1 DEF OthersWrite, TypeOK, MountedSoFar, AtMount, AtStage, Target
<1>4. StagedSoFar' /\ TempSoFar' /\ StagedAtLaunch' /\ NeverHalf' /\ LeftByMishaps'
  BY DEF OthersWrite, StagedSoFar, TempSoFar, StagedAtLaunch, NeverHalf,
         LeftByMishaps, LastOf, Staging
<1> QED
  BY <1>1, <1>3, <1>4

\* The game writes whole files.
LEMMA GameFiles ==
  ASSUME FilesInv, GameWrites
  PROVE  FilesInv'
<1> USE FileBounds DEF FilesInv, job
<1>1. Here \in Volume
  BY DEF GameWrites, MountedSoFar, Here, TypeOK, Target, InstallTarget
<1>2. OwnFile \in Copy /\ OwnFile.whole /\ OwnFile.mode = "source"
  BY DEF OwnFile, Copy
<1>3. TypeOK'
  BY <1>1, <1>2 DEF GameWrites, TypeOK
<1>4. NeverHalf'
  BY <1>1, <1>2 DEF GameWrites, TypeOK, NeverHalf
<1>5. MountedSoFar' /\ StagedSoFar' /\ TempSoFar' /\ StagedAtLaunch' /\ LeftByMishaps'
  BY DEF GameWrites, MountedSoFar, StagedSoFar, TempSoFar, StagedAtLaunch,
         LeftByMishaps, AtMount, AtStage
<1> QED
  BY <1>3, <1>4, <1>5

\* Going on to the next target, or, after the last one, to the config files.
LEMMA NextMountFiles ==
  ASSUME FilesInv, pc \in AtMount, NextMount, node'[at] = want[at],
         node' \in [Target -> Node],
         \A t \in Target \ {at} : node'[t] = node[t],
         UNCHANGED <<disk, left, job, tmp, starts, mishaps>>
  PROVE  FilesInv'
<1> USE FileBounds DEF FilesInv, job, AtMount, AtStage, Target, Source, Goto
<1>1. CASE at = Targets
  <2>1. pc' = "stage" /\ at' = 1
    BY <1>1 DEF NextMount
  <2>2. TypeOK'
    BY <2>1 DEF TypeOK
  <2>3. MountedSoFar'
    BY <1>1, <2>1 DEF TypeOK, MountedSoFar
  <2>4. StagedSoFar' /\ TempSoFar' /\ StagedAtLaunch' /\ NeverHalf' /\ LeftByMishaps'
    BY <2>1 DEF StagedSoFar, TempSoFar, StagedAtLaunch, NeverHalf, LeftByMishaps
  <2> QED
    BY <2>2, <2>3, <2>4
<1>2. CASE at # Targets
  <2>1. pc' = "mount" /\ at' = at + 1 /\ at' \in Target
    BY <1>2 DEF NextMount, MountedSoFar
  <2>2. TypeOK'
    BY <2>1 DEF TypeOK
  <2>3. MountedSoFar'
    BY <2>1 DEF TypeOK, MountedSoFar
  <2>4. StagedSoFar' /\ TempSoFar' /\ StagedAtLaunch' /\ NeverHalf' /\ LeftByMishaps'
    BY <2>1 DEF StagedSoFar, TempSoFar, StagedAtLaunch, NeverHalf, LeftByMishaps
  <2> QED
    BY <2>2, <2>3, <2>4
<1> QED
  BY <1>1, <1>2

\* A step of setupMounts that stays at its target, or fails.
LEMMA SameMountFiles ==
  ASSUME FilesInv, pc \in AtMount,
         (pc' \in AtMount /\ at' = at) \/ (pc' = "idle" /\ at' = 0),
         node' \in [Target -> Node], tmp' \in {tmp, None},
         pc' = "unlink" => node'[at] \in Volume,
         \A t \in Target \ {at} : node'[t] = node[t],
         UNCHANGED <<disk, left, job, starts, mishaps>>
  PROVE  FilesInv'
<1> USE FileBounds DEF FilesInv, job, AtMount, AtStage, Target, Source
<1>1. TypeOK'
  BY DEF TypeOK
<1>2. MountedSoFar'
  BY DEF TypeOK, MountedSoFar
<1>3. StagedSoFar' /\ TempSoFar' /\ StagedAtLaunch' /\ NeverHalf' /\ LeftByMishaps'
  BY DEF StagedSoFar, TempSoFar, StagedAtLaunch, NeverHalf, LeftByMishaps
<1> QED
  BY <1>1, <1>2, <1>3

LEMMA MountFiles ==
  ASSUME FilesInv, Mount
  PROVE  FilesInv'
<1> USE DEF FilesInv, files, Goto, AtMount
<1>1. CASE MountRefused
  BY <1>1, SameMountFiles DEF MountRefused, Fails, TypeOK
<1>2. CASE Looks
  <2>1. CASE LinkedRight(at)
    BY <1>2, <2>1, NextMountFiles DEF Looks, LinkedRight, TypeOK
  <2>2. CASE ~LinkedRight(at)
    BY <1>2, <2>2, SameMountFiles DEF Looks, TypeOK
  <2> QED
    BY <2>1, <2>2
<1>3. CASE Unlinks
  BY <1>3, SameMountFiles DEF Unlinks, TypeOK, Node
<1>4. CASE Rmdir
  BY <1>4, SameMountFiles DEF Rmdir, TypeOK, Node
<1>5. CASE Symlinks
  <2>1. at \in Target
    BY <1>5 DEF Symlinks, MountedSoFar
  <2>2. CASE node' = [node EXCEPT ![at] = want[at]] /\ NextMount
    BY <1>5, <2>1, <2>2, NextMountFiles DEF Symlinks, TypeOK, Node
  <2>3. CASE node' = node /\ pc' = "idle" /\ at' = 0
    BY <1>5, <2>3, SameMountFiles DEF Symlinks, TypeOK
  <2> QED
    BY <1>5, <2>2, <2>3 DEF Symlinks
<1> QED
  BY <1>1, <1>2, <1>3, <1>4, <1>5 DEF Mount

\* A failure of stageConfigFiles leaves what is in place.
LEMMA StageFailsFiles ==
  ASSUME FilesInv, OpenFails \/ CopyFails \/ RenameFails
  PROVE  FilesInv'
<1> USE FileBounds DEF FilesInv, files, job, Fails, Goto, AtMount, AtStage, Target,
        Source, MountedSoFar, StagedSoFar, TempSoFar, StagedAtLaunch,
        NeverHalf, LeftByMishaps
<1>1. CASE OpenFails
  BY <1>1 DEF OpenFails, TypeOK
<1>2. CASE CopyFails
  BY <1>2 DEF CopyFails, TypeOK
<1>3. CASE RenameFails
  BY <1>3 DEF RenameFails, TypeOK
<1> QED
  BY <1>1, <1>2, <1>3

\* The temporary file is made, filled and given its mode.
LEMMA TempFiles ==
  ASSUME FilesInv, Opens \/ Creates \/ Copies \/ Chmods
  PROVE  FilesInv'
<1> USE FileBounds DEF FilesInv, files, job, Goto, AtMount, AtStage
<1>1. at \in Source /\ at' = at /\ UNCHANGED <<node, disk, left, job, starts, mishaps>>
      /\ pc \in AtStage \cup {"stage"} /\ pc' \in AtStage
  BY DEF Opens, Creates, Copies, Chmods, StagedSoFar, TypeOK, Source
<1>2. tmp' \in Copy \cup {None} /\ TempSoFar'
  <2>1. CASE Opens
    BY <2>1 DEF Opens, TypeOK, TempSoFar
  <2>2. CASE Creates
    <3>1. tmp' \in Copy
      BY <1>1, <2>2 DEF Creates, TypeOK, Copy, Source
    <3> QED
      BY <1>1, <2>2, <3>1 DEF Creates, TempSoFar
  <2>3. CASE Copies
    <3>1. tmp \in Copy /\ tmp.src = at /\ tmp.version = rendered
      BY <2>3 DEF Copies, TempSoFar
    <3>2. tmp' \in Copy /\ tmp'.src = at /\ tmp'.version = rendered /\ tmp'.whole
      BY <2>3, <3>1 DEF Copies, Copy
    <3> QED
      BY <1>1, <2>3, <3>2 DEF Copies, TempSoFar
  <2>4. CASE Chmods
    <3>1. tmp \in Copy /\ tmp.src = at /\ tmp.version = rendered /\ tmp.whole = TRUE
      BY <2>4 DEF Chmods, TempSoFar, Copy
    <3>2. tmp' \in Copy /\ tmp' = Staging(at)
      BY <2>4, <3>1 DEF Chmods, Copy, Staging
    <3> QED
      BY <1>1, <2>4, <3>2 DEF Chmods, TempSoFar, Staging
  <2> QED
    BY <2>1, <2>2, <2>3, <2>4
<1>3. TypeOK'
  BY <1>1, <1>2 DEF TypeOK
<1>4. MountedSoFar'
  BY <1>1 DEF MountedSoFar
<1>5. StagedSoFar'
  BY <1>1 DEF StagedSoFar, LastOf, Staging
<1>6. StagedAtLaunch' /\ NeverHalf' /\ LeftByMishaps'
  BY <1>1 DEF StagedAtLaunch, NeverHalf, LeftByMishaps
<1> QED
  BY <1>2, <1>3, <1>4, <1>5, <1>6

\* The rename puts this source in its place: over an earlier one that goes
\* there too, and beside the others.
LEMMA RenameFiles ==
  ASSUME FilesInv, Renames
  PROVE  FilesInv'
<1> USE FileBounds DEF FilesInv, job, Goto, AtMount, AtStage
<1>1. /\ at \in Source /\ at \in Nat /\ Here \in Volume /\ Here = want[InstallTarget]
      /\ tmp = Staging(at) /\ dst[at] \in Dest
  BY DEF Renames, StagedSoFar, MountedSoFar, TempSoFar, TypeOK, Here, Target,
         InstallTarget, Source
<1>2. Staging(at) \in Copy /\ Staging(at).whole /\ Staging(at).mode = "source"
  BY <1>1 DEF Staging, Copy, TypeOK, Source
<1>3. pc' = "stage" /\ at' = at + 1 /\ tmp' = None
      /\ disk' = [disk EXCEPT ![Here][dst[at]] = Staging(at)]
      /\ UNCHANGED <<node, left, job, starts, mishaps>>
  BY <1>1 DEF Renames
<1>4. TypeOK'
  BY <1>1, <1>2, <1>3 DEF TypeOK, Source
<1>5. MountedSoFar' /\ TempSoFar' /\ StagedAtLaunch' /\ LeftByMishaps'
  BY <1>3, pc = "rename" DEF Renames, MountedSoFar, TempSoFar, StagedAtLaunch, LeftByMishaps
<1>6. NeverHalf'
  BY <1>1, <1>2, <1>3 DEF NeverHalf, TypeOK
<1>7. StagedSoFar'
  <2>1. /\ disk'[want[InstallTarget]][dst[at]] = Staging(at)
        /\ \A d \in Dest \ {dst[at]} :
             disk'[want[InstallTarget]][d] = disk[want[InstallTarget]][d]
    BY <1>1, <1>3 DEF TypeOK
  <2>2. ASSUME NEW s \in 1..at, LastOf(at, s)
        PROVE  disk'[want[InstallTarget]][dst[s]] = Staging(s)
    <3>1. CASE s = at
      BY <2>1, <3>1
    <3>2. CASE s # at
      <4>1. s \in 1..(at - 1) /\ s \in Source /\ LastOf(at - 1, s)
        BY <1>1, <2>2, <3>2 DEF LastOf, Source
      <4>2. dst[s] # dst[at]
        BY <1>1, <2>2, <3>2 DEF LastOf
      <4>3. disk[want[InstallTarget]][dst[s]] = Staging(s)
        BY <4>1 DEF Renames, StagedSoFar
      <4> QED
        BY <2>1, <4>1, <4>2, <4>3 DEF TypeOK
    <3> QED
      BY <3>1, <3>2
  <2>3. at' - 1 = at /\ at' \in 1..(Sources + 1)
    BY <1>1, <1>3 DEF Source
  <2> QED
    BY <1>3, <2>2, <2>3 DEF StagedSoFar, LastOf, Staging
<1> QED
  BY <1>4, <1>5, <1>6, <1>7

\* All sources are staged: the task can be launched.
LEMMA StagedFiles ==
  ASSUME FilesInv, Staged
  PROVE  FilesInv'
<1> USE FileBounds DEF FilesInv, files, job, Goto, AtMount, AtStage
<1>1. at = Sources + 1 /\ at - 1 = Sources
  BY DEF Staged, StagedSoFar
<1>2. TypeOK' /\ MountedSoFar' /\ TempSoFar' /\ StagedSoFar' /\ NeverHalf' /\ LeftByMishaps'
  BY DEF Staged, TypeOK, MountedSoFar, StagedSoFar, TempSoFar, NeverHalf,
         LeftByMishaps
<1>3. StagedAtLaunch'
  BY <1>1 DEF Staged, StagedSoFar, StagedAtLaunch, LastOf, Staging, Source
<1> QED
  BY <1>2, <1>3

LEMMA FilesInvariant == Spec => []FilesInv
<1>1. FilesInv /\ [Next]_vars => FilesInv'
  <2> SUFFICES ASSUME FilesInv, [Next]_vars
               PROVE  FilesInv'
    OBVIOUS
  <2>1. CASE Stage
    BY <2>1, StageFailsFiles, TempFiles, RenameFiles, StagedFiles DEF Stage
  <2>2. CASE UNCHANGED vars
    BY <2>2 DEF vars, files, job, FilesInv, TypeOK, MountedSoFar, StagedSoFar,
                TempSoFar, StagedAtLaunch, NeverHalf, LeftByMishaps, LastOf, Staging
  <2> QED
    BY <2>1, <2>2, AroundFiles, OthersFiles, GameFiles, MountFiles DEF Next
<1> QED
  BY <1>1, InitFiles, PTL DEF Spec

-----------------------------------------------------------------------------
(* What the start promises of files.                                       *)

\* Every variable keeps its type, in any order of failures, crashes and starts.
THEOREM FileTypes == Spec => []TypeOK
<1>1. FilesInv => TypeOK
  BY DEF FilesInv
<1> QED
  BY <1>1, FilesInvariant, PTL

\* A task that is launched finds its own volume behind every destination,
\* whatever was there before and wherever earlier starts stopped.
THEOREM VolumesAreMounted == Spec => []MountedAtLaunch
<1>1. FilesInv => MountedAtLaunch
  BY DEF FilesInv, MountedSoFar, MountedAtLaunch
<1> QED
  BY <1>1, FilesInvariant, PTL

\* A task that is launched finds every config file it asked for, this start's
\* version of it, on its own volume.
THEOREM ConfigIsStaged == Spec => []StagedAtLaunch
<1>1. FilesInv => StagedAtLaunch
  BY DEF FilesInv
<1> QED
  BY <1>1, FilesInvariant, PTL

\* No destination ever holds part of a file, or one with another mode than its
\* source's, at whatever step a start stops.
THEOREM NothingIsHalfWritten == Spec => []NeverHalf
<1>1. FilesInv => NeverHalf
  BY DEF FilesInv
<1> QED
  BY <1>1, FilesInvariant, PTL

\* Every temporary file left behind has a crash or a failed rename to itself.
THEOREM TempsAreRemoved == Spec => []LeftByMishaps
<1>1. FilesInv => LeftByMishaps
  BY DEF FilesInv
<1> QED
  BY <1>1, FilesInvariant, PTL

\* No step removes or replaces a file or a directory with something in it that
\* is where a volume should be mounted.
THEOREM ContentIsKept == Spec => RealContentStays
<1>1. FilesInv /\ [Next]_vars
        => [\A t \in Target : node[t] \in {"full", "file"} => node'[t] = node[t]]_vars
  <2> SUFFICES ASSUME FilesInv, Next, NEW t \in Target, node[t] \in {"full", "file"}
               PROVE  node'[t] = node[t]
    OBVIOUS
  <2> USE DEF FilesInv, TypeOK, files
  <2>1. CASE Begins \/ GameWrites \/ GameEnds \/ Crashes \/ Stage
    BY <2>1 DEF Begins, GameWrites, GameEnds, Crashes, Stage, Opens, OpenFails,
                Creates, Copies, Chmods, CopyFails, Renames, RenameFails, Staged
  <2>2. CASE OthersWrite
    BY <2>2 DEF OthersWrite
  <2>3. CASE MountRefused \/ Looks \/ Rmdir \/ Symlinks
    BY <2>3 DEF MountRefused, Looks, Rmdir, Symlinks
  <2>4. CASE Unlinks
    <3>1. node[at] \in Volume
      BY <2>4 DEF Unlinks, MountedSoFar
    <3> QED
      BY <2>4, <3>1, LinksDiffer DEF Unlinks
  <2> QED
    BY <2>1, <2>2, <2>3, <2>4 DEF Next, Mount
<1> QED
  BY <1>1, FilesInvariant, PTL DEF Spec, RealContentStays
=============================================================================
