------------------------------ MODULE LogFollow ------------------------------
(***************************************************************************)
(* follow_logs: one followed path, the goroutine that copies it into the   *)
(* task's stdout (followFile), the goroutine that starts and stops it      *)
(* (StartTask's Wait, or watchRecovered), and a game that appends to,      *)
(* rotates and truncates its log meanwhile.  A byte is a token: the number *)
(* of the write it came with, 0 for what a previous run left, and whether  *)
(* it ends a line.  A file that is deleted and created anew under the same *)
(* inode is one that is truncated.                                         *)
(***************************************************************************)
EXTENDS Naturals, Sequences, SequencesExt

CONSTANTS
  None,        \* no file
  MaxWrites,   \* bound: writes of the game
  MaxFiles,    \* bound: files the path names over time
  MaxCuts      \* bound: truncations

ASSUME LogBounds ==
  MaxWrites \in Nat /\ MaxFiles \in Nat \ {0} /\ MaxCuts \in Nat

File == 1..MaxFiles
ASSUME NoneIsNoFile ==
  /\ None \notin File
  /\ None \notin [file : File, size : Nat]
  /\ None \notin [file : File, size : Nat, same : BOOLEAN]

VARIABLES
  \* the file system and the game
  server,     \* the game: none, running or exited
  over,       \* the wrapper that launched it has exited; of a task that was
              \* adopted or recovered: DestroyTask has cancelled its context
  path,       \* the file the path names
  files,      \* files created so far
  content,    \* the bytes of each file
  touched,    \* the snapshot's file was written since (mtime)
  writes,     \* writes so far
  cuts,       \* truncations so far
  \* the follower
  pc,         \* off, stat, open, fstat, drain, select or returned
  pst,        \* what Stat(path) returned in this step
  open,       \* the file it has open
  pos,        \* its read position
  partial,    \* bytes of a line whose end has not been read
  stale,      \* the snapshot, until a file has been opened
  final,      \* this is the last step
  out,        \* what it wrote to the task's stdout
  \* the supervising goroutine
  mode,       \* the task was launched, or adopted or recovered
  sup,        \* snapshot, launch, wait, stopping or done
  reported,   \* doneCh is closed
  gaveUp,     \* it stopped waiting for the follower
  \* history
  torn,       \* writes whose file was rotated away in the middle of a line
  hidden,     \* the followed file was cut, and the follower has not looked
  clean,      \* no cut has escaped the follower, no file replaced as it opened
  due,        \* writes in the followed file when the follower was stopped,
              \* but for what the game has taken from it since
  before      \* writes so far when the follower was stopped

disk == <<path, files, content, touched, writes, cuts>>
follower == <<pc, pst, open, pos, partial, stale, final, out>>
super == <<mode, sup, reported, gaveUp>>
vars == <<server, over, disk, follower, super, torn, hidden, clean, due, before>>

Byte == [n : 0..MaxWrites, nl : BOOLEAN]
OldByte == [n |-> 0, nl |-> TRUE]

\* The writes of this run that s holds bytes of.
Writes(s) == {b.n : b \in ToSet(s)} \ {0}

\* os.Stat: the file, its size, and whether its time is the snapshot's.
StatOf(f) == [file |-> f, size |-> Len(content[f]), same |-> ~touched]

Init ==
  /\ mode \in {"launched", "recovered"}
  /\ server = IF mode = "launched" THEN "none" ELSE "running"
  /\ \/ path = None /\ files = 0 /\ content = [f \in File |-> <<>>]
     \/ /\ path = 1 /\ files = 1
        /\ \E n \in 0..1 :
             content = [f \in File |-> IF f = 1 THEN [k \in 1..n |-> OldByte]
                                                ELSE <<>>]
  /\ over = FALSE
  /\ touched = FALSE /\ writes = 0 /\ cuts = 0
  /\ pc = "off" /\ pst = None /\ open = None /\ pos = 0
  /\ partial = <<>> /\ stale = None /\ final = FALSE /\ out = <<>>
  /\ sup = "snapshot" /\ reported = FALSE /\ gaveUp = FALSE
  /\ torn = {} /\ hidden = FALSE /\ clean = TRUE /\ due = {} /\ before = 0

-----------------------------------------------------------------------------
(* The game (external).                                                    *)

Playing == server = "running" /\ sup # "snapshot"

Touch(f) == touched' = (touched \/ (stale # None /\ stale.file = f))

GameWrites ==
  /\ Playing /\ path # None /\ writes < MaxWrites
  /\ \E nl \in BOOLEAN :
       content' = [content EXCEPT ![path] = Append(@, [n |-> writes + 1, nl |-> nl])]
  /\ writes' = writes + 1 /\ Touch(path)
  /\ UNCHANGED <<server, over, path, files, cuts, follower, super, torn, hidden, clean, due, before>>

Rotates ==
  /\ Playing /\ path # None
  /\ path' = None
  /\ torn' = IF content[path] = <<>> \/ Last(content[path]).nl THEN torn
             ELSE torn \cup {Last(content[path]).n}
  /\ due' = IF open = path THEN due ELSE due \ Writes(content[path])
  /\ UNCHANGED <<server, over, files, content, touched, writes, cuts, follower, super,
                 hidden, clean, before>>

Creates ==
  /\ Playing /\ path = None /\ files < MaxFiles
  /\ path' = files + 1 /\ files' = files + 1
  /\ UNCHANGED <<server, over, content, touched, writes, cuts, follower, super, torn,
                 hidden, clean, due, before>>

Cuts ==
  /\ Playing /\ path # None /\ content[path] # <<>> /\ cuts < MaxCuts
  /\ content' = [content EXCEPT ![path] = <<>>]
  /\ cuts' = cuts + 1 /\ Touch(path)
  /\ hidden' = (\/ hidden \/ path = open
                \/ (open = None /\ stale # None /\ stale.file = path))
  /\ due' = due \ (Writes(content[path]) \cup (IF open = path THEN Writes(partial) ELSE {}))
  /\ UNCHANGED <<server, over, path, files, writes, follower, super, torn, clean, before>>

\* The game exits, or its wrapper does, or the task is destroyed: in any order,
\* for Wine's processes outlive their wrapper.
Exits ==
  /\ sup # "snapshot"
  /\ \/ server = "running" /\ server' = "exited" /\ UNCHANGED over
     \/ server # "none" /\ ~over /\ over' = TRUE /\ UNCHANGED server
  /\ UNCHANGED <<disk, follower, super, torn, hidden, clean, due, before>>

Game == GameWrites \/ Rotates \/ Creates \/ Cuts \/ Exits

-----------------------------------------------------------------------------
(* Starting and stopping the follower.                                     *)

\* Slip: a missing file recorded like any other.
SnapshotsMissing ==
  /\ sup = "snapshot"
  /\ stale' = [file |-> path, size |-> IF path = None THEN 0 ELSE Len(content[path])]
  /\ sup' = "launch"
  /\ UNCHANGED <<server, over, disk, pc, pst, open, pos, partial, final, out, mode,
                 reported, gaveUp, torn, hidden, clean, due, before>>

\* snapshotFiles: before the launch, or of a task that already runs.
TakeSnapshot ==
  /\ sup = "snapshot"
  /\ stale' = IF path = None THEN None
              ELSE [file |-> path, size |-> Len(content[path])]
  /\ sup' = "launch"
  /\ UNCHANGED <<server, over, disk, pc, pst, open, pos, partial, final, out, mode,
                 reported, gaveUp, torn, hidden, clean, due, before>>

LaunchGame ==
  /\ sup = "launch" /\ server = "none"
  /\ server' = "running"
  /\ UNCHANGED <<over, disk, follower, super, torn, hidden, clean, due, before>>

\* startLogFollowers; without its stdout fifo it follows nothing.
StartFollowers ==
  /\ sup = "launch" /\ server # "none"
  /\ sup' = "wait" /\ pc' \in {"stat", "off"}
  /\ UNCHANGED <<server, over, disk, pst, open, pos, partial, stale, final, out, mode,
                 reported, gaveUp, torn, hidden, clean, due, before>>

\* The follower's context is cancelled.
cancelled == sup \in {"stopping", "done"}

Followed == IF open = None THEN path ELSE open

\* stop(): cancel, and wait for the follower, but not for long.
StopFollowers ==
  /\ sup = "wait"
  /\ sup' = "stopping"
  /\ due' = IF Followed = None THEN {} ELSE Writes(content[Followed])
  /\ before' = writes

\* Slip: reporting first, as watchRecovered does.
ReportsFirst ==
  /\ mode = "launched" /\ over
  /\ StopFollowers /\ reported' = TRUE
  /\ UNCHANGED <<server, over, disk, follower, mode, gaveUp, torn, hidden, clean>>

\* The launched process has exited; the game it started may go on.
WaitReturns ==
  /\ mode = "launched" /\ over
  /\ StopFollowers
  /\ UNCHANGED <<server, over, disk, follower, mode, reported, gaveUp, torn, hidden, clean>>

\* watchRecovered reports the exit once the game is gone, unless it was
\* cancelled first; stop() is its deferred onExit.
WatchEnds ==
  /\ mode = "recovered"
  /\ \/ server = "exited" /\ reported' = TRUE
     \/ over /\ UNCHANGED reported
  /\ StopFollowers
  /\ UNCHANGED <<server, over, disk, follower, mode, gaveUp, torn, hidden, clean>>

\* The follower has returned, or three seconds have passed.
Stopped ==
  /\ sup = "stopping"
  /\ gaveUp' = (pc \notin {"returned", "off"})
  /\ sup' = "done"
  /\ reported' = (reported \/ mode = "launched")
  /\ UNCHANGED <<server, over, disk, follower, mode, torn, hidden, clean, due, before>>

Supervisor ==
  \/ TakeSnapshot \/ LaunchGame \/ StartFollowers
  \/ WaitReturns \/ WatchEnds \/ Stopped

-----------------------------------------------------------------------------
(* followFile: one step is stat, open, fstat, drain.                       *)

Goto(l) == pc' = l

\* The locals of a step do not outlive it.
EndStep == Goto("select") /\ pst' = None

\* No file, or still the previous run's.
NothingNew(st) ==
  \/ st = None
  \/ stale # None /\ stale.file = st.file /\ st.size = stale.size /\ st.same

\* os.Stat(path); with no file open, whether there is one worth opening.
Stat ==
  /\ pc = "stat"
  /\ LET st == IF path = None THEN None ELSE StatOf(path)
     IN  IF open = None /\ NothingNew(st)
           THEN EndStep
           ELSE Goto(IF open = None THEN "open" ELSE "fstat") /\ pst' = st
  /\ UNCHANGED <<server, over, disk, open, pos, partial, stale, final, out, super,
                 torn, hidden, clean, due, before>>

\* Slip: reading a file the previous run left from its start.
OffsetZero == 0

\* Skip what was there before, unless the file has shrunk.
Offset == IF stale # None /\ stale.file = pst.file /\ pst.size >= stale.size
          THEN stale.size ELSE 0

Open ==
  /\ pc = "open"
  /\ IF path = None
       THEN EndStep /\ UNCHANGED <<open, pos, stale, clean>>
       ELSE /\ open' = path /\ pos' = Offset /\ stale' = None
            /\ clean' = (clean /\ path = pst.file)
            /\ Goto("fstat") /\ UNCHANGED pst
  /\ UNCHANGED <<server, over, disk, partial, final, out, super, torn, hidden, due, before>>

\* A cut the follower cannot tell from an append.
Escaped == hidden /\ pos > 0 /\ Len(content[open]) >= pos

\* Slip: taking a file with nothing new for a truncated one.
RereadsUnchanged ==
  /\ pc = "fstat"
  /\ IF Len(content[open]) <= pos
       THEN pos' = 0 /\ partial' = <<>> ELSE UNCHANGED <<pos, partial>>
  /\ clean' = (clean /\ ~Escaped) /\ hidden' = FALSE
  /\ Goto("drain")
  /\ UNCHANGED <<server, over, disk, pst, open, stale, final, out, super, torn, due, before>>

\* Slip: never looking for a truncation.
IgnoresCuts ==
  /\ pc = "fstat"
  /\ clean' = (clean /\ ~Escaped) /\ hidden' = FALSE
  /\ Goto("drain")
  /\ UNCHANGED <<server, over, disk, pst, open, pos, partial, stale, final, out, super, torn, due, before>>

\* f.Stat(): shorter than the position means truncated in place.
Fstat ==
  /\ pc = "fstat"
  /\ IF Len(content[open]) < pos
       THEN pos' = 0 /\ partial' = <<>> ELSE UNCHANGED <<pos, partial>>
  /\ clean' = (clean /\ ~Escaped) /\ hidden' = FALSE
  /\ Goto("drain")
  /\ UNCHANGED <<server, over, disk, pst, open, stale, final, out, super, torn, due, before>>

\* How many bytes of s are whole lines.
WholeLines(s) ==
  {n \in 0..Len(s) : (n > 0 => s[n].nl) /\ \A k \in n+1..Len(s) : ~s[k].nl}

\* To the end of the file: whole lines go to stdout, the rest is kept.
Reads ==
  LET read == partial \o SubSeq(content[open], pos + 1, Len(content[open]))
  IN  \E n \in WholeLines(read) :
        /\ out' = out \o SubSeq(read, 1, n)
        /\ partial' = SubSeq(read, n + 1, Len(read))

Replaced == pst = None \/ pst.file # open

Furthest == IF Len(content[open]) > pos THEN Len(content[open]) ELSE pos

\* Slip: following the file that was opened for ever.
NeverReopens ==
  /\ pc = "drain"
  /\ clean' = (clean /\ ~Escaped)
  /\ Reads /\ pos' = Furthest
  /\ EndStep
  /\ UNCHANGED <<server, over, disk, open, stale, final, super, torn, hidden, due, before>>

\* Read to the end; a file the path no longer names is then closed.
Drain ==
  /\ pc = "drain"
  /\ clean' = (clean /\ ~Escaped)
  /\ Reads
  /\ IF Replaced THEN open' = None /\ pos' = 0 ELSE pos' = Furthest /\ UNCHANGED open
  /\ EndStep
  /\ UNCHANGED <<server, over, disk, stale, final, super, torn, hidden, due, before>>

\* The ticker, or the context: one last step.
Select ==
  /\ pc = "select"
  /\ \/ ~final /\ Goto("stat") /\ final' = FALSE
     \/ ~final /\ cancelled /\ Goto("stat") /\ final' = TRUE
  /\ UNCHANGED <<server, over, disk, pst, open, pos, partial, stale, out, super,
                 torn, hidden, clean, due, before>>

\* The deferred close and flush.
Returns ==
  /\ pc = "select" /\ final
  /\ Goto("returned")
  /\ open' = None /\ pos' = 0 /\ out' = out \o partial /\ partial' = <<>>
  /\ UNCHANGED <<server, over, disk, pst, stale, final, super, torn, hidden, clean, due, before>>

Follower == Stat \/ Open \/ Fstat \/ Drain \/ Select \/ Returns

-----------------------------------------------------------------------------

Next == Game \/ Supervisor \/ Follower

Spec == Init /\ [][Next]_vars

\* Goroutines that can run do run.  Nothing is assumed of the game.
Fairness == WF_vars(Follower) /\ WF_vars(Supervisor)

FairSpec == Spec /\ Fairness

-----------------------------------------------------------------------------

FlagsTyped ==
  /\ touched \in BOOLEAN /\ final \in BOOLEAN /\ reported \in BOOLEAN
  /\ gaveUp \in BOOLEAN /\ over \in BOOLEAN /\ hidden \in BOOLEAN /\ clean \in BOOLEAN

DiskTyped ==
  /\ path \in File \cup {None} /\ files \in 0..MaxFiles
  /\ content \in [File -> Seq(Byte)]
  /\ writes \in 0..MaxWrites /\ cuts \in 0..MaxCuts

FollowerTyped ==
  /\ pst \in [file : File, size : Nat, same : BOOLEAN] \cup {None}
  /\ open \in File \cup {None} /\ pos \in Nat
  /\ partial \in Seq(Byte) /\ out \in Seq(Byte)
  /\ stale \in [file : File, size : Nat] \cup {None}

\* Every variable has its type.
TypeOK ==
  /\ server \in {"none", "running", "exited"}
  /\ pc \in {"off", "stat", "open", "fstat", "drain", "select", "returned"}
  /\ mode \in {"launched", "recovered"}
  /\ sup \in {"snapshot", "launch", "wait", "stopping", "done"}
  /\ torn \subseteq 0..MaxWrites /\ due \subseteq 0..MaxWrites /\ before \in 0..MaxWrites
  /\ FlagsTyped /\ DiskTyped /\ FollowerTyped

\* "skip what was already there": nothing the previous run left, or that was
\* written before the plugin came back, ever reaches stdout, whichever way the
\* game appends to, truncates or rotates the file, and whenever.
NoneOld(s) == \A k \in DOMAIN s : s[k].n # 0

StaleStays == NoneOld(out)

\* Lines come out once and in the order they were written, whole ("whole lines
\* are never interleaved"), across rotations and truncations.  The code joins
\* the torn end of a rotated file to the first line of the next.
CopiedInOrder ==
  clean => \A k \in 1..Len(out) - 1 :
             /\ out[k].n < out[k + 1].n
             /\ out[k].nl \/ out[k + 1].n = out[k].n + 1 \/ out[k].n \in torn

\* What the follower has read and keeps: copied, or held back.
Taken == out \o partial

\* What the follower has read past, it has copied or holds: a position never
\* outruns the output, through seeks, resets and reopened files.
NothingSkipped ==
  clean /\ open # None =>
    LET read == IF pos < Len(content[open]) THEN pos ELSE Len(content[open])
    IN  hidden \/ Writes(SubSeq(content[open], 1, read)) \subseteq Writes(Taken)

\* "final drain before the log handles close": when a launched task is reported
\* exited, everything that was in the file its follower was on when it was told
\* to stop is in its stdout, though the game may live on and write and rotate;
\* but for what it truncates, or rotates away unopened, before the last step
\* (and unless the follower was stuck for three seconds).
DrainedBeforeReport ==
  (mode = "launched" /\ reported /\ ~gaveUp /\ pc # "off" /\ clean)
    => due \subseteq Writes(out)

\* "copies appended lines from each path to w until ctx is cancelled": a line
\* that stays in the file the path names is copied, whatever was rotated or
\* truncated before it.
InFile(n) == path # None /\ [n |-> n, nl |-> TRUE] \in ToSet(content[path])

LinesCopied ==
  \A n \in 1..MaxWrites :
    (InFile(n) /\ pc \notin {"off", "returned"})
    ~> (n \in Writes(out) \/ ~InFile(n) \/ ~clean \/ cancelled)

\* "Replaced (rotated): finish the old file, then pick up the new one", and
\* "until ctx is cancelled, then does a final drain": when a launched task is
\* reported exited, every line that was written before the follower was told to
\* stop, and is in the file the path names, has been copied.
FinalDrainComplete ==
  (mode = "launched" /\ reported /\ ~gaveUp /\ pc # "off" /\ clean /\ path # None)
    => {n \in Writes(content[path]) : n <= before} \subseteq Writes(out)
=============================================================================
