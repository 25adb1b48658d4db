# TLA+ models of nomad-driver-steamcmd

A Nomad task driver that installs an application with steamcmd, launches it,
and looks after it: one plugin process, many tasks, game servers that outlive
their wrapper, the plugin and the Nomad client. These modules model the parts of
`src/driver` where order, failure and restarts decide whether that works.
`PROJECT.json` lists components, runs, mutants, hazards, findings, theorems,
and the source lines of every definition.

Run a configuration with `tlc -workers 2 -config TaskSafety.cfg MCSteamcmdTask`
and a proof with `tlapm SteamcmdTask_proofs.tla`.

## 1. Inventory

| Component | Source | State | Operations | What makes it correct |
|---|---|---|---|---|
| Task lifecycle | `lifecycle.go`, `adopt.go`, `handle.go` | `Driver.tasks`, a `taskHandle` per ID (cmd, procState, exitResult, doneCh, ctx), the driver state Nomad persists | StartTask (with adoptOrReap), RecoverTask, WaitTask, StopTask, DestroyTask, InspectTask, SignalTask, two supervising goroutines | never two servers on one world; no update under a server; one report of one exit; a task that ended is reported; a destroyed start leaves nothing |
| Process termination | `reap.go` | the process table | terminateProcesses, waitUntil, waitForExit, findMarked | workload before helpers, grace before SIGKILL, an answer, a true one |
| Install slots | `driver.go` | `installSem` | SetConfig, acquireInstallSlot, release | the limit holds; slots come back |
| Install run | `steamcmd.go` | the output pipe, `installResult`, the manifest | runInstall, its scanner, installWithRepair | the outcome is what steamcmd printed; an expired install ends; at most one repair, of a failed install |
| Process membership | `stats.go`, `reap.go` | cache of known pids | members, addTree, liveMembers, findMarked, waitForExit | exactly the task's processes, despite forks, execs, reuse of pids and the cache |
| Usage statistics | `stats.go` | CPU samples | collect, pollStats | figures |
| Log following | `logfollow.go`, `adopt.go` | offset, partial line, snapshot of old files | followFile, startLogFollowers | every line of this run once and in order, none of an earlier run, through rotation and truncation |
| Config staging | `stage.go` | files under install_dir | stageConfigFiles, copyFile | this start's files are in place at launch; a file is replaced whole, with its permissions, or not at all |
| Volume mounts | `mounts.go` | symlinks in the task dir | setupMounts, linkMount | this start's volumes are linked at launch; real content is never removed |
| Streams | `driver.go`, `lifecycle.go`, `stats.go` | channels | Fingerprint, WaitTask, TaskStats, TaskEvents | one result, then closed; no goroutine left behind |
| Windows runtime | `proton.go` | none | resolveWindowsRuntime | paths and environment |
| Configuration and command lines | `config.go`, `steamcmd.go`, `lifecycle.go` | none | decoding, resolveLogin, buildArgs, buildLaunchCommand | functions on strings |

How they interact. Nomad calls the driver over gRPC, each call in a goroutine of
its own. `StartTask` stores its handle, looks for an earlier instance
(`adoptOrReap`, which uses termination on leftovers), takes an install slot,
runs steamcmd, stages files, launches, and leaves a goroutine that waits for
the wrapper (or polls, for a process it is not the parent of). `StopTask` uses
termination on the same processes; `DestroyTask` kills and cancels the handle's
context, which ends the install, the launched wrapper, or a poll. Nomad persists
a handle only when `StartTask` returns it: what happens before is found
again only through the marker in the environment of the task's processes.

The hard behaviours: `StartTask` lasts as long as a download while stop,
destroy and restarts go on; two restarts that differ (client or plugin);
processes that fork while being listed and killed, or cannot be read while they
exec; pids used again; a wrapper that ends before its game; a channel replaced
under its users; a scanner behind its process; a child that holds the pipe; a
log rotated or cut between two file operations; a start that fails half-way
through its files and is made again.

## 2. Modules

### SteamcmdTask (composes client, plugin, operating system)

One task (one marker, one install_dir) through successive `StartTask` calls, each
with a fresh ID as Nomad makes them. Where the state is in the code:

| Variable | Code |
|---|---|
| `tasks`, `handle` | `Driver.tasks` (driver.go:61) and `taskHandle` (handle.go:47); `done` is doneCh closed, `cancelled` is ctx done |
| `start` | where the `StartTask` goroutine of an ID is: `called`, `opened` (handle stored), `reap`, `decide`, `install`, `finish` (install-only), `launch`, `persist`, `ok`, `failed`, or `lost` with its plugin |
| `watcher` | `wait`: the goroutine at lifecycle.go:409; `poll`: watchRecovered |
| `op` | the StopTask, DestroyTask or SignalTask call under way, and how far it is |
| `live` | live processes by the start that launched them, each a `wrapper`, a `game` or a `helper` (wineserver, Xvfb) |
| `steamcmd`, `installed` | installs whose steamcmd runs; appInstalled's answer |
| `config` | whether the task has a launch block, and its update_on_start; any of `Configs`, one per behaviour |
| `client`, `current`, `crashes` | what the code assumes of Nomad |

Each action is a stretch of code with no other actor's step in it that matters:
`StartTask` is cut before and after the scan, the install, the launch and the
save; the three locked blocks that record an exit are one step, since nothing
reads between them that the properties tell apart. All the error returns of
`StartTask` are there, with what each leaves behind: `LaunchNotSaved` kills the
wrapper only and does not wait for it, `ReapFails` gives up with survivors.
`adoptOrReap` decides in one step, on the processes alive then; one that died
since it was found counts as workload (adopt.go:74), so `Adopt` is allowed
when only helpers are left, besides `FindHelpers`: `helper` stands for any number
of them. `StopTerminates` may leave any survivors; that termination does better is the
business of `TerminateProcesses`. `DestroyKills` may too: SIGKILL reaches what
was listed, not what is spawned meanwhile, and is not waited for. `SignalSends` ends
any of the processes, or none.

### InstallDir (abstract)

What all of that promises about the task's install_dir, without handles,
goroutines, stops or crashes: it has one use at a time, an update by one
steamcmd or the processes of one start; a use begins only when there is none; and
only a complete app is served. `SteamcmdTask` implements it: `steamcmd` is the
updater, the starts with live processes are the server, `installed` is
`complete` (`DirHasOneUse == Dir!Spec`).

### TerminateProcesses

`terminateProcesses` as a sequence of listings, signals and polls, with
processes that exit, fork, ignore the graceful signal (`Deaf`) or SIGKILL
(`Stuck`). No listing is exact: `split` lists the pids (`List`), then looks at each
(`Found`); meanwhile processes die, which may or may not be seen, and are born,
which may or may not be found; a helper that dies before its comm is read counts
as workload (`FoundWork`). Each poll of a `waitUntil` is such a listing and
then a look at the clock, which moves by itself (`TimePasses`, `timeUp`): the
grace period ends while a process that was asked lives, or not at all. After
SIGKILL the wait ends by its deadline only if what it waits for cannot be ended:
five seconds are enough for the kernel to end what it can. Of the history variables, `graced` is who
lived when the grace period was over, and `covered` who was born before the last listing
that dealt with the workload: a fork behind that listing is what the later steps
cannot know of.

### InstallSlots

The buffered channel, one per `SetConfig` call, with senders and receivers that
hold on to the channel they read, an install and its repair under the slot,
and contexts that expire at any time. `acquireInstallSlot` reads the field twice
(the nil test, the send) and `release` a third time; so does the model. A select
with both cases ready may take either.

### InstallRun

`runInstall` and `installWithRepair`: the goroutine that waits, the scanner, the
script and its child, the pipe between them, the deadline. The lines are reduced
to the three markers that decide anything (`reSuccess`, `reStaleManifest`,
`reAuthErr`), in any order. Which message an error carries is left out. The
script may die before its child (`orphaned`): then os/exec no longer watches the
context and the install waits for the child. The repair decides, and later
removes: the deadline may pass in between.

### ProcMembers

Which processes are the task's: the machine with its pids, and one
collector. A process has an owner, a marker in its environment (ours, that of a
task whose key begins like ours, or none), a parent, and is live, in the middle of an
exec, or a zombie. The listing is one step and so is the walk of the tree; each environ is
read by itself, in the order of the pids, and processes come and go in between. `known`
is the cache with its three answers and the recheck after a minute
(`MinutePasses`), `addTree` the least set with the wrapper and its
descendants. With `rootPid = 0` the collector is `findMarked`. The answer goes
to `waitForExit` (`use = "watch"`) or to DestroyTask's signals (`use = "kill"`).
`SteamcmdTask` and `TerminateProcesses` take membership to be exact; this module
says how far it is. The history variables `young`, `blind`, `recycled` name what
a scan cannot see, so that the properties can say that there is nothing else.

### LogFollow

One followed path: `followFile` cut at each file operation (stat, open, fstat,
seek and read), the goroutine that takes the snapshot, launches and stops the
follower, and a game that appends parts of lines, rotates and truncates between any two of
them. What ends is the wrapper (`over`), upon which the launched task's followers are stopped
and its exit reported; the game may end before it or live on and go on with its log, so
`due`, what the follower owes when it is stopped, loses what the game
then truncates or rotates away unopened. For a task that was adopted or recovered
`over` is DestroyTask's cancel, and the exit is the game's. A byte is the number of the write it came with and whether it ends a
line; 0 is what a previous run left. `clean` is false once a file was cut and
grew again unseen, or was replaced between the stat and the open: the code says
of the first that it cannot be told from an append.

### StartFiles

`setupMounts` before the install and `stageConfigFiles` after it, one file
operation a step, each of which may fail, with a crash between any two, other
writers in the targets, a game that rewrites its own files, and the next start on what
is left. `install_dir` lies in the first target, so that a volume that moved
takes the staged files with it.

### The others

`MC*.tla` give constants and symmetry for TLC. `*_proofs.tla` hold the theorems.
Definitions whose comment starts with "Slip:" are the mistakes a change to the
code could make; they are in no specification and are named by
the mutants of `PROJECT.json`, each of which replaces a definition by its slip to show that
the property notices.

## 3. Runs

| Run | Bounds | Result |
|---|---|---|
| TaskSafety | 3 starts, 2 crashes, any of three kinds of task, symmetry | TypeOK, OneServer, ClosedOnce, Supervised, ReportStands, DirHasOneUse (the refinement) hold (1.3 million states) |
| TaskEnds | 2 starts, 2 crashes, update_on_start, fair | NoUpdateUnderServer, ExitReported, DestroyedStops hold |
| TaskRecoverFinished | 1 start, 1 crash, no launch block, fair | FinishedInstallReported is violated |
| TaskOverlap | 2 starts, 1 client crash during StartTask | OneServer is violated |
| StopOrder | 6 processes, 2 of them helpers, 2 that may be forked meanwhile, fair | TypeOK, GoneIsGone, SupportLast, GraceFirst, OnlyStuckSurvive, Answers hold (922,000 states) |
| SlotsBound | 3 installs, limits 1, none and 2 in turn, fair | TypeOK, SlotBound, ElementsAreHeld, InstallsReturn hold |
| InstallOutcome | 3 marker lines, a repair, fair | TypeOK, SuccessIsAuthoritative, RemovedOnlyToRepair, CancelReturns hold |
| LogFollow | 2 writes, 2 files, 1 truncation, launched and recovered, fair | TypeOK, StaleStays, CopiedInOrder, NothingSkipped, DrainedBeforeReport, LinesCopied hold (1.2 million states) |
| LogLost | 1 write, 2 files | FinalDrainComplete is violated |
| ProcMembers | 3 pids, 2 births, 1 exec, with and without a root, fair | TypeOK, ExitIsReal, OnlyRecycledKilled, ExitNoticed, LivingAreFound hold (484,000 states) |
| KillsStranger | 2 pids after a reboot | OnlyOursKilled is violated |
| StartFiles | 3 starts, 2 targets, 2 volumes, 2 config files, 2 destinations, 2 mishaps | TypeOK, MountedAtLaunch, StagedAtLaunch, NeverHalf, RealContentStays hold (678,000 states) |

Why the bounds are enough. A hazard of one task involves at most two starts and
the restart between them; a third start shows what the second left behind, and
a second crash hits during the recovery from the first. The three kinds of task
are a server that is updated at every start, one that is not, and an
install-only task. `TaskEnds` takes the first: nothing else is at risk from an
update under a server. `DestroyedStops` speaks of a destroy that no crash
follows: a crash between its kill and its cancel forgets the call. Two deaf games,
one of them unkillable, an unkillable and a polite helper
reach every branch of a stop, and two late processes give the chain of two forks
that is missed. With one slot every install waits for every other,
and a slot wrongly given back by one lets a third in beside the second; two
more SetConfig calls take the channel away and bring another. Three marker lines
are all the markers there are. Two writes and two files give a rotation in the middle of a
line, before and after a truncation, and a snapshot of an old file on top. Three
pids hold a wrapper, a child and an orphan or a stranger; two births let a pid be used again
during a scan. Two targets, sources and volumes give a source that overwrites
another, a link that is right, wrong and missing, and three starts
one that fails, one that succeeds and one on another volume.

Named bounds: `MaxCrash` (crashes), the size of `StartId`, `Pid` and `Install`,
the length of InstallSlots' `Configs`, `MaxLines`, `MaxWrites`, `MaxFiles`,
`MaxCuts`, `Pids`, `MaxBirths`, `MaxExecs`, `MaxStarts`, `MaxMishaps`. One
StopTask, DestroyTask or SignalTask call at a time.
`RecoverTask` for an ID that was destroyed waits for the goroutine of the
destroyed handle to end (`Restored`): the model keeps one handle per ID.

Deadlock is not checked: a task that is done, an install that has returned and a
stop that has answered really stop; that they get there is a property of its own.

### Fairness

Weak fairness of each goroutine of the plugin (Go schedules what can run; every
wait in it has a deadline or a channel modelled here), and of the kill of a
cancelled context. In `TerminateProcesses` also: SIGKILL ends a process
that is not stuck, a graceful signal one that is not deaf. In `InstallSlots` the
send is strongly fair: Go hands a channel to its blocked senders in the order they
came. `SteamcmdTask` takes steamcmd to end, by itself or by its
install_timeout; `InstallRun` takes nothing of the kind and has no fairness for
steamcmd or for the deadline. In `LogFollow`
the follower and its supervisor are weakly fair; in `ProcMembers` the polling goroutine is
weakly fair, time passes (the recheck, strongly fair because it is enabled between scans
only) and an exec comes to its end. `StartFiles` has no liveness: a failed start is the
client's to repeat. Nothing is assumed of the client, of servers, of the game, or of
crashes, in any module.

## 4. What the runs say about the code

OneServer, NoUpdateUnderServer and the refinement hold
because `adoptOrReap` looks before anything else, and on two conditions the
code does not enforce: `OverlapStarts = FALSE` and `OrphanSteamcmd = FALSE`
(OneServer needs the first only).

- **TaskOverlap.** The client restarts while `StartTask` is installing and the
  plugin survives. The client has no handle, starts the task under a new ID,
  and both calls find nothing and launch (lifecycle.go:209-212, adopt.go:52).
- With `OrphanSteamcmd = TRUE` (no run of its own): the plugin dies while steamcmd
  runs. steamcmd has a process group of its own and no marker, so if it does not
  die with the plugin the next start does not see it: it may find an installed
  manifest, skip, launch, and have files rewritten under it (lifecycle.go:270).
- **TaskRecoverFinished.** RecoverTask of a finished install-only task leaves
  doneCh open and procState running: WaitTask never returns.
- **LogLost.** A log rotated within the last poll interval before the exit: the
  final step drains the old file, closes it and returns, so the new file's
  lines are never copied (logfollow.go:161, 174). A recovered task is reported
  before its last lines are drained, which DrainedBeforeReport leaves out; so it
  does what a game that outlives its wrapper (lifecycle.go:411 waits for the
  wrapper alone) writes, cuts or rotates away unopened after the follower was told to stop.
- **KillsStranger.** The root pid is taken from the persisted state without a
  look at the process behind it. After a reboot the stranger that has it, and
  its children, count as the task, and DestroyTask kills them (stats.go:138).
- A game forked between the second listing of a stop and the SIGKILL of what it
  listed is waited for and never signalled; if it then forks behind the last listing
  and exits before it is looked at, the call answers "gone" with a living process
  of the task (reap.go:121, 137). `GoneIsGone` says that it takes both forks: one
  alone is caught, as reap.go:100 claims. `SupportLast`, `GraceFirst` and
  `OnlyStuckSurvive` hold of everything else, whatever is spawned.
- A second `SetConfig` call makes a fresh channel, even with the same limit, while
  earlier installs run: as many again are admitted, and a `release` that finds
  the new channel nil or empty blocks its StartTask (driver.go:66, 106). SlotBound and
  InstallsReturn speak of the time before it. ElementsAreHeld holds throughout.

What the models name as out of the code's reach: `ExitIsReal` lets through what was forked
while /proc was read, a marked process that was read in the middle of
an exec and is outside the wrapper's tree (it is overlooked for a minute), and a
process without a marker that left the tree. The end of a file that was rotated away in
the middle of a line is joined to the first line of the next
(`CopiedInOrder`), and a file replaced between the stat and the open is copied twice.

Three places where comments and code differ and no property depends on it:
lifecycle.go:492 calls a task whose handle has no process one "with nothing
running, or already exited", which a task still installing is not (StopTask then
does nothing, and the launch follows; DestroyTask does cancel it);
`README.md:276-277` of the repository says followers are not re-attached after
recovery, lifecycle.go:132-139 does re-attach them; lifecycle.go:405-408 says
closing the log files is deferred to the goroutine rather than to StartTask, but
lifecycle.go:220 defers it there too.

## 5. What is proved

With TLAPS, for every value of the constants:

| Theorem | Says | Assumes |
|---|---|---|
| TypeCorrect | `[]TypeOK` of SteamcmdTask | - |
| ServerIsUnique | `[]OneServer` | `~OverlapStarts` |
| UpdatesAreSafe, SteamcmdIsAlone, LaunchesAreComplete | `[]NoUpdateUnderServer`, `[]OneSteamcmd`, `[]LaunchesComplete` | `~OverlapStarts`, `~OrphanSteamcmd` |
| ImplementsInstallDir | SteamcmdTask implements InstallDir | `~OverlapStarts`, `~OrphanSteamcmd` |
| DoneIsClosedOnce | `[]ClosedOnce` | - |
| TasksAreSupervised | `[]Supervised` | - |
| ReportsAreFinal | ReportStands (an action property) | - |
| TerminateTypes | `[]TypeOK` of TerminateProcesses | - |
| GoneTakesTwoForks | `[]GoneIsGone` | - |
| SupportGoesLast, GraceComesFirst, StopsEverything | `[]` of SupportLast, GraceFirst, OnlyStuckSurvive, whatever is spawned | - |
| SlotTypes | `[]TypeOK` of InstallSlots | - |
| InstallsAreBounded | `[]SlotBound`, for any sequence of SetConfig calls | - |
| ElementsHeld, HoldersAreBounded | `[]ElementsAreHeld` of InstallSlots, and that the installs that hold a slot are at most what all limits set so far add up to | - |
| InstallTypes, SuccessDecides, OnlyFailuresAreRepaired | all the safety properties of InstallRun | - |
| FollowTypes, OldLinesStay | `[]TypeOK` and `[]StaleStays` of LogFollow | - |
| LinesInOrder, NothingIsSkipped, DrainedThenReported | `[]` of CopiedInOrder, NothingSkipped and DrainedBeforeReport, for any number of writes, files and truncations | - |
| MemberTypes, ExitsAreReal, OnlyRecycledAreKilled | all the safety properties of ProcMembers but OnlyOursKilled, which fails | - |
| FileTypes, VolumesAreMounted, ConfigIsStaged, NothingIsHalfWritten, TempsAreRemoved, ContentIsKept | all the properties of StartFiles, and LeftByMishaps: only a crash or a failed rename leaves a temporary file | - |

Every module's named assumptions on its constants are assumed too: TLC evaluates them
in each run. The assumptions in the table are the ones section 4 is about.

The argument for OneServer. A launch adds a process, so it must happen when
none lives. The scan that showed this is long past at the launch; what keeps it
true is that only a `StartTask` launches, and the client has one under way
(`OneStart`): a start that died with the plugin launches nothing, so that a
steamcmd it left behind does not matter to OneServer. Hence `ClearBeforeLaunch`: from the scan to the launch no process
of the task lives. If a steamcmd dies with the plugin, it belongs to a start that
waits for it (`SteamcmdOwned`), so that at a launch there is none and the manifest
stands. These, with `InstallOnlyHasNone` for tasks that skip the scan, are `ServerInv`.

The argument for doneCh. The one who closes it is the start until it returns and
the supervisor from then on. That needs `HeldIsStarted` (what the
client can recover is a start that returned it) and `TrackedIsOpen` (an ID is
not tracked before its handle exists, nor with a cancelled context): with them
ClosedOnce and Supervised are inductive (`ReportInv`).

The refinement follows from the same invariants: a step that adds a process is a
`Launch`, at which the directory is unused and complete, or a spawn by a start
that serves already; a step that adds a steamcmd is an `InstallStarts` with none
alive.

ReportStands is a fact about steps: a step that touches a tracked handle whose
doneCh is closed must leave it closed with its result. `ResultIsSet`, on top of `ReportInv`,
says that whoever closed it had set the result.

The argument for a stop (`StopInv`): a living process that a listing could
find is among those it has still to look at or has found (`ScanInv`); so at each
point of the call the workload born before the listing is signalled as far as the call
has got, and what of it is `covered` lives on past its last wait only if it is
`Stuck` (`WorkOrder`); likewise the helpers (`SupportOrder`); who is killed was there
when the grace period ended (`GraceInv`); and the last listing finds whoever was born before it (`AnswerInv`), which a
process forked later escapes only through a parent that lived then and that no earlier
listing covered. For slots (`SlotInv`): until the second SetConfig the channel holds as many elements
as there are holders, and whoever runs steamcmd holds. After it (`ElementInv`)
elements and holders still change together, one at a send and one at a
receive, whichever channel each is on; and the elements fit into the
channels made so far. For an install
(`RunInv`): what was printed is what was seen and what is in the pipe, the
scanner empties the pipe before the verdict, steamcmd runs only while it is
waited for, and a repair that was decided on is still that of a failed first run.

The argument for StaleStays (`StaleInv`): a file that still has old bytes is the
snapshot's, or is read past them, or is one neither the path nor the follower
will come to again; no step may leave all three.

The argument for CopiedInOrder, NothingSkipped and DrainedBeforeReport
(`FollowInv`), which are proved together. A file holds consecutive writes,
later files hold later ones, and only the last is written to (`FilesInv`). What
the follower has yet to read (`Ahead`) was written after everything it has
taken (`AheadIsNew`), whatever is rotated or truncated under it: a truncated file
starts with a later write, a file once replaced is not written to again
(`ReplacedIsGone`), and a position that outruns a truncated file is reset before
it is read from. What lies behind the position was taken (`BehindIsTaken`)
unless a cut is yet to be noticed. A held-back end of a line is either the byte
before the position, which the next byte continues, or the torn end of a
rotated file (`PartialEnds`). `DueInv` follows what was in the file when the
follower was stopped, and the game has not taken since, through its last step: it is taken or ahead, or
behind the position only where a cut is about to escape (`Escaping`); what is
read again after a cut is in the file or in stdout; it is taken after
the last drain, in stdout after the return; `EndInv` has the report come
after that. All of it is said of runs in which no cut has escaped the follower
and no file was replaced as it was opened (`clean`), as the properties are. The history variables `hidden` and `clean` are
what makes it inductive: they tell a cut that the next fstat reveals
from one nothing reveals.

For StartFiles (`FilesInv`):
what the loops have done up to `at`, and what the temporary file is at each
operation.

The argument for ExitIsReal (`MemberInv`). During a scan every process of the task has
been found, is still to be looked at, was born since the listing, or is
excused (`ScanSoFar`); a "not ours" that did not come from an unreadable environ says that
no process of the task has the marker (`VerdictsAgree`), since children inherit
it (`ProcessesAgree`). When nobody was found, the tree holds nothing alive but
newborns, and stays so, because a process born into it has no children yet and
one that dies loses them (`NobodyFound`). For OnlyRecycledKilled: a stranger has no parent
among the task's processes, so that the tree has no stranger but the root
(`StrangersAreRecycled`).

The invariants stand at the head of the `_proofs` modules. Each was checked with
TLC before it was proved, as the INVARIANT of the
run of its module (`FollowInv` with three writes, two files and two truncations:
12.9 million states).

Only model-checked: liveness (ExitReported, DestroyedStops, Answers, InstallsReturn,
CancelReturns, LinesCopied, ExitNoticed, LivingAreFound), which is
beyond this prover, as is ENABLED. Every safety property of a passing run,
state or action, is proved.

## 6. What is not modelled

Usage statistics (`collect`, `pollStats`) are floating-point figures without a
promise about them. The streams behind Fingerprint, WaitTask, TaskStats and
TaskEvents copy a value or a channel's close to a reader; whether the reader
stays is Nomad's affair, and the one hazard (driver.go:155) is listed. The
choice of a Windows runtime, configuration decoding, login and command lines are
functions on strings without state, with table tests in the repository. The
plugin's entry point and the end-to-end jobs keep no state.

Abstracted: in `SteamcmdTask` one listing of processes is one step and finds exactly
the live processes of the task, but for the dying helper above; in
`TerminateProcesses` `list` may find any pid of the task, and those that live throughout
surely (`ProcMembers` says how far that is so); deadlines pass at any time; reads of `h.state` without
its lock (lifecycle.go:303, 339) concern data no model tells apart; several followed logs are several instances of one, which
share only the lock around a write of whole lines; paths, names and contents of
files are members of small sets.

Worth doing next: the composition of `ProcMembers` with `TerminateProcesses`, to
state SupportLast of a membership that is not exact.
