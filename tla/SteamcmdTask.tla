---------------------------- MODULE SteamcmdTask ----------------------------
(***************************************************************************)
(* The life of ONE task of the steamcmd driver: one alloc/task pair, hence *)
(* one process marker (taskKey) and one install_dir, through the           *)
(* successive StartTask calls Nomad makes for it, each under a fresh task  *)
(* ID.  The actors are                                                     *)
(*   - the Nomad client, which starts, recovers, stops and destroys        *)
(*     (external: only what lifecycle.go and adopt.go expect of it);       *)
(*   - the goroutine of each StartTask call;                               *)
(*   - the supervising goroutine of each handle (Wait or watchRecovered);  *)
(*   - the goroutine of a StopTask, DestroyTask or SignalTask call;        *)
(*   - the operating system: server processes, steamcmd, crashes.          *)
(* Which process is a member of the task (stats.go) is exact here: a       *)
(* process is a member iff some StartTask of this task launched it.        *)
(***************************************************************************)
EXTENDS Naturals

CONSTANTS
  StartId,          \* task IDs: one per StartTask call Nomad makes
  None,             \* no task ID
  Configs,          \* the task configs to check: [launch, update]
  OrphanSteamcmd,   \* a steamcmd outlives the plugin process that ran it
  OverlapStarts,    \* the client may crash while its StartTask call runs
  MaxCrash          \* bound: crashes of the plugin or of the client

ASSUME NoneIsNoStart == None \notin StartId
ASSUME ConfigsType == Configs \subseteq [launch : BOOLEAN, update : BOOLEAN]
ASSUME OptionsAreBoolean == {OrphanSteamcmd, OverlapStarts} \subseteq BOOLEAN
ASSUME MaxCrashIsNat == MaxCrash \in Nat

VARIABLES
  \* memory of the plugin process
  tasks,      \* the IDs in Driver.tasks
  handle,     \* the taskHandle of each ID
  start,      \* where the StartTask call of each ID is
  watcher,    \* the goroutine supervising each ID: none, wait or poll
  op,         \* the StopTask, DestroyTask or SignalTask call in progress
  \* the operating system
  live,       \* the live server processes each StartTask launched
  steamcmd,   \* the IDs whose steamcmd process is running
  installed,  \* the appmanifest says the app is fully installed
  \* the Nomad client
  config,     \* the task's config: a launch block? update_on_start?
  client,     \* idle, starting, running or restoring
  current,    \* the ID the client starts, runs or restores
  crashes     \* crashes so far

plugin == <<tasks, handle, start, watcher, op>>
os     == <<live, steamcmd, installed>>
nomad  == <<config, client, current, crashes>>
vars   == <<tasks, handle, start, watcher, op, live, steamcmd, installed,
            config, client, current, crashes>>

HasLaunch     == config.launch
UpdateOnStart == config.update

\* The launched wrapper, the game it starts (under Wine in a process group of
\* its own), and wineserver or Xvfb: a "support process" of supportComms.
Work == {"wrapper", "game"}
Kind == Work \cup {"helper"}

\* A StartTask call that has been issued and has not returned.
Active == {"called", "opened", "reap", "decide", "install", "finish",
           "launch", "persist"}
\* A returned StartTask call.  ("lost" is a call that died with the plugin.)
Returned == {"ok", "failed"}

NoOp == [id |-> None, step |-> "none"]

\* result: nil, an exit status, or -1 ("lost": the real status is unknown).
Handle == [cmd       : {"none", "launched", "adopted"},
           procState : {"running", "exited"},
           phase     : {"", "running", "exited"},
           result    : {"nil", "status", "lost"},
           done      : BOOLEAN,      \* doneCh is closed
           cancelled : BOOLEAN]      \* ctx is cancelled

NewHandle == [cmd |-> "none", procState |-> "running", phase |-> "",
              result |-> "nil", done |-> FALSE, cancelled |-> FALSE]

\* procState, exitResult and phase; then doneCh is closed.
ExitSet(h, r) == [h EXCEPT !.procState = "exited", !.result = r,
                           !.phase = "exited"]
Exited(h, r) == [ExitSet(h, r) EXCEPT !.done = TRUE]

\* A handle bound to a process: h.cmd and phaseRunning.
Serving(h, c) == [h EXCEPT !.cmd = c, !.phase = "running"]

\* h.cancel().
Cancelled(h) == [h EXCEPT !.cancelled = TRUE]

\* liveMembers() and findMarked(): every live process of the task, whichever
\* StartTask launched it.
NoneLive == \A j \in StartId : live[j] = {}
WorkLive == \E j \in StartId : live[j] \cap Work # {}

\* What terminateProcesses leaves when it gives up: any survivors.
Survivors(left) == [j \in StartId |-> live[j] \cap left]

\* The driver state the last SetDriverState gave Nomad.
SavedPhase == IF HasLaunch THEN "running" ELSE "exited"

Init ==
  /\ tasks = {}
  /\ handle = [i \in StartId |-> NewHandle]
  /\ start = [i \in StartId |-> "unused"]
  /\ watcher = [i \in StartId |-> "none"]
  /\ op = NoOp
  /\ live = [i \in StartId |-> {}]
  /\ steamcmd = {}
  /\ installed \in BOOLEAN
  /\ config \in Configs
  /\ client = "idle"
  /\ current = None
  /\ crashes = 0

-----------------------------------------------------------------------------
(* The Nomad client (external).  It holds one task at a time.              *)

ClientStarts(i) ==
  /\ client = "idle" /\ start[i] = "unused"
  /\ client' = "starting" /\ current' = i
  /\ start' = [start EXCEPT ![i] = "called"]
  /\ UNCHANGED <<tasks, handle, watcher, op, os, config, crashes>>

\* The reply of StartTask: Nomad persists the handle, or will try again
\* under a new ID.
ClientGetsReply(i) ==
  /\ client = "starting" /\ current = i /\ start[i] \in Returned
  /\ IF start[i] = "ok"
       THEN client' = "running" /\ UNCHANGED current
       ELSE client' = "idle" /\ current' = None
  /\ UNCHANGED <<plugin, os, config, crashes>>

\* StopTask, DestroyTask or SignalTask on the task the client knows of.
ClientCalls(i) ==
  /\ client \in {"starting", "running"} /\ current = i /\ op = NoOp
  /\ \E s \in {"stop", "destroy", "signal"} : op' = [id |-> i, step |-> s]
  /\ UNCHANGED <<tasks, handle, start, watcher, os, nomad>>

\* The client has destroyed its task, or finds the driver does not know it.
ClientForgets(i) ==
  /\ client = "running" /\ current = i /\ i \notin tasks /\ op = NoOp
  /\ client' = "idle" /\ current' = None
  /\ UNCHANGED <<plugin, os, config, crashes>>

\* The client restarts and the plugin process survives: a persisted handle
\* will be recovered, a StartTask reply still due is lost.
ClientCrash ==
  /\ crashes < MaxCrash /\ client \in {"starting", "running"}
  /\ crashes' = crashes + 1
  /\ IF client = "running"
       THEN client' = "restoring" /\ UNCHANGED current
       ELSE /\ OverlapStarts \/ start[current] \in Returned
            /\ client' = "idle" /\ current' = None
  /\ UNCHANGED <<plugin, os, config>>

\* The plugin process dies: its memory and goroutines go, the servers it
\* launched (process groups of their own) stay.
PluginCrash ==
  /\ crashes < MaxCrash
  /\ crashes' = crashes + 1
  /\ tasks' = {}
  /\ handle' = [i \in StartId |-> NewHandle]
  /\ start' = [i \in StartId |-> IF start[i] \in Active THEN "lost"
                                                        ELSE start[i]]
  /\ watcher' = [i \in StartId |-> "none"]
  /\ op' = NoOp
  /\ steamcmd' = IF OrphanSteamcmd THEN steamcmd ELSE {}
  /\ IF client \in {"running", "restoring"}
       THEN client' = "restoring" /\ UNCHANGED current
       ELSE client' = "idle" /\ current' = None
  /\ UNCHANGED <<live, installed, config>>

-----------------------------------------------------------------------------
(* StartTask.                                                              *)

Goto(i, pc) == start' = [start EXCEPT ![i] = pc]

\* Every error return past tasks.Store deletes the ID first.
ReturnError(i) ==
  /\ tasks' = tasks \ {i}
  /\ Goto(i, "failed")
  /\ UNCHANGED <<watcher, op, nomad>>

\* "already started", or an error before the handle is stored: config,
\* timeout, mounts, install_dir, disk space.
StartRejected(i) ==
  /\ start[i] = "called"
  /\ Goto(i, "failed")
  /\ UNCHANGED <<tasks, handle, watcher, op, os, nomad>>

\* Slip: storing the phase handle.go has "for documentation purposes only".
StoreInstalling(i) ==
  /\ start[i] = "called" /\ i \notin tasks
  /\ tasks' = tasks \cup {i}
  /\ handle' = [handle EXCEPT ![i] = [NewHandle EXCEPT !.phase = "installing"]]
  /\ Goto(i, "opened")
  /\ UNCHANGED <<watcher, op, os, nomad>>

StoreHandle(i) ==
  /\ start[i] = "called" /\ i \notin tasks
  /\ tasks' = tasks \cup {i}
  /\ handle' = [handle EXCEPT ![i] = NewHandle]
  /\ Goto(i, "opened")
  /\ UNCHANGED <<watcher, op, os, nomad>>

OpenLogsFails(i) ==
  /\ start[i] = "opened"
  /\ ReturnError(i)
  /\ UNCHANGED <<handle, os>>

Adopted(i) == handle' = [handle EXCEPT ![i] = Serving(@, "adopted")]

\* Slip: falling through to the install after adopting.
AdoptFallsThrough(i) ==
  /\ start[i] = "opened" /\ HasLaunch /\ WorkLive
  /\ Adopted(i)
  /\ watcher' = [watcher EXCEPT ![i] = "poll"]
  /\ Goto(i, "decide")
  /\ UNCHANGED <<tasks, op, os, nomad>>

\* adoptOrReap: a workload process carries the marker, bind to it.  A process
\* that has died since it was found has no name to tell it by and counts as
\* workload, so one of several helpers that is ending can be adopted too.
Adopt(i) ==
  /\ start[i] = "opened" /\ HasLaunch /\ ~NoneLive
  /\ Adopted(i)
  /\ watcher' = [watcher EXCEPT ![i] = "poll"]
  /\ Goto(i, "ok")
  /\ UNCHANGED <<tasks, op, os, nomad>>

AdoptFails(i) ==
  /\ start[i] = "opened" /\ HasLaunch /\ ~NoneLive
  /\ Adopted(i)
  /\ ReturnError(i)
  /\ UNCHANGED os

\* adoptOrReap: only helpers are left.
FindHelpers(i) ==
  /\ start[i] = "opened" /\ HasLaunch /\ ~NoneLive /\ ~WorkLive
  /\ Goto(i, "reap")
  /\ UNCHANGED <<tasks, handle, watcher, op, os, nomad>>

ReapHelpers(i) ==
  /\ start[i] = "reap"
  /\ live' = [j \in StartId |-> {}]
  /\ Goto(i, "decide")
  /\ UNCHANGED <<tasks, handle, watcher, op, steamcmd, installed, nomad>>

ReapFails(i) ==
  /\ start[i] = "reap"
  /\ \E left \in SUBSET Kind \ {{}} : live' = Survivors(left)
  /\ ReturnError(i)
  /\ UNCHANGED <<handle, steamcmd, installed>>

\* Slip: looking only for the workload, so that helpers are left running.
FindNothingIfNoWork(i) ==
  /\ start[i] = "opened" /\ (HasLaunch => ~WorkLive)
  /\ Goto(i, "decide")
  /\ UNCHANGED <<tasks, handle, watcher, op, os, nomad>>

\* No process carries the marker; or an install-only task, which never looks.
FindNothing(i) ==
  /\ start[i] = "opened" /\ (HasLaunch => NoneLive)
  /\ Goto(i, "decide")
  /\ UNCHANGED <<tasks, handle, watcher, op, os, nomad>>

SkipInstall == ~UpdateOnStart /\ HasLaunch /\ installed

InstallSkipped(i) ==
  /\ start[i] = "decide" /\ SkipInstall
  /\ Goto(i, "launch")
  /\ UNCHANGED <<tasks, handle, watcher, op, os, nomad>>

\* exec's Start refuses a context that is already cancelled.
InstallStarts(i) ==
  /\ start[i] = "decide" /\ ~SkipInstall /\ ~handle[i].cancelled
  /\ steamcmd' = steamcmd \cup {i}
  /\ Goto(i, "install")
  /\ UNCHANGED <<tasks, handle, watcher, op, live, installed, nomad>>

\* buildArgs fails, the slot wait is cancelled, steamcmd does not start.
InstallNotStarted(i) ==
  /\ start[i] = "decide" /\ ~SkipInstall
  /\ ReturnError(i)
  /\ UNCHANGED <<handle, os>>

\* A success marker: the only way past the install.
InstallSucceeds(i) ==
  /\ start[i] = "install" /\ i \in steamcmd
  /\ steamcmd' = steamcmd \ {i}
  /\ installed' = TRUE
  /\ Goto(i, IF HasLaunch THEN "launch" ELSE "finish")
  /\ UNCHANGED <<tasks, handle, watcher, op, live, nomad>>

\* Slip: returning on timeout or cancellation while steamcmd runs on.
InstallFailsUnkilled(i) ==
  /\ start[i] = "install"
  /\ ReturnError(i)
  /\ UNCHANGED <<handle, os>>

\* steamcmd fails, or install_timeout or h.cancel kills its process group.
InstallFails(i) ==
  /\ start[i] = "install"
  /\ steamcmd' = steamcmd \ {i}
  /\ ReturnError(i)
  /\ UNCHANGED <<handle, live, installed>>

InstallOnlyDone(i) ==
  /\ start[i] = "finish"
  /\ handle' = [handle EXCEPT ![i] = Exited(@, "status")]
  /\ Goto(i, "ok")
  /\ UNCHANGED <<tasks, watcher, op, os, nomad>>

\* SetDriverState fails after the handle has its exit result, before doneCh
\* is closed.
InstallOnlyNotSaved(i) ==
  /\ start[i] = "finish"
  /\ handle' = [handle EXCEPT ![i] = ExitSet(@, "status")]
  /\ ReturnError(i)
  /\ UNCHANGED os

\* Staging, the Windows runtime or Start fails; Start does when ctx is done.
LaunchFails(i) ==
  /\ start[i] = "launch"
  /\ ReturnError(i)
  /\ UNCHANGED <<handle, os>>

Launch(i) ==
  /\ start[i] = "launch" /\ ~handle[i].cancelled
  /\ live' = [live EXCEPT ![i] = {"wrapper"}]
  /\ handle' = [handle EXCEPT ![i] = Serving(@, "launched")]
  /\ Goto(i, "persist")
  /\ UNCHANGED <<tasks, watcher, op, steamcmd, installed, nomad>>

\* SetDriverState fails: only the wrapper itself is killed, and not waited for.
LaunchNotSaved(i) ==
  /\ start[i] = "persist"
  /\ live' \in {live, [live EXCEPT ![i] = @ \ {"wrapper"}]}
  /\ ReturnError(i)
  /\ UNCHANGED <<handle, steamcmd, installed>>

\* Slip: the goroutine that waits for the wrapper is not started.
LaunchUnsupervised(i) ==
  /\ start[i] = "persist"
  /\ Goto(i, "ok")
  /\ UNCHANGED <<tasks, handle, watcher, op, os, nomad>>

LaunchReturns(i) ==
  /\ start[i] = "persist"
  /\ watcher' = [watcher EXCEPT ![i] = "wait"]
  /\ Goto(i, "ok")
  /\ UNCHANGED <<tasks, handle, op, os, nomad>>

-----------------------------------------------------------------------------
(* The goroutines that supervise a handle.                                 *)

Reported(i, r) ==
  /\ handle' = [handle EXCEPT ![i] = Exited(@, r)]
  /\ watcher' = [watcher EXCEPT ![i] = "none"]
  /\ UNCHANGED <<tasks, start, op, os, nomad>>

\* The plugin's own child: Wait returns when the wrapper exits.
WaitReturns(i) ==
  /\ watcher[i] = "wait" /\ "wrapper" \notin live[i]
  /\ Reported(i, "status")

\* watchRecovered: no process of the task is left.
PollSeesExit(i) ==
  /\ watcher[i] = "poll" /\ NoneLive
  /\ Reported(i, "lost")

\* watchRecovered: the handle was destroyed first.
PollCancelled(i) ==
  /\ watcher[i] = "poll" /\ handle[i].cancelled
  /\ watcher' = [watcher EXCEPT ![i] = "none"]
  /\ UNCHANGED <<tasks, handle, start, op, os, nomad>>

\* exec.CommandContext: cancelling the handle's context kills the wrapper
\* (and nothing it started).
CancelKillsWrapper(i) ==
  /\ handle[i].cancelled /\ handle[i].cmd = "launched"
  /\ "wrapper" \in live[i]
  /\ live' = [live EXCEPT ![i] = @ \ {"wrapper"}]
  /\ UNCHANGED <<plugin, steamcmd, installed, nomad>>

-----------------------------------------------------------------------------
(* RecoverTask, called for the handle the client had persisted.            *)

Recovered(i) ==
  /\ client = "restoring" /\ current = i
  /\ client' = "running"
  /\ UNCHANGED <<start, op, os, config, current, crashes>>

RecoverTracked(i) ==
  /\ Recovered(i) /\ i \in tasks
  /\ UNCHANGED <<tasks, handle, watcher>>

\* A new handle: for an ID DestroyTask has deleted, only once the goroutine
\* of the handle it replaces has ended.
Restored(i, h) ==
  /\ Recovered(i) /\ i \notin tasks /\ watcher[i] = "none"
  /\ tasks' = tasks \cup {i}
  /\ handle' = [handle EXCEPT ![i] = h]

RecoverDead(i) ==
  /\ Restored(i, Exited(NewHandle, "lost"))
  /\ SavedPhase = "running" /\ NoneLive
  /\ UNCHANGED watcher

\* Slip: storing a new handle without looking for the one already tracked.
RecoverOverwrites(i) ==
  /\ Recovered(i) /\ SavedPhase = "running" /\ ~NoneLive
  /\ tasks' = tasks \cup {i}
  /\ handle' = [handle EXCEPT ![i] = Serving(NewHandle, "adopted")]
  /\ watcher' = [watcher EXCEPT ![i] = "poll"]

\* Slip: re-adopting without watchRecovered.
RecoverUnwatched(i) ==
  /\ Restored(i, Serving(NewHandle, "adopted"))
  /\ SavedPhase = "running" /\ ~NoneLive
  /\ UNCHANGED watcher

RecoverLive(i) ==
  /\ Restored(i, Serving(NewHandle, "adopted"))
  /\ SavedPhase = "running" /\ ~NoneLive
  /\ watcher' = [watcher EXCEPT ![i] = "poll"]

\* The handle of a finished install-only task: only its phase is set.
RecoverExited(i) ==
  /\ Restored(i, [NewHandle EXCEPT !.phase = "exited"])
  /\ SavedPhase = "exited"
  /\ UNCHANGED watcher

\* The driver state does not decode: the client gives the handle up.
RecoverFails(i) ==
  /\ client = "restoring" /\ current = i /\ i \notin tasks
  /\ client' = "idle" /\ current' = None
  /\ UNCHANGED <<plugin, os, config, crashes>>

-----------------------------------------------------------------------------
(* StopTask, DestroyTask and SignalTask.                                   *)

At(i, s) == op = [id |-> i, step |-> s]

StopNotFound(i) ==
  /\ At(i, "stop") /\ i \notin tasks
  /\ op' = NoOp
  /\ UNCHANGED <<tasks, handle, start, watcher, os, nomad>>

StopWithoutProcess(i) ==
  /\ At(i, "stop") /\ i \in tasks /\ handle[i].cmd = "none"
  /\ op' = NoOp
  /\ UNCHANGED <<tasks, handle, start, watcher, os, nomad>>

\* terminateProcesses; its answer is only logged.
StopTerminates(i) ==
  /\ At(i, "stop") /\ i \in tasks /\ handle[i].cmd # "none"
  /\ \E left \in SUBSET Kind : live' = Survivors(left)
  /\ op' = [id |-> i, step |-> "wait"]
  /\ UNCHANGED <<tasks, handle, start, watcher, steamcmd, installed, nomad>>

\* doneCh is closed or 5 seconds pass; then wineserver -k, under Wine.
StopReturns(i) ==
  /\ At(i, "wait")
  /\ live' \in {live, Survivors(Work)}
  /\ op' = NoOp
  /\ UNCHANGED <<tasks, handle, start, watcher, steamcmd, installed, nomad>>

\* The ID is unknown, or the task is running and the call is not forced.
DestroyRefused(i) ==
  /\ At(i, "destroy")
  /\ i \notin tasks \/ handle[i].procState = "running"
  /\ op' = NoOp
  /\ UNCHANGED <<tasks, handle, start, watcher, os, nomad>>

\* SIGKILL for every process listed, wherever the start of the task is.  What
\* was spawned since the listing survives; what was killed need not be gone yet.
DestroyKills(i) ==
  /\ At(i, "destroy") /\ i \in tasks /\ handle[i].procState = "running"
  /\ \E left \in SUBSET Kind : live' = Survivors(left)
  /\ op' = [id |-> i, step |-> "cancel"]
  /\ UNCHANGED <<tasks, handle, start, watcher, steamcmd, installed, nomad>>

DestroyExited(i) ==
  /\ At(i, "destroy") /\ i \in tasks /\ handle[i].procState = "exited"
  /\ op' = [id |-> i, step |-> "cancel"]
  /\ UNCHANGED <<tasks, handle, start, watcher, os, nomad>>

\* Slip: forgetting the handle without cancelling its context.
DestroyForgets(i) ==
  /\ At(i, "cancel")
  /\ tasks' = tasks \ {i}
  /\ op' = NoOp
  /\ UNCHANGED <<handle, start, watcher, os, nomad>>

DestroyCancels(i) ==
  /\ At(i, "cancel")
  /\ handle' = [handle EXCEPT ![i] = Cancelled(@)]
  /\ tasks' = tasks \ {i}
  /\ op' = NoOp
  /\ UNCHANGED <<start, watcher, os, nomad>>

\* The ID is unknown, or has no process.
SignalRefused(i) ==
  /\ At(i, "signal")
  /\ i \notin tasks \/ handle[i].cmd = "none"
  /\ op' = NoOp
  /\ UNCHANGED <<tasks, handle, start, watcher, os, nomad>>

\* The workload gets the signal; if nothing of it is left, what is left of the
\* wrapper's process group.  Any of those may end of it.
SignalSends(i) ==
  /\ At(i, "signal") /\ i \in tasks /\ handle[i].cmd # "none"
  /\ \E left \in SUBSET Kind :
       (WorkLive => "helper" \in left) /\ live' = Survivors(left)
  /\ op' = NoOp
  /\ UNCHANGED <<tasks, handle, start, watcher, steamcmd, installed, nomad>>

-----------------------------------------------------------------------------
(* The operating system (external).                                        *)

\* A wrapper or a game starts another process of the task.
ProcessSpawns(i) ==
  /\ live[i] \cap Work # {}
  /\ \E k \in {"game", "helper"} \ live[i] :
       live' = [live EXCEPT ![i] = @ \cup {k}]
  /\ UNCHANGED <<plugin, steamcmd, installed, nomad>>

ProcessExits(i) ==
  /\ \E k \in live[i] : live' = [live EXCEPT ![i] = @ \ {k}]
  /\ UNCHANGED <<plugin, steamcmd, installed, nomad>>

\* steamcmd begins to rewrite the app: its manifest no longer says it is
\* fully installed.  (So does the removal of a stale manifest.)
SteamcmdWrites(i) ==
  /\ i \in steamcmd
  /\ installed' = FALSE
  /\ UNCHANGED <<plugin, live, steamcmd, nomad>>

\* A steamcmd ends with no success marker for its StartTask to see: it fails
\* or is killed, or its plugin has died (and it may yet finish).
SteamcmdEnds(i) ==
  /\ i \in steamcmd
  /\ steamcmd' = steamcmd \ {i}
  /\ installed' \in {installed, TRUE}
  /\ UNCHANGED <<plugin, live, nomad>>

-----------------------------------------------------------------------------

StartTask(i) ==
  \/ StartRejected(i) \/ StoreHandle(i) \/ OpenLogsFails(i)
  \/ Adopt(i) \/ AdoptFails(i) \/ FindHelpers(i)
  \/ ReapHelpers(i) \/ ReapFails(i) \/ FindNothing(i)
  \/ InstallSkipped(i) \/ InstallStarts(i) \/ InstallNotStarted(i)
  \/ InstallSucceeds(i) \/ InstallFails(i)
  \/ InstallOnlyDone(i) \/ InstallOnlyNotSaved(i)
  \/ LaunchFails(i) \/ Launch(i) \/ LaunchNotSaved(i) \/ LaunchReturns(i)

Supervise(i) ==
  \/ WaitReturns(i) \/ PollSeesExit(i) \/ PollCancelled(i)

RecoverTask(i) ==
  \/ RecoverTracked(i) \/ RecoverDead(i) \/ RecoverLive(i)
  \/ RecoverExited(i) \/ RecoverFails(i)

StopTask(i) ==
  \/ StopNotFound(i) \/ StopWithoutProcess(i)
  \/ StopTerminates(i) \/ StopReturns(i)

DestroyTask(i) ==
  \/ DestroyRefused(i) \/ DestroyKills(i) \/ DestroyExited(i)
  \/ DestroyCancels(i)

SignalTask(i) == SignalRefused(i) \/ SignalSends(i)

Client(i) ==
  \/ ClientStarts(i) \/ ClientGetsReply(i)
  \/ ClientCalls(i) \/ ClientForgets(i)

System(i) ==
  \/ ProcessSpawns(i) \/ ProcessExits(i)
  \/ SteamcmdWrites(i) \/ SteamcmdEnds(i)

Next ==
  \/ \E i \in StartId :
       \/ StartTask(i) \/ Supervise(i) \/ CancelKillsWrapper(i)
       \/ RecoverTask(i) \/ StopTask(i) \/ DestroyTask(i)
       \/ SignalTask(i) \/ Client(i) \/ System(i)
  \/ ClientCrash \/ PluginCrash

Spec == Init /\ [][Next]_vars

\* Goroutines of the plugin that can run do run, and the kernel delivers the
\* kill of a cancelled context.  Nothing is assumed of the client, of the
\* servers, or of crashes; steamcmd itself ends (install_timeout).
Fairness ==
  \A i \in StartId :
    /\ WF_vars(StartTask(i))
    /\ WF_vars(Supervise(i))
    /\ WF_vars(CancelKillsWrapper(i))
    /\ WF_vars(StopTask(i) \/ DestroyTask(i) \/ SignalTask(i))

FairSpec == Spec /\ Fairness

-----------------------------------------------------------------------------

\* Every variable has its type (the record fields of handle.go's taskHandle).
TypeOK ==
  /\ tasks \subseteq StartId
  /\ handle \in [StartId -> Handle]
  /\ start \in [StartId -> {"unused", "lost"} \cup Active \cup Returned]
  /\ watcher \in [StartId -> {"none", "wait", "poll"}]
  /\ op \in [id : StartId \cup {None},
             step : {"none", "stop", "wait", "destroy", "cancel", "signal"}]
  /\ live \in [StartId -> SUBSET Kind]
  /\ steamcmd \subseteq StartId
  /\ installed \in BOOLEAN
  /\ config \in Configs
  /\ client \in {"idle", "starting", "running", "restoring"}
  /\ current \in StartId \cup {None}
  /\ crashes \in 0..MaxCrash

\* adoptOrReap's reason to be: processes of the task from two launches never
\* run together ("launching another copy would put two servers on one world"),
\* through every restart of the plugin, stop, destroy and failed start.
OneServer ==
  \A i, j \in StartId : live[i] # {} /\ live[j] # {} => i = j

\* StartTask looks for a running instance "before touching anything (an update
\* would rewrite files under a running server)": no steamcmd writes the
\* install_dir while a process of the task lives.
NoUpdateUnderServer == steamcmd # {} => NoneLive

\* One install_dir, one steamcmd.  (This and LaunchesComplete follow from
\* DirHasOneUse, which the runs check.)
OneSteamcmd == \A i, j \in steamcmd : i = j

\* A start that skipped or ran steamcmd launches only what a manifest calls
\* fully installed, and with no steamcmd left to change it (appInstalled).
LaunchesComplete ==
  \A i \in StartId : start[i] = "launch" => installed /\ steamcmd = {}

\* The one use of the install_dir at a time that InstallDir specifies: what the
\* properties above say of states, and that one use is over before the
\* next begins, through every crash, stop and failed start.
Served == {i \in StartId : live[i] # {}}
Dir == INSTANCE InstallDir
         WITH Start <- StartId, updater <- steamcmd, server <- Served,
              complete <- installed
DirHasOneUse == Dir!Spec

\* doneCh is closed once: closing a closed channel would panic the plugin and
\* with it every task's supervision.  A handle has one goroutine that will
\* close its channel, StartTask's or the supervisor's, and only while it is
\* open.
ClosedOnce ==
  \A i \in StartId :
    /\ watcher[i] # "none" => ~handle[i].done /\ start[i] = "ok"
    /\ start[i] \in Active \ {"called"} => ~handle[i].done

\* Every tracked task with a process whose exit is not reported yet has a
\* goroutine that will report it, once its start has returned.
Supervised ==
  \A i \in tasks :
    handle[i].cmd # "none" /\ ~handle[i].done /\ start[i] \notin Active
      => watcher[i] # "none"

\* WaitTask and InspectTask of a task report one exit, with a result, and it
\* stands for as long as the plugin tracks the handle.
ReportStands ==
  [][\A i \in tasks \cap tasks' :
       handle[i].done => /\ handle'[i].done
                         /\ handle'[i].result = handle[i].result
                         /\ handle[i].result # "nil"
                         /\ handle[i].procState = "exited"]_vars

\* A task the client holds, whose processes are all gone, is reported exited
\* (or the client or the plugin stops holding it).
ExitReported ==
  \A i \in StartId :
    (/\ client = "running" /\ current = i
     /\ i \in tasks /\ handle[i].cmd # "none" /\ NoneLive)
    ~> (handle[i].done \/ i \notin tasks \/ client # "running" \/ current # i)

\* Once DestroyTask gets to h.cancel, the wrapper and the steamcmd of that
\* start go and stay away, even when StartTask is still in the middle of it,
\* unless the plugin crashes first.  (A wrapper the plugin did not launch
\* itself has nothing but its SIGKILL.)
DestroyedStops ==
  \A i \in StartId, n \in 0..MaxCrash :
    (At(i, "cancel") /\ handle[i].cmd # "adopted" /\ crashes = n)
    ~> ([]("wrapper" \notin live[i] /\ i \notin steamcmd) \/ crashes > n)

\* What lifecycle.go says of the exited branch of RecoverTask: the task "already
\* finished".  WaitTask on it should then return.
FinishedInstallReported ==
  \A i \in StartId :
    (i \in tasks /\ handle[i].phase = "exited")
    ~> (handle[i].done \/ i \notin tasks)
=============================================================================
