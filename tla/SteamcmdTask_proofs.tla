------------------------- MODULE SteamcmdTask_proofs -------------------------
(***************************************************************************)
(* Proofs about SteamcmdTask: type correctness; one server, no update      *)
(* under it and one steamcmd; and the protocol of doneCh.                  *)
(***************************************************************************)
EXTENDS SteamcmdTask, TLAPS

-----------------------------------------------------------------------------
(* The inductive invariants behind OneServer and its like, and behind      *)
(* ClosedOnce and Supervised.                                              *)

\* The client has at most one StartTask call under way.
OneStart ==
  \A i \in StartId : start[i] \in Active => client = "starting" /\ current = i

\* From the moment adoptOrReap found nothing until the launch, no process of
\* the task lives.
ClearBeforeLaunch ==
  \A i \in StartId :
    start[i] \in {"decide", "install", "finish", "launch"} => NoneLive

\* An install-only task never has a process.
InstallOnlyHasNone ==
  ~HasLaunch => /\ NoneLive
                /\ \A i \in StartId : start[i] \notin {"reap", "launch", "persist"}

\* A running steamcmd has a StartTask waiting for it.
SteamcmdOwned == \A i \in steamcmd : start[i] = "install"

ServerInv ==
  /\ OneStart
  /\ ClearBeforeLaunch
  /\ InstallOnlyHasNone
  /\ OneServer
  /\ ~OrphanSteamcmd => SteamcmdOwned /\ LaunchesComplete

\* The handle a client holds came from a StartTask that returned it.
HeldIsStarted ==
  client \in {"running", "restoring"} => current \in StartId /\ start[current] = "ok"

\* An ID is tracked only once its StartTask has stored it, and no tracked
\* handle is cancelled.
TrackedIsOpen ==
  /\ \A i \in StartId : start[i] \in {"unused", "called"} => i \notin tasks
  /\ \A i \in tasks : ~handle[i].cancelled

\* Whatever closed doneCh had set the exit result before.
ResultIsSet ==
  \A i \in StartId :
    handle[i].done => handle[i].result # "nil" /\ handle[i].procState = "exited"

ReportInv ==
  /\ HeldIsStarted
  /\ TrackedIsOpen
  /\ ClosedOnce
  /\ Supervised

-----------------------------------------------------------------------------
(* Handles.                                                                *)

\* newTaskHandle returns a handle, running and open.
LEMMA NewHandleType ==
  /\ NewHandle \in Handle
  /\ [NewHandle EXCEPT !.phase = "exited"] \in Handle
  /\ [NewHandle EXCEPT !.phase = "exited"].cmd = "none"
  /\ [NewHandle EXCEPT !.phase = "exited"].cancelled = FALSE
  /\ NewHandle.cmd = "none" /\ ~NewHandle.done /\ ~NewHandle.cancelled
  BY DEF NewHandle, Handle

\* What each update of a handle sets, and what it leaves alone.
LEMMA HandleTypes ==
  ASSUME NEW h \in Handle
  PROVE  /\ \A r \in {"nil", "status", "lost"} :
              /\ ExitSet(h, r) \in Handle /\ Exited(h, r) \in Handle
              /\ Exited(h, r).done /\ (ExitSet(h, r).done <=> h.done)
              /\ Exited(h, r).cancelled <=> h.cancelled
              /\ ExitSet(h, r).cancelled <=> h.cancelled
         /\ \A c \in {"launched", "adopted"} :
              /\ Serving(h, c) \in Handle
              /\ Serving(h, c).done <=> h.done
              /\ Serving(h, c).cancelled <=> h.cancelled
         /\ Cancelled(h) \in Handle
         /\ Cancelled(h).done <=> h.done
         /\ Cancelled(h).cmd = h.cmd
  BY DEF Exited, ExitSet, Serving, Cancelled, Handle

-----------------------------------------------------------------------------
(* Type correctness.                                                       *)

LEMMA StartTaskTypes ==
  ASSUME TypeOK, NEW i \in StartId, StartTask(i)
  PROVE  TypeOK'
<1> USE DEF TypeOK, plugin, os, nomad, Kind, Work, Active, Returned
<1>1. CASE StartRejected(i)
  BY <1>1 DEF StartRejected, Goto
<1>2. CASE StoreHandle(i)
  BY <1>2, NewHandleType DEF StoreHandle, Goto
<1>3. CASE OpenLogsFails(i)
  BY <1>3 DEF OpenLogsFails, Goto, ReturnError
<1>4. CASE Adopt(i)
  BY <1>4, HandleTypes DEF Adopt, Adopted, Goto
<1>5. CASE AdoptFails(i)
  BY <1>5, HandleTypes DEF AdoptFails, Adopted, Goto, ReturnError
<1>6. CASE FindHelpers(i)
  BY <1>6 DEF FindHelpers, Goto
<1>7. CASE ReapHelpers(i)
  BY <1>7 DEF ReapHelpers, Goto
<1>8. CASE ReapFails(i)
  BY <1>8 DEF ReapFails, Goto, ReturnError, Survivors
<1>9. CASE FindNothing(i)
  BY <1>9 DEF FindNothing, Goto
<1>10. CASE InstallSkipped(i)
  BY <1>10 DEF InstallSkipped, Goto
<1>11. CASE InstallStarts(i)
  BY <1>11 DEF InstallStarts, Goto
<1>12. CASE InstallNotStarted(i)
  BY <1>12 DEF InstallNotStarted, Goto, ReturnError
<1>13. CASE InstallSucceeds(i)
  BY <1>13 DEF InstallSucceeds, Goto
<1>14. CASE InstallFails(i)
  BY <1>14 DEF InstallFails, Goto, ReturnError
<1>15. CASE InstallOnlyDone(i)
  BY <1>15, HandleTypes DEF InstallOnlyDone, Goto
<1>16. CASE InstallOnlyNotSaved(i)
  BY <1>16, HandleTypes DEF InstallOnlyNotSaved, Goto, ReturnError
<1>17. CASE LaunchFails(i)
  BY <1>17 DEF LaunchFails, Goto, ReturnError
<1>18. CASE Launch(i)
  BY <1>18, HandleTypes DEF Launch, Goto
<1>19. CASE LaunchNotSaved(i)
  BY <1>19 DEF LaunchNotSaved, Goto, ReturnError
<1>20. CASE LaunchReturns(i)
  BY <1>20 DEF LaunchReturns, Goto
<1> QED
  BY <1>1, <1>2, <1>3, <1>4, <1>5, <1>6, <1>7, <1>8, <1>9, <1>10, <1>11, <1>12, <1>13, <1>14, <1>15, <1>16, <1>17, <1>18, <1>19, <1>20 DEF StartTask

LEMMA SuperviseTypes ==
  ASSUME TypeOK, NEW i \in StartId, Supervise(i)
  PROVE  TypeOK'
<1> USE DEF TypeOK, plugin, os, nomad, Kind, Work, Active, Returned
<1>1. CASE WaitReturns(i)
  BY <1>1, HandleTypes DEF WaitReturns, Reported
<1>2. CASE PollSeesExit(i)
  BY <1>2, HandleTypes DEF PollSeesExit, Reported
<1>3. CASE PollCancelled(i)
  BY <1>3 DEF PollCancelled
<1> QED
  BY <1>1, <1>2, <1>3 DEF Supervise

LEMMA RecoverTaskTypes ==
  ASSUME TypeOK, NEW i \in StartId, RecoverTask(i)
  PROVE  TypeOK'
<1> USE DEF TypeOK, plugin, os, nomad, Kind, Work, Active, Returned
<1>1. CASE RecoverTracked(i)
  BY <1>1 DEF RecoverTracked, Recovered
<1>2. CASE RecoverDead(i)
  BY <1>2, NewHandleType, HandleTypes DEF RecoverDead, Recovered, Restored
<1>3. CASE RecoverLive(i)
  BY <1>3, NewHandleType, HandleTypes DEF RecoverLive, Recovered, Restored
<1>4. CASE RecoverExited(i)
  BY <1>4, NewHandleType DEF RecoverExited, Recovered, Restored
<1>5. CASE RecoverFails(i)
  BY <1>5 DEF RecoverFails
<1> QED
  BY <1>1, <1>2, <1>3, <1>4, <1>5 DEF RecoverTask

LEMMA StopTaskTypes ==
  ASSUME TypeOK, NEW i \in StartId, StopTask(i)
  PROVE  TypeOK'
<1> USE DEF TypeOK, plugin, os, nomad, Kind, Work, Active, Returned
<1>1. CASE StopNotFound(i)
  BY <1>1 DEF StopNotFound, At, NoOp
<1>2. CASE StopWithoutProcess(i)
  BY <1>2 DEF StopWithoutProcess, At, NoOp
<1>3. CASE StopTerminates(i)
  BY <1>3 DEF StopTerminates, At, Survivors
<1>4. CASE StopReturns(i)
  BY <1>4 DEF StopReturns, At, NoOp, Survivors
<1> QED
  BY <1>1, <1>2, <1>3, <1>4 DEF StopTask

LEMMA DestroyTaskTypes ==
  ASSUME TypeOK, NEW i \in StartId, DestroyTask(i)
  PROVE  TypeOK'
<1> USE DEF TypeOK, plugin, os, nomad, Kind, Work, Active, Returned
<1>1. CASE DestroyRefused(i)
  BY <1>1 DEF DestroyRefused, At, NoOp
<1>2. CASE DestroyKills(i)
  BY <1>2 DEF DestroyKills, At, Survivors
<1>3. CASE DestroyExited(i)
  BY <1>3 DEF DestroyExited, At
<1>4. CASE DestroyCancels(i)
  BY <1>4, HandleTypes DEF DestroyCancels, At, NoOp
<1> QED
  BY <1>1, <1>2, <1>3, <1>4 DEF DestroyTask

LEMMA SignalTaskTypes ==
  ASSUME TypeOK, NEW i \in StartId, SignalTask(i)
  PROVE  TypeOK'
<1> USE DEF TypeOK, plugin, os, nomad, Kind, Work, Active, Returned
<1>1. CASE SignalRefused(i)
  BY <1>1 DEF SignalRefused, At, NoOp
<1>2. CASE SignalSends(i)
  BY <1>2 DEF SignalSends, At, NoOp, Survivors
<1> QED
  BY <1>1, <1>2 DEF SignalTask

LEMMA ClientTypes ==
  ASSUME TypeOK, NEW i \in StartId, Client(i)
  PROVE  TypeOK'
<1> USE DEF TypeOK, plugin, os, nomad, Kind, Work, Active, Returned
<1>1. CASE ClientStarts(i)
  BY <1>1 DEF ClientStarts
<1>2. CASE ClientGetsReply(i)
  BY <1>2 DEF ClientGetsReply
<1>3. CASE ClientCalls(i)
  BY <1>3 DEF ClientCalls, NoOp
<1>4. CASE ClientForgets(i)
  BY <1>4 DEF ClientForgets, NoOp
<1> QED
  BY <1>1, <1>2, <1>3, <1>4 DEF Client

LEMMA SystemTypes ==
  ASSUME TypeOK, NEW i \in StartId, System(i)
  PROVE  TypeOK'
<1> USE DEF TypeOK, plugin, os, nomad, Kind, Work, Active, Returned
<1>1. CASE ProcessSpawns(i)
  BY <1>1 DEF ProcessSpawns
<1>2. CASE ProcessExits(i)
  BY <1>2 DEF ProcessExits
<1>3. CASE SteamcmdWrites(i)
  BY <1>3 DEF SteamcmdWrites
<1>4. CASE SteamcmdEnds(i)
  BY <1>4 DEF SteamcmdEnds
<1> QED
  BY <1>1, <1>2, <1>3, <1>4 DEF System


LEMMA CancelKillsTypes ==
  ASSUME TypeOK, NEW i \in StartId, CancelKillsWrapper(i)
  PROVE  TypeOK'
  BY DEF TypeOK, CancelKillsWrapper, plugin, nomad

LEMMA CrashTypes ==
  ASSUME TypeOK, ClientCrash \/ PluginCrash
  PROVE  TypeOK'
<1> USE MaxCrashIsNat DEF TypeOK, plugin, os, Active, Returned
<1>1. CASE ClientCrash
  BY <1>1 DEF ClientCrash
<1>2. CASE PluginCrash
  BY <1>2, NewHandleType DEF PluginCrash, NoOp
<1> QED
  BY <1>1, <1>2

\* Every variable keeps its type: the fields of the handle, the program
\* counters of StartTask and of its supervisor, the process table.
THEOREM TypeCorrect == Spec => []TypeOK
<1>1. Init => TypeOK
  BY NewHandleType, MaxCrashIsNat DEF Init, TypeOK, NoOp, Kind
<1>2. TypeOK /\ [Next]_vars => TypeOK'
  <2> SUFFICES ASSUME TypeOK, [Next]_vars
               PROVE  TypeOK'
    OBVIOUS
  <2>1. ASSUME NEW i \in StartId,
               \/ StartTask(i) \/ Supervise(i) \/ CancelKillsWrapper(i)
               \/ RecoverTask(i) \/ StopTask(i) \/ DestroyTask(i)
               \/ SignalTask(i) \/ Client(i) \/ System(i)
        PROVE  TypeOK'
    BY <2>1, StartTaskTypes, SuperviseTypes, CancelKillsTypes, RecoverTaskTypes,
       StopTaskTypes, DestroyTaskTypes, SignalTaskTypes, ClientTypes, SystemTypes
  <2>2. CASE ClientCrash \/ PluginCrash
    BY <2>2, CrashTypes
  <2>3. CASE UNCHANGED vars
    BY <2>3 DEF TypeOK, vars
  <2> QED
    BY <2>1, <2>2, <2>3 DEF Next
<1> QED
  BY <1>1, <1>2, PTL DEF Spec

-----------------------------------------------------------------------------
(* One server.                                                             *)

LEMMA StartTaskServer ==
  ASSUME TypeOK, ServerInv, ~OverlapStarts, NEW i \in StartId, StartTask(i)
  PROVE  ServerInv'
<1> USE DEF TypeOK, plugin, os, nomad, Kind, Work, Active, Returned, NoneLive,
       ServerInv, OneStart, ClearBeforeLaunch, InstallOnlyHasNone,
       SteamcmdOwned, LaunchesComplete, OneServer, HasLaunch
<1>1. CASE StartRejected(i)
  BY <1>1 DEF StartRejected, Goto
<1>2. CASE StoreHandle(i)
  BY <1>2 DEF StoreHandle, Goto
<1>3. CASE OpenLogsFails(i)
  BY <1>3 DEF OpenLogsFails, Goto, ReturnError
<1>4. CASE Adopt(i)
  BY <1>4 DEF Adopt, Adopted, Goto
<1>5. CASE AdoptFails(i)
  BY <1>5 DEF AdoptFails, Adopted, Goto, ReturnError
<1>6. CASE FindHelpers(i)
  BY <1>6 DEF FindHelpers, Goto
<1>7. CASE ReapHelpers(i)
  BY <1>7 DEF ReapHelpers, Goto
<1>8. CASE ReapFails(i)
  BY <1>8 DEF ReapFails, Goto, ReturnError, Survivors
<1>9. CASE FindNothing(i)
  BY <1>9 DEF FindNothing, Goto
<1>10. CASE InstallSkipped(i)
  BY <1>10 DEF InstallSkipped, Goto, SkipInstall
<1>11. CASE InstallStarts(i)
  BY <1>11 DEF InstallStarts, Goto, SkipInstall
<1>12. CASE InstallNotStarted(i)
  BY <1>12 DEF InstallNotStarted, Goto, ReturnError, SkipInstall
<1>13. CASE InstallSucceeds(i)
  BY <1>13 DEF InstallSucceeds, Goto
<1>14. CASE InstallFails(i)
  BY <1>14 DEF InstallFails, Goto, ReturnError
<1>15. CASE InstallOnlyDone(i)
  BY <1>15 DEF InstallOnlyDone, Goto
<1>16. CASE InstallOnlyNotSaved(i)
  BY <1>16 DEF InstallOnlyNotSaved, Goto, ReturnError
<1>17. CASE LaunchFails(i)
  BY <1>17 DEF LaunchFails, Goto, ReturnError
<1>18. CASE Launch(i)
  BY <1>18 DEF Launch, Goto
<1>19. CASE LaunchNotSaved(i)
  BY <1>19 DEF LaunchNotSaved, Goto, ReturnError
<1>20. CASE LaunchReturns(i)
  BY <1>20 DEF LaunchReturns, Goto
<1> QED
  BY <1>1, <1>2, <1>3, <1>4, <1>5, <1>6, <1>7, <1>8, <1>9, <1>10, <1>11, <1>12, <1>13, <1>14, <1>15, <1>16, <1>17, <1>18, <1>19, <1>20 DEF StartTask

LEMMA SuperviseServer ==
  ASSUME TypeOK, ServerInv, ~OverlapStarts, NEW i \in StartId, Supervise(i)
  PROVE  ServerInv'
<1> USE DEF TypeOK, plugin, os, nomad, Kind, Work, Active, Returned, NoneLive,
       ServerInv, OneStart, ClearBeforeLaunch, InstallOnlyHasNone,
       SteamcmdOwned, LaunchesComplete, OneServer, HasLaunch
<1>1. CASE WaitReturns(i)
  BY <1>1 DEF WaitReturns, Reported
<1>2. CASE PollSeesExit(i)
  BY <1>2 DEF PollSeesExit, Reported
<1>3. CASE PollCancelled(i)
  BY <1>3 DEF PollCancelled
<1> QED
  BY <1>1, <1>2, <1>3 DEF Supervise

LEMMA RecoverTaskServer ==
  ASSUME TypeOK, ServerInv, ~OverlapStarts, NEW i \in StartId, RecoverTask(i)
  PROVE  ServerInv'
<1> USE DEF TypeOK, plugin, os, nomad, Kind, Work, Active, Returned, NoneLive,
       ServerInv, OneStart, ClearBeforeLaunch, InstallOnlyHasNone,
       SteamcmdOwned, LaunchesComplete, OneServer, HasLaunch
<1>1. CASE RecoverTracked(i)
  BY <1>1 DEF RecoverTracked, Recovered
<1>2. CASE RecoverDead(i)
  BY <1>2 DEF RecoverDead, Recovered, Restored
<1>3. CASE RecoverLive(i)
  BY <1>3 DEF RecoverLive, Recovered, Restored
<1>4. CASE RecoverExited(i)
  BY <1>4 DEF RecoverExited, Recovered, Restored
<1>5. CASE RecoverFails(i)
  BY <1>5 DEF RecoverFails
<1> QED
  BY <1>1, <1>2, <1>3, <1>4, <1>5 DEF RecoverTask

LEMMA StopTaskServer ==
  ASSUME TypeOK, ServerInv, ~OverlapStarts, NEW i \in StartId, StopTask(i)
  PROVE  ServerInv'
<1> USE DEF TypeOK, plugin, os, nomad, Kind, Work, Active, Returned, NoneLive,
       ServerInv, OneStart, ClearBeforeLaunch, InstallOnlyHasNone,
       SteamcmdOwned, LaunchesComplete, OneServer, HasLaunch
<1>1. CASE StopNotFound(i)
  BY <1>1 DEF StopNotFound
<1>2. CASE StopWithoutProcess(i)
  BY <1>2 DEF StopWithoutProcess
<1>3. CASE StopTerminates(i)
  BY <1>3 DEF StopTerminates, Survivors
<1>4. CASE StopReturns(i)
  BY <1>4 DEF StopReturns, Survivors
<1> QED
  BY <1>1, <1>2, <1>3, <1>4 DEF StopTask

LEMMA DestroyTaskServer ==
  ASSUME TypeOK, ServerInv, ~OverlapStarts, NEW i \in StartId, DestroyTask(i)
  PROVE  ServerInv'
<1> USE DEF TypeOK, plugin, os, nomad, Kind, Work, Active, Returned, NoneLive,
       ServerInv, OneStart, ClearBeforeLaunch, InstallOnlyHasNone,
       SteamcmdOwned, LaunchesComplete, OneServer, HasLaunch
<1>1. CASE DestroyRefused(i)
  BY <1>1 DEF DestroyRefused
<1>2. CASE DestroyKills(i)
  BY <1>2 DEF DestroyKills, Survivors
<1>3. CASE DestroyExited(i)
  BY <1>3 DEF DestroyExited
<1>4. CASE DestroyCancels(i)
  BY <1>4 DEF DestroyCancels
<1> QED
  BY <1>1, <1>2, <1>3, <1>4 DEF DestroyTask

LEMMA SignalTaskServer ==
  ASSUME TypeOK, ServerInv, ~OverlapStarts, NEW i \in StartId, SignalTask(i)
  PROVE  ServerInv'
<1> USE DEF TypeOK, plugin, os, nomad, Kind, Work, Active, Returned, NoneLive,
       ServerInv, OneStart, ClearBeforeLaunch, InstallOnlyHasNone,
       SteamcmdOwned, LaunchesComplete, OneServer, HasLaunch
<1>1. CASE SignalRefused(i)
  BY <1>1 DEF SignalRefused, At, NoOp
<1>2. CASE SignalSends(i)
  BY <1>2 DEF SignalSends, At, NoOp, Survivors
<1> QED
  BY <1>1, <1>2 DEF SignalTask

LEMMA ClientServer ==
  ASSUME TypeOK, ServerInv, ~OverlapStarts, NEW i \in StartId, Client(i)
  PROVE  ServerInv'
<1> USE DEF TypeOK, plugin, os, nomad, Kind, Work, Active, Returned, NoneLive,
       ServerInv, OneStart, ClearBeforeLaunch, InstallOnlyHasNone,
       SteamcmdOwned, LaunchesComplete, OneServer, HasLaunch
<1>1. CASE ClientStarts(i)
  BY <1>1 DEF ClientStarts
<1>2. CASE ClientGetsReply(i)
  BY <1>2 DEF ClientGetsReply
<1>3. CASE ClientCalls(i)
  BY <1>3 DEF ClientCalls
<1>4. CASE ClientForgets(i)
  BY <1>4 DEF ClientForgets
<1> QED
  BY <1>1, <1>2, <1>3, <1>4 DEF Client

LEMMA SystemServer ==
  ASSUME TypeOK, ServerInv, ~OverlapStarts, NEW i \in StartId, System(i)
  PROVE  ServerInv'
<1> USE DEF TypeOK, plugin, os, nomad, Kind, Work, Active, Returned, NoneLive,
       ServerInv, OneStart, ClearBeforeLaunch, InstallOnlyHasNone,
       SteamcmdOwned, LaunchesComplete, OneServer, HasLaunch
<1>1. CASE ProcessSpawns(i)
  BY <1>1 DEF ProcessSpawns
<1>2. CASE ProcessExits(i)
  BY <1>2 DEF ProcessExits
<1>3. CASE SteamcmdWrites(i)
  BY <1>3 DEF SteamcmdWrites
<1>4. CASE SteamcmdEnds(i)
  BY <1>4 DEF SteamcmdEnds
<1> QED
  BY <1>1, <1>2, <1>3, <1>4 DEF System

LEMMA CancelKillsServer ==
  ASSUME TypeOK, ServerInv, NEW i \in StartId, CancelKillsWrapper(i)
  PROVE  ServerInv'
  BY DEF TypeOK, CancelKillsWrapper, plugin, nomad, Kind, NoneLive, ServerInv,
         OneStart, ClearBeforeLaunch, InstallOnlyHasNone, SteamcmdOwned,
         LaunchesComplete, OneServer, HasLaunch

LEMMA CrashServer ==
  ASSUME TypeOK, ServerInv, ~OverlapStarts,
         ClientCrash \/ PluginCrash
  PROVE  ServerInv'
<1> USE DEF TypeOK, plugin, os, Active, Returned, NoneLive, ServerInv,
            OneStart, ClearBeforeLaunch, InstallOnlyHasNone, SteamcmdOwned,
            LaunchesComplete, OneServer, HasLaunch
<1>1. CASE ClientCrash
  BY <1>1 DEF ClientCrash
<1>2. CASE PluginCrash
  BY <1>2 DEF PluginCrash
<1> QED
  BY <1>1, <1>2

LEMMA ServerInvariant ==
  ASSUME ~OverlapStarts
  PROVE  Spec => []ServerInv
<1>1. Init => ServerInv
  BY DEF Init, Active, NoneLive, ServerInv, OneStart, ClearBeforeLaunch,
         InstallOnlyHasNone, SteamcmdOwned, LaunchesComplete, OneServer,
         HasLaunch
<1>2. TypeOK /\ ServerInv /\ [Next]_vars => ServerInv'
  <2> SUFFICES ASSUME TypeOK, ServerInv, [Next]_vars
               PROVE  ServerInv'
    OBVIOUS
  <2>1. ASSUME NEW i \in StartId,
               \/ StartTask(i) \/ Supervise(i) \/ CancelKillsWrapper(i)
               \/ RecoverTask(i) \/ StopTask(i) \/ DestroyTask(i)
               \/ SignalTask(i) \/ Client(i) \/ System(i)
        PROVE  ServerInv'
    BY <2>1, StartTaskServer, SuperviseServer, CancelKillsServer,
       RecoverTaskServer, StopTaskServer, DestroyTaskServer, SignalTaskServer, ClientServer,
       SystemServer
  <2>2. CASE ClientCrash \/ PluginCrash
    BY <2>2, CrashServer
  <2>3. CASE UNCHANGED vars
    BY <2>3 DEF vars, NoneLive, ServerInv, OneStart, ClearBeforeLaunch,
                InstallOnlyHasNone, SteamcmdOwned, LaunchesComplete, OneServer,
                HasLaunch
  <2> QED
    BY <2>1, <2>2, <2>3 DEF Next
<1> QED
  BY <1>1, <1>2, TypeCorrect, PTL DEF Spec

\* A steamcmd's StartTask is between the check that no process of the task
\* lives and the launch: this is why no update runs under a server.
LEMMA SteamcmdExcludesServer ==
  ASSUME TypeOK, ServerInv, ~OrphanSteamcmd
  PROVE  NoUpdateUnderServer /\ OneSteamcmd
  BY DEF TypeOK, ServerInv, OneStart, ClearBeforeLaunch, SteamcmdOwned, Active,
         NoUpdateUnderServer, OneSteamcmd

\* Two launches of the task never have processes at once, whatever the number
\* of starts and crashes and whatever outlives the plugin, if the client does
\* not restart while its StartTask call runs.
THEOREM ServerIsUnique ==
  ASSUME ~OverlapStarts
  PROVE  Spec => []OneServer
<1>1. ServerInv => OneServer
  BY DEF ServerInv
<1> QED
  BY <1>1, ServerInvariant, PTL

\* If also a steamcmd dies with the plugin that ran it, no steamcmd rewrites
\* files under a running server, through every crash and failed start.
THEOREM UpdatesAreSafe ==
  ASSUME ~OrphanSteamcmd, ~OverlapStarts
  PROVE  Spec => []NoUpdateUnderServer
  BY SteamcmdExcludesServer, ServerInvariant, TypeCorrect, PTL

\* Under the same conditions no two steamcmds work in the install_dir.
THEOREM SteamcmdIsAlone ==
  ASSUME ~OrphanSteamcmd, ~OverlapStarts
  PROVE  Spec => []OneSteamcmd
  BY SteamcmdExcludesServer, ServerInvariant, TypeCorrect, PTL

\* Under the same conditions what is launched is fully installed, with no
\* steamcmd left to change it, whether or not the install was skipped.
THEOREM LaunchesAreComplete ==
  ASSUME ~OrphanSteamcmd, ~OverlapStarts
  PROVE  Spec => []LaunchesComplete
<1>1. ServerInv => LaunchesComplete
  BY DEF ServerInv
<1> QED
  BY <1>1, ServerInvariant, PTL

-----------------------------------------------------------------------------
(* The report of an exit.                                                  *)

LEMMA StartTaskReport ==
  ASSUME TypeOK, ReportInv, NEW i \in StartId, StartTask(i)
  PROVE  ReportInv'
<1> USE DEF TypeOK, plugin, os, nomad, Active, Returned, ReportInv, HeldIsStarted,
       TrackedIsOpen, ClosedOnce, Supervised
<1>1. CASE StartRejected(i)
  BY <1>1 DEF StartRejected, Goto
<1>2. CASE StoreHandle(i)
  BY <1>2, NewHandleType DEF StoreHandle, Goto
<1>3. CASE OpenLogsFails(i)
  BY <1>3 DEF OpenLogsFails, Goto, ReturnError
<1>4. CASE Adopt(i)
  BY <1>4, HandleTypes DEF Adopt, Adopted, Goto
<1>5. CASE AdoptFails(i)
  BY <1>5, HandleTypes DEF AdoptFails, Adopted, Goto, ReturnError
<1>6. CASE FindHelpers(i)
  BY <1>6 DEF FindHelpers, Goto
<1>7. CASE ReapHelpers(i)
  BY <1>7 DEF ReapHelpers, Goto
<1>8. CASE ReapFails(i)
  BY <1>8 DEF ReapFails, Goto, ReturnError
<1>9. CASE FindNothing(i)
  BY <1>9 DEF FindNothing, Goto
<1>10. CASE InstallSkipped(i)
  BY <1>10 DEF InstallSkipped, Goto
<1>11. CASE InstallStarts(i)
  BY <1>11 DEF InstallStarts, Goto
<1>12. CASE InstallNotStarted(i)
  BY <1>12 DEF InstallNotStarted, Goto, ReturnError
<1>13. CASE InstallSucceeds(i)
  BY <1>13 DEF InstallSucceeds, Goto
<1>14. CASE InstallFails(i)
  BY <1>14 DEF InstallFails, Goto, ReturnError
<1>15. CASE InstallOnlyDone(i)
  BY <1>15, HandleTypes DEF InstallOnlyDone, Goto
<1>16. CASE InstallOnlyNotSaved(i)
  BY <1>16, HandleTypes DEF InstallOnlyNotSaved, Goto, ReturnError
<1>17. CASE LaunchFails(i)
  BY <1>17 DEF LaunchFails, Goto, ReturnError
<1>18. CASE Launch(i)
  BY <1>18, HandleTypes DEF Launch, Goto
<1>19. CASE LaunchNotSaved(i)
  BY <1>19 DEF LaunchNotSaved, Goto, ReturnError
<1>20. CASE LaunchReturns(i)
  BY <1>20 DEF LaunchReturns, Goto
<1> QED
  BY <1>1, <1>2, <1>3, <1>4, <1>5, <1>6, <1>7, <1>8, <1>9, <1>10, <1>11, <1>12, <1>13, <1>14, <1>15, <1>16, <1>17, <1>18, <1>19, <1>20 DEF StartTask

LEMMA SuperviseReport ==
  ASSUME TypeOK, ReportInv, NEW i \in StartId, Supervise(i)
  PROVE  ReportInv'
<1> USE DEF TypeOK, plugin, os, nomad, Active, Returned, ReportInv, HeldIsStarted,
       TrackedIsOpen, ClosedOnce, Supervised
<1>1. CASE WaitReturns(i)
  BY <1>1, HandleTypes DEF WaitReturns, Reported
<1>2. CASE PollSeesExit(i)
  BY <1>2, HandleTypes DEF PollSeesExit, Reported
<1>3. CASE PollCancelled(i)
  BY <1>3 DEF PollCancelled
<1> QED
  BY <1>1, <1>2, <1>3 DEF Supervise

LEMMA RecoverTaskReport ==
  ASSUME TypeOK, ReportInv, NEW i \in StartId, RecoverTask(i)
  PROVE  ReportInv'
<1> USE DEF TypeOK, plugin, os, nomad, Active, Returned, ReportInv, HeldIsStarted,
       TrackedIsOpen, ClosedOnce, Supervised
<1>1. CASE RecoverTracked(i)
  BY <1>1 DEF RecoverTracked, Recovered
<1>2. CASE RecoverDead(i)
  BY <1>2, NewHandleType, HandleTypes DEF RecoverDead, Recovered, Restored
<1>3. CASE RecoverLive(i)
  BY <1>3, NewHandleType, HandleTypes DEF RecoverLive, Recovered, Restored
<1>4. CASE RecoverExited(i)
  BY <1>4, NewHandleType DEF RecoverExited, Recovered, Restored
<1>5. CASE RecoverFails(i)
  BY <1>5 DEF RecoverFails
<1> QED
  BY <1>1, <1>2, <1>3, <1>4, <1>5 DEF RecoverTask

LEMMA StopTaskReport ==
  ASSUME TypeOK, ReportInv, NEW i \in StartId, StopTask(i)
  PROVE  ReportInv'
<1> USE DEF TypeOK, plugin, os, nomad, Active, Returned, ReportInv, HeldIsStarted,
       TrackedIsOpen, ClosedOnce, Supervised
<1>1. CASE StopNotFound(i)
  BY <1>1 DEF StopNotFound, At
<1>2. CASE StopWithoutProcess(i)
  BY <1>2 DEF StopWithoutProcess, At
<1>3. CASE StopTerminates(i)
  BY <1>3 DEF StopTerminates, At
<1>4. CASE StopReturns(i)
  BY <1>4 DEF StopReturns, At
<1> QED
  BY <1>1, <1>2, <1>3, <1>4 DEF StopTask

LEMMA DestroyTaskReport ==
  ASSUME TypeOK, ReportInv, NEW i \in StartId, DestroyTask(i)
  PROVE  ReportInv'
<1> USE DEF TypeOK, plugin, os, nomad, Active, Returned, ReportInv, HeldIsStarted,
       TrackedIsOpen, ClosedOnce, Supervised
<1>1. CASE DestroyRefused(i)
  BY <1>1 DEF DestroyRefused, At
<1>2. CASE DestroyKills(i)
  BY <1>2 DEF DestroyKills, At, Survivors
<1>3. CASE DestroyExited(i)
  BY <1>3 DEF DestroyExited, At
<1>4. CASE DestroyCancels(i)
  BY <1>4, HandleTypes DEF DestroyCancels, At
<1> QED
  BY <1>1, <1>2, <1>3, <1>4 DEF DestroyTask

LEMMA SignalTaskReport ==
  ASSUME TypeOK, ReportInv, NEW i \in StartId, SignalTask(i)
  PROVE  ReportInv'
<1> USE DEF TypeOK, plugin, os, nomad, Active, Returned, ReportInv, HeldIsStarted,
       TrackedIsOpen, ClosedOnce, Supervised
<1>1. CASE SignalRefused(i)
  BY <1>1 DEF SignalRefused, At, NoOp
<1>2. CASE SignalSends(i)
  BY <1>2 DEF SignalSends, At, NoOp, Survivors
<1> QED
  BY <1>1, <1>2 DEF SignalTask

LEMMA ClientReport ==
  ASSUME TypeOK, ReportInv, NEW i \in StartId, Client(i)
  PROVE  ReportInv'
<1> USE DEF TypeOK, plugin, os, nomad, Active, Returned, ReportInv, HeldIsStarted,
       TrackedIsOpen, ClosedOnce, Supervised
<1>1. CASE ClientStarts(i)
  BY <1>1 DEF ClientStarts
<1>2. CASE ClientGetsReply(i)
  BY <1>2 DEF ClientGetsReply
<1>3. CASE ClientCalls(i)
  BY <1>3 DEF ClientCalls
<1>4. CASE ClientForgets(i)
  BY <1>4 DEF ClientForgets
<1> QED
  BY <1>1, <1>2, <1>3, <1>4 DEF Client

LEMMA SystemReport ==
  ASSUME TypeOK, ReportInv, NEW i \in StartId, System(i)
  PROVE  ReportInv'
<1> USE DEF TypeOK, plugin, os, nomad, Active, Returned, ReportInv, HeldIsStarted,
       TrackedIsOpen, ClosedOnce, Supervised
<1>1. CASE ProcessSpawns(i)
  BY <1>1 DEF ProcessSpawns
<1>2. CASE ProcessExits(i)
  BY <1>2 DEF ProcessExits
<1>3. CASE SteamcmdWrites(i)
  BY <1>3 DEF SteamcmdWrites
<1>4. CASE SteamcmdEnds(i)
  BY <1>4 DEF SteamcmdEnds
<1> QED
  BY <1>1, <1>2, <1>3, <1>4 DEF System

LEMMA CancelKillsReport ==
  ASSUME TypeOK, ReportInv, NEW i \in StartId, CancelKillsWrapper(i)
  PROVE  ReportInv'
  BY DEF TypeOK, CancelKillsWrapper, plugin, nomad, ReportInv, HeldIsStarted,
         TrackedIsOpen, ClosedOnce, Supervised

LEMMA CrashReport ==
  ASSUME TypeOK, ReportInv, ClientCrash \/ PluginCrash
  PROVE  ReportInv'
<1> USE DEF TypeOK, plugin, os, Active, Returned, ReportInv, HeldIsStarted,
            TrackedIsOpen, ClosedOnce, Supervised
<1>1. CASE ClientCrash
  BY <1>1 DEF ClientCrash
<1>2. CASE PluginCrash
  BY <1>2, NewHandleType DEF PluginCrash
<1> QED
  BY <1>1, <1>2

LEMMA ReportInvariant == Spec => []ReportInv
<1>1. Init => ReportInv
  BY NewHandleType DEF Init, Active, ReportInv, HeldIsStarted, TrackedIsOpen,
                       ClosedOnce, Supervised
<1>2. TypeOK /\ ReportInv /\ [Next]_vars => ReportInv'
  <2> SUFFICES ASSUME TypeOK, ReportInv, [Next]_vars
               PROVE  ReportInv'
    OBVIOUS
  <2>1. ASSUME NEW i \in StartId,
               \/ StartTask(i) \/ Supervise(i) \/ CancelKillsWrapper(i)
               \/ RecoverTask(i) \/ StopTask(i) \/ DestroyTask(i)
               \/ SignalTask(i) \/ Client(i) \/ System(i)
        PROVE  ReportInv'
    BY <2>1, StartTaskReport, SuperviseReport, CancelKillsReport,
       RecoverTaskReport, StopTaskReport, DestroyTaskReport, SignalTaskReport, ClientReport,
       SystemReport
  <2>2. CASE ClientCrash \/ PluginCrash
    BY <2>2, CrashReport
  <2>3. CASE UNCHANGED vars
    BY <2>3 DEF vars, ReportInv, HeldIsStarted, TrackedIsOpen, ClosedOnce,
                Supervised
  <2> QED
    BY <2>1, <2>2, <2>3 DEF Next
<1> QED
  BY <1>1, <1>2, TypeCorrect, PTL DEF Spec

\* doneCh is closed at most once, by the one goroutine responsible for it,
\* with no assumption on crashes or on orphaned processes.
THEOREM DoneIsClosedOnce == Spec => []ClosedOnce
<1>1. ReportInv => ClosedOnce
  BY DEF ReportInv
<1> QED
  BY <1>1, ReportInvariant, PTL

\* No tracked task with a process is left without a goroutine to report its
\* exit, through every stop, destroy, recovery and crash.
THEOREM TasksAreSupervised == Spec => []Supervised
<1>1. ReportInv => Supervised
  BY DEF ReportInv
<1> QED
  BY <1>1, ReportInvariant, PTL
=============================================================================
