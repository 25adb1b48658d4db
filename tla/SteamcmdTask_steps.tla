------------------------- MODULE SteamcmdTask_steps -------------------------
(***************************************************************************)
(* Proofs about the steps of SteamcmdTask: it implements InstallDir, and a *)
(* reported exit stands.                                                   *)
(***************************************************************************)
EXTENDS SteamcmdTask_proofs

-----------------------------------------------------------------------------
(* SteamcmdTask implements InstallDir.                                     *)

\* A step that only ends processes ends the use of the directory or leaves it
\* as it is.
LEMMA OnlyExits ==
  ASSUME TypeOK, OneServer,
         \A j \in StartId : live'[j] \subseteq live[j],
         UNCHANGED <<steamcmd, installed>>
  PROVE  [Dir!Next]_(Dir!dir)
<1>1. CASE Served' = Served
  BY <1>1 DEF Dir!dir
<1>2. CASE Served' # Served
  <2>1. PICK i \in StartId : i \in Served /\ i \notin Served'
    BY <1>2 DEF Served
  <2>2. Served = {i}
    BY <2>1 DEF Served, OneServer
  <2>3. Served' = {}
    BY <2>1, <2>2 DEF Served
  <2> QED
    BY <2>2, <2>3 DEF Dir!Next, Dir!Leave
<1> QED
  BY <1>1, <1>2

\* Of any processes of the task, those that a signal leaves are some of them.
LEMMA SurvivorsLive ==
  ASSUME TypeOK, NEW left \in SUBSET Kind, live' = Survivors(left)
  PROVE  \A j \in StartId : live'[j] \subseteq live[j]
  BY DEF TypeOK, Survivors

\* The end of the one steamcmd ends the update.
LEMMA UpdateEnds ==
  ASSUME TypeOK, ServerInv, ~OrphanSteamcmd, NEW i \in StartId, i \in steamcmd,
         steamcmd' = steamcmd \ {i}, installed' \in {installed, TRUE},
         UNCHANGED live
  PROVE  Dir!Next
<1>1. steamcmd = {i}
  BY SteamcmdExcludesServer DEF OneSteamcmd, TypeOK
<1> QED
  BY <1>1 DEF Dir!Next, Dir!EndUpdate, Served

LEMMA StartTaskUses ==
  ASSUME TypeOK, ServerInv, ~OrphanSteamcmd, NEW i \in StartId, StartTask(i)
  PROVE  [Dir!Next]_(Dir!dir)
<1> USE DEF os, nomad
<1>1. CASE \/ StartRejected(i) \/ StoreHandle(i) \/ OpenLogsFails(i)
           \/ Adopt(i) \/ AdoptFails(i) \/ FindHelpers(i) \/ FindNothing(i)
           \/ InstallSkipped(i) \/ InstallNotStarted(i) \/ InstallOnlyDone(i)
           \/ InstallOnlyNotSaved(i) \/ LaunchFails(i) \/ LaunchReturns(i)
  BY <1>1 DEF StartRejected, StoreHandle, OpenLogsFails, Adopt, AdoptFails,
              FindHelpers, FindNothing, InstallSkipped, InstallNotStarted,
              InstallOnlyDone, InstallOnlyNotSaved, LaunchFails, LaunchReturns,
              Served, Dir!dir
<1>2. CASE ReapHelpers(i)
  BY <1>2, OnlyExits DEF ReapHelpers, TypeOK, ServerInv
<1>3. CASE ReapFails(i)
  BY <1>3, OnlyExits, SurvivorsLive DEF ReapFails, ServerInv
<1>4. CASE InstallStarts(i)
  <2>1. start[i] = "decide" /\ steamcmd' = steamcmd \cup {i}
        /\ UNCHANGED <<live, installed>>
    BY <1>4 DEF InstallStarts
  <2>2. steamcmd = {} /\ Served = {}
    BY <2>1 DEF TypeOK, ServerInv, OneStart, SteamcmdOwned, ClearBeforeLaunch,
                NoneLive, Served, Active
  <2>3. Dir!BeginUpdate(i)
    BY <2>1, <2>2 DEF Dir!BeginUpdate, Dir!Unused, Served
  <2> QED
    BY <2>3 DEF Dir!Next
<1>5. CASE InstallSucceeds(i)
  BY <1>5, UpdateEnds DEF InstallSucceeds
<1>6. CASE InstallFails(i)
  <2>1. CASE i \in steamcmd
    BY <1>6, <2>1, UpdateEnds DEF InstallFails
  <2>2. CASE i \notin steamcmd
    BY <1>6, <2>2 DEF InstallFails, Dir!dir, Served
  <2> QED
    BY <2>1, <2>2
<1>7. CASE Launch(i)
  <2>1. start[i] = "launch" /\ live' = [live EXCEPT ![i] = {"wrapper"}]
        /\ UNCHANGED <<steamcmd, installed>>
    BY <1>7 DEF Launch
  <2>2. NoneLive /\ installed /\ steamcmd = {}
    BY <2>1 DEF ServerInv, ClearBeforeLaunch, LaunchesComplete
  <2>3. Served = {} /\ Served' = {i}
    BY <2>1, <2>2 DEF Served, NoneLive, TypeOK
  <2>4. Dir!Serve(i)
    BY <2>1, <2>2, <2>3 DEF Dir!Serve, Dir!Unused
  <2> QED
    BY <2>4 DEF Dir!Next
<1>8. CASE LaunchNotSaved(i)
  BY <1>8, OnlyExits DEF LaunchNotSaved, TypeOK, ServerInv
<1> QED
  BY <1>1, <1>2, <1>3, <1>4, <1>5, <1>6, <1>7, <1>8 DEF StartTask

\* Stopping, destroying and signalling end processes; the client, the
\* supervisors and recovery touch none.
LEMMA CallsUse ==
  ASSUME TypeOK, ServerInv, NEW i \in StartId,
         \/ Supervise(i) \/ CancelKillsWrapper(i) \/ RecoverTask(i)
         \/ StopTask(i) \/ DestroyTask(i) \/ SignalTask(i) \/ Client(i)
  PROVE  [Dir!Next]_(Dir!dir)
<1> USE DEF os, nomad
<1>1. CASE Supervise(i)
  BY <1>1 DEF Supervise, WaitReturns, PollSeesExit, PollCancelled, Reported,
              Served, Dir!dir
<1>2. CASE CancelKillsWrapper(i)
  BY <1>2, OnlyExits DEF CancelKillsWrapper, TypeOK, ServerInv
<1>3. CASE RecoverTask(i)
  BY <1>3 DEF RecoverTask, RecoverTracked, RecoverDead, RecoverLive,
              RecoverExited, RecoverFails, Restored, Recovered, Served, Dir!dir
<1>4. CASE StopNotFound(i) \/ StopWithoutProcess(i)
  BY <1>4 DEF StopNotFound, StopWithoutProcess, Served, Dir!dir
<1>5. CASE StopTerminates(i)
  BY <1>5, OnlyExits, SurvivorsLive DEF StopTerminates, ServerInv
<1>6. CASE StopReturns(i)
  <2>1. CASE live' = live
    BY <1>6, <2>1 DEF StopReturns, Served, Dir!dir
  <2>2. CASE live' = Survivors(Work)
    BY <1>6, <2>2, OnlyExits, SurvivorsLive DEF StopReturns, ServerInv, Kind
  <2> QED
    BY <1>6, <2>1, <2>2 DEF StopReturns
<1>7. CASE DestroyRefused(i) \/ DestroyExited(i) \/ DestroyCancels(i)
  BY <1>7 DEF DestroyRefused, DestroyExited, DestroyCancels, Served, Dir!dir
<1>8. CASE DestroyKills(i)
  BY <1>8, OnlyExits, SurvivorsLive DEF DestroyKills, ServerInv
<1>9. CASE SignalRefused(i)
  BY <1>9 DEF SignalRefused, Served, Dir!dir
<1>10. CASE SignalSends(i)
  BY <1>10, OnlyExits, SurvivorsLive DEF SignalSends, ServerInv
<1>11. CASE Client(i)
  BY <1>11 DEF Client, ClientStarts, ClientGetsReply, ClientCalls,
               ClientForgets, Served, Dir!dir
<1> QED
  BY <1>1, <1>2, <1>3, <1>4, <1>5, <1>6, <1>7, <1>8, <1>9, <1>10, <1>11
     DEF StopTask, DestroyTask, SignalTask

LEMMA SystemUses ==
  ASSUME TypeOK, ServerInv, ~OrphanSteamcmd, NEW i \in StartId, System(i)
  PROVE  [Dir!Next]_(Dir!dir)
<1>1. CASE ProcessSpawns(i)
  <2>1. Served' = Served
    BY <1>1 DEF ProcessSpawns, Served, TypeOK
  <2> QED
    BY <1>1, <2>1 DEF ProcessSpawns, Dir!dir
<1>2. CASE ProcessExits(i)
  BY <1>2, OnlyExits DEF ProcessExits, TypeOK, ServerInv
<1>3. CASE SteamcmdWrites(i)
  BY <1>3 DEF SteamcmdWrites, Dir!Next, Dir!Write, Served
<1>4. CASE SteamcmdEnds(i)
  BY <1>4, UpdateEnds DEF SteamcmdEnds
<1> QED
  BY <1>1, <1>2, <1>3, <1>4 DEF System

LEMMA CrashUses ==
  ASSUME TypeOK, ServerInv, ~OrphanSteamcmd, ClientCrash \/ PluginCrash
  PROVE  [Dir!Next]_(Dir!dir)
<1>1. CASE ClientCrash
  BY <1>1 DEF ClientCrash, os, Served, Dir!dir
<1>2. CASE PluginCrash
  BY <1>2 DEF PluginCrash, Served, Dir!dir, Dir!Next, Dir!EndUpdate
<1> QED
  BY <1>1, <1>2

\* The starts, crashes, recoveries, stops and failures of a task, for any
\* number of them, use its install_dir as InstallDir specifies: one use at a
\* time, none begun before the last is over, and only a complete app served;
\* if a steamcmd dies with the plugin and the client does not restart while
\* its StartTask call runs.
THEOREM ImplementsInstallDir ==
  ASSUME ~OrphanSteamcmd, ~OverlapStarts
  PROVE  Spec => DirHasOneUse
<1>1. Init => Dir!Init
  BY DEF Init, Dir!Init, Dir!Unused, Served
<1>2. TypeOK /\ ServerInv /\ [Next]_vars => [Dir!Next]_(Dir!dir)
  <2> SUFFICES ASSUME TypeOK, ServerInv, [Next]_vars
               PROVE  [Dir!Next]_(Dir!dir)
    OBVIOUS
  <2>1. ASSUME NEW i \in StartId,
               \/ StartTask(i) \/ Supervise(i) \/ CancelKillsWrapper(i)
               \/ RecoverTask(i) \/ StopTask(i) \/ DestroyTask(i)
               \/ SignalTask(i) \/ Client(i) \/ System(i)
        PROVE  [Dir!Next]_(Dir!dir)
    BY <2>1, StartTaskUses, CallsUse, SystemUses
  <2>2. CASE ClientCrash \/ PluginCrash
    BY <2>2, CrashUses
  <2>3. CASE UNCHANGED vars
    BY <2>3 DEF vars, Served, Dir!dir
  <2> QED
    BY <2>1, <2>2, <2>3 DEF Next
<1> QED
  BY <1>1, <1>2, TypeCorrect, ServerInvariant, PTL DEF Spec, DirHasOneUse, Dir!Spec

-----------------------------------------------------------------------------
(* A reported exit stands.                                                 *)

\* The ways a step may change a handle: it is replaced or cancelled when the
\* ID is not tracked, or not any more; bound to a process or given its exit
\* result while doneCh is open.
HandleStep(j) ==
  \/ handle'[j] = handle[j]
  \/ /\ j \notin tasks \cap tasks'
     /\ handle'[j] \in {NewHandle, [NewHandle EXCEPT !.phase = "exited"],
                        Exited(NewHandle, "lost"),
                        Serving(NewHandle, "adopted"), Cancelled(handle[j])}
  \/ /\ ~handle[j].done
     /\ handle'[j] \in {Serving(handle[j], "launched"),
                        Serving(handle[j], "adopted"),
                        ExitSet(handle[j], "status"),
                        Exited(handle[j], "status"), Exited(handle[j], "lost")}

\* Each of these keeps the result of a closed handle that is tracked, and sets
\* one when it closes.
LEMMA HandleStepKeeps ==
  ASSUME TypeOK, ResultIsSet, NEW j \in StartId, HandleStep(j)
  PROVE  /\ handle'[j].done => /\ handle'[j].result # "nil"
                               /\ handle'[j].procState = "exited"
         /\ j \in tasks \cap tasks' /\ handle[j].done
              => handle'[j].done /\ handle'[j].result = handle[j].result
<1> DEFINE h == handle[j]
<1>1. /\ h \in Handle
      /\ h.done => h.result # "nil" /\ h.procState = "exited"
  BY DEF TypeOK, ResultIsSet
<1>2. CASE handle'[j] = h
  BY <1>1, <1>2
<1>3. CASE handle'[j] \in {NewHandle, [NewHandle EXCEPT !.phase = "exited"],
                          Exited(NewHandle, "lost"),
                          Serving(NewHandle, "adopted")}
           /\ j \notin tasks \cap tasks'
  <2>1. ~NewHandle.done /\ NewHandle \in Handle
    BY DEF NewHandle, Handle
  <2>2. /\ ~[NewHandle EXCEPT !.phase = "exited"].done
        /\ ~Serving(NewHandle, "adopted").done
    BY <2>1 DEF Serving, Handle
  <2>3. /\ Exited(NewHandle, "lost").result = "lost"
        /\ Exited(NewHandle, "lost").procState = "exited"
    BY <2>1 DEF Exited, ExitSet, Handle
  <2> QED
    BY <1>3, <2>1, <2>2, <2>3
<1>4. CASE handle'[j] = Cancelled(h) /\ j \notin tasks \cap tasks'
  BY <1>1, <1>4 DEF Cancelled, Handle
<1>5. CASE ~h.done /\ \/ \E c \in {"launched", "adopted"} : handle'[j] = Serving(h, c)
                      \/ handle'[j] = ExitSet(h, "status")
  BY <1>1, <1>5 DEF Serving, ExitSet, Handle
<1>6. CASE ~h.done /\ \E r \in {"status", "lost"} : handle'[j] = Exited(h, r)
  BY <1>1, <1>6 DEF Exited, ExitSet, Handle
<1> QED
  BY <1>2, <1>3, <1>4, <1>5, <1>6 DEF HandleStep

LEMMA StartTaskHandles ==
  ASSUME TypeOK, ReportInv, NEW i \in StartId, StartTask(i), NEW j \in StartId
  PROVE  HandleStep(j)
<1> USE DEF HandleStep, TypeOK, ReportInv, ClosedOnce, Active
<1>1. CASE \/ StartRejected(i) \/ OpenLogsFails(i) \/ FindHelpers(i)
           \/ ReapHelpers(i) \/ ReapFails(i) \/ FindNothing(i)
           \/ InstallSkipped(i) \/ InstallStarts(i) \/ InstallNotStarted(i)
           \/ InstallSucceeds(i) \/ InstallFails(i) \/ LaunchFails(i)
           \/ LaunchNotSaved(i) \/ LaunchReturns(i)
  BY <1>1 DEF StartRejected, OpenLogsFails, FindHelpers, ReapHelpers,
              ReapFails, FindNothing, InstallSkipped, InstallStarts,
              InstallNotStarted, InstallSucceeds, InstallFails, LaunchFails,
              LaunchNotSaved, LaunchReturns
<1>2. CASE StoreHandle(i)
  BY <1>2 DEF StoreHandle
<1>3. CASE Adopt(i) \/ AdoptFails(i)
  BY <1>3 DEF Adopt, AdoptFails, Adopted
<1>4. CASE InstallOnlyDone(i) \/ InstallOnlyNotSaved(i)
  BY <1>4 DEF InstallOnlyDone, InstallOnlyNotSaved
<1>5. CASE Launch(i)
  BY <1>5 DEF Launch
<1> QED
  BY <1>1, <1>2, <1>3, <1>4, <1>5 DEF StartTask

LEMMA CallHandles ==
  ASSUME TypeOK, ReportInv, NEW i \in StartId, NEW j \in StartId,
         \/ Supervise(i) \/ CancelKillsWrapper(i) \/ RecoverTask(i)
         \/ StopTask(i) \/ DestroyTask(i) \/ SignalTask(i)
         \/ Client(i) \/ System(i)
  PROVE  HandleStep(j)
<1> USE DEF HandleStep, TypeOK, ReportInv, ClosedOnce, plugin
<1>1. CASE Supervise(i)
  BY <1>1 DEF Supervise, WaitReturns, PollSeesExit, PollCancelled, Reported
<1>2. CASE RecoverTask(i)
  BY <1>2 DEF RecoverTask, RecoverTracked, RecoverDead, RecoverLive,
              RecoverExited, RecoverFails, Restored, Recovered
<1>3. CASE DestroyTask(i)
  BY <1>3 DEF DestroyTask, DestroyRefused, DestroyKills, DestroyExited,
              DestroyCancels
<1>4. CASE StopTask(i) \/ SignalTask(i)
  BY <1>4 DEF StopTask, StopNotFound, StopWithoutProcess, StopTerminates,
              StopReturns, SignalTask, SignalRefused, SignalSends
<1>5. CASE Client(i) \/ System(i) \/ CancelKillsWrapper(i)
  BY <1>5 DEF Client, ClientStarts, ClientGetsReply, ClientCalls,
              ClientForgets, System, ProcessSpawns, ProcessExits,
              SteamcmdWrites, SteamcmdEnds, CancelKillsWrapper
<1> QED
  BY <1>1, <1>2, <1>3, <1>4, <1>5

LEMMA EveryHandleStep ==
  ASSUME TypeOK, ReportInv, [Next]_vars, NEW j \in StartId
  PROVE  HandleStep(j)
<1>1. ASSUME NEW i \in StartId,
             \/ StartTask(i) \/ Supervise(i) \/ CancelKillsWrapper(i)
             \/ RecoverTask(i) \/ StopTask(i) \/ DestroyTask(i)
             \/ SignalTask(i) \/ Client(i) \/ System(i)
      PROVE  HandleStep(j)
  BY <1>1, StartTaskHandles, CallHandles
<1>2. CASE ClientCrash
  BY <1>2 DEF ClientCrash, plugin, HandleStep
<1>3. CASE PluginCrash
  BY <1>3 DEF PluginCrash, HandleStep
<1>4. CASE UNCHANGED vars
  BY <1>4 DEF vars, HandleStep
<1> QED
  BY <1>1, <1>2, <1>3, <1>4 DEF Next

LEMMA ResultInvariant == Spec => []ResultIsSet
<1>1. Init => ResultIsSet
  BY NewHandleType DEF Init, ResultIsSet
<1>2. TypeOK /\ ReportInv /\ ResultIsSet /\ [Next]_vars => ResultIsSet'
  <2> SUFFICES ASSUME TypeOK, ReportInv, ResultIsSet, [Next]_vars,
                      NEW j \in StartId
               PROVE  handle'[j].done => /\ handle'[j].result # "nil"
                                         /\ handle'[j].procState = "exited"
    BY DEF ResultIsSet
  <2> QED
    BY EveryHandleStep, HandleStepKeeps
<1> QED
  BY <1>1, <1>2, TypeCorrect, ReportInvariant, PTL DEF Spec

\* What WaitTask and InspectTask report of a task's exit is never taken back
\* or changed while the plugin tracks the task, through restarts of the
\* client, recoveries, stops and any order of the goroutines.
THEOREM ReportsAreFinal == Spec => ReportStands
<1>1. TypeOK /\ ReportInv /\ ResultIsSet /\ [Next]_vars
        => [\A i \in tasks \cap tasks' :
              handle[i].done => /\ handle'[i].done
                                /\ handle'[i].result = handle[i].result
                                /\ handle[i].result # "nil"
                                /\ handle[i].procState = "exited"]_vars
  <2> SUFFICES ASSUME TypeOK, ReportInv, ResultIsSet, [Next]_vars,
                      NEW i \in tasks \cap tasks', handle[i].done
               PROVE  /\ handle'[i].done
                      /\ handle'[i].result = handle[i].result
                      /\ handle[i].result # "nil"
                      /\ handle[i].procState = "exited"
    OBVIOUS
  <2>1. i \in StartId
    BY DEF TypeOK
  <2>2. handle'[i].done /\ handle'[i].result = handle[i].result
    BY <2>1, EveryHandleStep, HandleStepKeeps
  <2> QED
    BY <2>1, <2>2 DEF ResultIsSet
<1> QED
  BY <1>1, TypeCorrect, ReportInvariant, ResultInvariant, PTL DEF Spec, ReportStands
=============================================================================
