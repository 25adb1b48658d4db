-------------------------- MODULE TerminateProcesses --------------------------
(***************************************************************************)
(* terminateProcesses (reap.go): stopping the processes of one task, the   *)
(* workload first and the processes it depends on (wineserver, Xvfb) last. *)
(* Called by StopTask, and by adoptOrReap for the helpers of an earlier    *)
(* start.  The call lists pids, looks at each, and then signals those it   *)
(* found, while the processes run, spawn others and exit.                  *)
(***************************************************************************)
EXTENDS Naturals, FiniteSets

CONSTANTS
  Pid,       \* the processes there can be; no pid is used twice
  Support,   \* those whose comm is in supportComms
  First,     \* alive when the call starts
  Deaf,      \* do not exit on the graceful signal
  Stuck      \* may not exit on SIGKILL either (uninterruptible sleep)

ASSUME ProcessesArePids ==
  /\ Support \subseteq Pid /\ First \subseteq Pid
  /\ Deaf \subseteq Pid /\ Stuck \subseteq Deaf

VARIABLES
  born,      \* processes that have existed
  alive,     \* processes that exist, zombies excluded (procAlive)
  asked,     \* sent the graceful signal, or SIGTERM
  killed,    \* sent SIGKILL
  looking,   \* a split() has listed the pids and is looking at them
  due,       \* the processes it listed, while it looks at them
  seen,      \* those born when it listed them
  listed,    \* what the last split() gave the next signalPIDs
  timeUp,    \* the deadline of the current waitUntil has passed
  pc,
  result,    \* the answer
  graced,    \* history: asked, and alive when the grace period was over
  covered    \* history: born before the last listing of the workload that
             \* found none or was signalled

vars == <<born, alive, asked, killed, looking, due, seen, listed, timeUp, pc,
          result, graced, covered>>
procs == <<born, alive, asked, killed>>
scan == <<looking, due, seen, listed>>
history == <<graced, covered>>

Work == Pid \ Support

Waits == {"grace", "killWait", "termWait", "lastWait"}
Signals == {"ask", "kill", "term", "last"}
Splits == {"start", "relist", "support", "relistSupport", "answer"}
OnWork == {"start", "ask", "grace", "relist", "kill", "killWait"}

Init ==
  /\ born = First /\ alive = First
  /\ asked = {} /\ killed = {} /\ listed = {}
  /\ looking = FALSE /\ due = {} /\ seen = First
  /\ timeUp = FALSE
  /\ pc = "start"
  /\ result = "none"
  /\ graced = {} /\ covered = First

-----------------------------------------------------------------------------
(* split().  Listing the pids and looking at each of them (is it alive,    *)
(* what is its comm) takes time, in which the world moves.                 *)

\* Slip: the pids are listed once, and looked at again each time.
ListOnce ==
  /\ pc \in Waits \cup Splits /\ ~looking
  /\ looking' = TRUE /\ due' = alive \cap First /\ seen' = First
  /\ UNCHANGED <<procs, listed, timeUp, pc, result, history>>

\* The pids there are; a process born later may or may not be found.
List ==
  /\ pc \in Waits \cup Splits /\ ~looking
  /\ looking' = TRUE /\ due' = alive /\ seen' = born
  /\ UNCHANGED <<procs, listed, timeUp, pc, result, history>>

\* What looking at the pids may find: a process that has died since it was
\* listed was still there when its turn came, or was not.
Found == {found \in SUBSET (due \cup (born \ seen)) : alive \cap due \subseteq found}

\* A helper that dies before its comm is read counts as workload.
FoundWork ==
  {found \in SUBSET (due \cup (born \ seen)) :
     alive \cap due \cap Work \subseteq found /\ alive \cap found \subseteq Work}

FoundSupport == {found \cap Support : found \in Found}

\* What was listed while the workload was being stopped, and left no more of
\* it to deal with than what was found.
Covers == covered' = IF pc \in OnWork THEN seen ELSE covered

\* A split() at pc: signal what it found, or go on if there is nothing.
Split(at, finds, signal, otherwise) ==
  /\ pc = at /\ looking
  /\ \E found \in finds :
       listed' = found /\ pc' = IF found # {} THEN signal ELSE otherwise
  /\ looking' = FALSE /\ due' = {}
  /\ Covers
  /\ UNCHANGED <<procs, seen, timeUp, result, graced>>

\* One poll of waitUntil: the condition first, then the deadline.
Poll(at, finds, next, tooLate) ==
  /\ pc = at /\ looking
  /\ looking' = FALSE /\ due' = {}
  /\ \/ {} \in finds /\ pc' = next /\ Covers
     \/ /\ finds # {{}}
        /\ pc' = IF timeUp THEN tooLate ELSE at
        /\ UNCHANGED covered
  /\ UNCHANGED <<procs, seen, listed, timeUp, result, graced>>

\* Slip: signalling more than was found, as kill(-1) would.
SignalEverything(at, next) ==
  /\ pc = at
  /\ asked' = asked \cup Pid /\ listed' = {}
  /\ timeUp' = FALSE
  /\ pc' = next
  /\ UNCHANGED <<born, alive, killed, looking, due, seen, result, history>>

\* signalPIDs with the graceful signal, and the deadline of the wait that
\* follows; a pid that is gone is ignored.
Ask(at, next) ==
  /\ pc = at
  /\ asked' = asked \cup (listed \cap alive) /\ listed' = {}
  /\ timeUp' = FALSE
  /\ pc' = next
  /\ UNCHANGED <<born, alive, killed, looking, due, seen, result, history>>

Kill(at, next) ==
  /\ pc = at
  /\ killed' = killed \cup (listed \cap alive) /\ listed' = {}
  /\ timeUp' = FALSE
  /\ pc' = next
  /\ UNCHANGED <<born, alive, asked, looking, due, seen, result, history>>

-----------------------------------------------------------------------------
(* terminateProcesses.                                                     *)

\* Slip: SIGKILL without waiting for the grace period.
StopWorkImpatiently ==
  \/ Split("start", FoundWork, "ask", "support")
  \/ Ask("ask", "relist")
  \/ Split("relist", FoundWork, "kill", "support")
  \/ Kill("kill", "killWait")
  \/ Poll("killWait", FoundWork, "support", "support")

\* Slip: a workload that outlives its grace period is left to the support
\* processes' end.
StopWorkOnce ==
  \/ Split("start", FoundWork, "ask", "support")
  \/ Ask("ask", "grace")
  \/ Poll("grace", FoundWork, "support", "support")

\* sig and the grace period, then SIGKILL and 5 seconds.
StopWork ==
  \/ Split("start", FoundWork, "ask", "support")
  \/ Ask("ask", "grace")
  \/ Poll("grace", FoundWork, "support", "relist")
  \/ Split("relist", FoundWork, "kill", "support")
  \/ Kill("kill", "killWait")
  \/ Poll("killWait", FoundWork, "support", "support")

\* Slip: no SIGKILL for the support processes.
StopSupportOnce ==
  \/ Split("support", FoundSupport, "term", "answer")
  \/ Ask("term", "termWait")
  \/ Poll("termWait", FoundSupport, "answer", "answer")

\* Slip: waiting for the support processes without a deadline.
StopSupportPatiently ==
  \/ Split("support", FoundSupport, "term", "answer")
  \/ Ask("term", "termWait")
  \/ Poll("termWait", FoundSupport, "answer", "termWait")

\* SIGTERM and 5 seconds, then SIGKILL, if only for nobody, and 5 seconds.
StopSupport ==
  \/ Split("support", FoundSupport, "term", "answer")
  \/ Ask("term", "termWait")
  \/ Poll("termWait", FoundSupport, "answer", "relistSupport")
  \/ Split("relistSupport", FoundSupport, "last", "last")
  \/ Kill("last", "lastWait")
  \/ Poll("lastWait", FoundSupport, "answer", "answer")

Answer ==
  /\ pc = "answer" /\ looking
  /\ \E found \in Found : result' = IF found = {} THEN "gone" ELSE "survivors"
  /\ looking' = FALSE /\ due' = {}
  /\ pc' = "done"
  /\ UNCHANGED <<procs, seen, listed, timeUp, history>>

Terminate == List \/ StopWork \/ StopSupport \/ Answer

-----------------------------------------------------------------------------
(* The clock and the processes (external).                                 *)

\* The time a waitUntil allows is over.  Five seconds are enough for the
\* kernel to end whatever SIGKILL can end.
TimePasses ==
  /\ pc \in Waits /\ ~timeUp
  /\ pc \in {"killWait", "lastWait"} => alive \cap killed \subseteq Stuck
  /\ timeUp' = TRUE
  /\ graced' = IF pc = "grace" THEN asked \cap alive ELSE graced
  /\ UNCHANGED <<procs, scan, pc, result, covered>>

\* A workload process forks, until a SIGKILL reaches it.
Spawn ==
  /\ (alive \cap Work) \ killed # {}
  /\ \E p \in Pid \ born : born' = born \cup {p} /\ alive' = alive \cup {p}
  /\ UNCHANGED <<asked, killed, scan, timeUp, pc, result, history>>

Exit(p) ==
  /\ p \in alive
  /\ alive' = alive \ {p}
  /\ UNCHANGED <<born, asked, killed, scan, timeUp, pc, result, history>>

Next == Terminate \/ TimePasses \/ Spawn \/ \E p \in Pid : Exit(p)

Spec == Init /\ [][Next]_vars

\* The goroutine runs, time passes, and SIGKILL ends a process, as the
\* graceful signal ends one that is not deaf.
FairSpec ==
  /\ Spec
  /\ WF_vars(Terminate) /\ WF_vars(TimePasses)
  /\ \A p \in Pid :
       WF_vars(Exit(p) /\ (p \in killed \ Stuck \/ p \in asked \ Deaf))

-----------------------------------------------------------------------------

\* Every variable has its type, and only processes of the task are listed or
\* signalled.
TypeOK ==
  /\ born \subseteq Pid /\ alive \subseteq born
  /\ asked \subseteq born /\ killed \subseteq born /\ listed \subseteq born
  /\ due \subseteq seen /\ seen \subseteq born
  /\ graced \subseteq asked /\ covered \subseteq seen
  /\ looking \in BOOLEAN /\ timeUp \in BOOLEAN
  /\ pc \in Waits \cup Signals \cup Splits \cup {"done"}
  /\ result \in {"none", "gone", "survivors"}

\* "list is re-evaluated each time, so processes spawned meanwhile are caught":
\* one fork behind a listing's back is not enough to be missed.  What lives on
\* when terminateProcesses reports "everything is gone" was forked during the
\* last listing, which saw a workload process that had itself been forked
\* behind the listing the workload was dealt with by.
GoneIsGone ==
  result = "gone" /\ alive # {}
    => alive \cap seen = {} /\ (seen \cap Work) \ covered # {}

\* supportComms "must be stopped last": no support process is signalled while
\* a workload process lives that SIGKILL could still end, unless it was forked
\* behind the listing the workload was dealt with by.
SupportLast ==
  (asked \cup killed) \cap Support # {}
    => alive \cap Work \cap covered \subseteq Stuck

\* No workload process the call finds is killed before it was asked to exit
\* and the whole grace period has passed (a game server saves its world then).
GraceFirst == killed \cap Work \cap First \subseteq graced

\* The steps the doc comment lists leave nothing that SIGKILL can end of what
\* there was when the call began, whatever is spawned meanwhile.
OnlyStuckSurvive == pc = "done" => alive \cap First \subseteq Stuck

\* The call returns, whatever the processes do: StopTask and StartTask wait
\* for it.
Answers == <>(pc = "done")
=============================================================================
