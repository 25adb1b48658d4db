----------------------------- MODULE ProcMembers -----------------------------
(***************************************************************************)
(* Which processes are a task's (stats.go): one collector, scanning /proc  *)
(* while processes fork, exec, exit, leave zombies, are reparented, and    *)
(* pids are used again.  Its answer decides that a task has exited         *)
(* (waitForExit), or who is killed (DestroyTask).  A listing and the walk  *)
(* of the wrapper's tree are one step each; each environ is read by itself.*)
(***************************************************************************)
EXTENDS Naturals, FiniteSets

CONSTANTS
  Pids,         \* bound: pids are 1..Pids; 1 is the wrapper's
  MaxBirths,    \* bound: processes started
  MaxExecs,     \* bound: execs
  Rebooted      \* the host was rebooted since the wrapper's pid was recorded

ASSUME MemberBounds == {Pids, MaxBirths, MaxExecs} \subseteq Nat /\ Pids > 1
ASSUME RebootedIsBoolean == Rebooted \in BOOLEAN

Pid == 1..Pids
Wrapper == 1
Init1 == 0      \* pid 1 of the host, which adopts orphans

VARIABLES
  proc,       \* the process behind each pid
  births,     \* processes started so far
  execs,      \* execs so far
  \* the collector
  rootPid,    \* the wrapper's pid, or 0 (adoptOrReap looks for markers only)
  known,      \* the cached verdict on each pid
  pc,         \* idle, look, verdict, kill or done
  todo,       \* pids listed and not yet looked at
  alive,      \* pids listed
  out,        \* members found by this scan
  use,        \* watch (waitForExit) or kill (DestroyTask)
  \* history
  young,      \* pids given to a process since the listing
  blind,      \* pids whose last reading could not show our marker
  recycled,   \* pids of ours that a stranger has, unknown to the collector
  strangers   \* strangers the driver has killed: behind a recycled pid, or any

machine == <<proc, births, execs>>
collector == <<rootPid, known, pc, todo, alive, out, use>>
vars == <<machine, collector, young, blind, recycled, strangers>>

\* own: whose it is.  env: its STEAMCMD_TASK_ID entry is this task's (in either
\* form hasMarker accepts), missing (started before the marker existed), or that
\* of a task whose key has this one's as a prefix: the strangers have that.
Process == [own : {"free", "ours", "stranger"},
            env : {"marked", "longer", "none"},
            parent : {Init1} \cup Pid,
            state : {"live", "exec", "zombie", "gone"}]

Free == [own |-> "free", env |-> "none", parent |-> Init1, state |-> "gone"]
Fresh(own, env, parent) == [own |-> own, env |-> env, parent |-> parent, state |-> "live"]

Exists(p) == proc[p].own # "free"
Alive(p) == proc[p].state \in {"live", "exec"}
Ours(p) == proc[p].own = "ours" /\ Alive(p)

\* The wrapper and perhaps a process it started; or, after a reboot, some other
\* process behind the recorded pid.
Init ==
  /\ \E env \in {"marked", "none"}, second \in BOOLEAN :
       proc = [p \in Pid |->
         CASE p = Wrapper /\ Rebooted  -> Fresh("stranger", "longer", Init1)
           [] p = Wrapper /\ ~Rebooted -> Fresh("ours", env, Init1)
           [] p = 2 /\ second /\ ~Rebooted -> Fresh("ours", env, Wrapper)
           [] OTHER -> Free]
  /\ births = 0 /\ execs = 0
  /\ rootPid \in {0, Wrapper}
  /\ known = [p \in Pid |-> "unknown"]
  /\ pc = "idle" /\ todo = {} /\ alive = {} /\ out = {}
  /\ use \in {"watch", "kill"}
  /\ young = {} /\ blind = {} /\ strangers = {}
  /\ recycled = IF Rebooted THEN {Wrapper} ELSE {}

-----------------------------------------------------------------------------
(* The processes (external).                                               *)

Born(p, new) ==
  /\ proc[p] = Free /\ births < MaxBirths
  /\ births' = births + 1
  /\ proc' = [proc EXCEPT ![p] = new]
  /\ young' = IF pc = "idle" THEN young ELSE young \cup {p}
  /\ UNCHANGED <<execs, collector, blind, strangers>>

\* A child inherits the environment.
Forks(p, child) ==
  /\ Ours(p) /\ proc[p].state = "live"
  /\ Born(child, Fresh("ours", proc[p].env, p))
  /\ UNCHANGED recycled

\* The pid of a member that is gone, before the collector has missed it.
Taken(p) == p = rootPid \/ known[p] = "member" \/ p \in out

StrangerStarts(p) ==
  /\ Born(p, Fresh("stranger", "longer", Init1))
  /\ recycled' = IF Taken(p) THEN recycled \cup {p} ELSE recycled

\* While it execs a new image, a process has no readable environ.
ExecBegins(p) ==
  /\ Ours(p) /\ proc[p].state = "live" /\ execs < MaxExecs
  /\ execs' = execs + 1
  /\ proc' = [proc EXCEPT ![p].state = "exec"]
  /\ UNCHANGED <<births, collector, young, blind, recycled, strangers>>

ExecEnds(p) ==
  /\ proc[p].state = "exec"
  /\ proc' = [proc EXCEPT ![p].state = "live"]
  /\ UNCHANGED <<births, execs, collector, young, blind, recycled, strangers>>

\* p is dead: a zombie until its parent looks (the wrapper's, the plugin, may
\* never); its children are init's.
Dead(p, rest) ==
  proc' = [q \in Pid |->
    CASE q = p -> rest
      [] q # p /\ proc[q].parent = p ->
           IF proc[q].state = "zombie" THEN Free ELSE [proc[q] EXCEPT !.parent = Init1]
      [] OTHER -> proc[q]]

Remains(p) ==
  {Free} \cup IF proc[p].parent = Init1 /\ p # rootPid THEN {}
             ELSE {[proc[p] EXCEPT !.state = "zombie"]}

Exits(p) ==
  /\ Alive(p)
  /\ \E rest \in Remains(p) : Dead(p, rest)
  /\ recycled' = recycled \ {p} /\ young' = young \ {p}
  /\ UNCHANGED <<births, execs, collector, blind, strangers>>

Reaped(p) ==
  /\ proc[p].state = "zombie"
  /\ proc' = [proc EXCEPT ![p] = Free]
  /\ UNCHANGED <<births, execs, collector, young, blind, recycled, strangers>>

\* What becomes of the processes after the verdict is not followed.
Machine ==
  /\ pc # "done"
  /\ \E p \in Pid :
       \/ \E child \in Pid : Forks(p, child)
       \/ StrangerStarts(p) \/ ExecBegins(p) \/ ExecEnds(p) \/ Exits(p) \/ Reaped(p)

-----------------------------------------------------------------------------
(* members(), liveMembers() and those who ask.                             *)

\* Slip: any entry that begins with the marker.
AnyPrefix(env) == env # "none"

hasMarker(env) == env = "marked"

\* What /proc/<pid>/environ shows: nothing for a process that is gone, a
\* zombie, or one in the middle of an exec.
Readable(p) == proc[p].state = "live"

listPIDs ==
  /\ pc = "idle"
  /\ alive' = {p \in Pid : Exists(p)} /\ todo' = alive'
  /\ out' = {} /\ young' = {}
  /\ pc' = "look"
  /\ UNCHANGED <<machine, rootPid, known, use, blind, recycled, strangers>>

\* Slip: a verdict of its own for an environ that cannot be read.
ThreeVerdicts(p) ==
  IF ~Readable(p) THEN "error" ELSE IF hasMarker(proc[p].env) THEN "member" ELSE "non"

Verdict(p) == IF Readable(p) /\ hasMarker(proc[p].env) THEN "member" ELSE "non"

\* Slip: a verdict that is never looked into again.
CachedForGood(p) == known[p] \in {"member", "non", "old"}

\* A member stays one while it is listed, a non-member for a minute.
Cached(p) == known[p] \in {"member", "non"}

Look ==
  /\ pc = "look"
  /\ \E p \in todo :
       /\ \A q \in todo : p <= q
       /\ todo' = todo \ {p}
       /\ known' = IF Cached(p) THEN known ELSE [known EXCEPT ![p] = Verdict(p)]
       /\ out' = IF known'[p] = "member" THEN out \cup {p} ELSE out
       /\ blind' = IF Cached(p) THEN blind
                   ELSE IF Readable(p) /\ proc[p].own = "ours" THEN blind \ {p}
                   ELSE blind \cup {p}
  /\ UNCHANGED <<machine, rootPid, pc, alive, use, young, recycled, strangers>>

\* The root and its descendants: what is in every set of pids that has the root
\* and, with a process, its children.
HasTree(T) ==
  /\ rootPid \in T
  /\ \A p \in Pid : Exists(p) /\ proc[p].parent \in T => p \in T

addTree ==
  {p \in Pid : /\ rootPid # 0 /\ Exists(rootPid)
               /\ \A T \in SUBSET Pid : HasTree(T) => p \in T}

\* Verdicts on pids that are no longer listed are dropped.
ForgetGone ==
  /\ known' = [p \in Pid |-> IF p \in alive THEN known[p] ELSE "unknown"]
  /\ blind' = blind \cap alive /\ alive' = {}

\* Slip: trusting the marker alone.
MarkedOnly ==
  /\ pc = "look" /\ todo = {}
  /\ ForgetGone
  /\ out' = {p \in out : Alive(p)}
  /\ pc' = "verdict"
  /\ UNCHANGED <<machine, rootPid, todo, use, young, recycled, strangers>>

\* Slip: counting zombies.
CountsZombies ==
  /\ pc = "look" /\ todo = {}
  /\ ForgetGone
  /\ out' = out \cup addTree
  /\ pc' = "verdict"
  /\ UNCHANGED <<machine, rootPid, todo, use, young, recycled, strangers>>

\* The tree is added, and liveMembers keeps those that live.
liveMembers ==
  /\ pc = "look" /\ todo = {}
  /\ ForgetGone
  /\ out' = {p \in out \cup addTree : Alive(p)}
  /\ pc' = "verdict"
  /\ UNCHANGED <<machine, rootPid, todo, use, young, recycled, strangers>>

\* nonMemberRecheck.
MinutePasses ==
  /\ pc = "idle" /\ \E p \in Pid : known[p] = "non"
  /\ known' = [p \in Pid |-> IF known[p] = "non" THEN "old" ELSE known[p]]
  /\ blind' = {}
  /\ UNCHANGED <<machine, rootPid, pc, todo, alive, out, use,
                 young, recycled, strangers>>

\* Nobody left: watchRecovered reports the exit.  Else look again in a while.
waitForExit ==
  /\ pc = "verdict" /\ use = "watch"
  /\ pc' = IF out = {} THEN "done" ELSE "idle"
  /\ out' = {}
  /\ UNCHANGED <<machine, rootPid, known, todo, alive, use,
                 young, blind, recycled, strangers>>

\* signalPIDs, one pid after the other; the collector is not used again.
signalPIDs ==
  /\ pc = "verdict" /\ use = "kill"
  /\ \/ out = {} /\ pc' = "done" /\ UNCHANGED <<machine, out, young, recycled, strangers>>
     \/ \E p \in out :
          /\ \A q \in out : p <= q
          /\ IF Alive(p) THEN Dead(p, Free) ELSE UNCHANGED proc
          /\ strangers' = IF proc[p].own = "stranger" /\ Alive(p)
                          THEN strangers \cup {IF p \in recycled THEN "recycled" ELSE "any"}
                          ELSE strangers
          /\ out' = out \ {p}
          /\ UNCHANGED <<births, execs, pc, young, recycled>>
  /\ UNCHANGED <<rootPid, known, todo, alive, use, blind>>

Collector == listPIDs \/ Look \/ liveMembers \/ waitForExit \/ signalPIDs

-----------------------------------------------------------------------------

Next == Machine \/ Collector \/ MinutePasses

Spec == Init /\ [][Next]_vars

\* The polling goroutine runs, minutes pass, an exec comes to its end.
Fairness ==
  /\ WF_vars(Collector)
  /\ SF_vars(MinutePasses)
  /\ WF_vars(pc # "done" /\ \E p \in Pid : ExecEnds(p))

FairSpec == Spec /\ Fairness

-----------------------------------------------------------------------------

\* Every variable has its type.
TypeOK ==
  /\ proc \in [Pid -> Process]
  /\ births \in 0..MaxBirths /\ execs \in 0..MaxExecs
  /\ rootPid \in {0, Wrapper}
  /\ known \in [Pid -> {"unknown", "member", "non", "old"}]
  /\ pc \in {"idle", "look", "verdict", "done"}
  /\ todo \subseteq alive
  /\ {alive, out, young, blind, recycled} \subseteq SUBSET Pid
  /\ strangers \subseteq {"recycled", "any"}
  /\ use \in {"watch", "kill"}

\* Reached by neither the marker nor the wrapper's tree.
Unmarked(p) == proc[p].env = "none" /\ p \notin addTree

\* watchRecovered reports an exit, and a task is then started anew, only when
\* nothing of the task lives, but for what forked while /proc was being read,
\* was read in the middle of an exec or behind another process's verdict, or
\* is from before the marker and has left the wrapper's tree.
ExitIsReal ==
  pc = "done" /\ use = "watch" =>
    \A p \in Pid :
      Ours(p) => \/ p \in young
                 \/ known[p] = "non" /\ p \in blind
                 \/ Unmarked(p)

\* DestroyTask kills nobody else's process, unless it has been given the pid of
\* one of ours that the driver still counts on (TestTerminateProcesses_LeavesOtherTasksAlone).
OnlyRecycledKilled == "any" \notin strangers

\* When everything of the task is gone, zombies apart, its exit is noticed, as
\* long as no stranger sits on one of its pids.
Gone == \A p \in Pid : ~Ours(p)

ExitNoticed ==
  (use = "watch" /\ Gone /\ recycled = {}) ~> (pc = "done" \/ recycled # {})

\* "a recycled pid is eventually re-examined": a marked process that lives on is
\* found, whatever verdict its pid had.
LivingAreFound ==
  \A p \in Pid :
    (use = "watch" /\ Ours(p) /\ hasMarker(proc[p].env))
    ~> (p \in out \/ ~Ours(p) \/ pc = "done")

\* "members returns every pid belonging to the task": what the driver kills as
\* the task's is the task's.
OnlyOursKilled == strangers = {}
=============================================================================
