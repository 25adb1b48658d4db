------------------------- MODULE ProcMembers_proofs -------------------------
(***************************************************************************)
(* Proofs about ProcMembers, for any number of pids, processes and execs:  *)
(* what an exit that is reported means, and who may be killed.             *)
(***************************************************************************)
EXTENDS ProcMembers, TLAPS

-----------------------------------------------------------------------------
(* The inductive invariant behind ExitIsReal and OnlyRecycledKilled.       *)

AllOurs(env) == \A p \in Pid : proc[p].own = "ours" => proc[p].env = env

\* Children inherit their environment and lose a parent that dies; strangers
\* come from elsewhere.
ProcessesAgree ==
  /\ AllOurs("marked") \/ AllOurs("none")
  /\ \A p \in Pid :
       /\ proc[p].own = "stranger" => proc[p].env # "marked" /\ proc[p].parent = Init1
       /\ proc[p].parent # Init1 => Alive(proc[p].parent) /\ proc[p].parent # p

\* A verdict of "not ours" from a reading of ours says that none has a marker.
VerdictsAgree ==
  \A p \in Pid : known[p] = "non" /\ p \notin blind => AllOurs("none")

\* Why p, of ours, need not be found.
Excused(p) ==
  \/ p \in young
  \/ known[p] = "non" /\ p \in blind
  \/ proc[p].env = "none"

\* During a scan: looked at and found, or excused, or still to be looked at.
ScanSoFar ==
  pc = "look" =>
    \A p \in Pid : Ours(p) => \/ p \in young \/ p \in todo
                              \/ p \in alive /\ (p \in out \/ Excused(p))

\* After a scan that found nobody: all are excused, and what is in the tree has
\* been born since.
NobodyFound ==
  use = "watch" /\ (pc = "done" \/ (pc = "verdict" /\ out = {})) =>
    \A p \in Pid : /\ Ours(p) => Excused(p)
                   /\ p \in addTree /\ Alive(p) => p \in young

\* A stranger the driver takes for one of the task has a pid of one that was.
StrangersAreRecycled ==
  \A p \in Pid :
    proc[p].own = "stranger" /\ Alive(p) /\ Taken(p) => p \in recycled

MemberInv ==
  /\ TypeOK
  /\ ProcessesAgree
  /\ VerdictsAgree
  /\ ScanSoFar
  /\ NobodyFound
  /\ StrangersAreRecycled
  /\ OnlyRecycledKilled

-----------------------------------------------------------------------------
(* Types.                                                                  *)

LEMMA MemberTypesInit == Init => TypeOK
<1> SUFFICES ASSUME Init PROVE TypeOK
  OBVIOUS
<1> USE MemberBounds DEF Pid, Wrapper, Init1
<1>1. PICK env \in {"marked", "none"}, second \in BOOLEAN :
        proc = [p \in Pid |->
          CASE p = Wrapper /\ Rebooted  -> Fresh("stranger", "longer", Init1)
            [] p = Wrapper /\ ~Rebooted -> Fresh("ours", env, Init1)
            [] p = 2 /\ second /\ ~Rebooted -> Fresh("ours", env, Wrapper)
            [] OTHER -> Free]
  BY DEF Init
<1>2. proc \in [Pid -> Process]
  BY <1>1, RebootedIsBoolean DEF Process, Fresh, Free
<1> QED
  BY <1>2 DEF Init, TypeOK

LEMMA BornTyped ==
  ASSUME TypeOK, NEW p \in Pid, NEW new \in Process, Born(p, new)
  PROVE  /\ proc' \in [Pid -> Process] /\ births' \in 0..MaxBirths
         /\ young' \subseteq Pid
  BY MemberBounds DEF TypeOK, Born

LEMMA DeadTyped ==
  ASSUME TypeOK, NEW p \in Pid, NEW rest \in Process, Dead(p, rest)
  PROVE  proc' \in [Pid -> Process]
<1>1. Free \in Process
  BY DEF Free, Process
<1>2. \A q \in Pid : [proc[q] EXCEPT !.parent = Init1] \in Process
  BY DEF TypeOK, Process
<1>3. ASSUME NEW q \in Pid
      PROVE  proc'[q] \in Process
  <2>1. proc[q] \in Process
    BY DEF TypeOK
  <2>2. CASE q = p
    BY <2>2 DEF Dead
  <2>3. CASE q # p /\ proc[q].parent = p /\ proc[q].state = "zombie"
    BY <1>1, <2>3 DEF Dead
  <2>4. CASE q # p /\ proc[q].parent = p /\ proc[q].state # "zombie"
    BY <1>2, <2>4 DEF Dead
  <2>5. CASE q # p /\ proc[q].parent # p
    BY <2>1, <2>5 DEF Dead
  <2> QED
    BY <2>2, <2>3, <2>4, <2>5
<1>4. \E f : proc' = [q \in Pid |-> f[q]]
  <2> DEFINE g == [q \in Pid |->
    CASE q = p -> rest
      [] q # p /\ proc[q].parent = p ->
           IF proc[q].state = "zombie" THEN Free ELSE [proc[q] EXCEPT !.parent = Init1]
      [] OTHER -> proc[q]]
  <2>1. proc' = g /\ g = [q \in Pid |-> g[q]]
    BY DEF Dead
  <2> HIDE DEF g
  <2> QED
    BY <2>1
<1> QED
  BY <1>3, <1>4

LEMMA MachineTyped ==
  ASSUME TypeOK, Machine
  PROVE  TypeOK'
<1> USE MemberBounds
<1>0. PICK p \in Pid :
        \/ \E child \in Pid : Forks(p, child)
        \/ StrangerStarts(p) \/ ExecBegins(p) \/ ExecEnds(p) \/ Exits(p) \/ Reaped(p)
  BY DEF Machine
<1>1. ASSUME NEW child \in Pid, Forks(p, child)
      PROVE  TypeOK'
  <2>1. Fresh("ours", proc[p].env, p) \in Process
    BY DEF TypeOK, Fresh, Process
  <2>2. Born(child, Fresh("ours", proc[p].env, p)) /\ UNCHANGED recycled
    BY <1>1 DEF Forks
  <2> HIDE DEF Fresh
  <2> QED
    BY <2>1, <2>2, BornTyped DEF TypeOK, Born, collector
<1>2. CASE StrangerStarts(p)
  <2>1. Fresh("stranger", "longer", Init1) \in Process
    BY DEF Fresh, Process
  <2>2. Born(p, Fresh("stranger", "longer", Init1)) /\ recycled' \subseteq Pid
    BY <1>2 DEF StrangerStarts, TypeOK
  <2> QED
    BY <2>1, <2>2, BornTyped DEF TypeOK, Born, collector
<1>3. CASE ExecBegins(p)
  <2>1. proc' \in [Pid -> Process]
    BY <1>3 DEF ExecBegins, TypeOK, Process
  <2> QED
    BY <1>3, <2>1 DEF ExecBegins, TypeOK, collector
<1>4. CASE ExecEnds(p)
  <2>1. proc' \in [Pid -> Process]
    BY <1>4 DEF ExecEnds, TypeOK, Process
  <2> QED
    BY <1>4, <2>1 DEF ExecEnds, TypeOK, collector
<1>5. CASE Exits(p)
  <2>1. PICK rest \in Remains(p) : Dead(p, rest)
    BY <1>5 DEF Exits
  <2>2. rest \in Process
    <3>1. [proc[p] EXCEPT !.state = "zombie"] \in Process
      BY DEF TypeOK, Process
    <3>2. Free \in Process
      BY DEF Free, Process
    <3> QED
      BY <3>1, <3>2 DEF Remains
  <2>3. proc' \in [Pid -> Process]
    BY <2>1, <2>2, DeadTyped
  <2> QED
    BY <1>5, <2>3 DEF Exits, TypeOK, collector
<1>6. CASE Reaped(p)
  <2>1. proc' \in [Pid -> Process]
    BY <1>6 DEF Reaped, TypeOK, Process, Free
  <2> QED
    BY <1>6, <2>1 DEF Reaped, TypeOK, collector
<1> QED
  BY <1>0, <1>1, <1>2, <1>3, <1>4, <1>5, <1>6

LEMMA CollectorTyped ==
  ASSUME TypeOK, Collector \/ MinutePasses
  PROVE  TypeOK'
<1>1. CASE listPIDs
  BY <1>1 DEF listPIDs, TypeOK, machine
<1>2. CASE Look
  BY <1>2 DEF Look, Verdict, TypeOK, machine
<1>3. CASE liveMembers
  BY <1>3 DEF liveMembers, ForgetGone, addTree, TypeOK, machine
<1>4. CASE waitForExit
  BY <1>4 DEF waitForExit, TypeOK, machine
<1>5. CASE signalPIDs
  <2>1. proc' \in [Pid -> Process]
    <3>1. Free \in Process
      BY DEF Free, Process
    <3>2. UNCHANGED proc \/ \E p \in Pid : Dead(p, Free)
      BY <1>5 DEF signalPIDs, machine, TypeOK
    <3> QED
      BY <3>1, <3>2, DeadTyped DEF TypeOK
  <2>2. out' \subseteq Pid /\ strangers' \subseteq {"recycled", "any"}
    BY <1>5 DEF signalPIDs, TypeOK
  <2> QED
    BY <1>5, <2>1, <2>2 DEF signalPIDs, TypeOK, machine
<1>6. CASE MinutePasses
  BY <1>6 DEF MinutePasses, TypeOK, machine
<1> QED
  BY <1>1, <1>2, <1>3, <1>4, <1>5, <1>6 DEF Collector

\* The collector's variables and the machine's have their types throughout: every
\* verdict in known is one that processMarked can give.
THEOREM MemberTypes == Spec => []TypeOK
<1>1. ASSUME TypeOK, [Next]_vars PROVE TypeOK'
  <2>1. CASE UNCHANGED vars
    BY <1>1, <2>1 DEF vars, machine, collector, TypeOK
  <2> QED
    BY <1>1, <2>1, MachineTyped, CollectorTyped DEF Next
<1> QED
  BY <1>1, MemberTypesInit, PTL DEF Spec

-----------------------------------------------------------------------------
(* What a step of the machine does to the processes: one is born, or what  *)
(* there is fades.                                                         *)

Fades ==
  /\ \A q \in Pid :
       /\ proc'[q].parent \in {Init1, proc[q].parent}
       /\ proc'[q].own \in {proc[q].own, "free"}
       /\ proc'[q].own # "free" => proc'[q].env = proc[q].env
       /\ Alive(q)' => Alive(q) /\ proc'[q].own = proc[q].own /\ proc'[q].env = proc[q].env
       /\ proc'[q].parent # Init1 => Alive(proc[q].parent)'
       /\ Alive(q)' /\ q \in young => q \in young'
       /\ Alive(q)' /\ q \in recycled => q \in recycled'

BornAt(c) ==
  /\ proc[c] = Free /\ Alive(c)'
  /\ \A q \in Pid \ {c} : proc'[q] = proc[q]
  /\ young \subseteq young' /\ recycled \subseteq recycled'
  /\ pc # "idle" => c \in young'
  /\ \/ /\ proc'[c].own = "ours" /\ proc'[c].parent \in Pid \ {c}
        /\ Alive(proc'[c].parent)
        /\ proc[proc'[c].parent].own = "ours"
        /\ proc'[c].env = proc[proc'[c].parent].env
     \/ /\ proc'[c].own = "stranger" /\ proc'[c].parent = Init1
        /\ proc'[c].env = "longer"
        /\ Taken(c) => c \in recycled'

\* What is left of a dead process: nothing, or its zombie.
Lifeless(rest, p) ==
  /\ rest.state \notin {"live", "exec"}
  /\ rest.parent \in {Init1, proc[p].parent}
  /\ rest.own \in {proc[p].own, "free"}
  /\ rest.own # "free" => rest.env = proc[p].env

LEMMA FreeIsLifeless ==
  ASSUME NEW p \in Pid
  PROVE  Lifeless(Free, p)
BY DEF Lifeless, Free

LEMMA RemainsLifeless ==
  ASSUME TypeOK, NEW p \in Pid, NEW rest \in Remains(p)
  PROVE  Lifeless(rest, p)
<1>1. proc[p] \in Process
  BY DEF TypeOK
<1>2. CASE rest = Free
  BY <1>2, FreeIsLifeless
<1>3. CASE rest = [proc[p] EXCEPT !.state = "zombie"]
  BY <1>1, <1>3 DEF Lifeless, Process
<1> QED
  BY <1>2, <1>3 DEF Remains

LEMMA DeadFades ==
  ASSUME TypeOK, ProcessesAgree, NEW p \in Pid, NEW rest, Dead(p, rest),
         Lifeless(rest, p),
         \A q \in Pid \ {p} : q \in young => q \in young',
         \A q \in Pid \ {p} : q \in recycled => q \in recycled'
  PROVE  Fades
<1>1. \A q \in Pid : proc[q] \in Process
  BY DEF TypeOK
<1>2. proc'[p] = rest /\ ~Alive(p)'
  <2>1. proc'[p] = rest
    BY DEF Dead
  <2> QED
    BY <2>1 DEF Alive, Lifeless
<1>3. ASSUME NEW q \in Pid \ {p}
      PROVE  \/ proc[q].parent # p /\ proc'[q] = proc[q]
             \/ proc[q].parent = p /\ proc[q].state = "zombie" /\ proc'[q] = Free
             \/ /\ proc[q].parent = p /\ proc[q].state # "zombie"
                /\ proc'[q] = [proc[q] EXCEPT !.parent = Init1]
  BY DEF Dead
<1>4. ASSUME NEW q \in Pid \ {p}, Alive(q) PROVE Alive(q)'
  BY <1>1, <1>3, <1>4 DEF Alive, Process
<1>5. \A q \in Pid : proc[q].parent # Init1 => Alive(proc[q].parent) /\ proc[q].parent \in Pid \ {q}
  BY <1>1 DEF ProcessesAgree, Process
<1>6. ASSUME NEW q \in Pid \ {p}
      PROVE  /\ proc'[q].parent \in {Init1, proc[q].parent}
             /\ proc'[q].own \in {proc[q].own, "free"}
             /\ proc'[q].own # "free" => proc'[q].env = proc[q].env
             /\ Alive(q)' => Alive(q) /\ proc'[q].own = proc[q].own /\ proc'[q].env = proc[q].env
             /\ proc'[q].parent # Init1 => proc'[q].parent = proc[q].parent /\ proc[q].parent # p
  <2>1. CASE proc[q].parent # p /\ proc'[q] = proc[q]
    BY <2>1 DEF Alive
  <2>2. CASE proc'[q] = Free
    BY <2>2 DEF Alive, Free
  <2>3. CASE proc[q].parent = p /\ proc'[q] = [proc[q] EXCEPT !.parent = Init1]
    BY <1>1, <2>3 DEF Alive, Process
  <2> QED
    BY <1>3, <2>1, <2>2, <2>3
<1>7. /\ proc'[p].parent \in {Init1, proc[p].parent}
      /\ proc'[p].own \in {proc[p].own, "free"}
      /\ proc'[p].own # "free" => proc'[p].env = proc[p].env
  BY <1>2 DEF Lifeless
<1>8. ASSUME NEW q \in Pid, proc'[q].parent # Init1 PROVE Alive(proc[q].parent)'
  BY <1>4, <1>5, <1>6, <1>7, <1>8
<1> QED
  BY <1>2, <1>6, <1>7, <1>8 DEF Fades

LEMMA ChangeFades ==
  ASSUME TypeOK, ProcessesAgree, NEW p \in Pid, UNCHANGED <<young, recycled>>,
         \/ proc' = proc
         \/ /\ Alive(p)
            /\ \E state \in {"live", "exec"} : proc' = [proc EXCEPT ![p].state = state]
         \/ proc[p].state = "zombie" /\ proc' = [proc EXCEPT ![p] = Free]
  PROVE  Fades
<1>1. \A q \in Pid : proc[q] \in Process
  BY DEF TypeOK
<1>2. \A q \in Pid : proc[q].parent # Init1 => Alive(proc[q].parent) /\ proc[q].parent \in Pid
  BY <1>1 DEF ProcessesAgree, Process
<1>3. CASE proc' = proc
  BY <1>2, <1>3 DEF Fades, Alive
<1>4. ASSUME Alive(p), NEW state \in {"live", "exec"}, proc' = [proc EXCEPT ![p].state = state]
      PROVE  Fades
  <2>1. \A q \in Pid : /\ Alive(q)' <=> Alive(q)
                       /\ proc'[q].parent = proc[q].parent
                       /\ proc'[q].own = proc[q].own /\ proc'[q].env = proc[q].env
    BY <1>1, <1>4 DEF Alive, TypeOK, Process
  <2> QED
    BY <1>2, <2>1 DEF Fades
<1>5. CASE proc[p].state = "zombie" /\ proc' = [proc EXCEPT ![p] = Free]
  <2>1. proc'[p] = Free /\ ~Alive(p) /\ ~Alive(p)'
    BY <1>5 DEF TypeOK, Alive, Free
  <2>2. \A q \in Pid \ {p} : proc'[q] = proc[q] /\ (Alive(q)' <=> Alive(q))
    BY <1>5 DEF TypeOK, Alive
  <2> QED
    BY <1>2, <2>1, <2>2 DEF Fades, Free
<1> QED
  BY <1>3, <1>4, <1>5

LEMMA MachineMoves ==
  ASSUME TypeOK, ProcessesAgree, Machine
  PROVE  UNCHANGED <<collector, blind, strangers>> /\ (Fades \/ \E c \in Pid : BornAt(c))
<1>0. PICK p \in Pid :
        \/ \E child \in Pid : Forks(p, child)
        \/ StrangerStarts(p) \/ ExecBegins(p) \/ ExecEnds(p) \/ Exits(p) \/ Reaped(p)
  BY DEF Machine
<1>1. ASSUME NEW child \in Pid, Forks(p, child)
      PROVE  BornAt(child) /\ UNCHANGED <<collector, blind, strangers>>
  <2>1. proc' = [proc EXCEPT ![child] = Fresh("ours", proc[p].env, p)] /\ proc[child] = Free
    BY <1>1 DEF Forks, Born
  <2>2. proc'[child] = Fresh("ours", proc[p].env, p) /\ \A q \in Pid \ {child} : proc'[q] = proc[q]
    BY <2>1 DEF TypeOK
  <2>3. p # child /\ Ours(p)
    BY <1>1, <2>1 DEF Forks, Ours, Alive, Free
  <2>4. young \subseteq young' /\ (pc # "idle" => child \in young') /\ recycled' = recycled
    BY <1>1 DEF Forks, Born
  <2>5. UNCHANGED <<collector, blind, strangers>>
    BY <1>1 DEF Forks, Born
  <2> QED
    BY <2>1, <2>2, <2>3, <2>4, <2>5 DEF BornAt, Fresh, Ours, Alive
<1>2. CASE StrangerStarts(p)
  <2>1. proc' = [proc EXCEPT ![p] = Fresh("stranger", "longer", Init1)] /\ proc[p] = Free
    BY <1>2 DEF StrangerStarts, Born
  <2>2. proc'[p] = Fresh("stranger", "longer", Init1) /\ \A q \in Pid \ {p} : proc'[q] = proc[q]
    BY <2>1 DEF TypeOK
  <2>3. /\ young \subseteq young' /\ (pc # "idle" => p \in young')
        /\ recycled \subseteq recycled' /\ (Taken(p) => p \in recycled')
    BY <1>2 DEF StrangerStarts, Born
  <2>4. UNCHANGED <<collector, blind, strangers>>
    BY <1>2 DEF StrangerStarts, Born
  <2> QED
    BY <2>1, <2>2, <2>3, <2>4 DEF BornAt, Fresh, Alive
<1>3. CASE ExecBegins(p)
  BY <1>3, ChangeFades DEF ExecBegins, Alive
<1>4. CASE ExecEnds(p)
  BY <1>4, ChangeFades DEF ExecEnds, Alive
<1>5. CASE Exits(p)
  <2>1. PICK rest \in Remains(p) : Dead(p, rest)
    BY <1>5 DEF Exits
  <2>2. Lifeless(rest, p)
    BY <2>1, RemainsLifeless
  <2>3. /\ \A q \in Pid \ {p} : q \in young => q \in young'
        /\ \A q \in Pid \ {p} : q \in recycled => q \in recycled'
        /\ UNCHANGED <<collector, blind, strangers>>
    BY <1>5 DEF Exits
  <2> QED
    BY <2>1, <2>2, <2>3, DeadFades
<1>6. CASE Reaped(p)
  BY <1>6, ChangeFades DEF Reaped
<1> QED
  BY <1>0, <1>1, <1>2, <1>3, <1>4, <1>5, <1>6

\* What a signal does.
LEMMA SignalFades ==
  ASSUME TypeOK, ProcessesAgree, signalPIDs
  PROVE  Fades
<1>1. UNCHANGED <<young, recycled>>
  BY DEF signalPIDs
<1>2. CASE UNCHANGED proc
  <2>1. 1 \in Pid
    BY MemberBounds DEF Pid
  <2> QED
    BY <1>1, <1>2, <2>1, ChangeFades
<1>3. ASSUME NEW p \in Pid, Dead(p, Free) PROVE Fades
  BY <1>1, <1>3, FreeIsLifeless, DeadFades
<1>4. UNCHANGED proc \/ \E p \in Pid : Dead(p, Free)
  BY DEF signalPIDs, machine, TypeOK
<1> QED
  BY <1>2, <1>3, <1>4

\* The other steps of the collector leave the processes as they are.
LEMMA OthersFade ==
  ASSUME TypeOK, ProcessesAgree, UNCHANGED <<proc, young, recycled>>
  PROVE  Fades
<1>1. 1 \in Pid
  BY MemberBounds DEF Pid
<1> QED
  BY <1>1, ChangeFades

-----------------------------------------------------------------------------
(* ProcessesAgree.                                                         *)

LEMMA AgreeFades ==
  ASSUME TypeOK, ProcessesAgree, Fades
  PROVE  ProcessesAgree' /\ (AllOurs("none") => AllOurs("none")')
<1>1. ASSUME NEW env, AllOurs(env) PROVE AllOurs(env)'
  BY <1>1 DEF AllOurs, Fades
<1>2. ASSUME NEW p \in Pid
      PROVE  /\ proc'[p].own = "stranger" => proc'[p].env # "marked" /\ proc'[p].parent = Init1
             /\ proc'[p].parent # Init1 => Alive(proc[p].parent)' /\ proc'[p].parent # p
  <2>1. /\ proc'[p].parent \in {Init1, proc[p].parent}
        /\ proc'[p].own \in {proc[p].own, "free"}
        /\ proc'[p].own # "free" => proc'[p].env = proc[p].env
        /\ proc'[p].parent # Init1 => Alive(proc[p].parent)'
    BY DEF Fades
  <2>2. /\ proc[p].own = "stranger" => proc[p].env # "marked" /\ proc[p].parent = Init1
        /\ proc[p].parent # Init1 => proc[p].parent # p
    BY DEF ProcessesAgree
  <2>3. proc'[p].parent # Init1 => proc'[p].parent = proc[p].parent
    BY <2>1
  <2> QED
    BY <2>1, <2>2, <2>3
<1> QED
  BY <1>1, <1>2 DEF ProcessesAgree

LEMMA AgreeBorn ==
  ASSUME TypeOK, ProcessesAgree, NEW c \in Pid, BornAt(c)
  PROVE  ProcessesAgree' /\ (AllOurs("none") => AllOurs("none")')
<1>0. /\ proc[c] = Free /\ ~Alive(c) /\ proc[c].parent = Init1
      /\ \A q \in Pid : proc[q] \in Process
  BY DEF BornAt, Free, Alive, TypeOK
<1>1. ASSUME NEW env, AllOurs(env) PROVE AllOurs(env)'
  <2>1. proc'[c].own = "ours" => proc'[c].env = env
    BY <1>1 DEF BornAt, AllOurs
  <2> QED
    BY <1>1, <2>1 DEF AllOurs, BornAt
<1>2. \A q \in Pid : Alive(q) => Alive(q)'
  BY <1>0 DEF BornAt, Alive
<1>3. ASSUME NEW p \in Pid
      PROVE  /\ proc'[p].own = "stranger" => proc'[p].env # "marked" /\ proc'[p].parent = Init1
             /\ proc'[p].parent # Init1 => Alive(proc[p].parent)' /\ proc'[p].parent # p
  <2>1. CASE p = c
    <3>1. CASE proc'[c].own = "stranger" /\ proc'[c].parent = Init1 /\ proc'[c].env = "longer"
      BY <2>1, <3>1
    <3>2. CASE /\ proc'[c].own = "ours" /\ proc'[c].parent \in Pid \ {c}
               /\ Alive(proc'[c].parent)
      <4>1. ASSUME NEW q \in Pid, q = proc'[c].parent PROVE Alive(q)'
        BY <1>2, <3>2, <4>1
      <4>2. Alive(proc[c].parent)'
        BY <3>2, <4>1 DEF Alive
      <4> QED
        BY <2>1, <3>2, <4>2
    <3> QED
      BY <3>1, <3>2 DEF BornAt
  <2>2. CASE p # c
    <3>1. proc'[p] = proc[p]
      BY <2>2 DEF BornAt
    <3>2. proc[p].parent # Init1 => proc[p].parent \in Pid /\ Alive(proc[p].parent) /\ proc[p].parent # p
      BY <1>0 DEF ProcessesAgree, Process
    <3>3. ASSUME NEW q \in Pid, q = proc[p].parent, proc[p].parent # Init1 PROVE Alive(q)'
      BY <1>2, <3>2, <3>3
    <3>4. proc'[p].parent # Init1 => Alive(proc[p].parent)'
      BY <3>1, <3>2, <3>3 DEF Alive
    <3> QED
      BY <3>1, <3>2, <3>4 DEF ProcessesAgree
  <2> QED
    BY <2>1, <2>2
<1> QED
  BY <1>1, <1>3 DEF ProcessesAgree

-----------------------------------------------------------------------------
(* The wrapper's tree: it gains nobody but a newborn, and of the strangers *)
(* it has at most the one behind the wrapper's pid.                        *)

LEMMA TreeFades ==
  ASSUME TypeOK, Fades, UNCHANGED rootPid
  PROVE  addTree' \subseteq addTree
<1> SUFFICES ASSUME NEW p \in Pid, p \in addTree' PROVE p \in addTree
  BY DEF addTree
<1>1. /\ rootPid # 0 /\ Exists(rootPid)'
      /\ \A T \in SUBSET Pid : HasTree(T)' => p \in T
  BY DEF addTree
<1>2. rootPid \in Pid
  BY <1>1, MemberBounds DEF TypeOK, Wrapper, Pid
<1>3. Exists(rootPid)
  BY <1>1, <1>2 DEF Fades, Exists
<1>4. ASSUME NEW T \in SUBSET Pid, HasTree(T) PROVE p \in T
  <2>1. ASSUME NEW q \in Pid, Exists(q)', proc'[q].parent \in T PROVE q \in T
    <3>1. 0 \notin T
      BY DEF Pid
    <3>2. proc[q].parent \in T /\ Exists(q)
      BY <2>1, <3>1 DEF Fades, Exists, Init1
    <3> QED
      BY <1>4, <3>2 DEF HasTree
  <2>2. HasTree(T)'
    BY <1>4, <2>1 DEF HasTree
  <2> QED
    BY <1>1, <2>2
<1> QED
  BY <1>1, <1>3, <1>4 DEF addTree

LEMMA TreeBorn ==
  ASSUME TypeOK, ProcessesAgree, NEW c \in Pid, BornAt(c), UNCHANGED rootPid
  PROVE  addTree' \subseteq addTree \cup {c}
<1> SUFFICES ASSUME NEW p \in Pid, p \in addTree', p # c PROVE p \in addTree
  BY DEF addTree
<1>1. /\ rootPid # 0
      /\ \A T \in SUBSET Pid : HasTree(T)' => p \in T
      /\ Exists(rootPid)'
  BY DEF addTree
<1>2. rootPid \in Pid
  BY <1>1, MemberBounds DEF TypeOK, Wrapper, Pid
<1>3. \A q \in Pid : proc[q].parent # c
  <2>1. ~Alive(c) /\ c # Init1
    BY DEF BornAt, Free, Alive, Pid, Init1
  <2> QED
    BY <2>1 DEF ProcessesAgree
<1>4. ASSUME NEW T \in SUBSET Pid,
             \A q \in Pid : Exists(q) /\ proc[q].parent \in T => q \in T,
             rootPid \in T \cup {c}
      PROVE  p \in T
  <2>1. ASSUME NEW q \in Pid, Exists(q)', proc'[q].parent \in T \cup {c} PROVE q \in T \cup {c}
    <3>1. CASE q = c
      BY <3>1
    <3>2. CASE q # c
      <4>1. proc'[q] = proc[q]
        BY <3>2 DEF BornAt
      <4>2. Exists(q) /\ proc[q].parent \in T
        BY <1>3, <2>1, <4>1 DEF Exists
      <4> QED
        BY <1>4, <4>2
    <3> QED
      BY <3>1, <3>2
  <2>2. HasTree(T \cup {c})'
    BY <1>4, <2>1 DEF HasTree
  <2>3. T \cup {c} \in SUBSET Pid
    OBVIOUS
  <2> QED
    BY <1>1, <2>2, <2>3
<1>5. rootPid # c
  <2>1. {} \in SUBSET Pid /\ \A q \in Pid : Exists(q) /\ proc[q].parent \in {} => q \in {}
    OBVIOUS
  <2>2. rootPid \in {} \cup {c} => p \in {}
    BY <1>4, <2>1
  <2> QED
    BY <2>2
<1>6. Exists(rootPid)
  BY <1>1, <1>2, <1>5 DEF BornAt, Exists
<1>7. \A T \in SUBSET Pid : HasTree(T) => p \in T
  BY <1>4 DEF HasTree
<1> QED
  BY <1>1, <1>6, <1>7 DEF addTree

LEMMA TreeHasNoStrangers ==
  ASSUME TypeOK, ProcessesAgree, NEW p \in addTree, proc[p].own = "stranger"
  PROVE  p = rootPid
<1> DEFINE T == {rootPid} \cup {q \in Pid : proc[q].own # "stranger"}
<1>1. rootPid # 0 /\ rootPid \in Pid
  BY MemberBounds DEF addTree, TypeOK, Wrapper, Pid
<1>2. \A q \in Pid : proc[q].own = "stranger" => proc[q].parent \notin Pid
  BY DEF ProcessesAgree, Init1, Pid
<1>3. T \in SUBSET Pid
  BY <1>1
<1>4. HasTree(T)
  BY <1>2, <1>3 DEF HasTree
<1>5. p \in T
  BY <1>3, <1>4 DEF addTree
<1> QED
  BY <1>5

-----------------------------------------------------------------------------
(* The machine's steps, whatever the collector is doing.                   *)

LEMMA MachineKeepsScan ==
  ASSUME TypeOK, ProcessesAgree, VerdictsAgree, ScanSoFar, NobodyFound,
         pc # "done", Fades \/ \E c \in Pid : BornAt(c),
         UNCHANGED <<collector, blind>>
  PROVE  VerdictsAgree' /\ ScanSoFar' /\ NobodyFound'
<1>0. /\ AllOurs("none") => AllOurs("none")'
      /\ UNCHANGED <<rootPid, known, pc, todo, alive, out, use, blind>>
  BY AgreeFades, AgreeBorn DEF collector
<1>1. VerdictsAgree'
  BY <1>0 DEF VerdictsAgree
<1>2. ASSUME NEW p \in Pid, Ours(p)'
      PROVE  p \in young' \/ pc = "idle" \/ (Ours(p) /\ (Excused(p) => Excused(p)'))
  <2>1. CASE Fades
    <3>1. /\ Alive(p)' /\ proc'[p].own = "ours" /\ Ours(p)
          /\ proc'[p].env = proc[p].env /\ (p \in young => p \in young')
      BY <1>2, <2>1 DEF Fades, Ours
    <3> QED
      BY <1>0, <3>1 DEF Excused
  <2>2. ASSUME NEW c \in Pid, BornAt(c), p # c PROVE Ours(p) /\ (Excused(p) => Excused(p)')
    <3>1. proc'[p] = proc[p] /\ young \subseteq young'
      BY <2>2 DEF BornAt
    <3> QED
      BY <1>0, <1>2, <3>1 DEF Excused, Ours, Alive
  <2>3. ASSUME NEW c \in Pid, BornAt(c), p = c PROVE p \in young' \/ pc = "idle"
    BY <2>3 DEF BornAt
  <2> QED
    BY <2>1, <2>2, <2>3
<1>3. ASSUME NEW p \in Pid, p \in young, Ours(p)' PROVE p \in young'
  BY <1>3 DEF Fades, BornAt, Ours
<1>4. ScanSoFar'
  <2> SUFFICES ASSUME pc = "look", NEW p \in Pid, Ours(p)'
               PROVE  p \in young' \/ p \in todo \/ (p \in alive /\ (p \in out \/ Excused(p)'))
    BY <1>0 DEF ScanSoFar
  <2>1. p \in young' \/ (Ours(p) /\ (Excused(p) => Excused(p)'))
    BY <1>2
  <2> QED
    BY <1>3, <2>1 DEF ScanSoFar
<1>5. NobodyFound'
  <2> SUFFICES ASSUME use = "watch", pc = "verdict", out = {}, NEW p \in Pid
               PROVE  /\ Ours(p)' => Excused(p)'
                      /\ p \in addTree' /\ Alive(p)' => p \in young'
    BY <1>0 DEF NobodyFound
  <2>1. /\ Ours(p) => Excused(p)
        /\ p \in addTree /\ Alive(p) => p \in young
    BY DEF NobodyFound
  <2>2. Ours(p)' => Excused(p)'
    BY <1>2, <2>1 DEF Excused
  <2>3. ASSUME p \in addTree', Alive(p)' PROVE p \in young'
    <3>1. CASE Fades
      <4>1. p \in addTree
        BY <1>0, <2>3, <3>1, TreeFades
      <4> QED
        BY <2>1, <2>3, <3>1, <4>1 DEF Fades
    <3>2. ASSUME NEW c \in Pid, BornAt(c) PROVE p \in young'
      <4>1. CASE p = c
        BY <3>2, <4>1 DEF BornAt
      <4>2. CASE p # c
        <5>1. p \in addTree
          BY <1>0, <2>3, <3>2, <4>2, TreeBorn
        <5>2. Alive(p)
          BY <2>3, <3>2, <4>2 DEF BornAt, Alive
        <5> QED
          BY <2>1, <3>2, <5>1, <5>2 DEF BornAt
      <4> QED
        BY <4>1, <4>2
    <3> QED
      BY <3>1, <3>2
  <2> QED
    BY <2>2, <2>3
<1> QED
  BY <1>1, <1>4, <1>5

LEMMA MachineKeepsRecycled ==
  ASSUME TypeOK, StrangersAreRecycled, Fades \/ \E c \in Pid : BornAt(c),
         UNCHANGED collector
  PROVE  StrangersAreRecycled'
<1>0. \A p \in Pid : Taken(p)' <=> Taken(p)
  BY DEF Taken, collector
<1> SUFFICES ASSUME NEW p \in Pid, proc'[p].own = "stranger", Alive(p)', Taken(p)
             PROVE  p \in recycled'
  BY <1>0 DEF StrangersAreRecycled
<1>1. CASE Fades
  BY <1>1 DEF Fades, StrangersAreRecycled
<1>2. ASSUME NEW c \in Pid, BornAt(c) PROVE p \in recycled'
  <2>1. CASE p = c
    BY <1>2, <2>1 DEF BornAt
  <2>2. CASE p # c
    <3>1. proc'[p] = proc[p] /\ recycled \subseteq recycled'
      BY <1>2, <2>2 DEF BornAt
    <3> QED
      BY <3>1 DEF StrangersAreRecycled, Alive
  <2> QED
    BY <2>1, <2>2
<1> QED
  BY <1>1, <1>2

-----------------------------------------------------------------------------
(* The collector's steps.                                                  *)

LEMMA LookKeepsScan ==
  ASSUME TypeOK, ProcessesAgree, VerdictsAgree, ScanSoFar, Look
  PROVE  VerdictsAgree' /\ ScanSoFar'
<1>1. PICK p \in todo :
        /\ todo' = todo \ {p}
        /\ known' = IF Cached(p) THEN known ELSE [known EXCEPT ![p] = Verdict(p)]
        /\ out' = IF known'[p] = "member" THEN out \cup {p} ELSE out
        /\ blind' = IF Cached(p) THEN blind
                    ELSE IF Readable(p) /\ proc[p].own = "ours" THEN blind \ {p}
                    ELSE blind \cup {p}
  BY DEF Look
<1>2. /\ pc = "look" /\ UNCHANGED <<proc, pc, alive, use, young>>
      /\ p \in Pid /\ p \in alive
  BY DEF Look, machine, TypeOK
<1>3. \A q \in Pid \ {p} : known'[q] = known[q] /\ (q \in blind' <=> q \in blind)
  BY <1>1, <1>2 DEF TypeOK
<1>4. AllOurs("none") => AllOurs("none")'
  BY <1>2 DEF AllOurs
<1>5. ASSUME known'[p] = "non", p \notin blind' PROVE AllOurs("none")
  <2>1. CASE Cached(p)
    BY <1>1, <1>2, <1>5, <2>1 DEF VerdictsAgree
  <2>2. CASE ~Cached(p)
    <3>1. known'[p] = Verdict(p) /\ Readable(p) /\ proc[p].own = "ours"
      BY <1>1, <1>2, <1>5, <2>2 DEF TypeOK
    <3>2. proc[p].env # "marked"
      BY <1>5, <3>1 DEF Verdict, hasMarker
    <3> QED
      BY <1>2, <3>1, <3>2 DEF ProcessesAgree, AllOurs
  <2> QED
    BY <2>1, <2>2
<1>6. VerdictsAgree'
  BY <1>3, <1>4, <1>5 DEF VerdictsAgree
<1>7. ASSUME NEW q \in Pid, Ours(q)
      PROVE  \/ q \in young' \/ q \in todo'
             \/ (q \in alive' /\ (q \in out' \/ Excused(q)'))
  <2>1. CASE q = p
    <3>1. known'[p] \in {"member", "non"}
      BY <1>1, <1>2 DEF Cached, Verdict, TypeOK
    <3>2. known'[p] = "non" /\ p \notin blind' => proc[p].env = "none"
      BY <1>2, <1>5, <1>7, <2>1 DEF AllOurs, Ours
    <3> QED
      BY <1>1, <1>2, <2>1, <3>1, <3>2 DEF Excused
  <2>2. CASE q # p
    BY <1>1, <1>2, <1>3, <1>7, <2>2 DEF ScanSoFar, Excused
  <2> QED
    BY <2>1, <2>2
<1>8. \A q \in Pid : Ours(q)' <=> Ours(q)
  BY <1>2 DEF Ours, Alive
<1> QED
  BY <1>6, <1>7, <1>8 DEF ScanSoFar

LEMMA ListingKeepsScan ==
  ASSUME TypeOK, VerdictsAgree, listPIDs
  PROVE  VerdictsAgree' /\ ScanSoFar' /\ NobodyFound'
<1>1. /\ UNCHANGED <<proc, known, blind, use>> /\ pc' = "look"
      /\ todo' = {p \in Pid : Exists(p)}
  BY DEF listPIDs, machine
<1>2. VerdictsAgree'
  BY <1>1 DEF VerdictsAgree, AllOurs
<1>3. \A p \in Pid : Ours(p)' => p \in todo'
  BY <1>1 DEF Ours, Exists
<1> QED
  BY <1>1, <1>2, <1>3 DEF ScanSoFar, NobodyFound

LEMMA LiveMembersKeepsScan ==
  ASSUME TypeOK, VerdictsAgree, ScanSoFar, liveMembers
  PROVE  VerdictsAgree' /\ ScanSoFar' /\ NobodyFound'
<1>1. /\ UNCHANGED <<proc, rootPid, use, young>>
      /\ pc = "look" /\ todo = {} /\ pc' = "verdict"
      /\ known' = [p \in Pid |-> IF p \in alive THEN known[p] ELSE "unknown"]
      /\ blind' = blind \cap alive
      /\ out' = {p \in out \cup addTree : Alive(p)}
  BY DEF liveMembers, ForgetGone, machine
<1>2. VerdictsAgree'
  BY <1>1 DEF VerdictsAgree, AllOurs
<1>3. addTree' = addTree /\ addTree \subseteq Pid
  BY <1>1 DEF addTree, HasTree, Exists
<1>4. ASSUME out' = {}, NEW p \in Pid
      PROVE  (Ours(p)' => Excused(p)') /\ (p \in addTree' /\ Alive(p)' => p \in young')
  <2>1. (Alive(p)' <=> Alive(p)) /\ (Ours(p)' <=> Ours(p))
    BY <1>1 DEF Alive, Ours
  <2>2. Alive(p) => p \notin out \cup addTree
    BY <1>1, <1>4
  <2>3. ASSUME Ours(p) PROVE Excused(p)'
    <3>1. p \in young \/ (p \in alive /\ Excused(p))
      BY <1>1, <2>2, <2>3 DEF ScanSoFar, Ours
    <3> QED
      BY <1>1, <3>1 DEF Excused
  <2> QED
    BY <1>3, <2>1, <2>2, <2>3
<1> QED
  BY <1>1, <1>2, <1>4 DEF ScanSoFar, NobodyFound

LEMMA MinuteKeepsScan ==
  ASSUME TypeOK, MinutePasses
  PROVE  VerdictsAgree' /\ ScanSoFar' /\ NobodyFound'
<1>1. /\ pc' = "idle"
      /\ known' = [p \in Pid |-> IF known[p] = "non" THEN "old" ELSE known[p]]
  BY DEF MinutePasses
<1>2. VerdictsAgree'
  BY <1>1 DEF VerdictsAgree
<1> QED
  BY <1>1, <1>2 DEF ScanSoFar, NobodyFound

LEMMA VerdictKeepsScan ==
  ASSUME TypeOK, ProcessesAgree, VerdictsAgree, NobodyFound, waitForExit
  PROVE  VerdictsAgree' /\ ScanSoFar' /\ NobodyFound'
<1>1. /\ UNCHANGED <<proc, rootPid, use, young, known, blind>>
      /\ pc = "verdict" /\ pc' = IF out = {} THEN "done" ELSE "idle"
  BY DEF waitForExit, machine
<1>2. VerdictsAgree'
  BY <1>1 DEF VerdictsAgree, AllOurs
<1>3. /\ addTree' = addTree
      /\ \A p \in Pid : /\ Alive(p)' <=> Alive(p)
                        /\ Ours(p)' <=> Ours(p)
                        /\ Excused(p)' <=> Excused(p)
  BY <1>1 DEF addTree, HasTree, Exists, Alive, Ours, Excused
<1>4. NobodyFound'
  BY <1>1, <1>3 DEF NobodyFound
<1> QED
  BY <1>1, <1>2, <1>4 DEF ScanSoFar

LEMMA SignalKeepsScan ==
  ASSUME TypeOK, ProcessesAgree, VerdictsAgree, signalPIDs
  PROVE  VerdictsAgree' /\ ScanSoFar' /\ NobodyFound'
<1>1. AllOurs("none") => AllOurs("none")'
  BY SignalFades, AgreeFades
<1>2. /\ UNCHANGED <<known, blind, use>>
      /\ use = "kill" /\ pc = "verdict" /\ pc' \in {"verdict", "done"}
  BY DEF signalPIDs
<1> QED
  BY <1>1, <1>2 DEF VerdictsAgree, ScanSoFar, NobodyFound

LEMMA CollectorKeepsRecycled ==
  ASSUME TypeOK, ProcessesAgree, StrangersAreRecycled, OnlyRecycledKilled,
         Collector \/ MinutePasses
  PROVE  StrangersAreRecycled' /\ OnlyRecycledKilled'
<1>1. CASE ~signalPIDs
  <2>1. UNCHANGED <<proc, rootPid, recycled, strangers>>
    BY <1>1 DEF Collector, listPIDs, Look, liveMembers, waitForExit, MinutePasses, machine
  <2>2. ASSUME NEW p \in Pid, proc[p].own = "stranger", Taken(p)' PROVE Taken(p)
    <3>1. CASE listPIDs
      BY <2>2, <3>1 DEF listPIDs, Taken
    <3>2. CASE Look
      <4>1. PICK q \in todo :
              /\ known' = IF Cached(q) THEN known ELSE [known EXCEPT ![q] = Verdict(q)]
              /\ out' = IF known'[q] = "member" THEN out \cup {q} ELSE out
        BY <3>2 DEF Look
      <4>2. proc[p].env # "marked"
        BY <2>2 DEF ProcessesAgree
      <4>3. known'[p] = "member" => known[p] = "member"
        BY <4>1, <4>2 DEF TypeOK, Verdict, hasMarker
      <4> QED
        BY <2>1, <2>2, <4>1, <4>3 DEF Taken
    <3>3. CASE liveMembers
      <4>1. known'[p] = "member" => known[p] = "member"
        BY <3>3 DEF liveMembers, ForgetGone
      <4>2. p \in out' => p \in out \/ p = rootPid
        BY <2>2, <3>3, TreeHasNoStrangers DEF liveMembers
      <4> QED
        BY <2>1, <2>2, <4>1, <4>2 DEF Taken
    <3>4. CASE waitForExit
      BY <2>2, <3>4 DEF waitForExit, Taken
    <3>5. CASE MinutePasses
      BY <2>2, <3>5 DEF MinutePasses, Taken
    <3> QED
      BY <1>1, <3>1, <3>2, <3>3, <3>4, <3>5 DEF Collector
  <2> QED
    BY <2>1, <2>2 DEF StrangersAreRecycled, OnlyRecycledKilled, Alive
<1>2. CASE signalPIDs
  <2>1. \A p \in Pid : Taken(p)' => Taken(p)
    BY <1>2 DEF signalPIDs, Taken
  <2>2. StrangersAreRecycled'
    BY <1>2, <2>1, SignalFades DEF StrangersAreRecycled, Fades
  <2>3. \A p \in out : proc[p].own = "stranger" /\ Alive(p) => p \in recycled
    BY DEF StrangersAreRecycled, Taken, TypeOK
  <2>4. OnlyRecycledKilled'
    BY <1>2, <2>3 DEF signalPIDs, OnlyRecycledKilled
  <2> QED
    BY <2>2, <2>4
<1> QED
  BY <1>1, <1>2

-----------------------------------------------------------------------------
(* The inductive invariant, and what follows.                              *)

LEMMA MemberInvInit == Init => MemberInv
<1> SUFFICES ASSUME Init PROVE MemberInv
  OBVIOUS
<1>0. TypeOK
  BY MemberTypesInit
<1>1. PICK env \in {"marked", "none"}, second \in BOOLEAN :
        proc = [p \in Pid |->
          CASE p = Wrapper /\ Rebooted  -> Fresh("stranger", "longer", Init1)
            [] p = Wrapper /\ ~Rebooted -> Fresh("ours", env, Init1)
            [] p = 2 /\ second /\ ~Rebooted -> Fresh("ours", env, Wrapper)
            [] OTHER -> Free]
  BY DEF Init
<1>2. ASSUME NEW p \in Pid
      PROVE  \/ p = Wrapper /\ Rebooted /\ proc[p] = Fresh("stranger", "longer", Init1)
             \/ p = Wrapper /\ ~Rebooted /\ proc[p] = Fresh("ours", env, Init1)
             \/ p = 2 /\ ~Rebooted /\ proc[p] = Fresh("ours", env, Wrapper)
             \/ proc[p] = Free
  BY <1>1, RebootedIsBoolean DEF Wrapper
<1>3. Wrapper \in Pid /\ Wrapper = 1 /\ Init1 = 0
  BY MemberBounds DEF Wrapper, Pid, Init1
<1>4. ~Rebooted => Alive(Wrapper)
  <2>1. ~Rebooted => proc[Wrapper] = Fresh("ours", env, Init1)
    BY <1>1, <1>3
  <2> QED
    BY <2>1 DEF Fresh, Alive
<1>5. AllOurs(env)
  BY <1>2 DEF AllOurs, Fresh, Free
<1>6. ASSUME NEW p \in Pid
      PROVE  /\ proc[p].own = "stranger" => proc[p].env # "marked" /\ proc[p].parent = Init1
             /\ proc[p].parent # Init1 => Alive(proc[p].parent) /\ proc[p].parent # p
  <2>1. CASE p = 2 /\ ~Rebooted /\ proc[p] = Fresh("ours", env, Wrapper)
    <3>1. proc[p].parent = Wrapper /\ proc[p].own = "ours"
      BY <2>1 DEF Fresh
    <3>2. Alive(proc[p].parent)
      BY <1>4, <2>1, <3>1
    <3> QED
      BY <1>3, <2>1, <3>1, <3>2
  <2>2. CASE proc[p] = Fresh("stranger", "longer", Init1)
    BY <2>2 DEF Fresh
  <2>3. CASE proc[p] = Fresh("ours", env, Init1)
    BY <2>3 DEF Fresh
  <2>4. CASE proc[p] = Free
    BY <2>4 DEF Free
  <2> QED
    BY <1>2, <2>1, <2>2, <2>3, <2>4
<1>7. ProcessesAgree
  BY <1>5, <1>6 DEF ProcessesAgree
<1>8. StrangersAreRecycled
  <2>1. ASSUME NEW p \in Pid, proc[p].own = "stranger" PROVE p \in recycled
    BY <1>2, <2>1 DEF Fresh, Free, Init
  <2> QED
    BY <2>1 DEF StrangersAreRecycled
<1>9. VerdictsAgree /\ ScanSoFar /\ NobodyFound /\ OnlyRecycledKilled
  BY DEF Init, VerdictsAgree, ScanSoFar, NobodyFound, OnlyRecycledKilled
<1> QED
  BY <1>0, <1>7, <1>8, <1>9 DEF MemberInv

LEMMA MemberInvNext ==
  ASSUME MemberInv, [Next]_vars
  PROVE  MemberInv'
<1> USE DEF MemberInv
<1>1. CASE Machine
  <2>1. TypeOK'
    BY <1>1, MachineTyped
  <2>2. /\ UNCHANGED <<collector, blind, strangers>> /\ pc # "done"
        /\ Fades \/ \E c \in Pid : BornAt(c)
    BY <1>1, MachineMoves DEF Machine
  <2>3. ProcessesAgree'
    BY <2>2, AgreeFades, AgreeBorn
  <2>4. VerdictsAgree' /\ ScanSoFar' /\ NobodyFound'
    BY <2>2, MachineKeepsScan
  <2>5. StrangersAreRecycled' /\ OnlyRecycledKilled'
    BY <2>2, MachineKeepsRecycled DEF OnlyRecycledKilled
  <2> QED
    BY <2>1, <2>3, <2>4, <2>5
<1>2. CASE Collector \/ MinutePasses
  <2>1. TypeOK'
    BY <1>2, CollectorTyped
  <2>2. ProcessesAgree'
    <3>1. CASE signalPIDs
      BY <3>1, SignalFades, AgreeFades
    <3>2. CASE ~signalPIDs
      <4>1. UNCHANGED proc
        BY <1>2, <3>2
        DEF Collector, listPIDs, Look, liveMembers, waitForExit, MinutePasses, machine
      <4> QED
        BY <4>1 DEF ProcessesAgree, AllOurs, Alive
    <3> QED
      BY <3>1, <3>2
  <2>3. VerdictsAgree' /\ ScanSoFar' /\ NobodyFound'
    <3>1. CASE Look
      <4>1. NobodyFound'
        BY <3>1 DEF Look, NobodyFound
      <4> QED
        BY <3>1, <4>1, LookKeepsScan
    <3> QED
      BY <1>2, <3>1, ListingKeepsScan, LiveMembersKeepsScan, MinuteKeepsScan,
         VerdictKeepsScan, SignalKeepsScan DEF Collector
  <2>4. StrangersAreRecycled' /\ OnlyRecycledKilled'
    BY <1>2, CollectorKeepsRecycled
  <2> QED
    BY <2>1, <2>2, <2>3, <2>4
<1>3. CASE UNCHANGED vars
  <2> USE <1>3 DEF vars, machine, collector
  <2>1. TypeOK'
    BY DEF TypeOK
  <2>2. ProcessesAgree'
    BY DEF ProcessesAgree, AllOurs, Alive
  <2>3. VerdictsAgree' /\ ScanSoFar'
    BY DEF VerdictsAgree, ScanSoFar, AllOurs, Ours, Alive, Excused
  <2>4. addTree' = addTree
    BY DEF addTree, HasTree, Exists
  <2>5. NobodyFound'
    BY <2>4 DEF NobodyFound, Ours, Alive, Excused
  <2>6. StrangersAreRecycled' /\ OnlyRecycledKilled'
    BY DEF StrangersAreRecycled, OnlyRecycledKilled, Alive, Taken
  <2> QED
    BY <2>1, <2>2, <2>3, <2>5, <2>6
<1> QED
  BY <1>1, <1>2, <1>3 DEF Next

LEMMA MemberInvariant == Spec => []MemberInv
  BY MemberInvInit, MemberInvNext, PTL DEF Spec

\* watchRecovered reports an exit only when nothing of the task lives, but for
\* the processes ExitIsReal names: however many scans it took, and whatever was
\* born, died, exec'd or was given a used pid while they went on.
THEOREM ExitsAreReal == Spec => []ExitIsReal
<1>1. MemberInv => ExitIsReal
  <2> SUFFICES ASSUME MemberInv, pc = "done", use = "watch", NEW p \in Pid, Ours(p)
               PROVE  p \in young \/ (known[p] = "non" /\ p \in blind) \/ Unmarked(p)
    BY DEF ExitIsReal
  <2>1. Excused(p) /\ (p \in addTree /\ Alive(p) => p \in young)
    BY DEF MemberInv, NobodyFound
  <2> QED
    BY <2>1 DEF Excused, Unmarked, Ours
<1> QED
  BY <1>1, MemberInvariant, PTL

\* DestroyTask, which signals what liveMembers gave it, kills a process that is
\* not the task's only behind a pid that was: no task whose key merely begins
\* like this one's is touched.
THEOREM OnlyRecycledAreKilled == Spec => []OnlyRecycledKilled
<1>1. MemberInv => OnlyRecycledKilled
  BY DEF MemberInv
<1> QED
  BY <1>1, MemberInvariant, PTL
=============================================================================
