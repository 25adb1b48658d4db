----------------------- MODULE TerminateProcesses_proofs -----------------------
(***************************************************************************)
(* Proofs about TerminateProcesses, for any set of processes.              *)
(***************************************************************************)
EXTENDS TerminateProcesses, TLAPS

-----------------------------------------------------------------------------
(* The inductive invariant.  The processes of covered are those no later   *)
(* fork can hide: each phase says what has been done to them.              *)

\* A split() will find what lives of what was born when it listed the pids.
ScanInv == First \subseteq covered /\ (looking => alive \cap seen \subseteq due)

\* What has been found of the workload, and which of it was signalled, at each
\* point of the call...
WorkOrder ==
  /\ pc \in OnWork => (asked \cup killed) \cap Support = {}
  /\ pc \in {"ask", "kill"} =>
       alive \cap Work \cap covered \subseteq listed /\ alive \cap listed \subseteq Work
  /\ pc = "killWait" => alive \cap Work \cap covered \subseteq killed
  /\ pc = "killWait" /\ timeUp => alive \cap killed \subseteq Stuck
  /\ pc \notin OnWork => alive \cap Work \cap covered \subseteq Stuck \cap killed

\* ... its grace period...
GraceInv ==
  /\ pc \in {"start", "ask", "grace"} => killed = {}
  /\ pc = "grace" => alive \cap Work \cap First \subseteq IF timeUp THEN graced ELSE asked
  /\ pc \in {"relist", "kill", "killWait"} => alive \cap Work \cap First \subseteq graced
  /\ GraceFirst

\* ... the support processes...
SupportOrder ==
  /\ pc \in {"term", "last"} => listed \subseteq Support
  /\ pc = "last" => alive \cap Support \cap First \subseteq listed
  /\ pc = "lastWait" => alive \cap Support \cap First \subseteq killed
  /\ pc = "lastWait" /\ timeUp => alive \cap killed \subseteq Stuck
  /\ pc \in {"answer", "done"} => alive \cap Support \cap First \subseteq Stuck

\* ... and, while the last split() looks and after the answer, who can have
\* forked what it has not listed.
AnswerInv ==
  /\ pc = "answer" /\ looking => alive \subseteq seen \/ (seen \cap Work) \ covered # {}
  /\ result = "gone" => pc = "done" /\ GoneIsGone

StopInv == ScanInv /\ WorkOrder /\ GraceInv /\ SupportOrder /\ AnswerInv

-----------------------------------------------------------------------------

\* Only processes of the task are ever listed or signalled.
THEOREM TerminateTypes == Spec => []TypeOK
<1> USE ProcessesArePids DEF TypeOK, Waits, Signals, Splits, procs, scan, history
<1>1. Init => TypeOK
  BY DEF Init
<1>2. TypeOK /\ [Next]_vars => TypeOK'
  <2> SUFFICES ASSUME TypeOK, [Next]_vars
               PROVE  TypeOK'
    OBVIOUS
  <2>1. CASE List
    BY <2>1 DEF List
  <2>2. CASE StopWork
    BY <2>2 DEF StopWork, Split, Ask, Kill, Poll, Covers, FoundWork
  <2>3. CASE StopSupport
    BY <2>3 DEF StopSupport, Split, Ask, Kill, Poll, Covers, FoundSupport, Found
  <2>4. CASE Answer
    BY <2>4 DEF Answer
  <2>5. CASE TimePasses
    BY <2>5 DEF TimePasses
  <2>6. CASE Spawn
    BY <2>6 DEF Spawn
  <2>7. ASSUME NEW p \in Pid, Exit(p)
        PROVE  TypeOK'
    BY <2>7 DEF Exit
  <2>8. CASE UNCHANGED vars
    BY <2>8 DEF vars
  <2> QED
    BY <2>1, <2>2, <2>3, <2>4, <2>5, <2>6, <2>7, <2>8 DEF Next, Terminate
<1> QED
  BY <1>1, <1>2, PTL DEF Spec

-----------------------------------------------------------------------------
(* One lemma for each kind of step.                                        *)

\* The workload: found, asked, waited for, found again and killed.
LEMMA WorkKeepsStopInv ==
  ASSUME TypeOK, StopInv, StopWork
  PROVE  StopInv'
<1> USE ProcessesArePids DEF TypeOK, StopInv, ScanInv, WorkOrder, GraceInv, SupportOrder,
        AnswerInv, GoneIsGone, GraceFirst, OnWork, Waits, Signals, Splits, Work, procs, scan,
        history, Covers
<1>1. CASE Split("start", FoundWork, "ask", "support")
  BY <1>1 DEF Split, FoundWork
<1>2. CASE Ask("ask", "grace")
  BY <1>2 DEF Ask
<1>3. CASE Poll("grace", FoundWork, "support", "relist")
  BY <1>3 DEF Poll, FoundWork
<1>4. CASE Split("relist", FoundWork, "kill", "support")
  BY <1>4 DEF Split, FoundWork
<1>5. CASE Kill("kill", "killWait")
  BY <1>5 DEF Kill
<1>6. CASE Poll("killWait", FoundWork, "support", "support")
  BY <1>6 DEF Poll, FoundWork
<1> QED
  BY <1>1, <1>2, <1>3, <1>4, <1>5, <1>6 DEF StopWork

\* The support processes, which leave the workload as it is.
LEMMA SupportKeepsStopInv ==
  ASSUME TypeOK, StopInv, StopSupport
  PROVE  StopInv'
<1> USE ProcessesArePids DEF TypeOK, StopInv, ScanInv, WorkOrder, GraceInv, SupportOrder,
        AnswerInv, GoneIsGone, GraceFirst, OnWork, Waits, Signals, Splits, Work, procs, scan,
        history, Covers
<1>1. CASE Split("support", FoundSupport, "term", "answer")
  BY <1>1 DEF Split, FoundSupport, Found
<1>2. CASE Ask("term", "termWait")
  BY <1>2 DEF Ask
<1>3. CASE Poll("termWait", FoundSupport, "answer", "relistSupport")
  BY <1>3 DEF Poll, FoundSupport, Found
<1>4. CASE Split("relistSupport", FoundSupport, "last", "last")
  BY <1>4 DEF Split, FoundSupport, Found
<1>5. CASE Kill("last", "lastWait")
  BY <1>5 DEF Kill
<1>6. CASE Poll("lastWait", FoundSupport, "answer", "answer")
  BY <1>6 DEF Poll, FoundSupport, Found
<1> QED
  BY <1>1, <1>2, <1>3, <1>4, <1>5, <1>6 DEF StopSupport

\* A fork: its parent has had no SIGKILL, so the listing the workload was dealt
\* with by did not have it.
LEMMA SpawnKeepsStopInv ==
  ASSUME TypeOK, StopInv, Spawn
  PROVE  StopInv'
<1> USE ProcessesArePids DEF TypeOK, StopInv, OnWork, Waits, Signals, Splits, Work, procs, scan, history
<1>1. PICK p \in Pid \ born : born' = born \cup {p} /\ alive' = alive \cup {p}
  BY DEF Spawn
<1>2. UNCHANGED <<asked, killed, looking, due, seen, listed, timeUp, pc, result, graced, covered>>
  BY DEF Spawn
<1>3. p \notin First /\ p \notin covered /\ p \notin seen /\ p \notin listed
  BY DEF ScanInv
<1>4. ScanInv' /\ WorkOrder' /\ GraceInv' /\ SupportOrder'
  BY <1>1, <1>2, <1>3 DEF ScanInv, WorkOrder, GraceInv, SupportOrder, GraceFirst
<1>5. ASSUME pc \notin OnWork
      PROVE  ~(alive \subseteq seen) \/ (seen \cap Work) \ covered # {}
  BY <1>5 DEF WorkOrder, Spawn
<1>6. AnswerInv'
  BY <1>1, <1>2, <1>3, <1>5 DEF AnswerInv, GoneIsGone
<1> QED
  BY <1>4, <1>6

\* The invariant is inductive.
LEMMA StopInvariant == Spec => []StopInv
<1> USE ProcessesArePids
<1>1. Init => StopInv
  BY DEF Init, StopInv, ScanInv, WorkOrder, GraceInv, SupportOrder, AnswerInv, GraceFirst,
         OnWork
<1>2. TypeOK /\ StopInv /\ [Next]_vars => StopInv'
  <2> SUFFICES ASSUME TypeOK, StopInv, [Next]_vars
               PROVE  StopInv'
    OBVIOUS
  <2> USE DEF TypeOK, ScanInv, WorkOrder, GraceInv, SupportOrder, AnswerInv, GoneIsGone,
          GraceFirst, OnWork, Waits, Signals, Splits, Work, procs, scan, history
  <2>1. CASE List
    BY <2>1 DEF List, StopInv
  <2>2. CASE Answer
    BY <2>2 DEF Answer, Found, StopInv
  <2>3. CASE TimePasses
    BY <2>3 DEF TimePasses, StopInv
  <2>4. ASSUME NEW p \in Pid, Exit(p)
        PROVE  StopInv'
    BY <2>4 DEF Exit, StopInv
  <2>5. CASE UNCHANGED vars
    BY <2>5 DEF vars, StopInv
  <2> QED
    BY <2>1, <2>2, <2>3, <2>4, <2>5, WorkKeepsStopInv, SupportKeepsStopInv,
       SpawnKeepsStopInv DEF Next, Terminate
<1> QED
  BY <1>1, <1>2, TerminateTypes, PTL DEF Spec

\* What StopInv says at each point of the call gives the four promises.
LEMMA StopKept ==
  ASSUME TypeOK, StopInv
  PROVE  GoneIsGone /\ SupportLast /\ GraceFirst /\ OnlyStuckSurvive
  BY ProcessesArePids
     DEF TypeOK, StopInv, ScanInv, WorkOrder, GraceInv, SupportOrder, AnswerInv, GoneIsGone,
         SupportLast, GraceFirst, OnlyStuckSurvive, OnWork, Waits, Signals, Splits, Work

\* A process that terminateProcesses misses when it reports that everything is
\* gone has been hidden by two forks: its own, during the last listing, and
\* that of a workload process behind the listing of the workload.
THEOREM GoneTakesTwoForks == Spec => []GoneIsGone
  BY StopKept, StopInvariant, TerminateTypes, PTL

\* No support process is signalled before the workload is dead or past
\* killing, but for what was forked behind its last listing.
THEOREM SupportGoesLast == Spec => []SupportLast
  BY StopKept, StopInvariant, TerminateTypes, PTL

\* Every workload process there was is asked, and outlives its whole grace
\* period, before it is killed.
THEOREM GraceComesFirst == Spec => []GraceFirst
  BY StopKept, StopInvariant, TerminateTypes, PTL

\* Of what there was when the call began only what SIGKILL cannot end is left.
THEOREM StopsEverything == Spec => []OnlyStuckSurvive
  BY StopKept, StopInvariant, TerminateTypes, PTL
=============================================================================
