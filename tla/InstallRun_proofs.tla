-------------------------- MODULE InstallRun_proofs --------------------------
(***************************************************************************)
(* Proofs about InstallRun: the outcome of an install is what steamcmd     *)
(* said, and only a failed install is repaired.                            *)
(***************************************************************************)
EXTENDS InstallRun, TLAPS

-----------------------------------------------------------------------------
(* The inductive invariant behind the safety properties.                   *)

\* What the scanner has still to read.
Unread == {pipe[k] : k \in 1..Len(pipe)}

\* No line is lost on the way to the scanner, and it reads them all before the
\* result is judged.
LinesKept ==
  /\ printed = seen \cup Unread
  /\ pc = "wait" => scanning
  /\ pc \in {"start", "result", "repair", "returned"} => ~scanning
  /\ pc # "wait" /\ ~scanning => pipe = <<>>

\* The verdict that was given is that of the lines of the run it was given on.
VerdictIsTrue ==
  pc \in {"result", "repair", "returned"} =>
    outcome \in {"ok", "error"} /\ (outcome = "ok" <=> "success" \in printed)

\* steamcmd runs only while StartTask waits for it.
RunsWhileWaitedFor == script \/ child => pc = "wait"

\* A repair goes on only after a first run that failed on the manifest.
RepairIsDue == pc = "repair" => run = 1 /\ outcome = "error" /\ "stale" \in seen

RunInv ==
  /\ TypeOK
  /\ LinesKept
  /\ VerdictIsTrue
  /\ RunsWhileWaitedFor
  /\ RepairIsDue

-----------------------------------------------------------------------------

\* Printing a line adds it to what is unread.
LEMMA PrintAdds ==
  ASSUME NEW q \in Seq(Marker), NEW m \in Marker
  PROVE  /\ Append(q, m) \in Seq(Marker) /\ Len(Append(q, m)) = Len(q) + 1
         /\ {Append(q, m)[k] : k \in 1..Len(Append(q, m))}
              = {q[k] : k \in 1..Len(q)} \cup {m}
<1>1. /\ Append(q, m) \in Seq(Marker) /\ Len(Append(q, m)) = Len(q) + 1
      /\ \A k \in 1..Len(q) : Append(q, m)[k] = q[k]
      /\ Append(q, m)[Len(q) + 1] = m
  OBVIOUS
<1>2. 1..(Len(q) + 1) = 1..Len(q) \cup {Len(q) + 1}
  OBVIOUS
<1> QED
  BY <1>1, <1>2

\* Scanning a line takes it from there.
LEMMA ScanTakes ==
  ASSUME NEW q \in Seq(Marker), q # <<>>
  PROVE  /\ Head(q) \in Marker /\ Tail(q) \in Seq(Marker)
         /\ Len(Tail(q)) <= Len(q)
         /\ {q[k] : k \in 1..Len(q)}
              = {Head(q)} \cup {Tail(q)[k] : k \in 1..Len(Tail(q))}
<1>1. /\ Len(q) >= 1 /\ Head(q) = q[1] /\ Tail(q) \in Seq(Marker)
      /\ Len(Tail(q)) = Len(q) - 1
      /\ \A k \in 1..(Len(q) - 1) : Tail(q)[k] = q[k + 1]
  OBVIOUS
<1>2. \A k \in 1..Len(q) : k = 1 \/ (k - 1 \in 1..(Len(q) - 1))
  BY <1>1
<1>3. {q[k] : k \in 1..Len(q)}
        \subseteq {Head(q)} \cup {Tail(q)[k] : k \in 1..Len(Tail(q))}
  <2> SUFFICES ASSUME NEW k \in 1..Len(q)
               PROVE  q[k] \in {Head(q)} \cup {Tail(q)[l] : l \in 1..Len(Tail(q))}
    OBVIOUS
  <2>1. CASE k = 1
    BY <1>1, <2>1
  <2>2. CASE k - 1 \in 1..(Len(q) - 1)
    <3>1. Tail(q)[k - 1] = q[k]
      BY <1>1, <2>2
    <3> QED
      BY <1>1, <2>2, <3>1
  <2> QED
    BY <1>2, <2>1, <2>2
<1>4. {Head(q)} \cup {Tail(q)[k] : k \in 1..Len(Tail(q))}
        \subseteq {q[k] : k \in 1..Len(q)}
  BY <1>1
<1>5. Head(q) \in Marker
  BY <1>1
<1> QED
  BY <1>1, <1>3, <1>4, <1>5

LEMMA DriverRuns ==
  ASSUME RunInv, Driver
  PROVE  RunInv'
<1> USE DEF RunInv, TypeOK, LinesKept, VerdictIsTrue, RunsWhileWaitedFor, RepairIsDue,
            procs, scan, Unread
<1>1. CASE StartFails
  BY <1>1 DEF StartFails
<1>2. CASE Starts
  <2>1. pipe' = <<>> /\ Unread' = {} /\ Len(pipe') = 0 /\ pipe' \in Seq(Marker)
    BY <1>2 DEF Starts
  <2>3. TypeOK'
    BY <1>2, <2>1, MaxLinesIsNat DEF Starts
  <2>4. pc' = "wait" /\ scanning' = TRUE /\ printed' = {} /\ seen' = {}
    BY <1>2 DEF Starts
  <2>5. LinesKept'
    BY <2>1, <2>4 DEF LinesKept
  <2> QED
    BY <2>3, <2>4, <2>5
<1>3. CASE RunReturns
  BY <1>3 DEF RunReturns
<1>4. CASE Judge
  BY <1>4 DEF Judge
<1>5. CASE Decide
  BY <1>5 DEF Decide, Repairs
<1>6. CASE Remove
  BY <1>6 DEF Remove
<1>7. CASE RemoveFails
  BY <1>7 DEF RemoveFails
<1> QED
  BY <1>1, <1>2, <1>3, <1>4, <1>5, <1>6, <1>7 DEF Driver

LEMMA ScannerRuns ==
  ASSUME RunInv, Scanner
  PROVE  RunInv'
<1> USE DEF RunInv, TypeOK, LinesKept, VerdictIsTrue, RunsWhileWaitedFor, RepairIsDue, procs
<1>1. CASE Scans
  <2>1. /\ pipe' \in Seq(Marker) /\ Len(pipe') <= Len(pipe)
        /\ Unread = {Head(pipe)} \cup Unread'
    BY <1>1, ScanTakes DEF Scans, Unread
  <2> QED
    BY <1>1, <2>1, MaxLinesIsNat DEF Scans
<1>2. CASE ScanEnds
  BY <1>2 DEF ScanEnds, Unread
<1> QED
  BY <1>1, <1>2 DEF Scanner

LEMMA SteamcmdRuns ==
  ASSUME RunInv, CancelKills \/ Prints \/ WritesManifest \/ ProcessExits \/ Expires
  PROVE  RunInv'
<1> USE DEF RunInv, TypeOK, LinesKept, VerdictIsTrue, RunsWhileWaitedFor, RepairIsDue, procs, scan
<1>1. CASE Prints
  <2>1. PICK m \in Marker \ printed : /\ printed' = printed \cup {m}
                                      /\ pipe' = Append(pipe, m)
    BY <1>1 DEF Prints
  <2>2. /\ pipe' \in Seq(Marker) /\ Len(pipe') = Len(pipe) + 1
        /\ Unread' = Unread \cup {m}
    BY <2>1, PrintAdds DEF Unread
  <2> QED
    BY <1>1, <2>1, <2>2, MaxLinesIsNat DEF Prints
<1>2. CASE CancelKills
  BY <1>2 DEF CancelKills, Unread
<1>3. CASE WritesManifest
  BY <1>3 DEF WritesManifest, Unread
<1>4. CASE ProcessExits
  BY <1>4 DEF ProcessExits, Unread
<1>5. CASE Expires
  BY <1>5 DEF Expires, Unread
<1> QED
  BY <1>1, <1>2, <1>3, <1>4, <1>5

LEMMA RunInvariant == Spec => []RunInv
<1>1. Init => RunInv
  <2> SUFFICES ASSUME Init PROVE RunInv
    OBVIOUS
  <2>1. pipe = <<>> /\ Unread = {} /\ Len(pipe) = 0 /\ pipe \in Seq(Marker)
    BY DEF Init, Unread
  <2>2. TypeOK
    <3>1. Len(pipe) <= MaxLines
      BY <2>1, MaxLinesIsNat
    <3> QED
      BY <2>1, <3>1 DEF Init, TypeOK
  <2>3. LinesKept /\ VerdictIsTrue /\ RunsWhileWaitedFor /\ RepairIsDue
    BY <2>1 DEF Init, LinesKept, VerdictIsTrue, RunsWhileWaitedFor, RepairIsDue
  <2> QED
    BY <2>2, <2>3 DEF RunInv
<1>2. RunInv /\ [Next]_vars => RunInv'
  <2> SUFFICES ASSUME RunInv, [Next]_vars
               PROVE  RunInv'
    OBVIOUS
  <2>1. CASE UNCHANGED vars
    BY <2>1 DEF vars, RunInv, TypeOK, LinesKept, VerdictIsTrue,
                RunsWhileWaitedFor, RepairIsDue, Unread
  <2> QED
    BY <2>1, DriverRuns, ScannerRuns, SteamcmdRuns DEF Next
<1> QED
  BY <1>1, <1>2, PTL DEF Spec

\* Every variable keeps its type, for any number of lines: at most two runs,
\* and the scanner records nothing that was not printed.
THEOREM InstallTypes == Spec => []TypeOK
<1>1. RunInv => TypeOK
  BY DEF RunInv
<1> QED
  BY <1>1, RunInvariant, PTL

\* An install is taken for a success exactly when its last run printed the
\* success marker, in whatever order the process, the scanner, the deadline and
\* StartTask's goroutine go on.
THEOREM SuccessDecides == Spec => []SuccessIsAuthoritative
<1>1. RunInv => SuccessIsAuthoritative
  BY DEF RunInv, VerdictIsTrue, SuccessIsAuthoritative
<1> QED
  BY <1>1, RunInvariant, PTL

\* A manifest is only removed after a first run that failed on it.
THEOREM OnlyFailuresAreRepaired == Spec => RemovedOnlyToRepair
<1>1. RunInv /\ [Next]_vars
        => [removed' # removed =>
              /\ "success" \notin printed /\ "stale" \in printed
              /\ outcome = "error" /\ run = 1]_vars
  <2> SUFFICES ASSUME RunInv, Next, removed' # removed
               PROVE  /\ "success" \notin printed /\ "stale" \in printed
                      /\ outcome = "error" /\ run = 1
    OBVIOUS
  <2>1. Remove
    BY DEF Next, Driver, StartFails, Starts, RunReturns, Judge, Decide, RemoveFails, Scanner,
           Scans, ScanEnds, CancelKills, Prints, WritesManifest, ProcessExits,
           Expires
  <2> QED
    BY <2>1 DEF Remove, RunInv, TypeOK, LinesKept, VerdictIsTrue, RepairIsDue
<1> QED
  BY <1>1, RunInvariant, PTL DEF Spec, RemovedOnlyToRepair
=============================================================================
