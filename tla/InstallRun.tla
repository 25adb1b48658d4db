------------------------------ MODULE InstallRun ------------------------------
(***************************************************************************)
(* One install: runInstall and installWithRepair (steamcmd.go).  steamcmd  *)
(* runs as a script with a child that does the work; a scanner goroutine   *)
(* reads what they print while StartTask's goroutine waits for them.       *)
(***************************************************************************)
EXTENDS Naturals, Sequences

CONSTANTS
  RepairManifest,  \* repair_manifest
  NumericAppID,    \* app_id is purely numeric
  MaxLines         \* bound: marker lines one run of steamcmd prints

ASSUME InstallOptions == {RepairManifest, NumericAppID} \subseteq BOOLEAN
ASSUME MaxLinesIsNat == MaxLines \in Nat

VARIABLES
  pc,        \* where StartTask's goroutine is
  run,       \* which run of steamcmd: 1, or 2 after a repair
  script,    \* steamcmd.sh is alive
  child,     \* its child is alive; both have the output pipe open
  orphaned,  \* history: the script of this run died before its child
  pipe,      \* lines printed and not yet scanned
  printed,   \* the markers this run has printed
  seen,      \* the markers the scanner has recorded in the result
  scanning,  \* the scanner goroutine runs
  ctx,       \* live, or done (install_timeout, h.cancel)
  manifest,  \* the app manifest exists
  removed,   \* the repair removed it
  outcome    \* what StartTask gets: none, ok or error

procs == <<script, child, orphaned>>
scan == <<pipe, printed, seen, scanning>>
vars == <<pc, run, script, child, orphaned, pipe, printed, seen, scanning, ctx,
          manifest, removed, outcome>>

\* reSuccess, reStaleManifest, reAuthErr.
Marker == {"success", "stale", "auth"}

Init ==
  /\ pc = "start" /\ run = 1
  /\ script = FALSE /\ child = FALSE /\ orphaned = FALSE
  /\ pipe = <<>> /\ printed = {} /\ seen = {} /\ scanning = FALSE
  /\ ctx \in {"live", "done"}
  /\ manifest \in BOOLEAN
  /\ removed = FALSE
  /\ outcome = "none"

-----------------------------------------------------------------------------
(* runInstall.                                                             *)

\* The scanner starts, then the process; a context that is done, or a binary
\* that is missing, means it does not.
StartFails ==
  /\ pc = "start"
  /\ pc' = "result" /\ outcome' = "error"
  /\ printed' = {} /\ seen' = {}
  /\ UNCHANGED <<run, procs, pipe, scanning, ctx, manifest, removed>>

Starts ==
  /\ pc = "start" /\ ctx = "live"
  /\ pc' = "wait"
  /\ script' = TRUE /\ child' = TRUE /\ orphaned' = FALSE
  /\ pipe' = <<>> /\ printed' = {} /\ seen' = {} /\ scanning' = TRUE
  /\ UNCHANGED <<run, ctx, manifest, removed, outcome>>

\* Slip: os/exec's default, which kills only the process it started.
CancelKillsScript ==
  /\ pc = "wait" /\ ctx = "done" /\ script
  /\ script' = FALSE
  /\ UNCHANGED <<pc, run, child, orphaned, scan, ctx, manifest, removed, outcome>>

\* cmd.Cancel: SIGKILL for the whole process group.  exec stops watching the
\* context once the process it started has exited.
CancelKills ==
  /\ pc = "wait" /\ ctx = "done" /\ script
  /\ script' = FALSE /\ child' = FALSE
  /\ UNCHANGED <<pc, run, orphaned, scan, ctx, manifest, removed, outcome>>

\* Run returns when the script has exited and the pipe has no writer, which a
\* child that outlives the script still is; then pw is closed.
RunReturns ==
  /\ pc = "wait" /\ ~script /\ ~child
  /\ pc' = "scanDone"
  /\ UNCHANGED <<run, procs, scan, ctx, manifest, removed, outcome>>

Scans ==
  /\ scanning /\ pipe # <<>>
  /\ seen' = seen \cup {Head(pipe)}
  /\ pipe' = Tail(pipe)
  /\ UNCHANGED <<pc, run, procs, printed, scanning, ctx, manifest, removed, outcome>>

\* End of file: the pipe is closed and read to its end.
ScanEnds ==
  /\ scanning /\ pipe = <<>> /\ pc = "scanDone"
  /\ scanning' = FALSE
  /\ UNCHANGED <<pc, run, procs, pipe, printed, seen, ctx, manifest, removed, outcome>>

\* Slip: reading the result without waiting for the scanner.
JudgeEarly ==
  /\ pc = "scanDone"
  /\ outcome' = IF "success" \in seen THEN "ok" ELSE "error"
  /\ pc' = "result"
  /\ UNCHANGED <<run, procs, scan, ctx, manifest, removed>>

\* <-scanDone, then: success is authoritative, anything else is an error.
Judge ==
  /\ pc = "scanDone" /\ ~scanning
  /\ outcome' = IF "success" \in seen THEN "ok" ELSE "error"
  /\ pc' = "result"
  /\ UNCHANGED <<run, procs, scan, ctx, manifest, removed>>

-----------------------------------------------------------------------------
(* installWithRepair.                                                      *)

\* Slip: repairing whenever the stale-manifest marker was seen.
RepairsAnyway ==
  run = 1 /\ RepairManifest /\ NumericAppID /\ "stale" \in seen

\* The first run failed on a stale manifest, in time.
Repairs ==
  /\ run = 1 /\ outcome = "error"
  /\ RepairManifest /\ NumericAppID
  /\ "stale" \in seen /\ ctx = "live"

\* Once that is decided the context is not looked at again.
Decide ==
  /\ pc = "result"
  /\ pc' = IF Repairs THEN "repair" ELSE "returned"
  /\ UNCHANGED <<run, procs, scan, ctx, manifest, removed, outcome>>

\* Slip: retrying as long as the marker comes back.
RemoveAgain ==
  /\ pc \in {"repair", "returned"} /\ outcome = "error" /\ "stale" \in seen /\ manifest
  /\ manifest' = FALSE /\ removed' = TRUE
  /\ pc' = "start" /\ run' = run + 1 /\ outcome' = "none"
  /\ UNCHANGED <<procs, scan, ctx>>

\* os.Remove of the manifest, and the second run.
Remove ==
  /\ pc = "repair" /\ manifest
  /\ manifest' = FALSE /\ removed' = TRUE
  /\ pc' = "start" /\ run' = 2 /\ outcome' = "none"
  /\ UNCHANGED <<procs, scan, ctx>>

\* There is none, or it cannot be removed: the first run's error stands.
RemoveFails ==
  /\ pc = "repair"
  /\ pc' = "returned"
  /\ UNCHANGED <<run, procs, scan, ctx, manifest, removed, outcome>>

-----------------------------------------------------------------------------
(* steamcmd and the clock (external).                                      *)

Prints ==
  /\ script \/ child
  /\ Len(pipe) < MaxLines
  /\ \E m \in Marker \ printed :
       printed' = printed \cup {m} /\ pipe' = Append(pipe, m)
  /\ UNCHANGED <<pc, run, procs, seen, scanning, ctx, manifest, removed, outcome>>

\* steamcmd writes its manifest early in an update.
WritesManifest ==
  /\ child /\ manifest' = TRUE
  /\ UNCHANGED <<pc, run, procs, scan, ctx, removed, outcome>>

\* The script waits for its child, but may be killed while it does.
ProcessExits ==
  /\ \/ child /\ child' = FALSE /\ UNCHANGED <<script, orphaned>>
     \/ script /\ script' = FALSE /\ orphaned' = child /\ UNCHANGED child
  /\ UNCHANGED <<pc, run, scan, ctx, manifest, removed, outcome>>

Expires ==
  /\ ctx = "live" /\ ctx' = "done"
  /\ UNCHANGED <<pc, run, procs, scan, manifest, removed, outcome>>

Driver ==
  \/ StartFails \/ Starts \/ RunReturns \/ Judge \/ Decide \/ Remove \/ RemoveFails

Scanner == Scans \/ ScanEnds

Next ==
  \/ Driver \/ CancelKills \/ Scanner
  \/ Prints \/ WritesManifest \/ ProcessExits \/ Expires

Spec == Init /\ [][Next]_vars

\* The goroutines run and a cancelled context is acted on.  Nothing is
\* assumed of steamcmd, which may hang, nor of the timeout, which may be off.
FairSpec ==
  Spec /\ WF_vars(Driver) /\ WF_vars(CancelKills) /\ WF_vars(Scanner)

-----------------------------------------------------------------------------

\* Every variable has its type, and there are at most two runs.
TypeOK ==
  /\ pc \in {"start", "wait", "scanDone", "result", "repair", "returned"}
  /\ run \in {1, 2}
  /\ script \in BOOLEAN /\ child \in BOOLEAN /\ orphaned \in BOOLEAN /\ scanning \in BOOLEAN
  /\ manifest \in BOOLEAN /\ removed \in BOOLEAN
  /\ pipe \in Seq(Marker) /\ Len(pipe) <= MaxLines
  /\ printed \subseteq Marker /\ seen \subseteq printed
  /\ ctx \in {"live", "done"}
  /\ outcome \in {"none", "ok", "error"}

\* "Success is checked first and is authoritative": StartTask goes on exactly
\* when the last run printed the success marker, whatever else it printed,
\* however it ended, and however far behind the scanner was.
SuccessIsAuthoritative ==
  pc = "returned" => (outcome = "ok" <=> "success" \in printed)

\* A manifest is only removed to repair an install that failed on it, so a
\* task that repairs never loses the manifest of an app it has installed.
RemovedOnlyToRepair ==
  [][removed' # removed =>
       /\ "success" \notin printed /\ "stale" \in printed
       /\ outcome = "error" /\ run = 1]_vars

\* install_timeout and DestroyTask end the install even if steamcmd hangs:
\* StartTask gets its answer, and its slot goes back, unless the script died
\* and left its child behind, which os/exec does not cancel any more.
CancelReturns == (ctx = "done") ~> (pc = "returned" \/ orphaned)
=============================================================================
