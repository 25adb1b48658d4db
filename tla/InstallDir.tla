----------------------------- MODULE InstallDir -----------------------------
(***************************************************************************)
(* What StartTask promises about a task's install_dir, said without        *)
(* handles, goroutines, stops or crashes: the directory has one use at a   *)
(* time.  Either steamcmd of one start rewrites it, or processes of one    *)
(* start run from it, or neither; no use begins before the last one is     *)
(* over, only an update makes the app incomplete, and only a complete app  *)
(* is served.  SteamcmdTask implements this.                               *)
(***************************************************************************)

CONSTANT Start            \* the starts of the task

VARIABLES
  updater,   \* the starts whose steamcmd is at work in the directory
  server,    \* the starts with processes running from it
  complete   \* its manifest calls the app fully installed

dir == <<updater, server, complete>>

Unused == updater = {} /\ server = {}

Init ==
  /\ Unused
  /\ complete \in BOOLEAN

BeginUpdate(i) ==
  /\ Unused
  /\ updater' = {i}
  /\ UNCHANGED <<server, complete>>

Write ==
  /\ updater # {}
  /\ complete' = FALSE
  /\ UNCHANGED <<updater, server>>

EndUpdate ==
  /\ updater # {}
  /\ updater' = {}
  /\ complete' \in {complete, TRUE}
  /\ UNCHANGED server

Serve(i) ==
  /\ Unused /\ complete
  /\ server' = {i}
  /\ UNCHANGED <<updater, complete>>

Leave ==
  /\ server # {}
  /\ server' = {}
  /\ UNCHANGED <<updater, complete>>

Next ==
  \/ \E i \in Start : BeginUpdate(i) \/ Serve(i)
  \/ Write \/ EndUpdate \/ Leave

Spec == Init /\ [][Next]_dir
=============================================================================
