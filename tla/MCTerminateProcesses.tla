------------------------ MODULE MCTerminateProcesses ------------------------
(* TerminateProcesses on a wrapper, its games and their helpers: its        *)
(* constants are set in the configurations.                                 *)
EXTENDS TerminateProcesses
=============================================================================
