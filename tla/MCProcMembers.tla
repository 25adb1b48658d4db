---------------------------- MODULE MCProcMembers ----------------------------
(* Small instances of ProcMembers. *)
EXTENDS ProcMembers
=============================================================================
