---------------------------- MODULE MCStartFiles -----------------------------
(* StartFiles as it stands: its constants are set in the configuration.    *)
EXTENDS StartFiles
=============================================================================
