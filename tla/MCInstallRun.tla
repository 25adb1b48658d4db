----------------------------- MODULE MCInstallRun -----------------------------
(* InstallRun as it stands: its constants are set in the configurations.    *)
EXTENDS InstallRun
=============================================================================
