---------------------------- MODULE MCInstallSlots ----------------------------
(* InstallSlots with SetConfig calls that set the limit to 1, to none and to *)
(* 2 under the installs.                                                     *)
EXTENDS InstallSlots

OneNoneTwo == <<1, 0, 2>>
=============================================================================
