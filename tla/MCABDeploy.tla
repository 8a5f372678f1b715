----------------------------- MODULE MCABDeploy -----------------------------
(***************************************************************************)
(* Two runs of the script against three images, one of which never passes  *)
(* verification: model values that the configurations give.  Runs are      *)
(* interchangeable, but liveness is checked, so no symmetry is declared.   *)
(***************************************************************************)
EXTENDS ABDeploy

ASSUME OneImageIsBroken == Works # Image
=============================================================================
