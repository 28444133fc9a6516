---------------------------- MODULE MCDeployment ----------------------------
(***************************************************************************)
(* The module that TLC runs for Deployment.  The .cfg files give the       *)
(* constants; the names of the deployments are model values, which are     *)
(* used in one order only, so that no symmetry is needed.                  *)
(***************************************************************************)
EXTENDS Deployment
=============================================================================
