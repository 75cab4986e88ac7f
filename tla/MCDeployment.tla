---------------------------- MODULE MCDeployment ----------------------------
(* The deployment scripts on a small chain.                                *)
EXTENDS Deployment
=============================================================================
