------------------------------ MODULE MCKeeper ------------------------------
(***************************************************************************)
(* Instances of the keeper for TLC.                                        *)
(***************************************************************************)
EXTENDS KeeperProperties
=============================================================================
