--------------------------- MODULE MCPooledService ---------------------------
(***************************************************************************)
(* Instances of PooledService for TLC.                                     *)
(***************************************************************************)
EXTENDS MCPlayerRefresh, PooledService
=============================================================================
