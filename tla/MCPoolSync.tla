----------------------------- MODULE MCPoolSync -----------------------------
(* Instances of PoolSync for TLC.                                            *)
EXTENDS PoolSync

CONSTANTS a, b
=============================================================================
