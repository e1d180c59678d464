---------------------------- MODULE MCTrussPush ----------------------------
(* Instances of TrussPush for TLC: the configurations give the constants   *)
(* their values.                                                           *)
EXTENDS TrussPush, TLC
=============================================================================
