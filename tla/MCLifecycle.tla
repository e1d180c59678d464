---------------------------- MODULE MCLifecycle ----------------------------
(* Instances of Lifecycle for TLC: the configurations give the constants   *)
(* their values.                                                           *)
EXTENDS Lifecycle, TLC
=============================================================================
