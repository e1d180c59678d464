---------------------------- MODULE MCPromotion ----------------------------
(* Instances of Promotion for TLC: the configurations give the constants   *)
(* their values.                                                           *)
EXTENDS Promotion, TLC
=============================================================================
