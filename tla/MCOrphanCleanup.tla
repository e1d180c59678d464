-------------------------- MODULE MCOrphanCleanup --------------------------
(* Instances of OrphanCleanup for TLC. *)
EXTENDS OrphanCleanup, TLC

(* Both CRs keep the newest orphan. *)
KeepOne == [cr \in CRs |-> 1]
=============================================================================
