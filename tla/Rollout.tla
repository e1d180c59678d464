------------------------------ MODULE Rollout ------------------------------
(***************************************************************************)
(* What the operator promises of the rollout to each environment, without  *)
(* reconciles, caches, statuses, failures and retries: it promotes only    *)
(* what a spec named that it may still be acting on, never over a running  *)
(* promotion and never what the environment serves already, and it comes   *)
(* to act on the present spec alone.  Promotion implements it.             *)
(***************************************************************************)

CONSTANTS
  Envs,     \* environments, each with its CR
  Sources,  \* source deployments
  None      \* no deployment

VARIABLES
  want,     \* environment -> the source its spec names
  known,    \* environment -> sources the operator may be acting on
  cur,      \* environment -> the source of its current deployment
  cand      \* environment -> the source of its candidate

vars == <<want, known, cur, cand>>

(* An environment may serve a source from before. *)
Init ==
  /\ want \in [Envs -> Sources]
  /\ known = [e \in Envs |-> {want[e]}]
  /\ cur \in [Envs -> Sources \cup {None}]
  /\ cand = [e \in Envs |-> None]

(* The spec names another source, in addition to what was named before or  *)
(* instead of some of it.                                                  *)
Rename(e, s) ==
  /\ want' = [want EXCEPT ![e] = s]
  /\ \E old \in SUBSET known[e] : known' = [known EXCEPT ![e] = old \cup {s}]
  /\ UNCHANGED <<cur, cand>>

(* Earlier specs are forgotten. *)
Learn ==
  /\ known' \in [Envs -> SUBSET Sources]
  /\ \A e \in Envs : want[e] \in known'[e] /\ known'[e] \subseteq known[e]
  /\ UNCHANGED <<want, cur, cand>>

Promote(e, s) ==
  /\ s \in known[e] /\ s # cur[e] /\ cand[e] = None
  /\ cand' = [cand EXCEPT ![e] = s]
  /\ UNCHANGED <<want, known, cur>>

Complete(e) ==
  /\ cand[e] # None
  /\ cur' = [cur EXCEPT ![e] = cand[e]]
  /\ cand' = [cand EXCEPT ![e] = None]
  /\ UNCHANGED <<want, known>>

Next ==
  \/ \E e \in Envs : \/ \E s \in Sources : Rename(e, s) \/ Promote(e, s)
                     \/ Complete(e)
  \/ Learn

Safety == Init /\ [][Next]_vars

(* The operator never stays behind the specs for good. *)
CatchesUp == \A e \in Envs : []<>(known[e] = {want[e]})

Spec == Safety /\ CatchesUp
=============================================================================
