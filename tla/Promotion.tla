----------------------------- MODULE Promotion -----------------------------
(***************************************************************************)
(* The rollout of a source deployment to the environment of a CR: the      *)
(* main path of Reconcile once model and source are resolved, with the     *)
(* double-promote guard, the validation of the source, the reactivation    *)
(* of an inactive deployment and the retry of failed deployments           *)
(* (internal/controller/basetenmodel_controller.go).  Every CR has an      *)
(* environment of its own; CRs share the model's source deployments.       *)
(*                                                                         *)
(* Status updates, the informer cache and `fresh' are as in TrussPush.     *)
(*                                                                         *)
(* Abstractions.  A promotion makes a copy of its source the candidate, as *)
(* with redeploy_on_promotion; "matches the prefix" is "is a copy of".     *)
(* Deployment statuses are grouped as validateSourceDeployment groups      *)
(* them, SCALED_TO_ZERO with ACTIVE.  A failure time is "recent" or "old"  *)
(* (past deploymentRetryDeadline), a retry time "waiting" or "elapsed".    *)
(* Settings of the environment are as in the spec (`tuned') or not.        *)
(***************************************************************************)
EXTENDS Naturals

CONSTANTS
  CRs,       \* the BasetenModels, each with its environment
  Sources,   \* the source deployments of the model
  None,      \* no deployment
  MaxEdits,  \* bound: edits of the spec
  MaxFaults  \* bound: crashes, failed calls and deployments, user's meddling

ASSUME SourcesAssumption == None \notin Sources
ASSUME BoundsAssumption == MaxEdits \in Nat /\ MaxFaults \in Nat

VARIABLES
  api,     \* API server: CR -> source, generation and status
  cache,   \* informer cache: CR -> the same, and whether it is current
  queued,  \* CR -> a watch event or a requeue is due
  rec,     \* CR -> its reconcile worker
  dep,     \* Baseten: source deployment -> status and age of its failure
  env,     \* Baseten: CR -> its environment
  edits,   \* edits made so far
  faults   \* faults so far

vars == <<api, cache, queued, rec, dep, env, edits, faults>>
-----------------------------------------------------------------------------
(* Status of a CR: deploymentStatus grouped as `phase' ("ready" is what    *)
(* sets the Ready condition), whether candidateDeploymentID is set,        *)
(* firstDeploymentFailureTime, nextRetryTime and the observedGeneration of *)
(* the conditions.                                                         *)
Status == [phase : {"none", "ready", "promoting", "waiting", "failed"},
           cand  : BOOLEAN,
           first : {"none", "recent", "old"},
           retry : {"none", "waiting", "elapsed"},
           seen  : 0..MaxEdits]

Blank == [phase |-> "none", cand |-> FALSE, first |-> "none",
          retry |-> "none", seen |-> 0]

(* A deployment, and since when it fails without having been active.       *)
DepStatus == {"building", "active", "inactive", "failed", "stopped"}
Since == {"none", "recent", "old"}
Deployment == [of : Sources, status : DepStatus, since : Since]
NoDep == [of |-> None, status |-> "stopped", since |-> "none"]

Worker == [pc : {"idle", "env", "tune", "reactivate", "validate", "activate",
                 "announce", "promote", "first", "deadline", "recheck",
                 "retry", "schedule", "log", "giveUp"},
           src : Sources \cup {None}, gen : 0..MaxEdits, st : Status,
           fresh : BOOLEAN,
           target : {"source", "candidate"}, \* what is being retried
           then : {"idle", "promote", "log", "asleep"}, \* after the next write
           changed : BOOLEAN]               \* the status snapshot differs

Idle == [pc |-> "idle", src |-> None, gen |-> 0, st |-> Blank, fresh |-> FALSE,
         target |-> "source", then |-> "idle", changed |-> FALSE]

Failing(d) == d.status = "failed"   \* IsRetryableFailure

Go(r, pc) == IF pc \in {"idle", "asleep"} THEN Idle ELSE [r EXCEPT !.pc = pc]

(* updateStatus in memory: the phase, the conditions and, on a healthy     *)
(* status, the end of the retry window; cand says what becomes of          *)
(* candidateDeploymentID.                                                  *)
Report(r, phase, cand, pc, then) ==
  [r EXCEPT !.pc = pc, !.then = then,
            !.changed = @ \/ r.st.phase # phase \/ r.st.cand # cand,
            !.st = [phase |-> phase, cand |-> cand, seen |-> r.gen,
                    first |-> IF phase = "ready" THEN "none" ELSE r.st.first,
                    retry |-> IF phase = "ready" THEN "none" ELSE r.st.retry]]

Log(r, phase) == Report(r, phase, r.st.cand, "log", "idle")

(* tryRetryDeployment on a failed deployment. *)
TryRetry(r, target) ==
  [r EXCEPT !.target = target,
            !.pc = IF r.st.first = "none" THEN "first" ELSE "deadline"]

(* Reconcile, from the environment it read. *)
CurrentMatches(r, d) ==
  CASE d.status = "inactive" -> Go(r, "reactivate")
    [] d.status = "active"   -> Report(r, "ready", FALSE, "log", "idle")
    [] d.status = "building" -> Report(r, "waiting", FALSE, "log", "idle")
    [] OTHER                 -> Report(r, "failed", FALSE, "log", "idle")

CandidateMatches(r, d) ==
  CASE d.status = "failed"  -> TryRetry(r, "candidate")
    [] d.status = "stopped" -> Log(r, "failed")
    [] OTHER                -> Log(r, "promoting")

(* Mutant: the candidate recorded in the status decides. *)
Guard_StatusOnly(r, e) ==
  IF ~r.st.cand THEN Go(r, "validate") ELSE Log(r, "promoting")

(* checkDoublePromoteGuard: the environment's candidate decides; the       *)
(* candidate of the status was for another source or is done.              *)
Guard(r, e) ==
  LET cleared == [r EXCEPT !.st.cand = FALSE] IN
  IF e.cand = NoDep THEN Go(cleared, "validate")
  ELSE [Log(cleared, "promoting") EXCEPT !.changed = @ \/ r.st.cand]

(* Mutant: only the candidate is compared with the source wanted. *)
Decide_CandidateOnly(r, e) ==
  CASE ~e.tuned         -> Go(r, "tune")
    [] e.tuned /\ e.cand.of = r.src -> CandidateMatches(r, e.cand)
    [] OTHER            -> Guard(r, e)

Decide(r, e) ==
  CASE ~e.tuned          -> Go(r, "tune")
    [] e.tuned /\ e.cur.of = r.src -> CurrentMatches(r, e.cur)
    [] e.tuned /\ e.cur.of # r.src /\ e.cand.of = r.src -> CandidateMatches(r, e.cand)
    [] OTHER             -> Guard(r, e)

Validate(r, d) ==
  CASE d.status = "failed"   -> TryRetry(r, "source")
    [] d.status = "inactive" -> Go(r, "activate")
    [] d.status = "active"   -> Report(r, "promoting", r.st.cand, "announce", "promote")
    [] OTHER                 -> Log(r, "waiting")

Fault == faults < MaxFaults /\ faults' = faults + 1
Stale(copies, cr) == [copies EXCEPT ![cr].fresh = FALSE]

(* r.Status().Update with the copy r, as in TrussPush. *)
Update(cr, r, next) ==
  /\ rec' = [rec EXCEPT ![cr] = next]
  /\ \/ /\ r.fresh
        /\ api' = [api EXCEPT ![cr].st = r.st]
        /\ cache' = Stale(cache, cr)
        /\ UNCHANGED faults
     \/ ~r.fresh /\ UNCHANGED <<api, cache, faults>>
     \/ r.fresh /\ Fault /\ UNCHANGED <<api, cache>>

Local == <<api, cache, edits>>
Baseten == <<dep, env>>
-----------------------------------------------------------------------------
(* A deployment that is active. *)
Running(s) == [of |-> s, status |-> "active", since |-> "none"]

(* An environment is new, or was made and serves a source already. *)
Init ==
  /\ \E s \in [CRs -> Sources] :
       /\ api = [cr \in CRs |-> [src |-> s[cr], gen |-> 0, st |-> Blank]]
       /\ cache = [cr \in CRs |->
                     [src |-> s[cr], gen |-> 0, st |-> Blank, fresh |-> TRUE]]
  /\ queued = [cr \in CRs |-> TRUE]
  /\ rec = [cr \in CRs |-> Idle]
  /\ \/ /\ \E st \in [Sources -> {"building", "active", "inactive"}] :
             dep = [s \in Sources |-> [of |-> s, status |-> st[s], since |-> "none"]]
        /\ env = [cr \in CRs |-> [tuned |-> FALSE, cur |-> NoDep, cand |-> NoDep]]
     \/ /\ dep = [s \in Sources |-> Running(s)]
        /\ \E s \in [CRs -> Sources] :
             env = [cr \in CRs |-> [tuned |-> TRUE, cur |-> Running(s[cr]), cand |-> NoDep]]
  /\ edits = 0 /\ faults = 0

(* Another source deployment is named in the spec. *)
EditSource(cr, s) ==
  /\ edits < MaxEdits /\ edits' = edits + 1
  /\ s # api[cr].src
  /\ api' = [api EXCEPT ![cr].src = s, ![cr].gen = @ + 1]
  /\ cache' = Stale(cache, cr) /\ rec' = Stale(rec, cr)
  /\ UNCHANGED <<queued, Baseten, faults>>

(* The informer delivers the latest version, and a watch event. *)
Deliver(cr) ==
  /\ ~cache[cr].fresh
  /\ cache' = [cache EXCEPT ![cr] = [src |-> api[cr].src, gen |-> api[cr].gen,
                                     st |-> api[cr].st, fresh |-> TRUE]]
  /\ queued' = [queued EXCEPT ![cr] = TRUE]
  /\ UNCHANGED <<api, rec, Baseten, edits, faults>>

Start(cr) ==
  /\ rec[cr].pc = "idle" /\ queued[cr]
  /\ rec' = [rec EXCEPT ![cr] =
       [Idle EXCEPT !.pc = "env", !.src = cache[cr].src, !.gen = cache[cr].gen,
                    !.st = cache[cr].st, !.fresh = cache[cr].fresh]]
  /\ queued' = [queued EXCEPT ![cr] = FALSE]
  /\ UNCHANGED <<Local, Baseten, faults>>

(* Mutant: reconciles rely on watch events alone. *)
Requeue_WatchOnly(cr, r) == queued' = queued

(* Mutant: a CR that was found Ready is not looked at again. *)
Requeue_NotWhenReady(cr, r) ==
  queued' = [queued EXCEPT ![cr] =
               @ \/ (rec'[cr].pc = "idle" /\ r.then # "asleep" /\ r.st.phase # "ready")]

(* A reconcile that ends asks to be requeued, unless it ends in a          *)
(* TerminalError.                                                          *)
Requeue(cr, r) ==
  queued' = [queued EXCEPT ![cr] =
               @ \/ (rec'[cr].pc = "idle" /\ r.then # "asleep")]

(* Steps that read Baseten, or only look at the local copy. *)
GetEnvironment(cr) ==
  /\ rec[cr].pc = "env"
  /\ rec' = [rec EXCEPT ![cr] = Decide(@, env[cr])]
  /\ UNCHANGED <<Local, queued, Baseten, faults>>

ValidateSource(cr) ==
  /\ rec[cr].pc = "validate"
  /\ rec' = [rec EXCEPT ![cr] = Validate(@, dep[@.src])]
  /\ UNCHANGED <<Local, queued, Baseten, faults>>

(* A read or a call of the Baseten API fails without effect: FAILED is     *)
(* reported and the reconcile is tried again.                              *)
CallFails(cr) ==
  /\ rec[cr].pc \in {"env", "tune", "reactivate", "validate", "activate", "promote"}
  /\ Fault
  /\ rec' = [rec EXCEPT ![cr] = Log(@, "failed")]
  /\ UNCHANGED <<Local, queued, Baseten>>

(* CreateEnvironment or UpdateEnvironmentSettings. *)
Tune(cr) ==
  /\ rec[cr].pc = "tune"
  /\ env' = [env EXCEPT ![cr].tuned = TRUE]
  /\ rec' = [rec EXCEPT ![cr] = Log(@, "waiting")]
  /\ UNCHANGED <<Local, queued, dep, faults>>

Activated(d) == IF d.status = "inactive" THEN [d EXCEPT !.status = "building"] ELSE d

(* ActivateDeployment of the current deployment, or of the source. *)
Reactivate(cr) ==
  /\ rec[cr].pc = "reactivate"
  /\ env' = [env EXCEPT ![cr].cur = Activated(@)]
  /\ rec' = [rec EXCEPT ![cr] = Log(@, "waiting")]
  /\ UNCHANGED <<Local, queued, dep, faults>>

Activate(cr) ==
  /\ rec[cr].pc = "activate"
  /\ dep' = [dep EXCEPT ![rec[cr].src] = Activated(@)]
  /\ rec' = [rec EXCEPT ![cr] = Log(@, "waiting")]
  /\ UNCHANGED <<Local, queued, env, faults>>

(* Promote: the source's copy becomes the candidate.  On a lost answer the *)
(* reconcile reports a failure; on success it records the candidate's ID.  *)
Promote(cr) ==
  LET r == rec[cr] IN
  /\ r.pc = "promote"
  /\ env' = [env EXCEPT ![cr].cand =
               [of |-> r.src, status |-> "building", since |-> "none"]]
  /\ \/ /\ rec' = [rec EXCEPT ![cr] = Report(r, "promoting", TRUE, "log", "idle")]
        /\ UNCHANGED faults
     \/ /\ rec' = [rec EXCEPT ![cr] = Log(r, "failed")]
        /\ Fault
  /\ UNCHANGED <<Local, queued, dep>>

(* updateStatus: a write, or none if the snapshot is the same. *)
Write(cr) ==
  LET r == rec[cr]
      next == Go([r EXCEPT !.changed = FALSE], r.then) IN
  /\ r.pc \in {"log", "announce"}
  /\ \/ Update(cr, r, next)
     \/ /\ ~r.changed
        /\ rec' = [rec EXCEPT ![cr] = next]
        /\ UNCHANGED <<api, cache, faults>>
  /\ Requeue(cr, r)
  /\ UNCHANGED <<Baseten, edits>>
-----------------------------------------------------------------------------
(* tryRetryDeployment. *)
FirstFailure(cr) ==
  LET r == [rec[cr] EXCEPT !.st.first = "recent"] IN
  /\ r.pc = "first"
  /\ Update(cr, r, Go(r, "deadline"))
  /\ UNCHANGED <<queued, Baseten, edits>>

(* Past the deadline the failure is final; before the retry time there is  *)
(* nothing to do yet; otherwise the deployment's status is read again.     *)
Deadline(cr) ==
  LET r == rec[cr] IN
  /\ r.pc = "deadline"
  /\ rec' = [rec EXCEPT ![cr] =
       CASE r.st.first = "old" -> Go(r, "giveUp")
         [] r.st.first # "old" /\ r.st.retry = "waiting" -> Idle
         [] OTHER -> Go(r, "recheck")]
  /\ Requeue(cr, r)
  /\ UNCHANGED <<Local, Baseten, faults>>

(* Retries exhausted: the failure is reported with a TerminalError. *)
GiveUp(cr) ==
  LET r == rec[cr] IN
  /\ r.pc = "giveUp"
  /\ rec' = [rec EXCEPT ![cr] =
       Report(r, IF r.target = "source" THEN "failed" ELSE "promoting",
              r.st.cand, "log", "asleep")]
  /\ UNCHANGED <<Local, queued, Baseten, faults>>

Target(cr) ==
  IF rec[cr].target = "source" THEN dep[rec[cr].src] ELSE env[cr].cand

(* The status is read again, by name; on an error the old one stands. *)
Recheck(cr) ==
  LET r == rec[cr] IN
  /\ r.pc = "recheck"
  /\ \/ /\ rec' = [rec EXCEPT ![cr] =
                     IF Failing(Target(cr)) THEN Go(r, "retry") ELSE Idle]
        /\ UNCHANGED faults
     \/ rec' = [rec EXCEPT ![cr] = Go(r, "retry")] /\ Fault
  /\ Requeue(cr, r)
  /\ UNCHANGED <<Local, Baseten>>

(* RetryDeployment: accepted for a failed deployment and declined          *)
(* otherwise; or it fails, with or without having had its effect.          *)
Retry(cr) ==
  LET r == rec[cr]
      accepted == Failing(Target(cr))
      rebuilt == [Target(cr) EXCEPT !.status = "building"]
      Effect == IF r.target = "source"
                THEN dep' = [dep EXCEPT ![r.src] = rebuilt] /\ UNCHANGED env
                ELSE env' = [env EXCEPT ![cr].cand = rebuilt] /\ UNCHANGED dep IN
  /\ r.pc = "retry"
  /\ \/ /\ accepted /\ Effect
        /\ rec' = [rec EXCEPT ![cr] = [r EXCEPT !.pc = "schedule", !.then = "log"]]
        /\ UNCHANGED faults
     \/ /\ ~accepted /\ UNCHANGED Baseten
        /\ rec' = [rec EXCEPT ![cr] = Go(r, "schedule")]
        /\ UNCHANGED faults
     \/ /\ (accepted /\ Effect) \/ UNCHANGED Baseten
        /\ rec' = [rec EXCEPT ![cr] = Go(r, "schedule")]
        /\ Fault
  /\ UNCHANGED <<Local, queued>>

(* Mutant: the times of first failure and next retry are mixed up. *)
ScheduleNextRetry_Mixed(cr) ==
  LET r == [rec[cr] EXCEPT !.st.retry = "recent"] IN
  /\ r.pc = "schedule"
  /\ Update(cr, r, IF r.then = "log" THEN Log(r, "waiting") ELSE Idle)
  /\ Requeue(cr, r)
  /\ UNCHANGED <<Baseten, edits>>

(* scheduleNextRetry; an accepted retry is reported as BUILDING. *)
ScheduleNextRetry(cr) ==
  LET r == [rec[cr] EXCEPT !.st.retry = "waiting"] IN
  /\ r.pc = "schedule"
  /\ Update(cr, r, IF r.then = "log" THEN Log(r, "waiting") ELSE Idle)
  /\ Requeue(cr, r)
  /\ UNCHANGED <<Baseten, edits>>
-----------------------------------------------------------------------------
(* Baseten's own steps. *)
Built(d) == [d EXCEPT !.status = "active", !.since = "none"]

Broken(d) == [d EXCEPT !.status = "failed",
                       !.since = IF @ = "none" THEN "recent" ELSE @]

BuildSource(s) ==
  /\ dep[s].status = "building"
  /\ dep' = [dep EXCEPT ![s] = Built(@)]
  /\ UNCHANGED <<Local, queued, rec, env, faults>>

(* A healthy candidate takes over the environment. *)
CompletePromotion(cr) ==
  /\ env[cr].cand # NoDep /\ env[cr].cand.status = "building"
  /\ env' = [env EXCEPT ![cr].cur = Built(env[cr].cand), ![cr].cand = NoDep]
  /\ UNCHANGED <<Local, queued, rec, dep, faults>>

BuildCurrent(cr) ==
  /\ env[cr].cur # NoDep /\ env[cr].cur.status = "building"
  /\ env' = [env EXCEPT ![cr].cur = Built(@)]
  /\ UNCHANGED <<Local, queued, rec, dep, faults>>

(* A build fails, or a user stops it; a deployment fails or is             *)
(* deactivated; settings drift.                                            *)
Worse(d) ==
  CASE d.status = "building" -> {Broken(d), [d EXCEPT !.status = "stopped"]}
    [] d.status = "active"   -> {Broken(d), [d EXCEPT !.status = "inactive"]}
    [] OTHER                 -> {}

Trouble(cr) ==
  /\ Fault
  /\ \/ /\ \E s \in Sources : \E d \in Worse(dep[s]) : dep' = [dep EXCEPT ![s] = d]
        /\ UNCHANGED env
     \/ /\ \/ \E d \in Worse(env[cr].cur) : env' = [env EXCEPT ![cr].cur = d]
           \/ \E d \in Worse(env[cr].cand) : env' = [env EXCEPT ![cr].cand = d]
           \/ env[cr].tuned /\ env' = [env EXCEPT ![cr].tuned = FALSE]
        /\ UNCHANGED dep
  /\ UNCHANGED <<Local, queued, rec>>

AgeOf(t) == IF t = "recent" THEN "old" ELSE t

(* Two hours pass, which no single reconcile takes. *)
Age ==
  /\ \A cr \in CRs : rec[cr].pc = "idle"
  /\ api' = [cr \in CRs |-> [api[cr] EXCEPT !.st.first = AgeOf(@)]]
  /\ cache' = [cr \in CRs |-> [cache[cr] EXCEPT !.st.first = AgeOf(@)]]
  /\ dep' = [s \in Sources |-> [dep[s] EXCEPT !.since = AgeOf(@)]]
  /\ env' = [cr \in CRs |-> [env[cr] EXCEPT !.cur.since = AgeOf(@),
                                            !.cand.since = AgeOf(@)]]
  /\ UNCHANGED <<queued, rec, edits, faults>>

ElapseOf(t) == IF t = "waiting" THEN "elapsed" ELSE t

(* The backoff of a CR ends. *)
Elapse(cr) ==
  /\ api' = [api EXCEPT ![cr].st.retry = ElapseOf(@)]
  /\ cache' = [cache EXCEPT ![cr].st.retry = ElapseOf(@)]
  /\ rec' = [rec EXCEPT ![cr].st.retry = ElapseOf(@)]
  /\ UNCHANGED <<queued, Baseten, edits, faults>>

(* The operator restarts: it lists all CRs and reconciles each. *)
Crash ==
  /\ Fault
  /\ rec' = [cr \in CRs |-> Idle]
  /\ queued' = [cr \in CRs |-> TRUE]
  /\ cache' = [cr \in CRs |-> [src |-> api[cr].src, gen |-> api[cr].gen,
                               st |-> api[cr].st, fresh |-> TRUE]]
  /\ UNCHANGED <<api, Baseten, edits>>
-----------------------------------------------------------------------------
Reconcile(cr) ==
  \/ Start(cr) \/ GetEnvironment(cr) \/ ValidateSource(cr) \/ Tune(cr)
  \/ Reactivate(cr) \/ Activate(cr) \/ Promote(cr) \/ Write(cr)
  \/ FirstFailure(cr) \/ Deadline(cr) \/ GiveUp(cr) \/ Recheck(cr)
  \/ Retry(cr) \/ ScheduleNextRetry(cr)

Next ==
  \/ \E cr \in CRs : \/ Reconcile(cr) \/ CallFails(cr) \/ Deliver(cr)
                     \/ CompletePromotion(cr) \/ BuildCurrent(cr)
                     \/ Trouble(cr) \/ Elapse(cr)
                     \/ \E s \in Sources : EditSource(cr, s)
  \/ \E s \in Sources : BuildSource(s)
  \/ Age \/ Crash

Fairness ==
  /\ \A cr \in CRs : /\ WF_vars(Reconcile(cr)) /\ WF_vars(Deliver(cr))
                     /\ WF_vars(CompletePromotion(cr)) /\ WF_vars(BuildCurrent(cr))
                     /\ WF_vars(Elapse(cr))
  /\ \A s \in Sources : WF_vars(BuildSource(s))

Spec == Init /\ [][Next]_vars /\ Fairness
-----------------------------------------------------------------------------
(* The types of all variables. *)
TypeOK ==
  /\ api \in [CRs -> [src : Sources, gen : 0..MaxEdits, st : Status]]
  /\ cache \in [CRs -> [src : Sources, gen : 0..MaxEdits, st : Status,
                        fresh : BOOLEAN]]
  /\ queued \in [CRs -> BOOLEAN]
  /\ rec \in [CRs -> Worker]
  /\ dep \in [Sources -> Deployment]
  /\ env \in [CRs -> [tuned : BOOLEAN, cur : Deployment \cup {NoDep},
                      cand : Deployment \cup {NoDep}]]
  /\ edits \in 0..MaxEdits /\ faults \in 0..MaxFaults

(* The double-promote guard: Promote is never called while the environment *)
(* has a candidate, though status writes are lost, answers of Promote are  *)
(* lost, the spec changes and the operator restarts in between.            *)
NoDoublePromote ==
  [][\A cr \in CRs : Promote(cr) => env[cr].cand = NoDep]_vars

(* The copies of the spec that the operator may be acting on. *)
Known(cr) == {api[cr].src, cache[cr].src}
             \cup (IF rec[cr].pc = "idle" THEN {} ELSE {rec[cr].src})

R == INSTANCE Rollout WITH
       Envs  <- CRs,
       want  <- [cr \in CRs |-> api[cr].src],
       known <- [cr \in CRs |-> Known(cr)],
       cur   <- [cr \in CRs |-> env[cr].cur.of],
       cand  <- [cr \in CRs |-> env[cr].cand.of]

(* Reconcile implements the abstract rollout: what is promoted is named by *)
(* a spec that was there when the reconcile or the cache read it, is not   *)
(* served already, and meets no other promotion; and an edit is noticed in *)
(* the end.                                                                *)
ImplementsRollout == R!Spec

(* The environment serves the source that the spec names. *)
Serving(cr) == env[cr].cur.of = api[cr].src /\ env[cr].cur.status = "active"

(* In the end the phase is Ready exactly if the environment serves what    *)
(* the spec names.  A revert to the current deployment in the middle of a  *)
(* promotion is Ready at once (Reconcile); then the promotion completes,   *)
(* the environment serves the other source, and a new promotion follows.   *)
(* Status writes are lost, skipped or made from old copies on the way: no  *)
(* Ready of the wrong deployment or of one that does not run lasts, and no *)
(* other phase outlasts the rollout.                                       *)
StatusTellsTruth ==
  \A cr \in CRs : <>[](api[cr].st.phase = "ready" <=> Serving(cr))

(* Where a rollout may stop for good. *)
GivenUp(cr) ==
  rec[cr].pc = "idle" /\ ~queued[cr] /\ api[cr].st.first = "old"
Stopped(cr) == /\ \/ env[cr].cand.status = "stopped" /\ env[cr].cand.of = api[cr].src
                  \/ dep[api[cr].src].status = "stopped"
               /\ env[cr].cur.of # api[cr].src
CurrentBroken(cr) == /\ env[cr].cur.of = api[cr].src
                     /\ env[cr].cur.status \in {"failed", "stopped"}
Obstructed(cr) == /\ env[cr].cand # NoDep
                  /\ env[cr].cand.of # api[cr].src
                  /\ env[cr].cand.status \in {"failed", "stopped"}

(* Once spec and Baseten stay put, the environment serves the source the   *)
(* spec names, unless retries were exhausted, a user stopped the build,    *)
(* the deployment broke when it was already current, or the failed         *)
(* candidate of another source stands in the way.  Nothing else stops a    *)
(* rollout: not a lost write or answer, a conflict, a restart or drift.    *)
RolloutEnds ==
  \A cr \in CRs : []<>(\/ Serving(cr) \/ GivenUp(cr) \/ Stopped(cr)
                       \/ CurrentBroken(cr) \/ Obstructed(cr))

(* "When a deployment fails (FAILED, DEPLOY_FAILED, BUILD_FAILED), the     *)
(* operator automatically retries via the Baseten API. No manual           *)
(* intervention needed." (README): a candidate that failed does not stay   *)
(* failed, unless the retry deadline has passed.                           *)
FailedCandidateIsRetried ==
  \A cr \in CRs :
    (env[cr].cand # NoDep /\ env[cr].cand.status = "failed") ~>
      (env[cr].cand.status # "failed" \/ GivenUp(cr))

(* firstDeploymentFailureTime "is when the current deployment first        *)
(* entered a retryable failure state. Used to enforce the 2-hour retry     *)
(* deadline" (basetenmodel_types.go): a deployment is given up only when   *)
(* it has itself been failing past the deadline.                           *)
GiveUpIsEarned ==
  [][\A cr \in CRs : GiveUp(cr) => Target(cr).since = "old"]_vars
=============================================================================
