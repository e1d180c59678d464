# A TLA+ verification project for baseten-operator

`baseten-operator` is a Kubernetes operator.  A `BasetenModel` resource (CR)
names a Baseten model, an environment of it and what the environment shall run:
a source deployment, or a `trussConfig` from which the operator makes one with
`truss push`.  The operator resolves the model, pushes, tunes the environment,
promotes the source deployment into it, retries what fails, and deletes the
model with the CR if it is told to.

This directory models the controller (`internal/controller/`) with what it
relies on, model-checks the models with TLC and proves part of what is checked
with TLAPS.  Paths below are relative to the repository; line numbers refer to
`internal/controller/basetenmodel_controller.go` unless another file is named.

## 1. Inventory

### 1.1 Components

| component | state it keeps | operations | modelled in |
|---|---|---|---|
| truss push pipeline (1199-1473) | `trussConfigHash`, `sourceDeploymentName`, `trussPushStatus`, `trussPushTime`, `trussPushNextRetryTime`; the push semaphore; goroutines | reconcileTrussDeployment, asyncPush, updatePushStatus, recordPushFailure | `TrussPush` |
| rollout (158-382, 1502-1745) | `deploymentStatus`, `candidateDeploymentID`, conditions; the environment at Baseten | reconcileEnvironment, checkDoublePromoteGuard, validateSourceDeployment, Promote, reactivation | `Promotion` |
| deployment retry (969-1126) | `firstDeploymentFailureTime`, `nextRetryTime`, `deploymentRetryCount` | tryRetryDeployment, scheduleNextRetry, handleCandidateFailure | `Promotion` |
| lifecycle (589-790) | finalizer, deletion time stamp, mode, deletion policy | reconcileLifecycle, reconcileDeletion, checkDeleteGuardrails, releaseFinalizer | `Lifecycle` |
| model ID (1128-1190, 1795-1812) | `modelID`, `modelIDResolvedTime` | resolveModelID, invalidateModelID | `Lifecycle` |
| Observe mode (792-967) | none of its own | reconcileObserve, composeObserveStatus | resolution in `Lifecycle` |
| status (1814-1969) | conditions, the snapshot that decides on a write | updateStatus, logUpdateStatus | part of each module |
| environment settings (1502-1616, 962-967; `internal/baseten/client.go` 616-728) | none; the environment at Baseten | reconcileEnvironment, HasAutoscalingDrift, HasPromotionSettingsDrift | `EnvironmentSettings`; one step in `Promotion` |
| autoscaling schedules (`internal/baseten/schedules.go`) | none; the environment's collection at Baseten | diffSchedules, HasScheduleDrift, the second PATCH | `EnvironmentSettings` |
| orphan cleanup (386-587) | `lastCleanupTime`; deployments at Baseten | findOrphanDeployments, scaleInOrphans, deleteStaleOrphans | `OrphanCleanup` |
| Baseten client (`internal/baseten/client.go`) | none | one HTTP call per operation | effects of the calls, in the module that makes them |
| config rendering (`internal/truss/`) | none, pure | GenerateConfigYAML, HashTrussConfig, DeploymentName | as an injective function |
| events, CRD schema, deepcopy, manager wiring, Helm chart, tests | | | no (wiring: worker and semaphore sizes) |

### 1.2 How they interact

One manager process runs up to five reconcile workers, never two for one CR.  A
worker reads the CR from the **informer cache**, which lags the API server, and
keeps that copy for the whole reconcile.  It makes a chain of calls to Baseten
and writes the status with `Status().Update`, which the API server rejects as a
conflict when the copy is not the latest version.  With few exceptions the
controller **logs a rejected write and goes on**.  Pushes run in goroutines
outside the worker, at most ten at a time, and write their outcome to the CR
with their own read-modify-write.  CRs of one model share its source
deployments; users, GitOps, the Baseten UI and operators of other clusters
change the same objects at any time.

The parts of one reconcile follow each other: lifecycle, push, settings, and
then either the rollout or, in the steady state, the cleanup.  The cleanup works
on all deployments of the model, hence on those that other CRs promote.

### 1.3 Where it is hard, and what makes each component correct

`PROJECT.json` lists every hazard at its line.  In short:

* *Push*: a lost or rejected write between announcement, launch and outcome; an
  outcome that arrives after the spec changed or after the stale time-out; a
  full semaphore; a crash anywhere.  Correct means: a status that waits can stop
  waiting, `TRUSS_PUSH_DONE` is true, the deployment is created in the end, once
  it is created it is left alone, and slots come back.
* *Rollout and retry*: Baseten moves on by itself, answers are lost, the spec
  changes mid-way.  Correct means: never two promotions at once, every rollout
  ends, `Ready` is eventually about the right deployment, a retry is abandoned
  only for a deployment that failed for two hours.
* *Settings and schedules*: the environment is read once and repaired in two
  PATCHes, the second computed from what was read before the first; users edit
  both ends meanwhile, windows open and close, and Baseten echoes what was
  written in another form.  Correct means: both ends agree in the end, and then
  the operator writes no more.
* *Orphan cleanup*: two listings, then a call for each orphan, while others
  promote, activate and push.  Correct means: what stays attached is spared, the
  newest stay whoever deletes, and what a failed call left behind goes later.
* *Lifecycle*: decisions on cached copies, external deletion and recreation of
  the model, failures between `DeleteModel` and the finalizer.  Correct means:
  no deletion nobody asked for, deletions complete, dead IDs heal, a model the
  CR claims is not brought back by mistake, Observe and Pause keep their hands
  off.

## 2. Modules

| module | role |
|---|---|
| `TrussPush`, `MCTrussPush`, `TrussPushProofs` | the push pipeline; instances; proofs |
| `Rollout` | abstract: what may be promoted, and when |
| `Promotion`, `MCPromotion`, `PromotionProofs` | rollout and retry, implements `Rollout`; instances; proofs |
| `EnvironmentSettings`, `MCEnvironmentSettings`, `EnvironmentSettingsProofs` | settings and schedules; instances; proofs |
| `OrphanCleanup`, `MCOrphanCleanup`, `OrphanCleanupProofs` | the cleanup; instances; proofs |
| `Lifecycle`, `MCLifecycle`, `LifecycleProofs` | modes, deletion, model ID; instances; proofs |

`PROJECT.json`'s `map` gives the source lines of every definition.

### 2.1 Common to all modules

* **One step per call.**  A reconcile is split at every call to the API server or
  Baseten: `rec[cr].pc` says which comes next.  What a handler does between two
  calls is one step.
* **Copies.**  `api` is the API server, `cache` the informer's copy, `rec[cr]`
  the copy of the running reconcile.  Versions are only compared with the
  server's, so a copy carries `fresh`: writing the object makes all other copies
  stale, `Deliver` brings the cache up to date.
* **Updates** (`Update`, `Save`): accepted when fresh, a conflict when not, and
  any call may fail; the worker carries on as the code does.
* **Time.**  A time stamp matters only against a time-out, so it is `recent` or
  `old` (or `waiting`, `elapsed`), and a clock action moves all copies together.
* **Crash** drops workers, goroutines and slots, and restarts with a synced
  cache.  `faults` bounds crashes, failures and lost writes together, `edits`
  the user's changes.
* **Mutants.**  An operator `X_Mutant` before a definition `X` is `X` with a
  plausible bug; a property is kept only if some mutant violates it.  No
  specification uses them.

### 2.2 TrussPush

State: spec and push status per CR, the cached and local copies, the slots with
their goroutines, and how many deployments of each name Baseten has (two stands
for more).  `Start`, `Resolve`, `Find`, `SaveFound`, `ClearStale`, `MarkPushing`,
`Launch`/`SemaphoreFull`, `ResetFull` and `LogStatus` are the steps of
reconcileTrussDeployment in its order; `Decide` holds the branches between
look-up and push.  `PushSucceeds`, `PushFails`, `UpdatePushStatus`,
`RecordPushFailure` and `LoseWriteBack` are asyncPush.  A push that fails may
have had its effect.  `WriteBack` needs a fresh cache, because RetryOnConflict
repeats the read until then; when five attempts do not reach that,
`LoseWriteBack`.  `Age` (five minutes) is limited per goroutine by the
goroutine's own time-out.

Hash, deployment name and config are one value: hashing is taken as injective
(it is cut to 32 bits in the code).  A failure count only scales the backoff.

### 2.3 Promotion

State: per CR the source of the spec, generation, status and whether a requeue
or watch event is due (`queued`); Baseten's source deployments and per
environment the current and candidate deployment.  `GetEnvironment` decides as
Reconcile does from what it read, `Validate` as validateSourceDeployment,
`FirstFailure` to `ScheduleNextRetry` are tryRetryDeployment.  `Requeue` matters:
a `TerminalError` does not requeue, so only a watch event wakes that CR.
A promotion makes a copy of the source the candidate; "matches the prefix" is
"is a copy of".  In the beginning an environment is new, or serves some source.  Sources exist from the start; `since` is a history variable
that says since when a deployment fails.

`Rollout` is what this amounts to for somebody who sees only specs and
environments.  An operator has a set of sources it may be acting on (`known`):
the one the spec names and those of copies not yet replaced.  It promotes only
such a source, never one that is served already and never over a running
promotion, and `known` shrinks to the present spec infinitely often
(`CatchesUp`).  `Promotion` instantiates it with the sources of the stored CR, the
cached one and the worker's copy.

### 2.4 Lifecycle

State: per CR existence, finalizer, mode, policy, `modelID`, whether
`modelIDResolvedTime` is set and whether the push is done; the model's current
ID (IDs are never reused), who has a deployment in it, and whether an
environment serves.  Other operators and users delete and create the model as
`ExternalDelete` and `ExternalCreate`.  `Dispatch` and `Deletion` are
reconcileLifecycle and reconcileDeletion up to the first call.  `armed` is a
history variable: at the last reconcile that began on the latest version of the
CR, or at an edit since, it was terminating while its spec asked for deletion.
Push and rollout are reduced to the calls that can meet a 404 and to the writes
of the push's outcome: `UpdatePushStatus` and `RecordPushFailure`, both through
`WriteBack`, which writes over the status the cache shows.

### 2.5 OrphanCleanup

State: the source of each CR, whether its interval has passed, its worker;
Baseten's deployments and environments.  Deployments are numbered by `createdAt`,
and all up to `horizon` are past `deleteAfterDays`.  `ListDeployments` and
`ListEnvironments` are the two calls of findOrphanDeployments with what each
filters; a match by name is "made of the source of the worker's copy".
`ScaleIn` and `Delete` are one call each; which deployments are deleted, and in
which order (those of other sources first, the oldest first), was decided before.
Whether Baseten deletes a deployment that is attached by the time of the call is
left open.  `held` and `found` are history variables: what has been attached
throughout a running cleanup, and what some cleanup found to be an orphan.  A
stamp that is lost and one the cache does not show yet look
alike to the next reconcile, so both leave `due` TRUE.  `Age` moves the horizon
between cleanups only, since deleteStaleOrphans reads the clock once.

Not modelled: equal creation times (they have a granularity of one second), and
deployments deleted by users.

### 2.6 EnvironmentSettings

State: the environment with one field for each kind of setting (`auto`, `ramp`,
`surge` inside the rolling config, `timezone`), its schedules with their ids, the
schedule whose window is open, the clock of ONE_TIME windows.  The worker
carries the spec, the schedules it read, the three drifts it found and whether
the timezone is part of the last (`zone`).
`UpdateSettings` and `UpdateSchedules` are the two PATCHes; the second recomputes
the difference from what was read, and is not sent if there is none any more
(`Sends`).  `Upserts` and `Deletes` are diffSchedules with
duplicates, expiry and normalisation; schedules that do not decode end the
reconcile of a CR that manages them.  `Stored` is what Baseten makes of a
schedule: unused fields dropped, weekdays in another order, another offset.
A new schedule gets the least free id; which of two new ones gets which is left
open.  Baseten declines a PATCH that names an id that is gone.  While a window is open
it may report that schedule's settings as the baseline.

## 3. Runs

| run | instance | result |
|---|---|---|
| `push_edits` | 1 CR, 2 configs, 1 slot, 1 edit, 2 faults | holds: `TypeOK`, `Recoverable`, `DoneMeansCreated`, `CreatedOrFalseDone`, `SettledIsStable`, `SlotsReleased` |
| `push_false_done` | 1 CR, 2 configs, 1 edit | violates `DesiredCreated` |
| `rollout` | 1 CR, 2 sources, 1 edit, 2 faults | holds: `TypeOK`, `ImplementsRollout`, `NoDoublePromote`, `RolloutEnds`, `StatusTellsTruth` |
| `retry_obstructed` | 1 CR, 2 sources, 1 edit, 1 fault | violates `FailedCandidateIsRetried` |
| `retry_window` | 1 CR, 2 sources, 1 edit, 2 faults | violates `GiveUpIsEarned` |
| `lifecycle_single` | 1 CR, all modes and policies, 3 models, 1 edit, 1 fault | holds: `TypeOK`, `DeletionWasAsked`, `ModelIDHeals`, `DeletionCompletes`, `KnownIsNotRecreated`, `HandsOff` |
| `deletion_stale` | 1 CR, all modes and policies, 1 edit | violates `DeletionHeedsMode` |
| `recreation_guard` | 1 CR, 1 fault | violates `NeverRecreated` |
| `cleanup` | 1 CR, 2 environments, 3 deployments, 1 edit, 1 fault | holds: `TypeOK`, `SparesHeld`, `ScaledInTheEnd`, `DeletedInTheEnd` |
| `cleanup_shared` | 2 CRs, 4 deployments, 2 environments | holds: `KeepsNewest` |
| `cleanup_race` | 1 CR, 2 environments, 2 edits | violates `DeletesUnattached` |
| `settings` | 3 specs, 5 schedules, 2 names, 2 edits, 1 fault | holds: `TypeOK`, `SettingsConverge`, `SchedulesConverge`, `OnePatchIsEnough`, `Quiet` |

### 3.1 What they show

**Push.**  `CreatedOrFalseDone` and `DoneMeansCreated` together say that a config
that is never edited is pushed in the end and reported truthfully, whatever two
faults hit at any step.  With an edit one way to lose a push is left, and
`push_edits` shows it is the only one: the new config is marked done by the old
push.  A settled CR does not push again, and slots come back.

**Rollout.**  The guard against two promotions holds although it trusts only the
environment it read: a worker is alone with its environment, and Baseten never
starts a promotion by itself.  `ImplementsRollout` adds that nothing is promoted
that no spec named, and that an edit is noticed in the end.  `RolloutEnds` names
the four places where a rollout may stop for good (retries exhausted, a stopped
build, a current deployment that broke, a failed candidate of another source)
and shows that there is no fifth.  `StatusTellsTruth` is about what the status says
of all this: the source may be reverted to the one served while a promotion runs,
which is reported as Ready at once and becomes false behind the operator's back
when the promotion completes.  Because a Ready CR is looked at again, the phase
ends up Ready exactly if the environment serves what the spec names.

**Lifecycle.**  A model is deleted only for a CR that was terminating and asked
for it at the last reconcile that began on its latest version, or later: retries of
`DeleteModel`, rejected writes, late pushes and restarts do not bring back what
the user has taken back since.  The reconcile under way does act on what it read
(`deletion_stale`).

**Cleanup.**  A deployment that moves from candidate to current between the two
listings is spared: what is attached all the time is neither scaled in nor
deleted.  `minToKeep` holds for concurrent cleanups too, although each counts in
a listing of its own that the other is deleting from: of the deployments that
cleanups found to be orphans and that are still there, `minToKeep` are newer
than any that is deleted.  (One of them may have been promoted since it was
listed; no step of the operator looks again.)  `ScaledInTheEnd` and `DeletedInTheEnd`
are about orphans as the CRD defines them, hence not about the CR's own source.

**Settings.**  Two PATCHes with a failure in between, edits on both ends and
windows that open and close all converge, and the operator then writes no more,
with the exception `Quiet` names: a CR that does not manage schedules, on an
environment that has some, may rewrite the baseline while a window is open.

### 3.2 The violations

Each contradicts a line of the repository that `PROJECT.json` quotes.

* `push_false_done`: push of A in flight, spec changes to B, the reconcile of B
  announces its push (hash B) but B's own push is not the one that ends;
  updatePushStatus writes `TRUSS_PUSH_DONE` without asking for which config.  The
  fast path then trusts it and B is never pushed.
* `retry_obstructed`: a failed candidate of the previous source blocks the new
  one, and nobody retries it.
* `retry_window`: the two hours belong to the CR, not to the deployment that
  fails; a later failure inherits them.
* `deletion_stale`: mode and policy are read when the reconcile begins; a CR set to
  Pause or Observe between that and `DeleteModel` loses its model.
* `recreation_guard`: the guard runs before the push; an external deletion while
  the push is in flight lets the push create the model.
* `cleanup_race`: a deployment listed as dead and unattached is activated and
  promoted before its turn to be deleted comes.

### 3.3 Disagreements without a run

These are visible in the models or in the code next to them.

* A full semaphore clears `sourceDeploymentName` and keeps the hash (1353); when
  an older push of the CR then reports its success, the fast path returns an
  empty name.
* Two CRs with one config both look the deployment up before either push has
  created it (1239), and both push; `README.md:169` says one config
  "results in only one push".
* A deployment of the CR's own source that is INACTIVE or failed for good, and in
  no environment, is taken for an orphan and deleted (471-482); by
  `api/v1alpha1/basetenmodel_types.go:107-109` orphans are "NOT matching the current
  sourceDeploymentName".  `ListDeployments` does as the code does; the liveness
  properties of the cleanup do not ask for it.
* Observe keeps a cached model ID on a 404 (802), so it never sees a model that
  was created anew; compare `README.md:308`.
* `TRUSS_PUSH_DONE` stays when the model is created anew by others (1233); the
  CR then waits for a deployment the new model does not have.
* An expired ONE_TIME entry of the spec shields every existing schedule of its
  name from change and deletion (`internal/baseten/schedules.go:123-126`),
  although the collection is the operator's (`README.md:231`).
* The comment at 124 says pause skips deletion; reconcileLifecycle handles
  deletion first, as its own comment says.
* An environment may scale up between ListEnvironments and DeleteModel (688).
* A push in flight when its CR is deleted leaves a model without a CR (647).
* updateStatus writes nothing if its snapshot is the same (1917), and
  `observedGeneration` is not part of it: after an edit that changes nothing else
  it stays behind.

### 3.4 Bounds, and why they are enough

* *CRs.*  CRs meet only in the semaphore, in deployments of one name and in the
  model.  `cleanup_shared` has two; with two, the state space of the push is left to
  the theorems.  A slot taken by another CR and one taken by an older push of the
  same CR look alike to a reconcile, so one CR with one slot meets the full
  semaphore too.
* *Configs, sources*: the code compares the desired one with the stored one; two
  values give equal and different.
* *Edits, faults.*  One edit gives old and new, and, since an environment may serve
  another source from the start, a revert during a promotion.  One fault at any step of any actor, combined with the
  time-outs, which are free; two faults where the state space allows it.  A rollout
  gives up only after a failure, a retry and a second failure, so `rollout` has two.
* *MaxModels = 3*: the model that was there, one deleted, one created anew.  A
  push that would need a fourth waits, which one edit and one fault cannot reach
  with a single CR.
* *created* counts to two: only "more than one" matters.
* *Cleanup.*  Three deployments are one to keep, one to delete and one that is
  promoted; two environments are the CR's own and `production`, which is treated
  apart.  With two CRs two deployments are always attached, so `cleanup_shared` has
  four: two orphans, of which one must stay.  There the races are those of pushes,
  ageing and the cleanups themselves; edits would exceed the time a run may take,
  and the theorem covers them.  No deployment is the development deployment in
  these runs.
* *Settings.*  Values 0 and 1 are unset and set.  The schedules are a daily one
  in two forms, an hourly one and a ONE_TIME one with two offsets; five ids are
  more than two edits and a repair can use up, since freed ids come back.
* *Deadlock* is checked everywhere.  `Over` in Lifecycle is the stuttering end
  when the last CR is gone.

### 3.5 Fairness

Weak fairness of each CR's worker, of the cache, of goroutines and clocks:
controller-runtime runs every queued request, informers deliver, the contexts of
a goroutine end, time passes; and in Promotion of Baseten's builds and
promotions, which end one way or another.  No fairness for users, traffic,
faults or `Drain`.  Faults are bounded, so liveness says "once faults have
stopped".  In TrussPush a reconcile may always start, since every path either
requeues or errs; Promotion and Lifecycle model the queue.  In OrphanCleanup
each CR's cleanup goes on and its interval passes again and again, because a
steady CR requeues every five minutes; pushes, promotions and ageing need not
happen.  In EnvironmentSettings only the reconcile is fair: windows may stay open
for ever.

## 4. Proofs

For every value of the constants, under the named assumptions only (`None` is
none of the configs, sources or CRs, the bounds are naturals, modes and policies
are those of the CRD, `minToKeep` is a natural; setting values are naturals with zero
among them, specs and contents of schedules have the shape of the CRD and the
API):

| theorem | module | states |
|---|---|---|
| `TypeCorrect` | `TrussPushProofs` | `Spec => []TypeOK` |
| `AlwaysRecoverable` | `TrussPushProofs` | `Spec => []Recoverable` |
| `DoneIsTrue` | `TrussPushProofs` | `Spec => []DoneMeansCreated` |
| `SettledStaysSettled` | `TrussPushProofs` | `Spec => SettledIsStable` |
| `TypeCorrect` | `PromotionProofs` | `Spec => []TypeOK` |
| `NeverTwoPromotions` | `PromotionProofs` | `Spec => NoDoublePromote` |
| `RolloutImplemented` | `PromotionProofs` | `Spec => R!Safety` |
| `TypeCorrect` | `OrphanCleanupProofs` | `Spec => []TypeOK` |
| `NewestAreKept` | `OrphanCleanupProofs` | `Spec => KeepsNewest` |
| `AttachedAreSpared` | `OrphanCleanupProofs` | `Spec => SparesHeld` |
| `TypeCorrect` | `LifecycleProofs` | `Spec => []TypeOK` |
| `DeletionIsAsked` | `LifecycleProofs` | `Spec => DeletionWasAsked` |
| `HandsAreOff` | `LifecycleProofs` | `Spec => HandsOff` |
| `KnownStaysKnown` | `LifecycleProofs` | `Spec => KnownIsNotRecreated` |
| `TypeCorrect` | `EnvironmentSettingsProofs` | `Spec => []TypeOK` |
| `OnePatchSuffices` | `EnvironmentSettingsProofs` | `Spec => OnePatchIsEnough` |
| `DriftIsDifference` | `EnvironmentSettingsProofs` | diffSchedules finds nothing to write exactly if the schedules are the spec's |
| `PatchRepairs` | `EnvironmentSettingsProofs` | a PATCH of the settings ends the drift it was computed from, and touches no field the spec leaves open |
| `StopsIfNothingDiffers` | `EnvironmentSettingsProofs` | a reconcile that reads an environment sends no PATCH exactly if nothing differs |

`Recoverable` speaks of stored statuses only and is not inductive: what is
stored next comes from the copies of workers and caches, and whether a goroutine
may write its outcome depends on what it holds.  The inductive invariant adds
that every copy carries its clocks like the stored status, with the one
exception of a worker about to write them, and that a slot in use names a CR.
The proof is by action, with a lemma for the writes all actions share.

`DoneMeansCreated` says nothing of the copies and goroutines a "done" comes from.
Its invariant `Faithful` does: as long as nothing was edited, every copy and
every slot carries the config of its CR, and whoever says done, or is about to
(a worker that found the deployment, a goroutine about to write its outcome), has
seen the deployment created.  Deployments are never uncreated.

`SettledIsStable` has the form "from such a moment on, always", and so have
`HandsOff` and `KnownIsNotRecreated`.  For each there is a predicate on one CR
that holds at that moment and that every step keeps, given an invariant that
holds anyway.  A moment of rest says something about the stored object only, but
the next decision is taken on the cache: the invariant is that a current cache
shows what is stored (`Current`, in Lifecycle `CacheTrue`).  The predicate of
`SettledIsStable` is `Rest`: all copies of the CR show a push that is done under
the hash of the spec, no slot is the CR's, and its worker is before or at the
look at that status.  The cached copy may be outdated again and again, but only
by statuses that say the same.

`NoDoublePromote` is about a call several steps after the guard.  The invariant:
a worker past the guard has an environment without a candidate that serves
another source, and Baseten starts no promotion by itself.  `RolloutImplemented`
uses the same invariant: with it, and with `Known` holding whatever a worker
carries, every action of Promotion is a step of `Rollout` or a stutter.
(Type correctness needs, besides, that a generation is at most the number of
edits.)

`KeepsNewest` is about deletions chosen in listings that are outdated by then.
`ChoicesBacked` says: for whatever a worker has chosen, or will choose from the
orphans it found, at least `minToKeep` newer ones that were found to be orphans
exist at this moment (the least `minToKeep`, where CRs differ).  A deletion by
another CR preserves it: it only removes a deployment that is itself backed, hence
older than the newest that count.  That it holds when the orphans are found is not
obvious, since some of what was listed before may be gone by then.  `GoneBacked`
closes this: whatever is gone is backed, and so is everything older than it.

`SparesHeld` relates a history (what has been attached since the cleanup began) to
lists made in between.  `HeldSpared`: what is held is attached now, and a worker
past ListEnvironments has none of it on any of its lists.  It is kept because the
history only shrinks, a deployment that moves from candidate to current is in
both of Baseten's states attached, and ListEnvironments drops all that is
attached at its time, of which the held is part.

`DeletionWasAsked` is about a step of a worker that decided several steps
earlier, on a copy.  The invariant follows the decision: a CR is armed if the
stored object, or a cached copy, is terminating under a deleting spec
(`CopiesArmed`), and so is the CR of a worker on its way to `DeleteModel`
(`WorkersArmed`).  Being armed ends only when a reconcile begins on the latest
version: its worker is then the only one, and since a current cache shows what is
stored (`CacheTrue`), no copy is left that says otherwise.

For `HandsOff` the predicate is `Hushed`: neither stored object, cache nor running
worker shows Reconcile mode, no push is in flight, and the worker is at a step
that only touches finalizer or status.  The mode is in all copies because edits are
over; a deletion leads to the finalizer alone, since `Deletes` needs Reconcile
mode.  For `KnownIsNotRecreated` it is `Known`: all copies claim the model and
carry `modelIDResolvedTime`, and a worker that may launch a push has a model ID.
The second part is what the guard in resolveModelID provides, the first what
makes the guard see it: no write, not even invalidateModelID's, clears the time.
Both proofs share `Elsewhere`: what moves the copies of a CR is its own worker,
push, cache and user, or a crash.

In EnvironmentSettings the inductive invariant adds to the types that an id
stands for one schedule, at Baseten and in what was read, and that a worker under
way has a spec.  Nothing more is needed, because the rest is about one
difference: `NormalizeIsMeaning` shows that normalised schedules are equal exactly
if the schedules mean the same, `FirstOfName` that the first of a name exists, and
`PatchedIsAsWanted` follows the collection through deletes, replacements and
creations.  There the ids matter: if two schedules shared one, deleting a
duplicate would delete the schedule that is kept.

Only model-checked is liveness, which is out of TLAPS's reach:
`CreatedOrFalseDone`, `SlotsReleased`, `RolloutEnds`, `StatusTellsTruth`,
`ModelIDHeals`, `DeletionCompletes`, `ScaledInTheEnd`, `DeletedInTheEnd`,
`SettingsConverge`, `SchedulesConverge`, `Quiet`, and of `ImplementsRollout` the
conjunct `CatchesUp`; its safety part is proved.  Every other property of a passing
run is the subject of a theorem.

## 5. Not modelled

Messages and events, prefix matching of names, YAML and HTTP mapping, the
setup-script ConfigMap (an edit of it is an edit of the config), leader election,
CRD validation, generated deepcopy code.  Nor a source deployment that is deleted
at Baseten while a CR names it, two CRs on one environment, and the field by
field composition of an observer's status.

## 6. Plan

1. Two CRs on one model: push and rollout composed, the double check before a
   retry, the finished push that outlives its model.
2. The backoff and its jitter as a recursive function with its bound.
3. composeObserveStatus and the conditions as a module of their own.
4. Proofs: for the liveness properties, the safety facts a manual argument would
   rest on (a step that is enabled stays so, a measure that no step raises), as
   `StopsIfNothingDiffers` is for `Quiet`.
