----------------------------- MODULE Lifecycle -----------------------------
(***************************************************************************)
(* The life of a BasetenModel and of the Baseten model it stands for:      *)
(* modes, the finalizer, deletion policies with their guardrails, the      *)
(* cached model ID with its invalidation on a 404, the guard against the   *)
(* recreation of a deleted model, and Observe mode                         *)
(* (internal/controller/basetenmodel_controller.go).                       *)
(*                                                                         *)
(* Status updates, the informer cache and `fresh' are as in TrussPush, and *)
(* requeues as in Promotion.                                               *)
(*                                                                         *)
(* Abstractions.  trussConfig does not change and a CR has one push in     *)
(* flight at most (TrussPush has edits, capacity and duplicates); what a   *)
(* reconcile does to deployments and environments of a model that exists   *)
(* is Promotion's.  Here it reaches the model of its model ID or gets a    *)
(* 404.                                                                    *)
(***************************************************************************)
EXTENDS Naturals

CONSTANTS
  CRs,        \* the BasetenModels that name the model
  Modes,      \* the modes and deletion policies in use, of AllModes and
  Policies,   \* AllPolicies
  MaxModels,  \* bound: incarnations of the model
  MaxEdits,   \* bound: edits of mode and deletionPolicy, traffic coming up
  MaxFaults   \* bound: crashes, failed calls and writes, the model deleted
              \* or created behind the operator's back

AllModes == {"Reconcile", "Observe", "Pause"}
AllPolicies == {"Retain", "Delete", "DeleteWithGuardrails"}

ASSUME SpecAssumption == Modes \subseteq AllModes /\ Policies \subseteq AllPolicies
ASSUME BoundsAssumption ==
  MaxModels \in Nat \ {0} /\ MaxEdits \in Nat /\ MaxFaults \in Nat

VARIABLES
  api,       \* API server: CR -> object
  cache,     \* informer cache: CR -> the same, and whether it is current
  queued,    \* CR -> a watch event or a requeue is due
  rec,       \* CR -> its reconcile worker
  push,      \* CR -> its push goroutine
  model,     \* Baseten: the ID of the model, 0 if there is none
  used,      \* Baseten: IDs handed out so far
  deployed,  \* Baseten: CRs whose config has a deployment in the model
  busy,      \* Baseten: some environment of the model serves
  armed,     \* history: CR -> a version since the last reconcile that began
             \* on the latest one was terminating under a deleting spec
  edits, faults

vars == <<api, cache, queued, rec, push, model, used, deployed, busy, armed,
          edits, faults>>
-----------------------------------------------------------------------------
IDs == 0..MaxModels

(* A CR: its existence, the operator's finalizer, mode and deletionPolicy  *)
(* of the spec, ModelID, whether ModelIDResolvedTime is set, which the     *)
(* guard against recreation relies on and so comes with every ID, and      *)
(* whether trussPushStatus is TRUSS_PUSH_DONE.                             *)
Object == {o \in [life : {"alive", "terminating", "gone"}, fin : BOOLEAN,
                  mode : AllModes, policy : AllPolicies,
                  id : IDs, resolved : BOOLEAN, done : BOOLEAN] :
             o.id # 0 => o.resolved}

Worker == [pc : {"idle", "log", "addFinalizer", "guardrails", "delete",
                 "release", "observe", "resolve", "truss", "done", "launch",
                 "environment", "invalidate"},
           o : Object,     \* the local copy
           id : IDs,       \* modelID, 0 for the empty string
           fresh : BOOLEAN,
           then : {"idle", "delete", "invalidate"}]

Goroutine == [pc : {"free", "push", "write", "fail"}, id : IDs,
              first : BOOLEAN]  \* launched because no model was found

Free == [pc |-> "free", id |-> 0, first |-> FALSE]

Claims(o) == o.policy \in {"Delete", "DeleteWithGuardrails"}
Deletes(o) == o.mode = "Reconcile" /\ Claims(o)
Dooms(o) == o.life = "terminating" /\ Deletes(o)

Nothing == [life |-> "gone", fin |-> FALSE, mode |-> "Pause", policy |-> "Retain",
            id |-> 0, resolved |-> FALSE, done |-> FALSE]

Idle == [pc |-> "idle", o |-> Nothing, id |-> 0, fresh |-> FALSE, then |-> "idle"]

Go(r, pc) == IF pc = "idle" THEN Idle ELSE [r EXCEPT !.pc = pc]

(* updateStatus with the modelID id, then the reconcile goes on at `then'. *)
Log(r, id, then) == [r EXCEPT !.pc = "log", !.id = id, !.then = then]

(* Mutant: the mode is not looked at. *)
Deletion_AnyMode(r) ==
  CASE ~r.o.fin -> Idle
    [] r.o.fin /\ (~Claims(r.o) \/ r.o.id = 0) -> Go(r, "release")
    [] OTHER -> Log(r, r.o.id, "delete")

(* reconcileDeletion up to its first call. *)
Deletion(r) ==
  CASE ~r.o.fin -> Idle
    [] r.o.fin /\ (~Deletes(r.o) \/ r.o.id = 0) -> Go(r, "release")
    [] r.o.fin /\ Deletes(r.o) /\ r.o.id # 0 /\ r.o.policy = "Delete" ->
         Log(r, r.o.id, "delete")
    [] OTHER -> Go(r, "guardrails")

(* Mutant: Observe mode ends with the finalizer, and pushes. *)
Dispatch_ObservePushes(r) ==
  CASE r.o.life = "gone" -> Idle
    [] r.o.life = "terminating" -> Deletion(r)
    [] r.o.life = "alive" /\ r.o.mode = "Pause" -> Log(r, 0, "idle")
    [] r.o.life = "alive" /\ r.o.mode # "Pause" /\ ~r.o.fin -> Go(r, "addFinalizer")
    [] OTHER -> Go(r, "resolve")

(* reconcileLifecycle, then the mode. *)
Dispatch(r) ==
  CASE r.o.life = "gone" -> Idle
    [] r.o.life = "terminating" -> Deletion(r)
    [] r.o.life = "alive" /\ r.o.mode = "Pause" -> Log(r, 0, "idle")
    [] r.o.life = "alive" /\ r.o.mode # "Pause" /\ ~r.o.fin -> Go(r, "addFinalizer")
    [] r.o.life = "alive" /\ r.o.mode = "Observe" /\ r.o.fin -> Go(r, "observe")
    [] OTHER -> Go(r, "resolve")

Fault == faults < MaxFaults /\ faults' = faults + 1
Stale(copies, cr) == [copies EXCEPT ![cr].fresh = FALSE]

(* An update with the local copy r: accepted if r is the latest version, a *)
(* conflict if not, and any call can fail; ok and failed are the worker's  *)
(* next states.                                                            *)
Save(cr, r, object, ok, failed) ==
  \/ /\ r.fresh
     /\ api' = [api EXCEPT ![cr] = object]
     /\ cache' = Stale(cache, cr)
     /\ rec' = [rec EXCEPT ![cr] = ok]
     /\ UNCHANGED faults
  \/ /\ IF r.fresh THEN Fault ELSE UNCHANGED faults
     /\ rec' = [rec EXCEPT ![cr] = failed]
     /\ UNCHANGED <<api, cache>>

(* A reconcile that ends is requeued, except in Pause mode and after the   *)
(* finalizer was touched; an error is retried.                             *)
Requeue(cr, again) ==
  queued' = [queued EXCEPT ![cr] = @ \/ (rec'[cr].pc = "idle" /\ again)]

Baseten == <<model, used, deployed, busy>>
Local == <<api, cache>>
-----------------------------------------------------------------------------
Init ==
  /\ \E m \in [CRs -> Modes], p \in [CRs -> Policies] :
       LET object(cr) == [life |-> "alive", fin |-> FALSE, mode |-> m[cr],
                          policy |-> p[cr], id |-> 0, resolved |-> FALSE,
                          done |-> FALSE] IN
       /\ api = [cr \in CRs |-> object(cr)]
       /\ cache = [cr \in CRs |-> [o |-> object(cr), fresh |-> TRUE]]
  /\ rec = [cr \in CRs |-> Idle]
  /\ queued = [cr \in CRs |-> TRUE]
  /\ push = [cr \in CRs |-> Free]
  /\ model \in {0, 1} /\ used = model
  /\ deployed \in IF model = 0 THEN {{}} ELSE {{}, CRs}
  /\ busy \in IF model = 0 THEN {FALSE} ELSE BOOLEAN
  /\ armed = [cr \in CRs |-> FALSE]
  /\ edits = 0 /\ faults = 0

(* A change of the CR by a user, and the history of it. *)
Change(cr, object) ==
  /\ api' = [api EXCEPT ![cr] = object]
  /\ armed' = [armed EXCEPT ![cr] = @ \/ Dooms(object)]
  /\ cache' = Stale(cache, cr) /\ rec' = Stale(rec, cr)
  /\ UNCHANGED <<queued, push, Baseten, faults>>

SetMode(cr, m) ==
  /\ edits < MaxEdits /\ edits' = edits + 1
  /\ api[cr].life # "gone" /\ m # api[cr].mode
  /\ Change(cr, [api[cr] EXCEPT !.mode = m])

SetPolicy(cr, p) ==
  /\ edits < MaxEdits /\ edits' = edits + 1
  /\ api[cr].life # "gone" /\ p # api[cr].policy
  /\ Change(cr, [api[cr] EXCEPT !.policy = p])

(* kubectl delete: the object stays until its finalizer is removed. *)
DeleteCR(cr) ==
  /\ api[cr].life = "alive"
  /\ Change(cr, [api[cr] EXCEPT !.life = IF @ = "alive" /\ api[cr].fin
                                         THEN "terminating" ELSE "gone"])
  /\ UNCHANGED edits

Deliver(cr) ==
  /\ ~cache[cr].fresh
  /\ cache' = [cache EXCEPT ![cr] = [o |-> api[cr], fresh |-> TRUE]]
  /\ queued' = [queued EXCEPT ![cr] = TRUE]
  /\ UNCHANGED <<api, rec, push, Baseten, armed, edits, faults>>
-----------------------------------------------------------------------------
Start(cr) ==
  LET o == cache[cr].o IN
  /\ rec[cr].pc = "idle" /\ queued[cr]
  /\ rec' = [rec EXCEPT ![cr] =
               Dispatch([Idle EXCEPT !.o = o, !.fresh = cache[cr].fresh])]
  /\ queued' = [queued EXCEPT ![cr] = FALSE]
  /\ armed' = [armed EXCEPT ![cr] = IF cache[cr].fresh THEN Dooms(o) ELSE @]
  /\ UNCHANGED <<Local, push, Baseten, edits, faults>>

(* The finalizer is added; a conflict is taken for success, and the watch  *)
(* event of the change is relied on.                                       *)
AddFinalizer(cr) ==
  LET r == rec[cr] IN
  /\ r.pc = "addFinalizer"
  /\ Save(cr, r, [api[cr] EXCEPT !.fin = TRUE], Idle, Idle)
  /\ Requeue(cr, faults' # faults \/ api[cr].life = "gone")
  /\ UNCHANGED <<push, Baseten, armed, edits>>

(* updateStatus: nothing is written when nothing changed.                  *)
LogStatus(cr) ==
  LET r == rec[cr]
      o == IF r.id = 0 THEN r.o ELSE [r.o EXCEPT !.id = r.id, !.resolved = TRUE]
      next == Go([r EXCEPT !.o = o], r.then) IN
  /\ r.pc = "log"
  /\ \/ Save(cr, r, o, next, next)
     \/ o = r.o /\ rec' = [rec EXCEPT ![cr] = next] /\ UNCHANGED <<Local, faults>>
  /\ Requeue(cr, r.o.life # "alive" \/ r.o.mode # "Pause")
  /\ UNCHANGED <<push, Baseten, armed, edits>>

(* Mutant: a 404 blocks the deletion. *)
CheckGuardrails_404Blocks(cr) ==
  LET r == rec[cr]
      serving == r.o.id # model \/ busy IN
  /\ r.pc = "guardrails"
  /\ rec' = [rec EXCEPT ![cr] = Log(r, r.o.id, IF serving THEN "idle" ELSE "delete")]
  /\ UNCHANGED <<Local, queued, push, Baseten, armed, edits, faults>>

(* checkDeleteGuardrails: on a 404 nothing serves, any other error blocks. *)
CheckGuardrails(cr) ==
  LET r == rec[cr]
      serving == r.o.id = model /\ busy IN
  /\ r.pc = "guardrails"
  /\ \/ /\ rec' = [rec EXCEPT ![cr] =
                     Log(r, r.o.id, IF serving THEN "idle" ELSE "delete")]
        /\ UNCHANGED faults
     \/ rec' = [rec EXCEPT ![cr] = Log(r, r.o.id, "idle")] /\ Fault
  /\ UNCHANGED <<Local, queued, push, Baseten, armed, edits>>

ModelGone ==
  model' = 0 /\ deployed' = {} /\ busy' = FALSE /\ UNCHANGED used

(* DeleteModel succeeds, or 404s when the ID is no longer the model's; or  *)
(* it fails, with or without having had its effect.                        *)
DeleteModel(cr) ==
  LET r == rec[cr] IN
  /\ r.pc = "delete"
  /\ \/ /\ IF r.o.id = model THEN ModelGone ELSE UNCHANGED Baseten
        /\ rec' = [rec EXCEPT ![cr] = Go(r, "release")]
        /\ UNCHANGED faults
     \/ /\ (r.o.id = model /\ ModelGone) \/ UNCHANGED Baseten
        /\ rec' = [rec EXCEPT ![cr] = Log(r, r.o.id, "idle")]
        /\ Fault
  /\ UNCHANGED <<Local, queued, push, armed, edits>>

(* Without its last finalizer the object is removed; NotFound is ignored.  *)
ReleaseFinalizer(cr) ==
  LET r == rec[cr] IN
  /\ r.pc = "release"
  /\ Save(cr, r, [api[cr] EXCEPT !.fin = FALSE, !.life = "gone"], Idle, Idle)
  /\ Requeue(cr, api'[cr].life # "gone")
  /\ UNCHANGED <<push, Baseten, armed, edits>>
-----------------------------------------------------------------------------
(* Observe mode: the model is looked up only when no ID is cached; of what *)
(* is read the status is written, with the cached ID even on a 404.        *)
Observe(cr) ==
  LET r == rec[cr] IN
  /\ r.pc = "observe"
  /\ \/ /\ rec' = [rec EXCEPT ![cr] =
                     Log(r, IF r.o.id # 0 THEN r.o.id ELSE model, "idle")]
        /\ UNCHANGED faults
     \/ rec' = [rec EXCEPT ![cr] = Log(r, 0, "idle")] /\ Fault
  /\ UNCHANGED <<Local, queued, push, Baseten, armed, edits>>

(* resolveModelID: the cached ID, or a look-up by name.  A model that is   *)
(* missing is not created again by a CR that claims it and has known it.   *)
ResolveModelID(cr) ==
  LET r == rec[cr] IN
  /\ r.pc = "resolve"
  /\ \/ /\ rec' = [rec EXCEPT ![cr] =
             CASE r.o.id # 0 -> [r EXCEPT !.pc = "truss", !.id = r.o.id]
               [] r.o.id = 0 /\ model # 0 -> [r EXCEPT !.pc = "truss", !.id = model]
               [] r.o.id = 0 /\ model = 0 /\ Claims(r.o) /\ r.o.resolved ->
                    Log(r, 0, "idle")
               [] OTHER -> [r EXCEPT !.pc = "launch", !.id = 0]]
        /\ UNCHANGED faults
     \/ r.o.id = 0 /\ rec' = [rec EXCEPT ![cr] = Log(r, 0, "idle")] /\ Fault
  /\ UNCHANGED <<Local, queued, push, Baseten, armed, edits>>

(* reconcileTrussDeployment of a model that was resolved: a finished push  *)
(* is trusted, or else the deployment is looked up.                        *)
ReconcileTruss(cr) ==
  LET r == rec[cr] IN
  /\ r.pc = "truss"
  /\ rec' = [rec EXCEPT ![cr] =
       CASE r.o.done -> Go(r, "environment")
         [] ~r.o.done /\ r.id # model -> Log(r, r.id, "invalidate")
         [] ~r.o.done /\ r.id = model /\ cr \in deployed -> Go(r, "done")
         [] OTHER -> Go(r, "launch")]
  /\ UNCHANGED <<Local, queued, push, Baseten, armed, edits, faults>>

(* The deployment was found. *)
SaveDone(cr) ==
  LET r == rec[cr]
      o == [r.o EXCEPT !.done = TRUE]
      next == [r EXCEPT !.pc = "environment", !.o = o] IN
  /\ r.pc = "done"
  /\ Save(cr, r, o, next, next)
  /\ UNCHANGED <<queued, push, Baseten, armed, edits>>

(* The push is started unless one is in flight. *)
Launch(cr) ==
  LET r == rec[cr]
      o == [r.o EXCEPT !.done = FALSE]
      next == Log([r EXCEPT !.o = o], r.id, "idle") IN
  /\ r.pc = "launch"
  /\ \/ /\ push[cr].pc = "free"
        /\ push' = [push EXCEPT ![cr] = [pc |-> "push", id |-> 0, first |-> r.id = 0]]
        /\ Save(cr, r, o, next, next)
     \/ /\ push[cr].pc # "free"
        /\ rec' = [rec EXCEPT ![cr] = Log(r, r.id, "idle")]
        /\ UNCHANGED <<Local, push, faults>>
  /\ UNCHANGED <<queued, Baseten, armed, edits>>

(* Mutant: a 404 is reported like any other failure. *)
ReconcileEnvironment_KeepsID(cr) ==
  LET r == rec[cr] IN
  /\ r.pc = "environment"
  /\ rec' = [rec EXCEPT ![cr] = Log(r, r.id, "idle")]
  /\ UNCHANGED <<Local, queued, push, Baseten, armed, edits, faults>>

(* The environment and what follows: every call takes the model ID.        *)
ReconcileEnvironment(cr) ==
  LET r == rec[cr] IN
  /\ r.pc = "environment"
  /\ rec' = [rec EXCEPT ![cr] =
               Log(r, r.id, IF r.id = model THEN "idle" ELSE "invalidate")]
  /\ UNCHANGED <<Local, queued, push, Baseten, armed, edits, faults>>

(* Mutant: ModelIDResolvedTime goes with the ID. *)
InvalidateModelID_Forgets(cr) ==
  LET r == rec[cr] IN
  /\ r.pc = "invalidate"
  /\ Save(cr, r, [r.o EXCEPT !.id = 0, !.resolved = FALSE], Idle, Idle)
  /\ Requeue(cr, TRUE)
  /\ UNCHANGED <<push, Baseten, armed, edits>>

(* invalidateModelID: the ID goes, ModelIDResolvedTime stays. *)
InvalidateModelID(cr) ==
  LET r == rec[cr] IN
  /\ r.pc = "invalidate"
  /\ Save(cr, r, [r.o EXCEPT !.id = 0], Idle, Idle)
  /\ Requeue(cr, TRUE)
  /\ UNCHANGED <<push, Baseten, armed, edits>>
-----------------------------------------------------------------------------
(* PushFromConfig creates the model if there is none of that name. *)
Create(cr) ==
  /\ IF model = 0
     THEN used < MaxModels /\ model' = used + 1 /\ used' = used + 1
     ELSE UNCHANGED <<model, used>>
  /\ deployed' = deployed \cup {cr}
  /\ UNCHANGED busy

PushSucceeds(cr) ==
  /\ push[cr].pc = "push"
  /\ Create(cr)
  /\ push' = [push EXCEPT ![cr].pc = "write", ![cr].id = model']
  /\ UNCHANGED <<Local, queued, rec, armed, edits, faults>>

(* It fails, before or after Baseten acted on it. *)
PushFails(cr) ==
  /\ push[cr].pc = "push" /\ Fault
  /\ push' = [push EXCEPT ![cr].pc = "fail"]
  /\ Create(cr) \/ UNCHANGED Baseten
  /\ UNCHANGED <<Local, queued, rec, armed, edits>>

(* The outcome is written to the status the cache shows; that is lost when *)
(* the CR is gone, when every retry met a stale cache, or the call fails.  *)
WriteBack(cr, o) ==
  /\ push' = [push EXCEPT ![cr] = Free]
  /\ \/ /\ cache[cr].fresh /\ cache[cr].o.life # "gone"
        /\ api' = [api EXCEPT ![cr] = o]
        /\ cache' = Stale(cache, cr) /\ rec' = Stale(rec, cr)
        /\ UNCHANGED faults
     \/ /\ IF cache[cr].fresh /\ cache[cr].o.life # "gone"
           THEN Fault ELSE UNCHANGED faults
        /\ UNCHANGED <<api, cache, rec>>
  /\ UNCHANGED <<queued, Baseten, armed, edits>>

(* Mutant: the ID is written without ModelIDResolvedTime. *)
UpdatePushStatus_NoTime(cr) ==
  /\ push[cr].pc = "write"
  /\ WriteBack(cr, [cache[cr].o EXCEPT !.id = push[cr].id, !.done = TRUE])

UpdatePushStatus(cr) ==
  /\ push[cr].pc = "write"
  /\ WriteBack(cr, [cache[cr].o EXCEPT !.id = push[cr].id, !.resolved = TRUE,
                                       !.done = TRUE])

(* TRUSS_PUSH_FAILED, with the rest of the status as it is. *)
RecordPushFailure(cr) ==
  /\ push[cr].pc = "fail"
  /\ WriteBack(cr, [cache[cr].o EXCEPT !.done = FALSE])
-----------------------------------------------------------------------------
(* The model is deleted, or created, by others. *)
ExternalDelete ==
  /\ model # 0 /\ Fault /\ ModelGone
  /\ UNCHANGED <<Local, queued, rec, push, armed, edits>>

ExternalCreate ==
  /\ model = 0 /\ used < MaxModels /\ Fault
  /\ model' = used + 1 /\ used' = used + 1
  /\ UNCHANGED <<Local, queued, rec, push, deployed, busy, armed, edits>>

(* Traffic scales an environment up; it drains. *)
ScaleUp ==
  /\ model # 0 /\ ~busy /\ edits < MaxEdits
  /\ busy' = TRUE /\ edits' = edits + 1
  /\ UNCHANGED <<Local, queued, rec, push, model, used, deployed, armed, faults>>

Drain ==
  /\ busy /\ busy' = FALSE
  /\ UNCHANGED <<Local, queued, rec, push, model, used, deployed, armed, edits, faults>>

Crash ==
  /\ Fault
  /\ rec' = [cr \in CRs |-> Idle]
  /\ push' = [cr \in CRs |-> Free]
  /\ queued' = [cr \in CRs |-> TRUE]
  /\ cache' = [cr \in CRs |-> [o |-> api[cr], fresh |-> TRUE]]
  /\ UNCHANGED <<api, Baseten, armed, edits>>

(* With the last CR the operator's work ends. *)
Over ==
  /\ \A cr \in CRs : /\ api[cr].life = "gone" /\ cache[cr].fresh /\ ~queued[cr]
                     /\ rec[cr].pc = "idle" /\ push[cr].pc = "free"
  /\ UNCHANGED vars
-----------------------------------------------------------------------------
Reconcile(cr) ==
  \/ Start(cr) \/ AddFinalizer(cr) \/ LogStatus(cr) \/ CheckGuardrails(cr)
  \/ DeleteModel(cr) \/ ReleaseFinalizer(cr) \/ Observe(cr)
  \/ ResolveModelID(cr) \/ ReconcileTruss(cr) \/ SaveDone(cr) \/ Launch(cr)
  \/ ReconcileEnvironment(cr) \/ InvalidateModelID(cr)

AsyncPush(cr) ==
  PushSucceeds(cr) \/ PushFails(cr) \/ UpdatePushStatus(cr) \/ RecordPushFailure(cr)

Next ==
  \/ \E cr \in CRs : \/ Reconcile(cr) \/ AsyncPush(cr) \/ Deliver(cr) \/ DeleteCR(cr)
                     \/ \E m \in Modes : SetMode(cr, m)
                     \/ \E p \in Policies : SetPolicy(cr, p)
  \/ ExternalDelete \/ ExternalCreate \/ ScaleUp \/ Drain \/ Crash
  \/ Over

Fairness ==
  \A cr \in CRs : WF_vars(Reconcile(cr)) /\ WF_vars(AsyncPush(cr)) /\ WF_vars(Deliver(cr))

Spec == Init /\ [][Next]_vars /\ Fairness
-----------------------------------------------------------------------------
(* The types of all variables. *)
TypeOK ==
  /\ api \in [CRs -> Object]
  /\ cache \in [CRs -> [o : Object, fresh : BOOLEAN]]
  /\ queued \in [CRs -> BOOLEAN]
  /\ rec \in [CRs -> Worker]
  /\ push \in [CRs -> Goroutine]
  /\ used \in IDs /\ model \in {0, used}
  /\ deployed \subseteq CRs /\ busy \in BOOLEAN
  /\ armed \in [CRs -> BOOLEAN]
  /\ edits \in 0..MaxEdits /\ faults \in 0..MaxFaults

(* The model is only deleted for a CR that was terminating in Reconcile    *)
(* mode with a deleting policy, and not long ago: from when a reconcile    *)
(* began on a latest version that pauses, observes or retains, neither the *)
(* retry of a DeleteModel that failed nor a rejected write, a late push or *)
(* a restart deletes the model any more.  (What a reconcile under way does *)
(* when the CR is edited behind its back is DeletionHeedsMode.)            *)
DeletionWasAsked ==
  [][\A cr \in CRs : DeleteModel(cr) /\ model' # model => armed[cr]]_vars

(* "Only honored in `Reconcile` mode; `Pause` and `Observe` always retain" *)
(* (README on deletionPolicy): no model is deleted for a CR that is in     *)
(* Pause or Observe mode (reconcileDeletion decides on the mode it read    *)
(* when it began, before its calls to Baseten).                            *)
DeletionHeedsMode ==
  [][\A cr \in CRs : DeleteModel(cr) /\ model' # model
       => api[cr].mode = "Reconcile"]_vars

(* Workers and pushes of a CR are at rest, and its cached copy is current. *)
Quiet(cr) == rec[cr].pc = "idle" /\ push[cr].pc = "free" /\ cache[cr].fresh

(* "once it has previously existed" (resolveModelID): from when the model  *)
(* ID of a CR that claims the model was recorded, no missing model makes   *)
(* this CR create it: ModelIDResolvedTime survives every invalidation,     *)
(* rejected or interleaved write and restart.                              *)
KnownIsNotRecreated ==
  \A cr \in CRs :
    [](Quiet(cr) /\ edits = MaxEdits /\ api[cr].resolved /\ Claims(api[cr])
         => [](~push[cr].first))

(* "read-only" (README on Observe): once an Observe or Pause mode has been *)
(* seen, nothing of this CR is left under way that changes Baseten.        *)
HandsOff ==
  \A cr \in CRs :
    [](Quiet(cr) /\ edits = MaxEdits /\ api[cr].mode # "Reconcile"
         => [](rec[cr].pc # "delete" /\ push[cr].pc = "free"))

(* A cached model ID that died is replaced: a CR that is reconciled comes  *)
(* to hold the ID of the model there is, or none if there is none.         *)
ModelIDHeals ==
  \A cr \in CRs : []<>(\/ api[cr].life # "alive" \/ api[cr].mode # "Reconcile"
                       \/ api[cr].id = model)

(* A CR that is deleted goes away, unless an environment serves and        *)
(* guardrails protect it.                                                  *)
DeletionCompletes ==
  \A cr \in CRs : []<>(\/ api[cr].life # "terminating"
                       \/ busy /\ api[cr].policy = "DeleteWithGuardrails")

(* "the operator must not auto-create the model via truss push once it has *)
(* previously existed" (resolveModelID): no push of a CR that is not being *)
(* deleted, claims the model and has known it creates it.                  *)
NeverRecreated ==
  [][\A cr \in CRs : PushSucceeds(cr) /\ model = 0
       => ~(api[cr].life = "alive" /\ api[cr].resolved /\ Claims(api[cr]))]_vars
=============================================================================
