--------------------------- MODULE OrphanCleanup ---------------------------
(***************************************************************************)
(* The cleanup of orphan deployments that a reconcile in its steady state  *)
(* runs: reconcileOrphanCleanup, findOrphanDeployments, scaleInOrphans and *)
(* deleteStaleOrphans (internal/controller/basetenmodel_controller.go).    *)
(* It lists deployments and environments in two calls and scales and       *)
(* deletes afterwards, one call each, while other reconciles and users     *)
(* create, promote, activate and deactivate deployments of the model.      *)
(*                                                                         *)
(* Abstractions.  Deployments are numbered in the order of createdAt, so   *)
(* newer is greater, and those up to `horizon' are past deleteAfterDays.   *)
(* A name matches a source if the deployment is `of' it.  "active" stands  *)
(* for every status but INACTIVE and the terminal failures.  What a        *)
(* listing shows of a deployment is remembered as membership in sets.      *)
(* A stamp of lastCleanupTime that is lost and one the cache does not show *)
(* yet are the same to the next reconcile: `due' stays TRUE.               *)
(***************************************************************************)
EXTENDS Integers, FiniteSets

CONSTANTS
  Envs,        \* the environments of the model
  CRs,         \* the BasetenModels, named after their environments
  Sources,     \* the names of source deployments
  None,        \* no source
  Production,  \* the environment "production"
  Development, \* deployments that are the development deployment
  Scaling,     \* CRs with cleanup and scaleToZero
  Deleting,    \* CRs with cleanup, delete, deleteAfterDays and minToKeep
  Keep,        \* CR -> minToKeep
  MaxId,       \* bound: deployments ever created
  MaxEdits,    \* bound: edits of a spec, promotions, changes of a status
  MaxFaults    \* bound: failed calls and crashes

Ids == 1..MaxId
Nothing == 0   \* no deployment

ASSUME BoundsAssumption ==
  MaxId \in Nat /\ MaxEdits \in Nat /\ MaxFaults \in Nat
ASSUME SourcesAssumption == None \notin Sources
ASSUME CRsAssumption ==
  /\ CRs \subseteq Envs /\ Production \in Envs
  /\ Scaling \subseteq CRs /\ Deleting \subseteq CRs
  /\ Development \subseteq Ids
  /\ Keep \in [CRs -> Nat]

VARIABLES
  src,      \* CR -> the source its spec names
  due,      \* CR -> intervalMinutes have passed since lastCleanupTime
  rec,      \* CR -> its reconcile worker
  dep,      \* Baseten: deployments
  env,      \* Baseten: environment -> current and candidate deployment
  horizon,  \* deployments up to this are past deleteAfterDays
  held,     \* history: CR -> attached throughout its running cleanup
  found,    \* history: deployments some cleanup found to be orphans
  edits, faults

vars == <<src, due, rec, dep, env, horizon, held, found, edits, faults>>
-----------------------------------------------------------------------------
Deployment == [of : Sources,
               status : {"none", "active", "inactive", "failed", "gone"},
               scaled : BOOLEAN]    \* min_replica is 0

Worker == [pc : {"idle", "list", "environments", "scale", "delete"},
           src : Sources \cup {None}, \* of its copy of the CR
           spare : SUBSET Ids,      \* orphans found
           dead : SUBSET Ids,       \* listed as INACTIVE or failed
           match : SUBSET Ids,      \* listed with a name that matches src
           up : SUBSET Ids,         \* still to be scaled in
           todo : SUBSET Ids]       \* still to be deleted

Exists(d) == dep[d].status \notin {"none", "gone"}
Existing == {d \in Ids : Exists(d)}

(* INACTIVE or IsTerminalFailure. *)
Dead == {d \in Ids : dep[d].status \in {"inactive", "failed"}}

(* The current and candidate deployments of all environments. *)
Attached == ({env[e].cur : e \in Envs} \cup {env[e].cand : e \in Envs}) \ {Nothing}

Idle == [pc |-> "idle", src |-> None, spare |-> {}, dead |-> {}, match |-> {},
         up |-> {}, todo |-> {}]

Newer(d, S) == {e \in S : e > d}

(* Mutant: an off-by-one in the number protected. *)
Beyond_OneLess(S, k) == {d \in S : Cardinality(Newer(d, S)) + 1 >= k}

(* All of S but the k newest. *)
Beyond(S, k) == {d \in S : Cardinality(Newer(d, S)) >= k}

(* The oldest of the orphans that do not match the source, then of those   *)
(* that do.                                                                *)
Victim(r) ==
  LET first == IF r.todo \ r.match # {} THEN r.todo \ r.match ELSE r.todo IN
  CHOOSE d \in first : \A e \in first : d <= e

Fault == faults < MaxFaults /\ faults' = faults + 1

Steady(cr) == /\ env[cr].cur # Nothing
              /\ dep[env[cr].cur].of = src[cr]
              /\ dep[env[cr].cur].status # "inactive"
-----------------------------------------------------------------------------
(* Some deployments exist and some are attached, each to one environment;  *)
(* the others have no name yet.                                            *)
Init ==
  /\ src \in [CRs -> Sources]
  /\ due = [cr \in CRs |-> TRUE]
  /\ rec = [cr \in CRs |-> Idle]
  /\ dep \in [Ids -> [of : Sources, status : {"none", "active", "inactive", "failed"},
                  scaled : {FALSE}]]
  /\ \A d, e \in Ids : d < e /\ Exists(e) => Exists(d)
  /\ \A d \in Ids : ~Exists(d) => dep[d].of = CHOOSE s \in Sources : TRUE
  /\ env \in [Envs -> [cur : Existing \cup {Nothing}, cand : {Nothing}]]
  /\ \A e1, e2 \in Envs : env[e1].cur = env[e2].cur => e1 = e2 \/ env[e1].cur = Nothing
  /\ \A cr \in CRs : Steady(cr)
  /\ horizon = 0
  /\ held = [cr \in CRs |-> {}] /\ found = {}
  /\ edits = 0 /\ faults = 0

(* A reconcile finds its environment steady and the interval elapsed. *)
Start(cr) ==
  /\ rec[cr].pc = "idle" /\ due[cr] /\ Steady(cr)
  /\ cr \in Scaling \cup Deleting
  /\ rec' = [rec EXCEPT ![cr].pc = "list", ![cr].src = src[cr]]
  /\ held' = [held EXCEPT ![cr] = Attached]
  /\ UNCHANGED <<src, due, dep, env, horizon, found, edits, faults>>

(* ListDeployments, and what findOrphanDeployments keeps of it: neither    *)
(* production nor development, and of the CR's own source only what is     *)
(* dead and in no environment.                                             *)
ListDeployments(cr) ==
  LET match == {d \in Existing : dep[d].of = rec[cr].src}
      spare == {d \in Existing \ Development :
                  /\ d # env[Production].cur
                  /\ d \in match => d \notin Attached /\ d \in Dead} IN
  /\ rec[cr].pc = "list"
  /\ rec' = [rec EXCEPT ![cr].pc = "environments", ![cr].spare = spare,
               ![cr].dead = spare \cap Dead, ![cr].match = spare \cap match,
               ![cr].up = {d \in spare : ~dep[d].scaled}]
  /\ UNCHANGED <<src, due, dep, env, horizon, held, found, edits, faults>>

(* Mutant: candidates are forgotten. *)
Protected_CurrentOnly == {env[e].cur : e \in Envs} \ {Nothing}

(* The deployments that the environments listed protect. *)
Protected == Attached

(* Mutant: what may be deleted is not scaled in. *)
ListEnvironments_Exclusive(cr) ==
  LET spare == rec[cr].spare \ Protected IN
  /\ rec[cr].pc = "environments"
  /\ rec' = [rec EXCEPT ![cr].pc = "scale", ![cr].spare = spare,
               ![cr].dead = @ \cap spare, ![cr].match = @ \cap spare,
               ![cr].up = IF cr \in Scaling \ Deleting THEN @ \cap spare ELSE {}]
  /\ found' = found \cup spare
  /\ UNCHANGED <<src, due, dep, env, horizon, held, edits, faults>>

(* ListEnvironments: what is attached to one is not an orphan. *)
ListEnvironments(cr) ==
  LET spare == rec[cr].spare \ Protected IN
  /\ rec[cr].pc = "environments"
  /\ rec' = [rec EXCEPT ![cr].pc = "scale", ![cr].spare = spare,
               ![cr].dead = @ \cap spare, ![cr].match = @ \cap spare,
               ![cr].up = IF cr \in Scaling THEN @ \cap spare ELSE {}]
  /\ found' = found \cup spare
  /\ UNCHANGED <<src, due, dep, env, horizon, held, edits, faults>>

(* One of the two lists fails: no cleanup, and no stamp. *)
ListFails(cr) ==
  /\ rec[cr].pc \in {"list", "environments"} /\ Fault
  /\ rec' = [rec EXCEPT ![cr] = Idle]
  /\ held' = [held EXCEPT ![cr] = {}]
  /\ UNCHANGED <<src, due, dep, env, horizon, found, edits>>

(* UpdateDeploymentAutoscaling of one orphan; a failure is logged. *)
ScaleIn(cr, d) ==
  /\ rec[cr].pc = "scale" /\ d \in rec[cr].up
  /\ rec' = [rec EXCEPT ![cr].up = @ \ {d}]
  /\ \/ /\ Exists(d)
        /\ dep' = [dep EXCEPT ![d].scaled = TRUE]
        /\ UNCHANGED faults
     \/ ~Exists(d) /\ UNCHANGED <<dep, faults>>
     \/ Exists(d) /\ Fault /\ UNCHANGED dep
  /\ UNCHANGED <<src, due, env, horizon, held, found, edits>>

(* Mutant: the orphans are indexed one off. *)
SelectStale_Shifted(cr) ==
  LET r == rec[cr] IN
  /\ r.pc = "scale" /\ r.up = {}
  /\ rec' = [rec EXCEPT ![cr].pc = "delete",
       ![cr].spare = {}, ![cr].dead = {},
       ![cr].todo = IF cr \in Deleting
                    THEN {d - 1 : d \in {d \in Beyond(r.spare, Keep[cr]) \cap r.dead : d <= horizon}}
                    ELSE {}]
  /\ UNCHANGED <<src, due, dep, env, horizon, held, found, edits, faults>>

(* Mutant: a deployment at the cutoff is not yet old. *)
SelectStale_Strict(cr) ==
  LET r == rec[cr] IN
  /\ r.pc = "scale" /\ r.up = {}
  /\ rec' = [rec EXCEPT ![cr].pc = "delete",
       ![cr].spare = {}, ![cr].dead = {},
       ![cr].todo = IF cr \in Deleting
                    THEN {d \in Beyond(r.spare, Keep[cr]) \cap r.dead : d < horizon}
                    ELSE {}]
  /\ UNCHANGED <<src, due, dep, env, horizon, held, found, edits, faults>>

(* deleteStaleOrphans up to its calls: beyond minToKeep, dead when listed, *)
(* and created before the cutoff taken now.                                *)
SelectStale(cr) ==
  LET r == rec[cr] IN
  /\ r.pc = "scale" /\ r.up = {}
  /\ rec' = [rec EXCEPT ![cr].pc = "delete",
       ![cr].spare = {}, ![cr].dead = {},
       ![cr].todo = IF cr \in Deleting
                    THEN {d \in Beyond(r.spare, Keep[cr]) \cap r.dead : d <= horizon}
                    ELSE {}]
  /\ UNCHANGED <<src, due, dep, env, horizon, held, found, edits, faults>>

Without(e, d) == [cur |-> IF e.cur = d THEN Nothing ELSE e.cur,
                  cand |-> IF e.cand = d THEN Nothing ELSE e.cand]

(* DeleteDeployment of the next in order.  What is in no environment is    *)
(* deleted; whether Baseten deletes what is attached by now is open.  A    *)
(* failure is logged.                                                      *)
Delete(cr) ==
  LET d == Victim(rec[cr]) IN
  /\ rec[cr].pc = "delete" /\ rec[cr].todo # {}
  /\ rec' = [rec EXCEPT ![cr].todo = @ \ {d}]
  /\ \/ /\ dep' = [dep EXCEPT ![d].status = "gone", ![d].scaled = FALSE]
        /\ env' = [e \in Envs |-> Without(env[e], d)]
        /\ held' = [c \in CRs |-> held[c] \ {d}]
        /\ UNCHANGED faults
     \/ d \in Attached /\ UNCHANGED <<dep, env, held, faults>>
     \/ Fault /\ UNCHANGED <<dep, env, held>>
  /\ UNCHANGED <<src, due, horizon, found, edits>>

(* lastCleanupTime is written, or the update fails and is logged. *)
Stamp(cr) ==
  /\ rec[cr].pc = "delete" /\ rec[cr].todo = {}
  /\ rec' = [rec EXCEPT ![cr] = Idle]
  /\ held' = [held EXCEPT ![cr] = {}]
  /\ \E late \in BOOLEAN : due' = [due EXCEPT ![cr] = late]
  /\ UNCHANGED <<src, dep, env, horizon, found, edits, faults>>
-----------------------------------------------------------------------------
(* Other reconciles, users and Baseten. *)
Others == <<src, due, rec, horizon, found>>

(* History: what leaves its environment is no longer held. *)
Hold == held' = [c \in CRs |-> held[c] \cap Attached']

(* A push creates the next deployment. *)
Create(s) ==
  \E d \in Ids :
    /\ dep[d].status = "none"
    /\ \A e \in Ids : e < d => dep[e].status # "none"
    /\ dep' = [dep EXCEPT ![d] = [of |-> s, status |-> "active", scaled |-> FALSE]]
    /\ UNCHANGED <<Others, env, held, edits, faults>>

(* A deployment is promoted: it becomes the candidate, and in the end the  *)
(* current deployment, with the replicas of its environment.               *)
Promote(e, d) ==
  /\ edits < MaxEdits /\ edits' = edits + 1
  /\ env[e].cand = Nothing /\ dep[d].status = "active" /\ d \notin Attached
  /\ env' = [env EXCEPT ![e].cand = d]
  /\ Hold
  /\ UNCHANGED <<Others, dep, faults>>

Complete(e) ==
  LET d == env[e].cand IN
  /\ d # Nothing
  /\ env' = [env EXCEPT ![e] = [cur |-> d, cand |-> Nothing]]
  /\ dep' = [dep EXCEPT ![d].scaled = FALSE]
  /\ Hold
  /\ UNCHANGED <<Others, edits, faults>>

(* A deployment is deactivated, fails, is activated or retried. *)
Change(d, from, to) ==
  /\ edits < MaxEdits /\ edits' = edits + 1
  /\ dep[d].status = from
  /\ dep' = [dep EXCEPT ![d].status = to]
  /\ UNCHANGED <<Others, env, held, faults>>

EditSource(cr, s) ==
  /\ edits < MaxEdits /\ edits' = edits + 1
  /\ src[cr] # s /\ src' = [src EXCEPT ![cr] = s]
  /\ UNCHANGED <<due, rec, dep, env, horizon, held, found, faults>>

(* Days pass, which no cleanup takes: it reads the clock once. *)
Age ==
  /\ \A cr \in CRs : rec[cr].pc = "idle"
  /\ horizon < MaxId /\ horizon' = horizon + 1
  /\ UNCHANGED <<src, due, rec, dep, env, held, found, edits, faults>>

(* intervalMinutes pass. *)
Elapse(cr) ==
  /\ due' = [due EXCEPT ![cr] = TRUE]
  /\ UNCHANGED <<src, rec, dep, env, horizon, held, found, edits, faults>>

(* The operator restarts in the middle of a cleanup. *)
Crash ==
  /\ Fault
  /\ rec' = [cr \in CRs |-> Idle]
  /\ held' = [cr \in CRs |-> {}]
  /\ UNCHANGED <<src, due, dep, env, horizon, found, edits>>
-----------------------------------------------------------------------------
Cleanup(cr) ==
  \/ Start(cr) \/ ListDeployments(cr) \/ ListEnvironments(cr)
  \/ (\E d \in Ids : ScaleIn(cr, d))
  \/ SelectStale(cr) \/ Delete(cr) \/ Stamp(cr)

Next ==
  \/ \E e \in Envs : Complete(e) \/ (\E d \in Ids : Promote(e, d))
  \/ \E cr \in CRs : \/ Cleanup(cr) \/ ListFails(cr) \/ Elapse(cr)
                     \/ (\E s \in Sources : EditSource(cr, s))
  \/ \E s \in Sources : Create(s)
  \/ \E d \in Ids : \/ Change(d, "active", "inactive")
                    \/ Change(d, "active", "failed")
                    \/ Change(d, "inactive", "active")
                    \/ Change(d, "failed", "active")
  \/ Age \/ Crash

Fairness == \A cr \in CRs : WF_vars(Cleanup(cr)) /\ WF_vars(Elapse(cr))

Spec == Init /\ [][Next]_vars /\ Fairness
-----------------------------------------------------------------------------
(* The types of all variables. *)
TypeOK ==
  /\ src \in [CRs -> Sources] /\ due \in [CRs -> BOOLEAN]
  /\ rec \in [CRs -> Worker] /\ dep \in [Ids -> Deployment]
  /\ env \in [Envs -> [cur : Ids \cup {Nothing}, cand : Ids \cup {Nothing}]]
  /\ horizon \in 0..MaxId
  /\ held \in [CRs -> SUBSET Ids] /\ found \subseteq Ids
  /\ edits \in 0..MaxEdits /\ faults \in 0..MaxFaults

(* "Skip deployments actively serving traffic in any environment"          *)
(* (findOrphanDeployments): a deployment that was attached to some         *)
(* environment all the time since the cleanup began is neither scaled in   *)
(* nor deleted by it, though it moves from candidate to current and others *)
(* come and go between the two listings.                                   *)
SparesHeld ==
  [][\A cr \in CRs :
       /\ (Delete(cr) => Victim(rec[cr]) \notin held[cr])
       /\ \A d \in Ids : ScaleIn(cr, d) => d \notin held[cr]]_vars

(* At least minToKeep newer deployments that were orphans when a cleanup   *)
(* last looked are there; they may have been promoted since.               *)
Backed(d) ==
  \E c \in Deleting : Cardinality(Newer(d, Existing \cap found)) >= Keep[c]

(* minToKeep "is the minimum number of orphan deployments to preserve      *)
(* regardless of age", "newest kept first" (basetenmodel_types.go): CRs    *)
(* that clean up one model at the same time, each from listings of its     *)
(* own and in an order of its own, never delete between them what is among *)
(* the newest orphans (deleteStaleOrphans).                                *)
KeepsNewest == [][\A cr \in CRs : Delete(cr) => Backed(Victim(rec[cr]))]_vars

(* "Orphan deployments are those NOT actively used by any environment and  *)
(* NOT matching the current sourceDeploymentName" (basetenmodel_types.go). *)
Orphan(cr, d) ==
  d \in Existing \ (Attached \cup Development) /\ dep[d].of # src[cr]

Orphans(cr) == {d \in Ids : Orphan(cr, d)}

(* Orphaned deployments "are scaled to zero and deleted on a schedule"     *)
(* (README): while a CR is in its steady state no orphan keeps replicas    *)
(* for good, ...                                                           *)
ScaledInTheEnd ==
  \A cr \in Scaling : \A d \in Ids :
    []<>~(Steady(cr) /\ Orphan(cr, d) /\ ~dep[d].scaled)

(* ... and none that is dead, past deleteAfterDays and beyond minToKeep is *)
(* there for good, whatever calls fail or restarts cut a cleanup short.    *)
DeletedInTheEnd ==
  \A cr \in Deleting : \A d \in Ids :
    []<>~(/\ Steady(cr) /\ d \in Dead /\ d <= horizon
          /\ d \in Beyond(Orphans(cr), Keep[cr]))

(* The cleanup is for "model deployments not associated with any           *)
(* environment" (README): what it deletes is in none.                      *)
DeletesUnattached ==
  [][\A cr \in CRs : Delete(cr) => Victim(rec[cr]) \notin Attached]_vars
=============================================================================
