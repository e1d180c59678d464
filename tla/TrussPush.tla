----------------------------- MODULE TrussPush -----------------------------
(***************************************************************************)
(* The truss push pipeline of the operator: a BasetenModel with a         *)
(* trussConfig asks for a deployment named after the hash of its config;   *)
(* a reconcile marks the push in the CR's status, takes a slot of the push *)
(* semaphore and starts a goroutine, and the goroutine writes the outcome  *)
(* back (reconcileTrussDeployment, asyncPush, updatePushStatus and         *)
(* recordPushFailure in internal/controller/basetenmodel_controller.go).   *)
(*                                                                         *)
(* A reconcile works on a copy read from the informer cache.  A status     *)
(* update is accepted by the API server only if that copy is the latest    *)
(* version; the controller logs a rejected update and carries on.          *)
(*                                                                         *)
(* Abstractions.  The config hash, the deployment name and the config are  *)
(* in bijection and are one value of Configs.  A resourceVersion is only   *)
(* ever compared with the server's, so each copy carries a flag `fresh'.   *)
(* A time stamp is only ever compared with a timeout: a push time is       *)
(* "recent" or "old" (past trussPushStaleTimeout) and a retry time is      *)
(* "waiting" or "elapsed"; the clock actions move all copies of a CR.  The *)
(* model, once created, stays (Lifecycle has its deletion), so the cached  *)
(* model ID adds nothing to a look-up by name.                             *)
(***************************************************************************)
EXTENDS Naturals, FiniteSets

CONSTANTS
  CRs,       \* the BasetenModel resources, all for one Baseten model
  Configs,   \* the truss configs, with their hashes and deployment names
  Slots,     \* the capacity of PushSemaphore
  None,      \* the empty string of a status field
  MaxEdits,  \* bound: edits of trussConfig
  MaxFaults  \* bound: crashes, failed pushes, failed calls, lost writes

ASSUME ConfigsAssumption == None \notin Configs
ASSUME CRsAssumption == None \notin CRs
ASSUME BoundsAssumption == MaxEdits \in Nat /\ MaxFaults \in Nat

VARIABLES
  api,         \* API server: CR -> its trussConfig and truss status
  cache,       \* informer cache: CR -> the same, and whether it is current
  rec,         \* CR -> its reconcile worker: program counter and local copy
  slot,        \* semaphore slot -> the push goroutine that holds it
  modelExists, \* Baseten: the model exists
  created,     \* Baseten: config -> deployments of that name, 2 means more
  edits,       \* edits made so far
  faults       \* faults so far

vars == <<api, cache, rec, slot, modelExists, created, edits, faults>>
-----------------------------------------------------------------------------
(* The status fields of a truss push.  A failure count, an error text and  *)
(* a message only feed the length of a backoff and what a user reads.      *)
Status == [hash   : Configs \cup {None},   \* TrussConfigHash
           source : Configs \cup {None},   \* SourceDeploymentName
           push   : {"none", "pushing", "done", "failed"}, \* TrussPushStatus
           time   : {"none", "recent", "old"},        \* TrussPushTime
           retry  : {"none", "waiting", "elapsed"}]   \* TrussPushNextRetryTime

Blank == [hash |-> None, source |-> None,
          push |-> "none", time |-> "none", retry |-> "none"]

(* A reconcile worker of a CR, and a push goroutine. *)
Worker == [pc : {"idle", "resolve", "find", "found", "clear", "mark",
                 "acquire", "reset", "log"},
           cfg : Configs \cup {None}, st : Status, fresh : BOOLEAN]
Goroutine == [pc : {"free", "push", "writeDone", "writeFailed"},
              cr : CRs \cup {None}, cfg : Configs \cup {None},
              age : {"recent", "old"}]

Idle == [pc |-> "idle", cfg |-> None, st |-> Blank, fresh |-> FALSE]
Free == [pc |-> "free", cr |-> None, cfg |-> None, age |-> "recent"]

(* Mutant: the retry time becomes a zero value instead of none. *)
ClearPushFailure_Zero(st) == [st EXCEPT !.retry = "zero"]

ClearPushFailure(st) == [st EXCEPT !.retry = "none"]

Go(r, pc) == IF pc = "idle" THEN Idle ELSE [r EXCEPT !.pc = pc]

InFlight(r) == r.st.push = "pushing" /\ r.st.source = r.cfg

(* Mutant: no time-out for a push in flight. *)
Decide_NoStaleCheck(r) ==
  IF InFlight(r) THEN Go(r, "log")
  ELSE [r EXCEPT !.pc = "mark", !.st = ClearPushFailure(r.st)]

(* The branches taken once no deployment of the desired name was found:    *)
(* wait for the push in flight, clear a stale one, drop the backoff of     *)
(* another config, sit out the backoff, or mark a new push.                *)
Decide(r) ==
  CASE InFlight(r) /\ r.st.time = "old" -> Go(r, "clear")
    [] InFlight(r) /\ r.st.time # "old" -> Go(r, "log")
    [] r.st.push = "failed" /\ r.st.source # r.cfg ->
         [r EXCEPT !.pc = "mark", !.st = ClearPushFailure(r.st)]
    [] r.st.push = "failed" /\ r.st.source = r.cfg /\ r.st.retry = "waiting" ->
         Go(r, "log")
    [] OTHER -> Go(r, "mark")

Fault == faults < MaxFaults /\ faults' = faults + 1

Stale(copies, cr) == [copies EXCEPT ![cr].fresh = FALSE]

(* r.Status().Update with the local copy r, whose error is only logged:    *)
(* the server takes it if r is the latest version, rejects it as a         *)
(* conflict if not, and any call can fail.                                 *)
Update(cr, r, pc) ==
  \/ /\ r.fresh
     /\ api' = [api EXCEPT ![cr].st = r.st]
     /\ cache' = Stale(cache, cr)
     /\ rec' = [rec EXCEPT ![cr] = Go(r, pc)]
     /\ UNCHANGED faults
  \/ /\ ~r.fresh
     /\ rec' = [rec EXCEPT ![cr] = Go(r, pc)]
     /\ UNCHANGED <<api, cache, faults>>
  \/ /\ r.fresh /\ Fault
     /\ rec' = [rec EXCEPT ![cr] = Go(r, pc)]
     /\ UNCHANGED <<api, cache>>

Baseten == <<modelExists, created>>
-----------------------------------------------------------------------------
Init ==
  /\ \E c \in [CRs -> Configs] :
       /\ api = [cr \in CRs |-> [cfg |-> c[cr], st |-> Blank]]
       /\ cache = [cr \in CRs |-> [cfg |-> c[cr], st |-> Blank, fresh |-> TRUE]]
  /\ rec = [cr \in CRs |-> Idle]
  /\ slot = [s \in Slots |-> Free]
  /\ modelExists \in BOOLEAN
  /\ created = [c \in Configs |-> 0]
  /\ edits = 0 /\ faults = 0

(* A user or GitOps changes spec.trussConfig. *)
Edit(cr, c) ==
  /\ edits < MaxEdits /\ edits' = edits + 1
  /\ c # api[cr].cfg
  /\ api' = [api EXCEPT ![cr].cfg = c]
  /\ cache' = Stale(cache, cr) /\ rec' = Stale(rec, cr)
  /\ UNCHANGED <<slot, Baseten, faults>>

(* The informer delivers the latest version to the manager's cache. *)
Deliver(cr) ==
  /\ ~cache[cr].fresh
  /\ cache' = [cache EXCEPT ![cr] =
                 [cfg |-> api[cr].cfg, st |-> api[cr].st, fresh |-> TRUE]]
  /\ UNCHANGED <<api, rec, slot, Baseten, edits, faults>>

(* A worker takes the CR from the queue and reads it from the cache. *)
Start(cr) ==
  /\ rec[cr].pc = "idle"
  /\ rec' = [rec EXCEPT ![cr] = [pc |-> "resolve", cfg |-> cache[cr].cfg,
                                 st |-> cache[cr].st, fresh |-> cache[cr].fresh]]
  /\ UNCHANGED <<api, cache, slot, Baseten, edits, faults>>

(* Mutant: a finished push falls through to the push logic. *)
Resolve_FallThrough(cr) ==
  LET r == rec[cr] IN
  /\ r.pc = "resolve"
  /\ rec' = [rec EXCEPT ![cr] =
       IF ~modelExists \/ (r.st.hash = r.cfg /\ r.st.push = "done") THEN Decide(r)
       ELSE Go(r, "find")]
  /\ UNCHANGED <<api, cache, slot, Baseten, edits, faults>>

(* Resolve the model; if it exists, take the fast path of a finished push  *)
(* (the reconcile goes on to the environment) or look the deployment up.   *)
Resolve(cr) ==
  LET r == rec[cr] IN
  /\ r.pc = "resolve"
  /\ rec' = [rec EXCEPT ![cr] =
       IF ~modelExists THEN Decide(r)
       ELSE IF r.st.hash = r.cfg /\ r.st.push = "done" THEN Idle
       ELSE Go(r, "find")]
  /\ UNCHANGED <<api, cache, slot, Baseten, edits, faults>>

(* FindDeploymentIDByName answers. *)
Find(cr) ==
  LET r == rec[cr] IN
  /\ r.pc = "find"
  /\ rec' = [rec EXCEPT ![cr] =
               IF created[r.cfg] > 0 THEN Go(r, "found") ELSE Decide(r)]
  /\ UNCHANGED <<api, cache, slot, Baseten, edits, faults>>

(* Reading the setup script or a look-up fails: the status is logged and   *)
(* the reconcile returns the error.                                        *)
Abort(cr) ==
  /\ rec[cr].pc \in {"resolve", "find"}
  /\ Fault
  /\ rec' = [rec EXCEPT ![cr] = Go(@, "log")]
  /\ UNCHANGED <<api, cache, slot, Baseten, edits>>

(* The deployment exists: record the push as done. *)
SaveFound(cr) ==
  LET r == rec[cr] IN
  /\ r.pc = "found"
  /\ Update(cr, [r EXCEPT !.st = [ClearPushFailure(r.st) EXCEPT
                   !.hash = r.cfg, !.source = r.cfg, !.push = "done"]], "idle")
  /\ UNCHANGED <<slot, Baseten, edits>>

(* A push in flight longer than trussPushStaleTimeout is forgotten. *)
ClearStale(cr) ==
  LET r == rec[cr] IN
  /\ r.pc = "clear"
  /\ Update(cr, [r EXCEPT !.st.push = "none", !.st.time = "none"], "mark")
  /\ UNCHANGED <<slot, Baseten, edits>>

(* Mutant: TrussPushTime is forgotten. *)
MarkPushing_NoTime(cr) ==
  LET r == rec[cr] IN
  /\ r.pc = "mark"
  /\ Update(cr, [r EXCEPT !.st = [r.st EXCEPT !.hash = r.cfg, !.source = r.cfg,
                   !.push = "pushing"]], "acquire")
  /\ UNCHANGED <<slot, Baseten, edits>>

(* The status announces the push before it starts. *)
MarkPushing(cr) ==
  LET r == rec[cr] IN
  /\ r.pc = "mark"
  /\ Update(cr, [r EXCEPT !.st = [r.st EXCEPT !.hash = r.cfg, !.source = r.cfg,
                   !.push = "pushing", !.time = "recent"]], "acquire")
  /\ UNCHANGED <<slot, Baseten, edits>>

(* A free slot of the semaphore is taken and the goroutine started. *)
Launch(cr) ==
  LET r == rec[cr] IN
  /\ r.pc = "acquire"
  /\ \E s \in Slots :
       /\ slot[s].pc = "free"
       /\ slot' = [slot EXCEPT ![s] = [pc |-> "push", cr |-> cr,
                                       cfg |-> r.cfg, age |-> "recent"]]
  /\ rec' = [rec EXCEPT ![cr] = Go(r, "log")]
  /\ UNCHANGED <<api, cache, Baseten, edits, faults>>

SemaphoreFull(cr) ==
  /\ rec[cr].pc = "acquire"
  /\ \A s \in Slots : slot[s].pc # "free"
  /\ rec' = [rec EXCEPT ![cr] = Go(@, "reset")]
  /\ UNCHANGED <<api, cache, slot, Baseten, edits, faults>>

(* No capacity: the announced push is taken back, the hash is kept. *)
ResetFull(cr) ==
  LET r == rec[cr] IN
  /\ r.pc = "reset"
  /\ Update(cr, [r EXCEPT !.st.push = "none", !.st.source = None], "log")
  /\ UNCHANGED <<slot, Baseten, edits>>

(* logUpdateStatus before a reconcile returns: an update of the status, or *)
(* none when the message did not change.                                   *)
LogStatus(cr) ==
  LET r == rec[cr] IN
  /\ r.pc = "log"
  /\ \/ Update(cr, r, "idle")
     \/ /\ rec' = [rec EXCEPT ![cr] = Idle]
        /\ UNCHANGED <<api, cache, faults>>
  /\ UNCHANGED <<slot, Baseten, edits>>
-----------------------------------------------------------------------------
(* PushFromConfig takes effect at Baseten: it creates the model if need be *)
(* and one more deployment of that name.                                   *)
Create(c) ==
  /\ modelExists' = TRUE
  /\ created' = [created EXCEPT ![c] = IF @ = 2 THEN 2 ELSE @ + 1]

PushSucceeds(s) ==
  /\ slot[s].pc = "push"
  /\ Create(slot[s].cfg)
  /\ slot' = [slot EXCEPT ![s].pc = "writeDone"]
  /\ UNCHANGED <<api, cache, rec, edits, faults>>

(* Mutant: the error of PushFromConfig is dropped. *)
PushFails_Unnoticed(s) ==
  /\ slot[s].pc = "push"
  /\ Fault
  /\ slot' = [slot EXCEPT ![s].pc = "writeDone"]
  /\ Create(slot[s].cfg) \/ UNCHANGED Baseten
  /\ UNCHANGED <<api, cache, rec, edits>>

(* The push fails or times out, before or after Baseten acted on it. *)
PushFails(s) ==
  /\ slot[s].pc = "push"
  /\ Fault
  /\ slot' = [slot EXCEPT ![s].pc = "writeFailed"]
  /\ Create(slot[s].cfg) \/ UNCHANGED Baseten
  /\ UNCHANGED <<api, cache, rec, edits>>

(* The goroutine reads the CR from the cache, changes the status and       *)
(* updates it; a conflict is retried, so the write lands on a fresh copy.  *)
WriteBack(s, pc, st) ==
  LET cr == slot[s].cr IN
  /\ slot[s].pc = pc
  /\ cache[cr].fresh
  /\ api' = [api EXCEPT ![cr].st = st]
  /\ cache' = Stale(cache, cr) /\ rec' = Stale(rec, cr)
  /\ slot' = [slot EXCEPT ![s] = Free]
  /\ UNCHANGED <<Baseten, edits, faults>>

UpdatePushStatus(s) ==
  WriteBack(s, "writeDone",
    [ClearPushFailure(cache[slot[s].cr].st) EXCEPT !.push = "done", !.time = "none"])

(* Mutant: the goroutine first waits to see its push announced. *)
RecordPushFailure_Waits(s) ==
  /\ slot[s].pc = "writeFailed"
  /\ cache[slot[s].cr].st.push = "pushing"
  /\ WriteBack(s, "writeFailed",
       [cache[slot[s].cr].st EXCEPT !.push = "failed", !.time = "none",
                                    !.retry = "waiting"])

RecordPushFailure(s) ==
  WriteBack(s, "writeFailed",
    [cache[slot[s].cr].st EXCEPT !.push = "failed", !.time = "none",
                                 !.retry = "waiting"])

(* The five attempts of RetryOnConflict all read a stale cache, or the     *)
(* update fails: the outcome is logged and lost.                           *)
LoseWriteBack(s) ==
  /\ slot[s].pc \in {"writeDone", "writeFailed"}
  /\ IF cache[slot[s].cr].fresh THEN Fault ELSE UNCHANGED faults
  /\ slot' = [slot EXCEPT ![s] = Free]
  /\ UNCHANGED <<api, cache, rec, Baseten, edits>>
-----------------------------------------------------------------------------
AgeOf(t) == IF t = "recent" THEN "old" ELSE t

(* Five minutes pass.  A goroutine's context ends after five minutes and   *)
(* its write ten seconds later, so it sees at most one such step.          *)
Age(cr) ==
  /\ \A s \in Slots : slot[s].cr = cr => slot[s].age = "recent"
  /\ api' = [api EXCEPT ![cr].st.time = AgeOf(@)]
  /\ cache' = [cache EXCEPT ![cr].st.time = AgeOf(@)]
  /\ rec' = [rec EXCEPT ![cr].st.time = AgeOf(@)]
  /\ slot' = [s \in Slots |-> IF slot[s].cr = cr
                              THEN [slot[s] EXCEPT !.age = "old"] ELSE slot[s]]
  /\ UNCHANGED <<Baseten, edits, faults>>

ElapseOf(t) == IF t = "waiting" THEN "elapsed" ELSE t

(* The backoff of a failed push ends. *)
Elapse(cr) ==
  /\ api' = [api EXCEPT ![cr].st.retry = ElapseOf(@)]
  /\ cache' = [cache EXCEPT ![cr].st.retry = ElapseOf(@)]
  /\ rec' = [rec EXCEPT ![cr].st.retry = ElapseOf(@)]
  /\ UNCHANGED <<slot, Baseten, edits, faults>>

(* The operator's pod dies; its successor starts with a synced cache. *)
Crash ==
  /\ Fault
  /\ rec' = [cr \in CRs |-> Idle]
  /\ slot' = [s \in Slots |-> Free]
  /\ cache' = [cr \in CRs |-> [cfg |-> api[cr].cfg, st |-> api[cr].st,
                               fresh |-> TRUE]]
  /\ UNCHANGED <<api, Baseten, edits>>
-----------------------------------------------------------------------------
Reconcile(cr) ==
  \/ Start(cr) \/ Resolve(cr) \/ Find(cr) \/ SaveFound(cr) \/ ClearStale(cr)
  \/ MarkPushing(cr) \/ Launch(cr) \/ SemaphoreFull(cr) \/ ResetFull(cr)
  \/ LogStatus(cr)

AsyncPush(s) ==
  \/ PushSucceeds(s) \/ PushFails(s)
  \/ UpdatePushStatus(s) \/ RecordPushFailure(s) \/ LoseWriteBack(s)

Next ==
  \/ \E cr \in CRs : \/ Reconcile(cr) \/ Abort(cr) \/ Deliver(cr)
                     \/ Age(cr) \/ Elapse(cr)
                     \/ \E c \in Configs : Edit(cr, c)
  \/ \E s \in Slots : AsyncPush(s)
  \/ Crash

(* Workers, informers, goroutines and clocks keep running; users and       *)
(* faults owe nothing.                                                     *)
Fairness ==
  /\ \A cr \in CRs : /\ WF_vars(Reconcile(cr)) /\ WF_vars(Deliver(cr))
                     /\ WF_vars(Age(cr)) /\ WF_vars(Elapse(cr))
  /\ \A s \in Slots : WF_vars(AsyncPush(s))

Spec == Init /\ [][Next]_vars /\ Fairness
-----------------------------------------------------------------------------
(* The types of all variables. *)
TypeOK ==
  /\ api \in [CRs -> [cfg : Configs, st : Status]]
  /\ cache \in [CRs -> [cfg : Configs, st : Status, fresh : BOOLEAN]]
  /\ rec \in [CRs -> Worker]
  /\ slot \in [Slots -> Goroutine]
  /\ modelExists \in BOOLEAN
  /\ created \in [Configs -> 0..2]
  /\ edits \in 0..MaxEdits /\ faults \in 0..MaxFaults

(* A status that waits for something carries the clock that ends the wait: *)
(* a push in flight can go stale and names its deployment, a failed push   *)
(* has a retry time, a finished one has no backoff left over.              *)
Clocked(st) ==
  /\ st.push = "pushing" => st.time # "none" /\ st.source # None
  /\ st.push = "failed" => st.time = "none" /\ st.retry # "none"
  /\ st.push = "done" => st.retry = "none"

(* Whatever writes of reconciles and goroutines were lost, rejected or     *)
(* interleaved, the stored status is one the operator can leave: without   *)
(* its clock a push in flight would be waited on for ever.                 *)
Recoverable == \A cr \in CRs : Clocked(api[cr].st)

(* TRUSS_PUSH_DONE under the hash of the spec: the fast path of Resolve.   *)
Done(cr) == api[cr].st.push = "done" /\ api[cr].st.hash = api[cr].cfg

(* "TRUSS_PUSH_DONE (deployment created)" (basetenmodel_types.go): as long *)
(* as no config was edited, the status the fast path trusts is true of     *)
(* Baseten.  After an edit it need not be (see FalseDone).                 *)
DoneMeansCreated ==
  edits = 0 => \A cr \in CRs : Done(cr) => created[api[cr].cfg] > 0

FalseDone(cr) == Done(cr) /\ created[api[cr].cfg] = 0

(* Once a spec stays put, its deployment is created, or the CR has been    *)
(* told so falsely by the push of an older config.  No other combination   *)
(* of lost writes, failures, crashes and lack of capacity stops a push.    *)
CreatedOrFalseDone ==
  \A cr \in CRs : []<>(created[api[cr].cfg] > 0 \/ FalseDone(cr))

(* "a new hash triggers a new truss push" (basetenmodel_types.go): the     *)
(* deployment a spec asks for is created in the end.                       *)
DesiredCreated == \A cr \in CRs : []<>(created[api[cr].cfg] > 0)

Settled(cr) ==
  /\ Done(cr) /\ created[api[cr].cfg] > 0
  /\ cache[cr].fresh /\ rec[cr].pc = "idle"
  /\ \A s \in Slots : slot[s].cr # cr

(* A config rolled out is not pushed again while the spec stays, across    *)
(* restarts, clock ticks and the pushes of other CRs.                      *)
SettledIsStable ==
  \A cr \in CRs :
    [](Settled(cr) /\ edits = MaxEdits => [](\A s \in Slots : slot[s].cr # cr))

(* A push gives its slot back, however it ends. *)
SlotsReleased == \A s \in Slots : slot[s].pc # "free" ~> slot[s].pc = "free"
=============================================================================
