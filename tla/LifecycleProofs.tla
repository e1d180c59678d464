-------------------------- MODULE LifecycleProofs --------------------------
(***************************************************************************)
(* Proofs about Lifecycle, for any CRs, modes, policies and bounds.        *)
(*                                                                         *)
(* A worker that calls DeleteModel decided on a local copy that may be     *)
(* long outdated, and every status write puts such a copy on the server.   *)
(* So the invariant says of every copy of a CR that it can only show a     *)
(* termination under a deleting spec if there was one lately, and of every *)
(* worker on its way to DeleteModel that its CR went through that.  A      *)
(* reconcile that begins on the latest version starts the history anew;    *)
(* all copies are then the same, because a current cache shows what is     *)
(* stored, which is part of the invariant for that.                        *)
(***************************************************************************)
EXTENDS Lifecycle, TLAPS

(* A copy of a CR tells the truth about a deletion that deletes the model, *)
(* a being armed[cr].                                                      *)
Armed(o, a) == Dooms(o) => a

DeletesNext(r) == r.pc \in {"guardrails", "delete"} \/ r.then = "delete"

CopiesArmed ==
  \A cr \in CRs : /\ Armed(api[cr], armed[cr])
                  /\ Armed(cache[cr].o, armed[cr]) /\ Armed(rec[cr].o, armed[cr])

WorkersArmed == \A cr \in CRs : DeletesNext(rec[cr]) => armed[cr]

CacheTrue == \A cr \in CRs : cache[cr].fresh => cache[cr].o = api[cr]

IInv == TypeOK /\ CacheTrue /\ CopiesArmed /\ WorkersArmed

(* A worker that may be put in the place of the worker of a CR. *)
Sound(r, a) == r \in Worker /\ Armed(r.o, a) /\ (DeletesNext(r) => a)

LEMMA IdleSound == \A a : Sound(Idle, a)
BY BoundsAssumption
DEF Sound, Worker, Idle, Nothing, Object, IDs, AllModes, AllPolicies, Armed, Dooms,
    DeletesNext

(* A worker that begins on the copy o. *)
Begun(o, b) == [Idle EXCEPT !.o = o, !.fresh = b]

LEMMA BeginTyped ==
  ASSUME NEW o \in Object, NEW b \in BOOLEAN
  PROVE  LET r == Begun(o, b) IN r \in Worker /\ r.o = o /\ r.then = "idle" /\ r.pc = "idle"
<1>1. Idle \in Worker
  BY IdleSound DEF Sound
<1> QED BY <1>1 DEF Worker, Idle, Begun

LEMMA InitIInv == Init => IInv
<1> SUFFICES ASSUME Init PROVE IInv
  OBVIOUS
<1>1. PICK m \in [CRs -> Modes], p \in [CRs -> Policies] :
        LET object(cr) == [life |-> "alive", fin |-> FALSE, mode |-> m[cr],
                           policy |-> p[cr], id |-> 0, resolved |-> FALSE,
                           done |-> FALSE] IN
        /\ api = [cr \in CRs |-> object(cr)]
        /\ cache = [cr \in CRs |-> [o |-> object(cr), fresh |-> TRUE]]
  BY DEF Init
<1>2. /\ api \in [CRs -> Object]
      /\ \A cr \in CRs : api[cr].life = "alive" /\ cache[cr].o.life = "alive"
  BY <1>1, SpecAssumption, BoundsAssumption DEF Object, IDs
<1>3. cache \in [CRs -> [o : Object, fresh : BOOLEAN]]
  BY <1>1, SpecAssumption, BoundsAssumption DEF Object, IDs
<1>4. /\ used \in IDs /\ model \in {0, used} /\ deployed \subseteq CRs
      /\ busy \in BOOLEAN /\ queued \in [CRs -> BOOLEAN] /\ armed \in [CRs -> BOOLEAN]
      /\ push \in [CRs -> Goroutine]
      /\ edits \in 0..MaxEdits /\ faults \in 0..MaxFaults
  <2>1. used \in IDs /\ model \in {0, used}
    BY BoundsAssumption DEF Init, IDs
  <2>2. deployed \subseteq CRs /\ busy \in BOOLEAN
    BY DEF Init
  <2>3. push \in [CRs -> Goroutine]
    BY BoundsAssumption DEF Init, IDs, Goroutine, Free
  <2>4. edits \in 0..MaxEdits /\ faults \in 0..MaxFaults
    BY BoundsAssumption DEF Init
  <2> QED BY <2>1, <2>2, <2>3, <2>4 DEF Init
<1>5. rec = [cr \in CRs |-> Idle]
  BY DEF Init
<1>6. TypeOK
  BY <1>2, <1>3, <1>4, <1>5, IdleSound DEF TypeOK, Sound
<1>7. CopiesArmed /\ WorkersArmed
  BY <1>2, <1>5, IdleSound DEF CopiesArmed, WorkersArmed, Armed, Dooms, Sound
<1>8. CacheTrue
  BY <1>1 DEF CacheTrue
<1> QED BY <1>6, <1>7, <1>8 DEF IInv

(* IInv, CR by CR. *)
LEMMA IInvOf ==
  ASSUME IInv, NEW cr \in CRs
  PROVE  /\ Sound(rec[cr], armed[cr])
         /\ api[cr] \in Object /\ Armed(api[cr], armed[cr])
         /\ cache[cr].o \in Object /\ Armed(cache[cr].o, armed[cr])
         /\ cache[cr].fresh \in BOOLEAN
         /\ model \in IDs /\ faults \in 0..MaxFaults
BY BoundsAssumption DEF IInv, TypeOK, CopiesArmed, WorkersArmed, Sound, IDs

LEMMA FaultBounded == ASSUME IInv, Fault PROVE faults' \in 0..MaxFaults
BY BoundsAssumption DEF IInv, TypeOK, Fault

(* The part of TypeOK about Baseten and the push goroutines. *)
BasetenOK ==
  /\ used \in IDs /\ model \in {0, used} /\ deployed \subseteq CRs
  /\ busy \in BOOLEAN /\ push \in [CRs -> Goroutine]

LEMMA SameBaseten ==
  ASSUME IInv, UNCHANGED <<push, Baseten>> PROVE BasetenOK'
BY DEF IInv, TypeOK, BasetenOK, Baseten

(* A local copy is no longer the latest version. *)
LEMMA StaleTyped ==
  ASSUME rec \in [CRs -> Worker], NEW cr \in CRs
  PROVE  Stale(rec, cr) \in [CRs -> Worker]
<1>1. [rec[cr] EXCEPT !.fresh = FALSE] \in Worker
  BY DEF Worker
<1>2. Stale(rec, cr) = [rec EXCEPT ![cr] = [rec[cr] EXCEPT !.fresh = FALSE]]
  BY DEF Stale
<1> QED BY <1>1, <1>2

(* A step that moves one worker, and Baseten perhaps. *)
LEMMA WorkerStep ==
  ASSUME IInv, NEW cr \in CRs, NEW r, Sound(r, armed[cr]),
         rec' = [rec EXCEPT ![cr] = r], faults' \in 0..MaxFaults,
         queued' \in [CRs -> BOOLEAN], BasetenOK',
         UNCHANGED <<api, cache, armed, edits>>
  PROVE  IInv'
<1>1. TypeOK'
  BY DEF IInv, TypeOK, Sound, BasetenOK
<1>2. CopiesArmed' /\ WorkersArmed'
  BY DEF IInv, TypeOK, CopiesArmed, WorkersArmed, Armed, Sound
<1> QED BY <1>1, <1>2 DEF IInv, CacheTrue

(* An update of the API server by a worker. *)
LEMMA SaveStep ==
  ASSUME IInv, NEW cr \in CRs, NEW r, NEW o \in Object, Armed(o, armed[cr]),
         NEW ok, Sound(ok, armed[cr]), NEW failed, Sound(failed, armed[cr]),
         Save(cr, r, o, ok, failed),
         queued' \in [CRs -> BOOLEAN], BasetenOK', UNCHANGED <<armed, edits>>
  PROVE  IInv'
<1>1. CASE /\ api' = [api EXCEPT ![cr] = o] /\ cache' = Stale(cache, cr)
           /\ rec' = [rec EXCEPT ![cr] = ok] /\ UNCHANGED faults
  <2>1. TypeOK'
    BY <1>1 DEF IInv, TypeOK, Sound, Stale, BasetenOK
  <2>2. CopiesArmed' /\ WorkersArmed'
    BY <1>1 DEF IInv, TypeOK, CopiesArmed, WorkersArmed, Armed, Sound, Stale
  <2>3. CacheTrue'
    BY <1>1 DEF IInv, TypeOK, CacheTrue, Stale
  <2> QED BY <2>1, <2>2, <2>3 DEF IInv
<1>2. CASE /\ IF r.fresh THEN Fault ELSE UNCHANGED faults
           /\ rec' = [rec EXCEPT ![cr] = failed] /\ UNCHANGED <<api, cache>>
  <2>1. faults' \in 0..MaxFaults
    BY <1>2, FaultBounded DEF IInv, TypeOK
  <2> QED BY <1>2, <2>1, WorkerStep
<1> QED BY <1>1, <1>2 DEF Save

LEMMA RequeueTyped ==
  ASSUME IInv, NEW cr \in CRs, NEW again \in BOOLEAN, Requeue(cr, again)
  PROVE  queued' \in [CRs -> BOOLEAN]
BY DEF IInv, TypeOK, Requeue

(* What a worker may be turned into: it goes on, or logs. *)
LEMMA GoSound ==
  ASSUME NEW a, NEW r, Sound(r, a),
         NEW pc \in {"idle", "log", "addFinalizer", "release", "observe", "resolve",
                     "done", "launch", "environment", "invalidate"}
  PROVE  Sound(Go(r, pc), a)
BY IdleSound DEF Sound, Worker, Go, DeletesNext

LEMMA LogSound ==
  ASSUME NEW a, NEW r, Sound(r, a), NEW id \in IDs,
         NEW then \in {"idle", "delete", "invalidate"}, then = "delete" => a
  PROVE  Sound(Log(r, id, then), a)
BY DEF Sound, Worker, Log, DeletesNext

LEMMA DispatchSound ==
  ASSUME NEW a, NEW r, Sound(r, a) PROVE Sound(Dispatch(r), a)
<1>1. r.o \in Object /\ r.o.id \in IDs /\ 0 \in IDs
  BY BoundsAssumption DEF Sound, Worker, Object, IDs
<1>2. ASSUME r.o.life = "terminating" PROVE Sound(Deletion(r), a)
  <2>1. Deletes(r.o) => a
    BY <1>2 DEF Sound, Armed, Dooms
  <2>2. Deletes(r.o) => Sound(Log(r, r.o.id, "delete"), a)
    BY <1>1, <2>1, LogSound
  <2>3. Deletes(r.o) => Sound(Go(r, "guardrails"), a)
    BY <2>1 DEF Sound, Worker, Go, DeletesNext
  <2>4. Sound(Idle, a) /\ Sound(Go(r, "release"), a)
    BY IdleSound, GoSound
  <2>5. ~r.o.fin \/ ~Deletes(r.o) \/ r.o.id = 0 \/ Deletes(r.o)
    OBVIOUS
  <2> QED BY <1>1, <2>2, <2>3, <2>4, <2>5 DEF Deletion, Object
<1>3. /\ Sound(Idle, a) /\ Sound(Log(r, 0, "idle"), a)
      /\ Sound(Go(r, "addFinalizer"), a) /\ Sound(Go(r, "observe"), a)
      /\ Sound(Go(r, "resolve"), a)
  BY <1>1, IdleSound, GoSound, LogSound
<1> QED BY <1>1, <1>2, <1>3 DEF Dispatch, Object

(* A reconcile begins: what the history says of the version it begins on   *)
(* is what all copies show, if that is the latest.                         *)
LEMMA StartIInv == ASSUME IInv, NEW cr \in CRs, Start(cr) PROVE IInv'
<1> DEFINE o == cache[cr].o
           n == Dispatch(Begun(o, cache[cr].fresh))
           a == IF cache[cr].fresh THEN Dooms(o) ELSE armed[cr]
<1>1. /\ o \in Object /\ cache[cr].fresh \in BOOLEAN /\ Armed(o, armed[cr])
      /\ armed \in [CRs -> BOOLEAN] /\ rec \in [CRs -> Worker]
  BY IInvOf DEF IInv, TypeOK
<1>2. /\ rec' = [rec EXCEPT ![cr] = n] /\ armed' = [armed EXCEPT ![cr] = a]
      /\ queued' = [queued EXCEPT ![cr] = FALSE]
      /\ UNCHANGED <<api, cache, push, model, used, deployed, busy, edits, faults>>
  BY DEF Start, Local, Baseten, Begun
<1>3. a \in BOOLEAN /\ Armed(o, a)
  BY <1>1 DEF Armed, Dooms, Deletes, Claims
<1>4. Sound(Begun(o, cache[cr].fresh), a)
  BY <1>1, <1>3, BeginTyped DEF Sound, DeletesNext
<1>5. Sound(n, a)
  BY <1>4, DispatchSound
<1>6. Armed(api[cr], a)
  BY <1>1, <1>3, IInvOf DEF IInv, CacheTrue
<1> HIDE DEF n, a
<1>7. TypeOK'
  BY <1>2, <1>3, <1>5 DEF IInv, TypeOK, Sound
<1>8. CopiesArmed' /\ WorkersArmed'
  BY <1>1, <1>2, <1>3, <1>5, <1>6 DEF IInv, CopiesArmed, WorkersArmed, Armed, Sound
<1>9. CacheTrue'
  BY <1>2 DEF IInv, CacheTrue
<1> QED BY <1>7, <1>8, <1>9 DEF IInv

(* The steps of a worker that leave the server alone. *)
LEMMA ThinkIInv ==
  ASSUME IInv, NEW cr \in CRs,
         \/ CheckGuardrails(cr) \/ DeleteModel(cr) \/ Observe(cr)
         \/ ResolveModelID(cr) \/ ReconcileTruss(cr) \/ ReconcileEnvironment(cr)
  PROVE  IInv'
<1> DEFINE r == rec[cr]
<1>1. /\ Sound(r, armed[cr]) /\ cache[cr].o \in Object /\ Armed(cache[cr].o, armed[cr])
      /\ cache[cr].fresh \in BOOLEAN /\ model \in IDs /\ 0 \in IDs
      /\ faults \in 0..MaxFaults /\ queued \in [CRs -> BOOLEAN]
  BY IInvOf, BoundsAssumption DEF IInv, TypeOK, IDs
<1>2. r.id \in IDs /\ r.o.id \in IDs
  BY <1>1 DEF Sound, Worker, Object
<1>3. \A id \in IDs, then \in {"idle", "invalidate"} : Sound(Log(r, id, then), armed[cr])
  BY <1>1, LogSound
<1>5. CASE CheckGuardrails(cr)
  <2>1. armed[cr]
    BY <1>1, <1>5 DEF CheckGuardrails, Sound, DeletesNext
  <2>2. Sound(Log(r, r.o.id, "idle"), armed[cr]) /\ Sound(Log(r, r.o.id, "delete"), armed[cr])
    BY <1>1, <1>2, <2>1, LogSound
  <2>3. BasetenOK' /\ faults' \in 0..MaxFaults
    BY <1>1, <1>5, SameBaseten, FaultBounded DEF CheckGuardrails
  <2> QED BY <1>1, <1>5, <2>2, <2>3, WorkerStep DEF CheckGuardrails, Local
<1>6. CASE DeleteModel(cr)
  <2>1. BasetenOK'
    BY <1>6 DEF DeleteModel, ModelGone, BasetenOK, Baseten, IInv, TypeOK
  <2>2. Sound(Go(r, "release"), armed[cr]) /\ Sound(Log(r, r.o.id, "idle"), armed[cr])
    BY <1>1, <1>2, <1>3, GoSound
  <2>3. faults' \in 0..MaxFaults
    BY <1>1, <1>6, FaultBounded DEF DeleteModel
  <2> QED BY <1>1, <1>6, <2>1, <2>2, <2>3, WorkerStep DEF DeleteModel, Local
<1>7. CASE Observe(cr)
  <2>1. BasetenOK' /\ faults' \in 0..MaxFaults
    BY <1>1, <1>7, SameBaseten, FaultBounded DEF Observe
  <2> QED BY <1>1, <1>2, <1>3, <1>7, <2>1, WorkerStep DEF Observe, Local
<1>8. CASE ResolveModelID(cr)
  <2>1. BasetenOK' /\ faults' \in 0..MaxFaults
    BY <1>1, <1>8, SameBaseten, FaultBounded DEF ResolveModelID
  <2>2. \A id \in IDs, pc \in {"truss", "launch"} :
          Sound([r EXCEPT !.pc = pc, !.id = id], armed[cr])
    BY <1>1 DEF Sound, Worker, DeletesNext
  <2> QED BY <1>1, <1>2, <1>3, <1>8, <2>1, <2>2, WorkerStep DEF ResolveModelID, Local
<1>9. CASE ReconcileTruss(cr)
  <2>1. BasetenOK'
    BY <1>9, SameBaseten DEF ReconcileTruss
  <2>2. /\ Sound(Go(r, "environment"), armed[cr]) /\ Sound(Go(r, "done"), armed[cr])
        /\ Sound(Go(r, "launch"), armed[cr])
    BY <1>1, GoSound
  <2> QED BY <1>1, <1>2, <1>3, <1>9, <2>1, <2>2, WorkerStep DEF ReconcileTruss, Local
<1>10. CASE ReconcileEnvironment(cr)
  <2>1. BasetenOK'
    BY <1>10, SameBaseten DEF ReconcileEnvironment
  <2> QED BY <1>1, <1>2, <1>3, <1>10, <2>1, WorkerStep DEF ReconcileEnvironment, Local
<1> QED BY <1>5, <1>6, <1>7, <1>8, <1>9, <1>10

(* The steps of a worker that update the CR: what they store comes from    *)
(* the local copy, or adds to or takes from the server's.                  *)
LEMMA SaveIInv ==
  ASSUME IInv, NEW cr \in CRs,
         \/ AddFinalizer(cr) \/ LogStatus(cr) \/ ReleaseFinalizer(cr)
         \/ SaveDone(cr) \/ Launch(cr) \/ InvalidateModelID(cr)
  PROVE  IInv'
<1> DEFINE r == rec[cr]
<1>1. /\ Sound(r, armed[cr]) /\ Sound(Idle, armed[cr]) /\ api[cr] \in Object /\ Armed(api[cr], armed[cr])
      /\ 0 \in IDs /\ queued \in [CRs -> BOOLEAN] /\ faults \in 0..MaxFaults
  BY IInvOf, IdleSound, BoundsAssumption DEF IInv, TypeOK, IDs
<1>2. r \in Worker /\ r.o \in Object /\ r.id \in IDs /\ Armed(r.o, armed[cr])
  BY <1>1 DEF Sound, Worker
<1>3. CASE AddFinalizer(cr)
  <2> DEFINE o == [api[cr] EXCEPT !.fin = TRUE]
  <2>1. o \in Object /\ Armed(o, armed[cr])
    BY <1>1 DEF Object, Armed, Dooms, Deletes, Claims
  <2>2. BasetenOK' /\ queued' \in [CRs -> BOOLEAN]
    BY <1>3, SameBaseten, RequeueTyped DEF AddFinalizer
  <2> QED BY <1>1, <1>3, <2>1, <2>2, SaveStep DEF AddFinalizer
<1>4. CASE LogStatus(cr)
  <2> DEFINE o == IF r.id = 0 THEN r.o ELSE [r.o EXCEPT !.id = r.id, !.resolved = TRUE]
             next == Go([r EXCEPT !.o = o], r.then)
  <2>1. o \in Object /\ Armed(o, armed[cr])
    BY <1>2 DEF Object, Armed, Dooms, Deletes, Claims
  <2>2. Sound([r EXCEPT !.o = o], armed[cr])
    BY <1>1, <2>1 DEF Sound, Worker, DeletesNext
  <2>3. Sound(next, armed[cr])
    <3>1. CASE r.then = "delete"
      BY <2>2, <3>1 DEF Sound, Worker, Go, DeletesNext
    <3>2. CASE r.then \in {"idle", "invalidate"}
      BY <2>2, <3>2, GoSound
    <3> QED BY <1>2, <3>1, <3>2 DEF Worker
  <2>4. BasetenOK' /\ queued' \in [CRs -> BOOLEAN]
    BY <1>4, SameBaseten, RequeueTyped DEF LogStatus
  <2>5. \/ Save(cr, r, o, next, next)
        \/ rec' = [rec EXCEPT ![cr] = next] /\ UNCHANGED <<api, cache, faults>>
    BY <1>4 DEF LogStatus, Local
  <2>6. UNCHANGED <<armed, edits>>
    BY <1>4 DEF LogStatus
  <2> HIDE DEF o, next
  <2>7. CASE Save(cr, r, o, next, next)
    BY <2>1, <2>3, <2>4, <2>6, <2>7, SaveStep
  <2>8. CASE rec' = [rec EXCEPT ![cr] = next] /\ UNCHANGED <<api, cache, faults>>
    BY <1>1, <2>3, <2>4, <2>6, <2>8, WorkerStep
  <2> QED BY <2>5, <2>7, <2>8
<1>5. CASE ReleaseFinalizer(cr)
  <2> DEFINE o == [api[cr] EXCEPT !.fin = FALSE, !.life = "gone"]
  <2>1. o \in Object /\ Armed(o, armed[cr])
    BY <1>1 DEF Object, Armed, Dooms
  <2>2. BasetenOK' /\ queued' \in [CRs -> BOOLEAN]
    BY <1>5, SameBaseten, RequeueTyped DEF ReleaseFinalizer
  <2> QED BY <1>1, <1>5, <2>1, <2>2, SaveStep DEF ReleaseFinalizer
<1>6. CASE SaveDone(cr)
  <2> DEFINE o == [r.o EXCEPT !.done = TRUE]
             next == [r EXCEPT !.pc = "environment", !.o = o]
  <2>1. o \in Object /\ Armed(o, armed[cr])
    BY <1>2 DEF Object, Armed, Dooms, Deletes, Claims
  <2>2. Sound(next, armed[cr])
    BY <1>1, <2>1 DEF Sound, Worker, DeletesNext
  <2>3. BasetenOK' /\ queued' \in [CRs -> BOOLEAN]
    BY <1>1, <1>6, SameBaseten DEF SaveDone
  <2>4. Save(cr, r, o, next, next) /\ UNCHANGED <<armed, edits>>
    BY <1>6 DEF SaveDone
  <2> HIDE DEF o, next
  <2> QED BY <2>1, <2>2, <2>3, <2>4, SaveStep
<1>7. CASE Launch(cr)
  <2> DEFINE o == [r.o EXCEPT !.done = FALSE]
             next == Log([r EXCEPT !.o = o], r.id, "idle")
  <2>1. o \in Object /\ Armed(o, armed[cr])
    BY <1>2 DEF Object, Armed, Dooms, Deletes, Claims
  <2>2. Sound([r EXCEPT !.o = o], armed[cr])
    BY <1>1, <2>1 DEF Sound, Worker, DeletesNext
  <2>3. Sound(next, armed[cr]) /\ Sound(Log(r, r.id, "idle"), armed[cr])
    BY <1>1, <1>2, <2>2, LogSound
  <2>4. push' \in [CRs -> Goroutine] /\ queued' \in [CRs -> BOOLEAN]
    <3>1. push \in [CRs -> Goroutine]
      BY DEF IInv, TypeOK
    <3>2. [pc |-> "push", id |-> 0, first |-> r.id = 0] \in Goroutine
      BY <1>1 DEF Goroutine
    <3>3. \/ push' = push
          \/ push' = [push EXCEPT ![cr] = [pc |-> "push", id |-> 0, first |-> r.id = 0]]
      BY <1>7 DEF Launch
    <3> HIDE DEF r
    <3>4. push' \in [CRs -> Goroutine]
      BY <3>1, <3>2, <3>3
    <3> QED BY <1>1, <1>7, <3>4 DEF Launch
  <2>5. BasetenOK'
    BY <1>7, <2>4 DEF Launch, BasetenOK, IInv, TypeOK, Baseten
  <2>6. \/ Save(cr, r, o, next, next)
        \/ rec' = [rec EXCEPT ![cr] = Log(r, r.id, "idle")]
           /\ UNCHANGED <<api, cache, faults>>
    BY <1>7 DEF Launch, Local
  <2>7. UNCHANGED <<armed, edits>>
    BY <1>7 DEF Launch
  <2> HIDE DEF o, next
  <2>8. CASE Save(cr, r, o, next, next)
    BY <2>1, <2>3, <2>4, <2>5, <2>7, <2>8, SaveStep
  <2>9. CASE /\ rec' = [rec EXCEPT ![cr] = Log(r, r.id, "idle")]
             /\ UNCHANGED <<api, cache, faults>>
    BY <1>1, <2>3, <2>4, <2>5, <2>7, <2>9, WorkerStep
  <2> QED BY <2>6, <2>8, <2>9
<1>8. CASE InvalidateModelID(cr)
  <2> DEFINE o == [r.o EXCEPT !.id = 0]
  <2>1. o \in Object /\ Armed(o, armed[cr])
    BY <1>1, <1>2 DEF Object, Armed, Dooms, Deletes, Claims
  <2>2. BasetenOK' /\ queued' \in [CRs -> BOOLEAN]
    BY <1>8, SameBaseten, RequeueTyped DEF InvalidateModelID
  <2> QED BY <1>1, <1>8, <2>1, <2>2, SaveStep DEF InvalidateModelID
<1> QED BY <1>3, <1>4, <1>5, <1>6, <1>7, <1>8

(* The goroutine of a push, and Baseten's own steps. *)
LEMMA BasetenStep ==
  ASSUME IInv, BasetenOK', faults' \in 0..MaxFaults, edits' \in 0..MaxEdits,
         UNCHANGED <<api, cache, queued, rec, armed>>
  PROVE  IInv'
BY DEF IInv, TypeOK, BasetenOK, CacheTrue, CopiesArmed, WorkersArmed, Armed

LEMMA AsyncPushIInv ==
  ASSUME IInv, NEW cr \in CRs, AsyncPush(cr) PROVE IInv'
<1>1. /\ push[cr] \in Goroutine /\ push \in [CRs -> Goroutine]
      /\ faults \in 0..MaxFaults /\ edits \in 0..MaxEdits
      /\ used \in IDs /\ model \in {0, used} /\ deployed \subseteq CRs /\ busy \in BOOLEAN
  BY DEF IInv, TypeOK
<1>2. Free \in Goroutine
  BY BoundsAssumption DEF Free, Goroutine, IDs
<1>3. ASSUME Create(cr)
      PROVE  /\ used' \in IDs /\ model' \in {0, used'} /\ model' \in IDs
             /\ deployed' \subseteq CRs /\ busy' \in BOOLEAN
  <2>1. used' \in IDs /\ model' \in {0, used'}
    BY <1>1, <1>3, BoundsAssumption DEF Create, IDs
  <2> QED BY <1>1, <1>3, <2>1, BoundsAssumption DEF Create, IDs
<1>4. CASE PushSucceeds(cr)
  <2>1. push' \in [CRs -> Goroutine]
    <3>1. [push[cr] EXCEPT !.pc = "write", !.id = model'] \in Goroutine
      BY <1>1, <1>3, <1>4 DEF PushSucceeds, Goroutine
    <3>2. push' = [push EXCEPT ![cr] = [push[cr] EXCEPT !.pc = "write", !.id = model']]
      BY <1>1, <1>4 DEF PushSucceeds
    <3> QED BY <1>1, <3>1, <3>2
  <2>2. BasetenOK'
    BY <1>3, <1>4, <2>1 DEF PushSucceeds, BasetenOK
  <2> QED BY <1>1, <1>4, <2>2, BasetenStep DEF PushSucceeds, Local
<1>5. CASE PushFails(cr)
  <2>1. push' \in [CRs -> Goroutine]
    <3>1. [push[cr] EXCEPT !.pc = "fail"] \in Goroutine
      BY <1>1 DEF Goroutine
    <3>2. push' = [push EXCEPT ![cr] = [push[cr] EXCEPT !.pc = "fail"]]
      BY <1>1, <1>5 DEF PushFails
    <3> QED BY <1>1, <3>1, <3>2
  <2>2. BasetenOK'
    BY <1>1, <1>3, <1>5, <2>1 DEF PushFails, BasetenOK, Baseten
  <2> QED BY <1>1, <1>5, <2>2, FaultBounded, BasetenStep DEF PushFails, Local
<1>6. ASSUME NEW o \in Object, Armed(o, armed[cr]), WriteBack(cr, o) PROVE IInv'
  <2>1. push' \in [CRs -> Goroutine]
    BY <1>1, <1>2, <1>6 DEF WriteBack
  <2>2. BasetenOK'
    BY <1>1, <1>6, <2>1 DEF WriteBack, BasetenOK, Baseten
  <2>3. UNCHANGED <<queued, armed, edits>>
    BY <1>6 DEF WriteBack
  <2>4. CASE UNCHANGED <<api, cache, rec>>
    <3>1. faults' \in 0..MaxFaults
      BY <1>1, <1>6, FaultBounded DEF WriteBack
    <3> QED BY <1>1, <2>2, <2>3, <2>4, <3>1, BasetenStep
  <2>5. CASE /\ api' = [api EXCEPT ![cr] = o]
             /\ cache' = [cache EXCEPT ![cr].fresh = FALSE]
             /\ rec' = [rec EXCEPT ![cr].fresh = FALSE] /\ UNCHANGED faults
    <3>1. TypeOK'
      <4>1. rec' \in [CRs -> Worker]
        BY <2>5, StaleTyped DEF IInv, TypeOK, Stale
      <4>2. api' \in [CRs -> Object] /\ cache' \in [CRs -> [o : Object, fresh : BOOLEAN]]
        BY <1>6, <2>5 DEF IInv, TypeOK
      <4> QED BY <2>2, <2>3, <2>5, <4>1, <4>2 DEF IInv, TypeOK, BasetenOK
    <3>2. CopiesArmed' /\ WorkersArmed'
      BY <1>6, <2>3, <2>5
      DEF IInv, TypeOK, CopiesArmed, WorkersArmed, Armed, DeletesNext, Worker
    <3>3. CacheTrue'
      BY <2>5 DEF IInv, TypeOK, CacheTrue
    <3> QED BY <3>1, <3>2, <3>3 DEF IInv
  <2> QED BY <1>6, <2>4, <2>5 DEF WriteBack, Stale
<1>7. cache[cr].o \in Object /\ push[cr].id \in IDs /\ Armed(cache[cr].o, armed[cr])
  BY <1>1, IInvOf DEF Goroutine
<1>8. CASE UpdatePushStatus(cr)
  <2> DEFINE o == [cache[cr].o EXCEPT !.id = push[cr].id, !.resolved = TRUE,
                                      !.done = TRUE]
  <2>1. o \in Object /\ Armed(o, armed[cr])
    BY <1>7 DEF Object, Armed, Dooms, Deletes, Claims
  <2> QED BY <1>6, <1>8, <2>1 DEF UpdatePushStatus
<1>9. CASE RecordPushFailure(cr)
  <2> DEFINE o == [cache[cr].o EXCEPT !.done = FALSE]
  <2>1. o \in Object /\ Armed(o, armed[cr])
    BY <1>7 DEF Object, Armed, Dooms, Deletes, Claims
  <2> QED BY <1>6, <1>9, <2>1 DEF RecordPushFailure
<1> QED BY <1>4, <1>5, <1>8, <1>9 DEF AsyncPush

LEMMA ExternalIInv ==
  ASSUME IInv, ExternalDelete \/ ExternalCreate \/ ScaleUp \/ Drain PROVE IInv'
<1>1. /\ faults \in 0..MaxFaults /\ edits \in 0..MaxEdits /\ push \in [CRs -> Goroutine]
      /\ used \in IDs /\ model \in {0, used} /\ deployed \subseteq CRs /\ busy \in BOOLEAN
  BY DEF IInv, TypeOK
<1>2. CASE ExternalDelete
  <2>1. BasetenOK'
    BY <1>1, <1>2 DEF ExternalDelete, ModelGone, BasetenOK
  <2> QED BY <1>1, <1>2, <2>1, FaultBounded, BasetenStep DEF ExternalDelete, Local
<1>3. CASE ExternalCreate
  <2>1. BasetenOK'
    BY <1>1, <1>3, BoundsAssumption DEF ExternalCreate, BasetenOK, IDs
  <2> QED BY <1>1, <1>3, <2>1, FaultBounded, BasetenStep DEF ExternalCreate, Local
<1>4. CASE ScaleUp
  <2>1. BasetenOK'
    BY <1>1, <1>4 DEF ScaleUp, BasetenOK
  <2>2. edits' \in 0..MaxEdits
    BY <1>1, <1>4, BoundsAssumption DEF ScaleUp
  <2> QED BY <1>1, <1>4, <2>1, <2>2, BasetenStep DEF ScaleUp, Local
<1>5. CASE Drain
  <2>1. BasetenOK'
    BY <1>1, <1>5 DEF Drain, BasetenOK
  <2> QED BY <1>1, <1>5, <2>1, BasetenStep DEF Drain, Local
<1> QED BY <1>2, <1>3, <1>4, <1>5

(* A user's change: the history follows what the server shows. *)
LEMMA ChangeIInv ==
  ASSUME IInv, NEW cr \in CRs, NEW o \in Object, Change(cr, o),
         edits' \in 0..MaxEdits
  PROVE  IInv'
<1>1. \A c \in CRs : armed[c] => armed'[c]
  BY DEF Change, IInv, TypeOK
<1>2. Armed(o, armed'[cr])
  BY DEF Change, Armed, IInv, TypeOK, Dooms, Deletes, Claims
<1>3. /\ api' = [api EXCEPT ![cr] = o] /\ armed' \in [CRs -> BOOLEAN]
      /\ cache' = [cache EXCEPT ![cr].fresh = FALSE]
      /\ rec' = [rec EXCEPT ![cr].fresh = FALSE]
      /\ UNCHANGED <<queued, push, Baseten, faults>>
  BY DEF Change, Stale, IInv, TypeOK, Dooms, Deletes, Claims
<1>4. TypeOK'
  <2>1. rec' \in [CRs -> Worker]
    BY <1>3, StaleTyped DEF IInv, TypeOK, Stale
  <2> QED BY <1>3, <2>1 DEF IInv, TypeOK, Baseten
<1>5. CopiesArmed' /\ WorkersArmed'
  BY <1>1, <1>2, <1>3
  DEF IInv, TypeOK, CopiesArmed, WorkersArmed, Armed, DeletesNext, Worker
<1>6. CacheTrue'
  BY <1>3 DEF IInv, TypeOK, CacheTrue
<1> QED BY <1>4, <1>5, <1>6 DEF IInv

LEMMA UserIInv ==
  ASSUME IInv, NEW cr \in CRs,
         \/ DeleteCR(cr)
         \/ \E m \in Modes : SetMode(cr, m)
         \/ \E p \in Policies : SetPolicy(cr, p)
  PROVE  IInv'
<1>1. api[cr] \in Object /\ edits \in 0..MaxEdits
  BY DEF IInv, TypeOK
<1>2. CASE DeleteCR(cr)
  <2> DEFINE o == [api[cr] EXCEPT !.life = IF @ = "alive" /\ api[cr].fin
                                           THEN "terminating" ELSE "gone"]
  <2>1. o \in Object
    BY <1>1 DEF Object
  <2> QED BY <1>1, <1>2, <2>1, ChangeIInv DEF DeleteCR
<1>3. ASSUME NEW m \in Modes, SetMode(cr, m) PROVE IInv'
  <2>1. [api[cr] EXCEPT !.mode = m] \in Object
    BY <1>1, SpecAssumption DEF Object
  <2>2. edits' \in 0..MaxEdits
    BY <1>1, <1>3, BoundsAssumption DEF SetMode
  <2> QED BY <1>3, <2>1, <2>2, ChangeIInv DEF SetMode
<1>4. ASSUME NEW p \in Policies, SetPolicy(cr, p) PROVE IInv'
  <2>1. [api[cr] EXCEPT !.policy = p] \in Object
    BY <1>1, SpecAssumption DEF Object
  <2>2. edits' \in 0..MaxEdits
    BY <1>1, <1>4, BoundsAssumption DEF SetPolicy
  <2> QED BY <1>4, <2>1, <2>2, ChangeIInv DEF SetPolicy
<1> QED BY <1>2, <1>3, <1>4

LEMMA DeliverIInv == ASSUME IInv, NEW cr \in CRs, Deliver(cr) PROVE IInv'
<1>1. TypeOK'
  BY DEF IInv, TypeOK, Deliver, Baseten
<1>2. CopiesArmed' /\ WorkersArmed'
  BY DEF IInv, TypeOK, CopiesArmed, WorkersArmed, Armed, Deliver
<1>3. CacheTrue'
  BY DEF IInv, TypeOK, CacheTrue, Deliver
<1> QED BY <1>1, <1>2, <1>3 DEF IInv

LEMMA CrashIInv == ASSUME IInv, Crash PROVE IInv'
<1>1. Free \in Goroutine
  BY BoundsAssumption DEF Free, Goroutine, IDs
<1>2. \A cr \in CRs : Sound(Idle, armed[cr])
  BY IdleSound
<1>3. rec' = [cr \in CRs |-> Idle]
  BY DEF Crash
<1>4. TypeOK'
  <2>1. rec' \in [CRs -> Worker]
    BY <1>2, <1>3 DEF Sound
  <2>2. faults' \in 0..MaxFaults
    BY FaultBounded DEF Crash
  <2> QED BY <1>1, <2>1, <2>2 DEF Crash, IInv, TypeOK, Baseten
<1>5. CopiesArmed' /\ WorkersArmed'
  BY <1>2, <1>3
  DEF Crash, IInv, TypeOK, CopiesArmed, WorkersArmed, Armed, Sound
<1>6. CacheTrue'
  BY DEF Crash, CacheTrue
<1> QED BY <1>4, <1>5, <1>6 DEF IInv

LEMMA NextIInv == IInv /\ [Next]_vars => IInv'
<1> SUFFICES ASSUME IInv, [Next]_vars PROVE IInv'
  OBVIOUS
<1>1. CASE UNCHANGED vars
  BY <1>1 DEF vars, IInv, TypeOK, CacheTrue, CopiesArmed, WorkersArmed, Armed
<1>2. ASSUME NEW cr \in CRs, Reconcile(cr) PROVE IInv'
  BY <1>2, StartIInv, ThinkIInv, SaveIInv DEF Reconcile
<1>3. CASE Next
  BY <1>1, <1>2, <1>3, AsyncPushIInv, DeliverIInv, UserIInv, ExternalIInv, CrashIInv
  DEF Next, Over
<1> QED BY <1>1, <1>3

(* The invariant behind the theorems below. *)
THEOREM Invariance == Spec => []IInv
BY InitIInv, NextIInv, PTL DEF Spec

(* Every variable keeps its type. *)
THEOREM TypeCorrect == Spec => []TypeOK
BY Invariance, PTL DEF IInv

(* The model is only deleted (reconcileDeletion) for a CR that was         *)
(* terminating in Reconcile mode with a deleting policy in some version    *)
(* since the last reconcile that began on the latest one, whatever edits,  *)
(* stale copies, rejected writes and restarts came in between.             *)
THEOREM DeletionIsAsked == Spec => DeletionWasAsked
<1>1. ASSUME IInv, NEW cr \in CRs, DeleteModel(cr) PROVE armed[cr]
  BY <1>1 DEF DeleteModel, IInv, WorkersArmed, DeletesNext
<1>2. IInv => [\A cr \in CRs : DeleteModel(cr) /\ model' # model => armed[cr]]_vars
  BY <1>1
<1> QED BY <1>2, Invariance, PTL DEF DeletionWasAsked
-----------------------------------------------------------------------------
(* What is left under way after the last edit.                             *)
(*                                                                         *)
(* HandsOff and KnownIsNotRecreated look at a CR from a moment on at which *)
(* it is at rest, and every step after it takes its decisions from one of  *)
(* four copies: the server's, the informer's, a worker's, or what a push   *)
(* was launched with.  The two invariants say of all four what the moment  *)
(* says of the server's; CacheTrue and Settled carry that over to the      *)
(* other three.                                                            *)

(* A push that is over is not a first one. *)
Settled(cr) == push[cr].pc = "free" => ~push[cr].first

AllSettled == \A cr \in CRs : Settled(cr)

(* Nothing of cr is under way that changes Baseten, nor will be.           *)
Hushed(cr) ==
  /\ edits = MaxEdits /\ push[cr].pc = "free"
  /\ api[cr].mode # "Reconcile" /\ cache[cr].o.mode # "Reconcile"
  /\ rec[cr].pc \in {"idle", "addFinalizer", "release", "observe", "log"}
  /\ rec[cr].pc # "idle" => rec[cr].o.mode # "Reconcile"
  /\ rec[cr].pc = "log" => rec[cr].then = "idle"

(* All that is known of cr says that it claims the model and has known it. *)
Recalls(o) == o.resolved /\ Claims(o)

(* And a worker that may launch a push of it has found a model. *)
Recalling(r) ==
  /\ r.pc # "idle" => Recalls(r.o)
  /\ r.pc \in {"truss", "launch"} => r.id # 0

Known(cr) ==
  /\ edits = MaxEdits /\ ~push[cr].first
  /\ Recalls(api[cr]) /\ Recalls(cache[cr].o) /\ Recalling(rec[cr])

(* What an update of the API server does to the copies of a CR. *)
LEMMA Saved ==
  ASSUME IInv, NEW cr \in CRs, NEW r, NEW o, NEW ok, NEW failed,
         Save(cr, r, o, ok, failed)
  PROVE  /\ api'[cr] = o \/ api'[cr] = api[cr]
         /\ cache'[cr].o = cache[cr].o
         /\ cache'[cr].fresh => cache[cr].fresh /\ api'[cr] = api[cr]
         /\ rec'[cr] = ok \/ rec'[cr] = failed
         /\ \A c \in CRs \ {cr} :
              api'[c] = api[c] /\ cache'[c] = cache[c] /\ rec'[c] = rec[c]
<1>1. /\ api \in [CRs -> Object] /\ rec \in [CRs -> Worker]
      /\ cache \in [CRs -> [o : Object, fresh : BOOLEAN]]
  BY DEF IInv, TypeOK
<1>2. CASE /\ api' = [api EXCEPT ![cr] = o] /\ cache' = Stale(cache, cr)
           /\ rec' = [rec EXCEPT ![cr] = ok]
  BY <1>1, <1>2 DEF Stale
<1>3. CASE rec' = [rec EXCEPT ![cr] = failed] /\ UNCHANGED <<api, cache>>
  BY <1>1, <1>3
<1> QED BY <1>2, <1>3 DEF Save

(* The copies of cr are as they were. *)
Same(cr) ==
  /\ api'[cr] = api[cr] /\ cache'[cr] = cache[cr] /\ rec'[cr] = rec[cr]
  /\ push'[cr] = push[cr]

(* A worker is alone with the copies of its CR. *)
LEMMA ReconcileAlone ==
  ASSUME IInv, NEW cr \in CRs, NEW c \in CRs, c # cr, Reconcile(c)
  PROVE  Same(cr) /\ edits' = edits
<1>1. rec \in [CRs -> Worker] /\ push \in [CRs -> Goroutine]
  BY DEF IInv, TypeOK
<1>2. CASE Start(c)
  BY <1>1, <1>2 DEF Start, Same, Local
<1>3. CASE AddFinalizer(c)
  BY <1>3, Saved DEF AddFinalizer, Same
<1>4. CASE LogStatus(c)
  <2> DEFINE o == IF rec[c].id = 0 THEN rec[c].o
                  ELSE [rec[c].o EXCEPT !.id = rec[c].id, !.resolved = TRUE]
             next == Go([rec[c] EXCEPT !.o = o], rec[c].then)
  <2>1. /\ push' = push /\ edits' = edits
        /\ \/ Save(c, rec[c], o, next, next)
           \/ rec' = [rec EXCEPT ![c] = next] /\ UNCHANGED <<api, cache>>
    BY <1>4 DEF LogStatus, Local
  <2> HIDE DEF o, next
  <2>2. CASE Save(c, rec[c], o, next, next)
    BY <2>1, <2>2, Saved DEF Same
  <2> QED BY <1>1, <2>1, <2>2 DEF Same
<1>5. CASE CheckGuardrails(c)
  BY <1>1, <1>5 DEF CheckGuardrails, Same, Local
<1>6. CASE DeleteModel(c)
  BY <1>1, <1>6 DEF DeleteModel, Same, Local
<1>7. CASE ReleaseFinalizer(c)
  BY <1>7, Saved DEF ReleaseFinalizer, Same
<1>8. CASE Observe(c)
  BY <1>1, <1>8 DEF Observe, Same, Local
<1>9. CASE ResolveModelID(c)
  BY <1>1, <1>9 DEF ResolveModelID, Same, Local
<1>10. CASE ReconcileTruss(c)
  BY <1>1, <1>10 DEF ReconcileTruss, Same, Local
<1>11. CASE SaveDone(c)
  BY <1>11, Saved DEF SaveDone, Same
<1>12. CASE Launch(c)
  <2>1. push'[cr] = push[cr] /\ edits' = edits
    BY <1>1, <1>12 DEF Launch
  <2>2. api'[cr] = api[cr] /\ cache'[cr] = cache[cr] /\ rec'[cr] = rec[cr]
    BY <1>1, <1>12, Saved DEF Launch, Local
  <2> QED BY <2>1, <2>2 DEF Same
<1>13. CASE ReconcileEnvironment(c)
  BY <1>1, <1>13 DEF ReconcileEnvironment, Same, Local
<1>14. CASE InvalidateModelID(c)
  BY <1>14, Saved DEF InvalidateModelID, Same
<1> QED
  BY <1>2, <1>3, <1>4, <1>5, <1>6, <1>7, <1>8, <1>9, <1>10, <1>11, <1>12, <1>13, <1>14
  DEF Reconcile

(* A change of a CR by its user: without edits, its spec stays. *)
UserChange(cr) ==
  \E o \in Object :
    /\ Change(cr, o)
    /\ \/ edits < MaxEdits
       \/ /\ o.mode = api[cr].mode /\ o.policy = api[cr].policy
          /\ o.resolved = api[cr].resolved

(* What moves the copies of a CR. *)
LEMMA Elsewhere ==
  ASSUME IInv, NEW cr \in CRs, [Next]_vars
  PROVE  /\ \/ Same(cr) \/ Reconcile(cr) \/ AsyncPush(cr) \/ Deliver(cr)
            \/ UserChange(cr) \/ Crash
         /\ edits = MaxEdits => edits' = edits
<1>1. /\ api \in [CRs -> Object] /\ cache \in [CRs -> [o : Object, fresh : BOOLEAN]]
      /\ rec \in [CRs -> Worker] /\ push \in [CRs -> Goroutine]
      /\ edits \in 0..MaxEdits /\ MaxEdits \in Nat
  BY BoundsAssumption DEF IInv, TypeOK
<1>0. \A c \in CRs : api[c] \in Object
  BY <1>1
<1>2. CASE UNCHANGED vars
  BY <1>2 DEF vars, Same
<1>3. ASSUME NEW c \in CRs, NEW o, Change(c, o)
      PROVE  c # cr => Same(cr)
  BY <1>1, <1>3 DEF Change, Stale, Same
<1>4. ASSUME NEW c \in CRs, Reconcile(c)
      PROVE  (Same(cr) \/ Reconcile(cr)) /\ edits' = edits
  <2>1. edits' = edits
    BY <1>4 DEF Reconcile, Start, AddFinalizer, LogStatus, CheckGuardrails, DeleteModel,
                ReleaseFinalizer, Observe, ResolveModelID, ReconcileTruss, SaveDone,
                Launch, ReconcileEnvironment, InvalidateModelID
  <2> QED BY <1>4, <2>1, ReconcileAlone
<1>5. ASSUME NEW c \in CRs, AsyncPush(c)
      PROVE  (Same(cr) \/ AsyncPush(cr)) /\ edits' = edits
  <2>1. CASE PushSucceeds(c) \/ PushFails(c)
    BY <1>1, <1>5, <2>1 DEF PushSucceeds, PushFails, Same, Local
  <2>2. CASE UpdatePushStatus(c) \/ RecordPushFailure(c)
    BY <1>1, <1>5, <2>2 DEF UpdatePushStatus, RecordPushFailure, WriteBack, Stale, Same
  <2> QED BY <1>5, <2>1, <2>2 DEF AsyncPush
<1>6. ASSUME NEW c \in CRs, Deliver(c)
      PROVE  (Same(cr) \/ Deliver(cr)) /\ edits' = edits
  BY <1>1, <1>6 DEF Deliver, Same
<1>7. ASSUME NEW c \in CRs, DeleteCR(c)
      PROVE  (Same(cr) \/ UserChange(cr)) /\ edits' = edits
  <2> DEFINE o == [api[c] EXCEPT !.life = IF @ = "alive" /\ api[c].fin
                                          THEN "terminating" ELSE "gone"]
  <2>1. /\ o \in Object /\ o.mode = api[c].mode /\ o.resolved = api[c].resolved
        /\ o.policy = api[c].policy
    BY <1>0 DEF Object
  <2>2. Change(c, o) /\ edits' = edits
    BY <1>7 DEF DeleteCR
  <2> HIDE DEF o
  <2> QED BY <1>3, <2>1, <2>2 DEF UserChange
<1>8. ASSUME NEW c \in CRs, NEW m \in Modes, SetMode(c, m)
      PROVE  (Same(cr) \/ UserChange(cr)) /\ edits < MaxEdits
  <2> DEFINE o == [api[c] EXCEPT !.mode = m]
  <2>1. o \in Object
    BY <1>0, SpecAssumption DEF Object
  <2>2. Change(c, o) /\ edits < MaxEdits
    BY <1>8 DEF SetMode
  <2> HIDE DEF o
  <2> QED BY <1>3, <2>1, <2>2 DEF UserChange
<1>9. ASSUME NEW c \in CRs, NEW p \in Policies, SetPolicy(c, p)
      PROVE  (Same(cr) \/ UserChange(cr)) /\ edits < MaxEdits
  <2> DEFINE o == [api[c] EXCEPT !.policy = p]
  <2>1. o \in Object
    BY <1>0, SpecAssumption DEF Object
  <2>2. Change(c, o) /\ edits < MaxEdits
    BY <1>9 DEF SetPolicy
  <2> HIDE DEF o
  <2> QED BY <1>3, <2>1, <2>2 DEF UserChange
<1>10. CASE ExternalDelete \/ ExternalCreate \/ ScaleUp \/ Drain \/ Over
  <2>1. Same(cr)
    BY <1>10 DEF ExternalDelete, ExternalCreate, ScaleUp, Drain, Over, vars, Same, Local
  <2>2. edits' = edits \/ edits < MaxEdits
    BY <1>10 DEF ExternalDelete, ExternalCreate, ScaleUp, Drain, Over, vars
  <2> QED BY <1>1, <2>1, <2>2
<1>11. CASE Crash
  BY <1>11 DEF Crash
<1> QED
  BY <1>1, <1>2, <1>4, <1>5, <1>6, <1>7, <1>8, <1>9, <1>10, <1>11 DEF Next

LEMMA SameKeeps ==
  ASSUME NEW cr \in CRs, Same(cr)
  PROVE  /\ Settled(cr) => Settled(cr)'
         /\ Hushed(cr) /\ edits' = edits => Hushed(cr)'
         /\ Known(cr) /\ edits' = edits => Known(cr)'
BY DEF Same, Settled, Hushed, Known, Recalls, Recalling, Claims

LEMMA FreshAfterStale ==
  ASSUME IInv, NEW cr \in CRs, cache' = Stale(cache, cr)
  PROVE  ~cache'[cr].fresh /\ cache'[cr].o = cache[cr].o
BY DEF IInv, TypeOK, Stale

(* A worker never frees a push. *)
LEMMA ReconcileSettled ==
  ASSUME IInv, NEW cr \in CRs, Settled(cr), Reconcile(cr) PROVE Settled(cr)'
<1>1. push \in [CRs -> Goroutine]
  BY DEF IInv, TypeOK
<1>2. CASE \/ Start(cr) \/ CheckGuardrails(cr) \/ DeleteModel(cr) \/ Observe(cr)
           \/ ResolveModelID(cr) \/ ReconcileTruss(cr) \/ ReconcileEnvironment(cr)
           \/ AddFinalizer(cr) \/ LogStatus(cr) \/ ReleaseFinalizer(cr) \/ SaveDone(cr)
           \/ InvalidateModelID(cr)
  BY <1>2 DEF Start, CheckGuardrails, DeleteModel, Observe, ResolveModelID, AddFinalizer,
              ReconcileTruss, ReconcileEnvironment, LogStatus, ReleaseFinalizer, SaveDone,
              InvalidateModelID, Settled
<1>3. CASE Launch(cr)
  BY <1>1, <1>3 DEF Launch, Settled
<1> QED BY <1>2, <1>3 DEF Reconcile

LEMMA NextSettled ==
  ASSUME IInv, AllSettled, [Next]_vars PROVE AllSettled'
<1> SUFFICES ASSUME NEW cr \in CRs PROVE Settled(cr)'
  BY DEF AllSettled
<1>1. push \in [CRs -> Goroutine] /\ Settled(cr)
  BY DEF IInv, TypeOK, AllSettled
<1>2. CASE AsyncPush(cr)
  <2>1. push'[cr] = Free \/ push'[cr].pc # "free"
    <3>1. push[cr] \in Goroutine
      BY <1>1
    <3>2. CASE PushSucceeds(cr)
      <4>1. push'[cr] = [push[cr] EXCEPT !.pc = "write", !.id = model']
        BY <1>1, <3>2 DEF PushSucceeds
      <4> QED BY <3>1, <4>1 DEF Goroutine
    <3>3. CASE PushFails(cr)
      <4>1. push'[cr] = [push[cr] EXCEPT !.pc = "fail"]
        BY <1>1, <3>3 DEF PushFails
      <4> QED BY <3>1, <4>1 DEF Goroutine
    <3>4. CASE UpdatePushStatus(cr) \/ RecordPushFailure(cr)
      BY <1>1, <3>4 DEF UpdatePushStatus, RecordPushFailure, WriteBack
    <3> QED BY <1>2, <3>2, <3>3, <3>4 DEF AsyncPush
  <2> QED BY <2>1 DEF Settled, Free
<1>3. CASE Deliver(cr) \/ UserChange(cr)
  <2>1. push' = push
    BY <1>3 DEF Deliver, UserChange, Change
  <2> QED BY <1>1, <2>1 DEF Settled
<1>4. CASE Crash
  BY <1>4 DEF Crash, Settled, Free
<1> QED BY <1>1, <1>2, <1>3, <1>4, Elsewhere, SameKeeps, ReconcileSettled

(* Settled holds of every CR throughout. *)
LEMMA AlwaysSettled == Spec => []AllSettled
<1>1. Init => AllSettled
  BY DEF Init, Free, AllSettled, Settled
<1> QED BY <1>1, NextSettled, Invariance, PTL DEF Spec
-----------------------------------------------------------------------------
(* Where a reconcile of a CR that is not in Reconcile mode goes.           *)
LEMMA DispatchHushed ==
  ASSUME NEW r \in Worker, r.o.mode # "Reconcile", NEW n, n = Dispatch(r)
  PROVE  /\ n.pc \in {"idle", "addFinalizer", "release", "observe", "log"}
         /\ n.pc # "idle" => n.o.mode # "Reconcile"
         /\ n.pc = "log" => n.then = "idle"
<1>1. /\ r.o.life \in {"alive", "terminating", "gone"} /\ r.o.fin \in BOOLEAN
      /\ r.o.mode \in {"Observe", "Pause"} /\ ~Deletes(r.o)
  BY DEF Worker, Object, AllModes, Deletes
<1>2. n \in {Idle, Log(r, 0, "idle"), Go(r, "addFinalizer"), Go(r, "observe"),
             Go(r, "release")}
  BY <1>1 DEF Dispatch, Deletion
<1>3. CASE n = Idle
  BY <1>3 DEF Idle
<1>4. CASE n = Log(r, 0, "idle")
  BY <1>4 DEF Log, Worker
<1>5. CASE n \in {Go(r, "addFinalizer"), Go(r, "observe"), Go(r, "release")}
  BY <1>5 DEF Go, Worker
<1> QED BY <1>2, <1>3, <1>4, <1>5

(* Such a worker adds or removes the finalizer or writes its status.       *)
LEMMA ReconcileHushed ==
  ASSUME IInv, NEW cr \in CRs, Hushed(cr), Reconcile(cr) PROVE Hushed(cr)'
<1> DEFINE r == rec[cr]
<1>1. /\ r \in Worker /\ rec \in [CRs -> Worker] /\ api[cr] \in Object
      /\ cache[cr].o \in Object /\ cache[cr].fresh \in BOOLEAN /\ r.o \in Object
  BY DEF IInv, TypeOK, Worker
<1>2. edits' = edits
  BY Elsewhere DEF Hushed, Next
<1>3. ASSUME NEW n, NEW o, NEW s, Save(cr, s, o, n, n), o.mode # "Reconcile",
             n = Idle, push' = push
      PROVE  Hushed(cr)'
  BY <1>2, <1>3, Saved DEF Hushed, Idle
<1>4. CASE Start(cr)
  <2> DEFINE m == Begun(cache[cr].o, cache[cr].fresh)
  <2>1. m \in Worker /\ m.o.mode # "Reconcile"
    BY <1>1, BeginTyped DEF Hushed
  <2>2. rec'[cr] = Dispatch(m) /\ UNCHANGED <<api, cache, push>>
    BY <1>1, <1>4 DEF Start, Local, Begun
  <2> HIDE DEF m
  <2>3. /\ rec'[cr].pc \in {"idle", "addFinalizer", "release", "observe", "log"}
        /\ rec'[cr].pc # "idle" => rec'[cr].o.mode # "Reconcile"
        /\ rec'[cr].pc = "log" => rec'[cr].then = "idle"
    BY <2>1, <2>2, DispatchHushed
  <2> QED BY <1>2, <2>2, <2>3 DEF Hushed
<1>5. CASE AddFinalizer(cr)
  <2>1. [api[cr] EXCEPT !.fin = TRUE].mode # "Reconcile"
    BY <1>1 DEF Object, Hushed
  <2> QED BY <1>3, <1>5, <2>1 DEF AddFinalizer
<1>6. CASE ReleaseFinalizer(cr)
  <2>1. [api[cr] EXCEPT !.fin = FALSE, !.life = "gone"].mode # "Reconcile"
    BY <1>1 DEF Object, Hushed
  <2> QED BY <1>3, <1>6, <2>1 DEF ReleaseFinalizer
<1>7. CASE LogStatus(cr)
  <2> DEFINE o == IF r.id = 0 THEN r.o ELSE [r.o EXCEPT !.id = r.id, !.resolved = TRUE]
             next == Go([r EXCEPT !.o = o], r.then)
  <2>1. /\ r.pc = "log" /\ push' = push
        /\ \/ Save(cr, r, o, next, next)
           \/ rec' = [rec EXCEPT ![cr] = next] /\ UNCHANGED <<api, cache>>
    BY <1>7 DEF LogStatus, Local
  <2>2. r.then = "idle" /\ r.o.mode # "Reconcile"
    BY <2>1 DEF Hushed
  <2>3. next = Idle
    BY <2>2 DEF Go
  <2>4. o.mode # "Reconcile"
    BY <1>1, <2>2 DEF Object
  <2> HIDE DEF o, next
  <2>5. CASE Save(cr, r, o, next, next)
    BY <1>3, <2>1, <2>3, <2>4, <2>5
  <2>6. CASE rec' = [rec EXCEPT ![cr] = next] /\ UNCHANGED <<api, cache>>
    BY <1>1, <1>2, <2>1, <2>3, <2>6 DEF Hushed, Idle
  <2> QED BY <2>1, <2>5, <2>6
<1>8. CASE Observe(cr)
  <2>1. /\ r.pc = "observe" /\ UNCHANGED <<api, cache, push>>
        /\ \E id : rec' = [rec EXCEPT ![cr] = Log(r, id, "idle")]
    BY <1>8 DEF Observe, Local
  <2>2. PICK id : rec'[cr] = Log(r, id, "idle")
    BY <1>1, <2>1
  <2>3. /\ rec'[cr].pc = "log" /\ rec'[cr].then = "idle" /\ rec'[cr].o = r.o
    BY <1>1, <2>2 DEF Log, Worker
  <2>4. r.o.mode # "Reconcile"
    BY <2>1 DEF Hushed
  <2> QED BY <1>2, <2>1, <2>3, <2>4 DEF Hushed
<1>9. r.pc \in {"idle", "addFinalizer", "release", "observe", "log"}
  BY DEF Hushed
<1> QED
  BY <1>4, <1>5, <1>6, <1>7, <1>8, <1>9
  DEF Reconcile, CheckGuardrails, DeleteModel, ResolveModelID, ReconcileTruss,
      SaveDone, Launch, ReconcileEnvironment, InvalidateModelID

LEMMA NextHushed ==
  ASSUME IInv, NEW cr \in CRs, Hushed(cr), [Next]_vars PROVE Hushed(cr)'
<1>1. /\ push \in [CRs -> Goroutine] /\ cache \in [CRs -> [o : Object, fresh : BOOLEAN]]
      /\ rec \in [CRs -> Worker] /\ api \in [CRs -> Object]
      /\ push[cr].pc = "free" /\ edits' = edits /\ ~(edits < MaxEdits)
  BY Elsewhere, BoundsAssumption DEF IInv, TypeOK, Hushed
<1>2. ~AsyncPush(cr)
  BY <1>1 DEF AsyncPush, PushSucceeds, PushFails, UpdatePushStatus, RecordPushFailure
<1>3. CASE Deliver(cr)
  BY <1>1, <1>3 DEF Deliver, Hushed
<1>4. CASE UserChange(cr)
  <2>1. PICK o \in Object : Change(cr, o) /\ o.mode = api[cr].mode
    BY <1>1, <1>4 DEF UserChange
  <2>2. api'[cr] = o /\ push' = push
    BY <1>1, <2>1 DEF Change
  <2>3. cache'[cr].o = cache[cr].o
    BY <2>1, FreshAfterStale DEF Change
  <2>4. rec'[cr].pc = rec[cr].pc /\ rec'[cr].o = rec[cr].o /\ rec'[cr].then = rec[cr].then
    BY <1>1, <2>1 DEF Change, Stale, Worker
  <2> QED BY <1>1, <2>1, <2>2, <2>3, <2>4 DEF Hushed
<1>5. CASE Crash
  BY <1>1, <1>5 DEF Crash, Hushed, Free, Idle
<1> QED BY <1>1, <1>2, <1>3, <1>4, <1>5, Elsewhere, SameKeeps, ReconcileHushed

(* Once an Observe or Pause mode has been seen by a CR at rest, no worker  *)
(* of it comes to DeleteModel and no push of it is launched, whatever      *)
(* other CRs, restarts and others at work in Baseten do (reconcileObserve, *)
(* ModePause).                                                             *)
THEOREM HandsAreOff == Spec => HandsOff
<1>1. ASSUME NEW cr \in CRs
      PROVE  Spec => [](Quiet(cr) /\ edits = MaxEdits /\ api[cr].mode # "Reconcile"
                          => [](rec[cr].pc # "delete" /\ push[cr].pc = "free"))
  <2>1. /\ IInv /\ AllSettled /\ Quiet(cr) /\ edits = MaxEdits /\ api[cr].mode # "Reconcile"
        => Hushed(cr)
    BY DEF IInv, CacheTrue, AllSettled, Settled, Quiet, Hushed
  <2>2. IInv /\ Hushed(cr) /\ [Next]_vars => Hushed(cr)'
    BY NextHushed
  <2>3. Hushed(cr) => rec[cr].pc # "delete" /\ push[cr].pc = "free"
    BY DEF Hushed
  <2> QED BY <2>1, <2>2, <2>3, Invariance, AlwaysSettled, PTL DEF Spec
<1> QED BY <1>1 DEF HandsOff
-----------------------------------------------------------------------------
LEMMA DispatchRecalls ==
  ASSUME NEW r \in Worker, Recalls(r.o) PROVE Recalling(Dispatch(r))
<1>1. ASSUME NEW pc \in {"addFinalizer", "observe", "release", "resolve", "guardrails"}
      PROVE  Recalling(Go(r, pc))
  BY <1>1 DEF Go, Recalling, Worker
<1>2. \A id, then : Recalling(Log(r, id, then))
  BY DEF Log, Recalling, Worker
<1>3. Recalling(Idle)
  BY DEF Idle, Recalling
<1>4. Recalling(Deletion(r))
  BY <1>1, <1>2, <1>3 DEF Deletion
<1> QED BY <1>1, <1>2, <1>3, <1>4 DEF Dispatch

(* No worker of a CR that knows the model launches a first push of it: one *)
(* that finds no model stops in resolveModelID.                            *)
LEMMA ReconcileKnown ==
  ASSUME IInv, NEW cr \in CRs, Known(cr), Reconcile(cr) PROVE Known(cr)'
<1> DEFINE r == rec[cr]
<1>1. /\ r \in Worker /\ rec \in [CRs -> Worker] /\ api[cr] \in Object
      /\ cache[cr].o \in Object /\ cache[cr].fresh \in BOOLEAN /\ r.o \in Object
      /\ push \in [CRs -> Goroutine]
  BY DEF IInv, TypeOK, Worker
<1>2. /\ edits' = edits /\ edits = MaxEdits /\ ~push[cr].first
      /\ Recalls(api[cr]) /\ Recalls(cache[cr].o) /\ Recalling(r)
  BY Elsewhere DEF Known, Next
<1>3. ASSUME NEW s, NEW o, NEW n, NEW m, Save(cr, s, o, n, m), Recalls(o),
             Recalling(n), Recalling(m), ~push'[cr].first
      PROVE  Known(cr)'
  <2>1. /\ Recalls(api'[cr]) /\ cache'[cr].o = cache[cr].o /\ Recalling(rec'[cr])
    BY <1>2, <1>3, Saved
  <2>2. Recalls(api[cr])' /\ Recalls(cache[cr].o)' /\ Recalling(rec[cr])'
    BY <1>2, <2>1 DEF Recalls, Claims, Recalling
  <2> QED BY <1>2, <1>3, <2>2 DEF Known
<1>4. ASSUME NEW n, rec' = [rec EXCEPT ![cr] = n], Recalling(n),
             UNCHANGED <<api, cache, push>>
      PROVE  Known(cr)'
  <2>1. Recalling(rec'[cr])
    BY <1>1, <1>4
  <2>2. Recalls(api[cr])' /\ Recalls(cache[cr].o)' /\ Recalling(rec[cr])'
    BY <1>2, <1>4, <2>1 DEF Recalls, Claims, Recalling
  <2> QED BY <1>2, <1>4, <2>2 DEF Known
<1>5. Recalling(Idle)
  BY DEF Idle, Recalling
<1>6. ASSUME r.pc # "idle"
      PROVE  /\ \A id, then : Recalling(Log(r, id, then))
             /\ \A pc \in {"release", "environment", "done", "idle"} : Recalling(Go(r, pc))
             /\ Recalls(r.o)
  <2>1. Recalls(r.o)
    BY <1>2, <1>6 DEF Recalling
  <2>2. \A id, then : Recalling(Log(r, id, then))
    BY <1>1, <2>1 DEF Log, Recalling, Worker
  <2>3. \A pc \in {"release", "environment", "done", "idle"} : Recalling(Go(r, pc))
    BY <1>1, <2>1, <1>5 DEF Go, Recalling, Worker
  <2> QED BY <2>1, <2>2, <2>3
<1>7. CASE Start(cr)
  <2> DEFINE m == Begun(cache[cr].o, cache[cr].fresh)
  <2>1. m \in Worker /\ Recalls(m.o)
    BY <1>1, <1>2, BeginTyped
  <2>2. rec' = [rec EXCEPT ![cr] = Dispatch(m)] /\ UNCHANGED <<api, cache, push>>
    BY <1>1, <1>7 DEF Start, Local, Begun
  <2> HIDE DEF m
  <2> QED BY <1>4, <2>1, <2>2, DispatchRecalls
<1>8. CASE AddFinalizer(cr)
  <2>1. Recalls([api[cr] EXCEPT !.fin = TRUE])
    BY <1>1, <1>2 DEF Object, Recalls, Claims
  <2> QED BY <1>2, <1>3, <1>5, <1>8, <2>1 DEF AddFinalizer
<1>9. CASE ReleaseFinalizer(cr)
  <2>1. Recalls([api[cr] EXCEPT !.fin = FALSE, !.life = "gone"])
    BY <1>1, <1>2 DEF Object, Recalls, Claims
  <2> QED BY <1>2, <1>3, <1>5, <1>9, <2>1 DEF ReleaseFinalizer
<1>10. CASE InvalidateModelID(cr)
  <2>1. Recalls(r.o)
    BY <1>6, <1>10 DEF InvalidateModelID
  <2>2. Recalls([r.o EXCEPT !.id = 0])
    BY <1>1, <2>1 DEF Object, Recalls, Claims
  <2> QED BY <1>2, <1>3, <1>5, <1>10, <2>2 DEF InvalidateModelID
<1>11. CASE LogStatus(cr)
  <2> DEFINE o == IF r.id = 0 THEN r.o ELSE [r.o EXCEPT !.id = r.id, !.resolved = TRUE]
             s == [r EXCEPT !.o = o]
             next == Go(s, r.then)
  <2>1. /\ r.pc = "log" /\ push' = push
        /\ \/ Save(cr, r, o, next, next)
           \/ rec' = [rec EXCEPT ![cr] = next] /\ UNCHANGED <<api, cache>>
    BY <1>11 DEF LogStatus, Local
  <2>2. Recalls(o)
    BY <1>1, <1>6, <2>1 DEF Object, Recalls, Claims
  <2>3. s.o = o /\ r.then \in {"idle", "delete", "invalidate"}
    BY <1>1 DEF Worker
  <2> HIDE DEF o
  <2>4. Recalling(next)
    BY <1>1, <1>5, <2>2, <2>3 DEF Go, Recalling, Worker
  <2> HIDE DEF next
  <2>5. CASE Save(cr, r, o, next, next)
    BY <1>2, <1>3, <2>1, <2>2, <2>4, <2>5
  <2>6. CASE rec' = [rec EXCEPT ![cr] = next] /\ UNCHANGED <<api, cache>>
    BY <1>4, <2>1, <2>4, <2>6
  <2> QED BY <2>1, <2>5, <2>6
<1>12. CASE CheckGuardrails(cr) \/ DeleteModel(cr) \/ Observe(cr)
            \/ ReconcileEnvironment(cr)
  <2>1. /\ r.pc # "idle" /\ UNCHANGED <<api, cache, push>>
        /\ \/ \E id, then : rec' = [rec EXCEPT ![cr] = Log(r, id, then)]
           \/ rec' = [rec EXCEPT ![cr] = Go(r, "release")]
    BY <1>12 DEF CheckGuardrails, DeleteModel, Observe, ReconcileEnvironment, Local
  <2> QED BY <1>4, <1>6, <2>1
<1>13. CASE ResolveModelID(cr)
  <2>1. r.pc = "resolve" /\ UNCHANGED <<api, cache, push>>
    BY <1>13 DEF ResolveModelID, Local
  <2>2. Recalls(r.o)
    BY <1>6, <2>1
  <2>3. \/ \E id, then : rec' = [rec EXCEPT ![cr] = Log(r, id, then)]
        \/ rec' = [rec EXCEPT ![cr] = [r EXCEPT !.pc = "truss", !.id = r.o.id]] /\ r.o.id # 0
        \/ rec' = [rec EXCEPT ![cr] = [r EXCEPT !.pc = "truss", !.id = model]] /\ model # 0
    BY <1>13, <2>2 DEF ResolveModelID, Recalls
  <2>4. \A id : id # 0 => Recalling([r EXCEPT !.pc = "truss", !.id = id])
    BY <1>1, <2>2 DEF Recalling, Worker
  <2> QED BY <1>4, <1>6, <2>1, <2>3, <2>4
<1>14. CASE ReconcileTruss(cr)
  <2>1. r.pc = "truss" /\ UNCHANGED <<api, cache, push>>
    BY <1>14 DEF ReconcileTruss, Local
  <2>2. Recalls(r.o) /\ r.id # 0
    BY <1>2, <2>1 DEF Recalling
  <2>3. Recalling(Go(r, "launch"))
    BY <1>1, <2>2 DEF Go, Recalling, Worker
  <2>4. \E n \in {Go(r, "environment"), Log(r, r.id, "invalidate"), Go(r, "done"),
                  Go(r, "launch")} : rec' = [rec EXCEPT ![cr] = n]
    BY <1>14 DEF ReconcileTruss
  <2> QED BY <1>4, <1>6, <2>1, <2>3, <2>4
<1>15. CASE SaveDone(cr)
  <2> DEFINE o == [r.o EXCEPT !.done = TRUE]
             next == [r EXCEPT !.pc = "environment", !.o = o]
  <2>1. r.pc = "done" /\ push' = push /\ Save(cr, r, o, next, next)
    BY <1>15 DEF SaveDone
  <2>2. Recalls(o)
    BY <1>1, <1>6, <2>1 DEF Object, Recalls, Claims
  <2> HIDE DEF o
  <2>3. Recalling(next)
    BY <1>1, <2>2 DEF Recalling, Worker
  <2> HIDE DEF next
  <2> QED BY <1>2, <1>3, <2>1, <2>2, <2>3
<1>16. CASE Launch(cr)
  <2> DEFINE o == [r.o EXCEPT !.done = FALSE]
             next == Log([r EXCEPT !.o = o], r.id, "idle")
  <2>1. Recalls(r.o) /\ r.id # 0 /\ r.pc # "idle"
    BY <1>2, <1>16 DEF Launch, Recalling
  <2>2. Recalls(o)
    BY <1>1, <2>1 DEF Object, Recalls, Claims
  <2>3. \/ /\ push' = [push EXCEPT ![cr] = [pc |-> "push", id |-> 0, first |-> r.id = 0]]
           /\ Save(cr, r, o, next, next)
        \/ /\ rec' = [rec EXCEPT ![cr] = Log(r, r.id, "idle")]
           /\ UNCHANGED <<api, cache, push>>
    BY <1>16 DEF Launch, Local
  <2> HIDE DEF o
  <2>4. Recalling(next)
    BY <1>1, <2>2 DEF Log, Recalling, Worker
  <2> HIDE DEF next
  <2>5. CASE /\ push' = [push EXCEPT ![cr] = [pc |-> "push", id |-> 0, first |-> r.id = 0]]
             /\ Save(cr, r, o, next, next)
    <3>1. push'[cr].first = FALSE
      BY <1>1, <2>1, <2>5
    <3> QED BY <1>3, <2>2, <2>4, <2>5, <3>1
  <2>6. CASE /\ rec' = [rec EXCEPT ![cr] = Log(r, r.id, "idle")]
             /\ UNCHANGED <<api, cache, push>>
    BY <1>4, <1>6, <2>1, <2>6
  <2> QED BY <2>3, <2>5, <2>6
<1> QED
  BY <1>7, <1>8, <1>9, <1>10, <1>11, <1>12, <1>13, <1>14, <1>15, <1>16 DEF Reconcile

LEMMA NextKnown ==
  ASSUME IInv, NEW cr \in CRs, Known(cr), [Next]_vars PROVE Known(cr)'
<1>1. /\ push \in [CRs -> Goroutine] /\ cache \in [CRs -> [o : Object, fresh : BOOLEAN]]
      /\ rec \in [CRs -> Worker] /\ api \in [CRs -> Object]
      /\ edits' = edits /\ edits = MaxEdits /\ ~(edits < MaxEdits) /\ ~push[cr].first
      /\ Recalls(api[cr]) /\ Recalls(cache[cr].o) /\ Recalling(rec[cr])
  BY Elsewhere, BoundsAssumption DEF IInv, TypeOK, Known
<1>2. Recalling([rec[cr] EXCEPT !.fresh = FALSE]) /\ Recalling(Idle)
  BY <1>1 DEF Recalling, Worker, Idle
<1>3. ASSUME Recalls(api'[cr]), Recalls(cache'[cr].o), Recalling(rec'[cr]),
             ~push'[cr].first
      PROVE  Known(cr)'
  BY <1>1, <1>3 DEF Known, Recalls, Claims, Recalling
<1>4. CASE AsyncPush(cr)
  <2>1. ~push'[cr].first
    <3>1. push[cr] \in Goroutine
      BY <1>1
    <3>2. CASE PushSucceeds(cr)
      <4>1. push'[cr] = [push[cr] EXCEPT !.pc = "write", !.id = model']
        BY <1>1, <3>2 DEF PushSucceeds
      <4> QED BY <1>1, <3>1, <4>1 DEF Goroutine
    <3>3. CASE PushFails(cr)
      <4>1. push'[cr] = [push[cr] EXCEPT !.pc = "fail"]
        BY <1>1, <3>3 DEF PushFails
      <4> QED BY <1>1, <3>1, <4>1 DEF Goroutine
    <3>4. CASE UpdatePushStatus(cr) \/ RecordPushFailure(cr)
      BY <1>1, <3>4 DEF UpdatePushStatus, RecordPushFailure, WriteBack, Free
    <3> QED BY <1>4, <3>2, <3>3, <3>4 DEF AsyncPush
  <2>2. CASE UNCHANGED <<api, cache, rec>>
    BY <1>1, <1>3, <2>1, <2>2
  <2>3. ASSUME NEW o, WriteBack(cr, o), Recalls(o), ~UNCHANGED <<api, cache, rec>>
        PROVE  Known(cr)'
    <3>1. /\ api'[cr] = o /\ cache' = Stale(cache, cr)
          /\ rec'[cr] = [rec[cr] EXCEPT !.fresh = FALSE]
      BY <1>1, <2>3 DEF WriteBack, Stale
    <3> QED BY <1>1, <1>2, <1>3, <2>1, <2>3, <3>1, FreshAfterStale
  <2>4. CASE UpdatePushStatus(cr) \/ RecordPushFailure(cr)
    <3>1. \A id : Recalls([cache[cr].o EXCEPT !.id = id, !.resolved = TRUE, !.done = TRUE])
      BY <1>1 DEF Recalls, Claims, Object
    <3>2. Recalls([cache[cr].o EXCEPT !.done = FALSE])
      BY <1>1 DEF Recalls, Claims, Object
    <3> QED BY <2>2, <2>3, <2>4, <3>1, <3>2 DEF UpdatePushStatus, RecordPushFailure
  <2> QED BY <1>4, <2>2, <2>4 DEF AsyncPush, PushSucceeds, PushFails, Local
<1>5. CASE Deliver(cr)
  BY <1>1, <1>3, <1>5 DEF Deliver
<1>6. CASE UserChange(cr)
  <2>1. PICK o \in Object : /\ Change(cr, o) /\ o.policy = api[cr].policy
                            /\ o.resolved = api[cr].resolved
    BY <1>1, <1>6 DEF UserChange
  <2>2. api'[cr] = o /\ push' = push /\ rec'[cr] = [rec[cr] EXCEPT !.fresh = FALSE]
    BY <1>1, <2>1 DEF Change, Stale
  <2>3. Recalls(o) /\ cache'[cr].o = cache[cr].o
    BY <1>1, <2>1, FreshAfterStale DEF Change, Recalls, Claims
  <2> QED BY <1>1, <1>2, <1>3, <2>2, <2>3
<1>7. CASE Crash
  <2>1. /\ api' = api /\ push'[cr] = Free /\ rec'[cr] = Idle
        /\ cache'[cr].o = api[cr]
    BY <1>7 DEF Crash
  <2> QED BY <1>1, <1>2, <1>3, <2>1 DEF Free
<1> QED BY <1>1, <1>4, <1>5, <1>6, <1>7, Elsewhere, SameKeeps, ReconcileKnown

(* From when a CR at rest claims the model and has recorded its ID, no     *)
(* push of it is launched because no model was found, whatever             *)
(* invalidations, rejected writes and restarts follow (resolveModelID).    *)
THEOREM KnownStaysKnown == Spec => KnownIsNotRecreated
<1>1. ASSUME NEW cr \in CRs
      PROVE  Spec => [](Quiet(cr) /\ edits = MaxEdits /\ api[cr].resolved
                          /\ Claims(api[cr]) => [](~push[cr].first))
  <2>1. /\ IInv /\ AllSettled /\ Quiet(cr) /\ edits = MaxEdits /\ api[cr].resolved
        /\ Claims(api[cr])
        => Known(cr)
    BY DEF IInv, CacheTrue, AllSettled, Settled, Quiet, Known, Recalls, Recalling
  <2>2. IInv /\ Known(cr) /\ [Next]_vars => Known(cr)'
    BY NextKnown
  <2>3. Known(cr) => ~push[cr].first
    BY DEF Known
  <2> QED BY <2>1, <2>2, <2>3, Invariance, AlwaysSettled, PTL DEF Spec
<1> QED BY <1>1 DEF KnownIsNotRecreated
=============================================================================
