-------------------------- MODULE TrussPushProofs --------------------------
(***************************************************************************)
(* Proofs about TrussPush, for any CRs, configs and push capacity and any  *)
(* number of edits and faults.                                             *)
(*                                                                         *)
(* Recoverable speaks of the stored status only, but what is stored comes  *)
(* from a reconcile's local copy or from the informer cache, so the        *)
(* invariant has to hold of those copies too.  A local copy is exempt      *)
(* while its worker is about to announce a push: the backoff of another    *)
(* config was just dropped and the next write replaces every field.        *)
(***************************************************************************)
EXTENDS TrussPush, TLAPS

(* A worker or a goroutine that is under way has a CR and a config. *)
Engaged ==
  /\ \A cr \in CRs : rec[cr].pc # "idle" => rec[cr].cfg # None
  /\ \A s \in Slots : slot[s].pc # "free" => slot[s].cr # None /\ slot[s].cfg # None

CopiesClocked ==
  \A cr \in CRs : /\ Clocked(cache[cr].st)
                  /\ rec[cr].pc # "mark" => Clocked(rec[cr].st)

IInv == TypeOK /\ Engaged /\ Recoverable /\ CopiesClocked

(* A worker that may be put in the place of any worker. *)
Sound(r) ==
  /\ r \in Worker
  /\ r.pc # "idle" => r.cfg # None
  /\ r.pc # "mark" => Clocked(r.st)

LEMMA IdleSound == Sound(Idle)
BY DEF Sound, Worker, Idle, Blank, Status, Clocked

(* What Init establishes. *)
LEMMA InitIInv == Init => IInv
<1> SUFFICES ASSUME Init PROVE IInv
  OBVIOUS
<1> USE ConfigsAssumption, CRsAssumption, BoundsAssumption
<1>1. TypeOK
  BY DEF Init, TypeOK, Worker, Goroutine, Status, Blank, Idle, Free
<1>2. Engaged
  BY DEF Init, Engaged, Idle, Free
<1>3. Recoverable /\ CopiesClocked
  BY DEF Init, Recoverable, CopiesClocked, Clocked, Blank, Idle
<1> QED BY <1>1, <1>2, <1>3 DEF IInv

(* A decision keeps the copy typed, and clocked unless it is to announce.  *)
LEMMA DecideSound ==
  ASSUME NEW r, Sound(r), r.pc \in {"resolve", "find"}
  PROVE  Sound(Decide(r))
<1>1. /\ Sound(Go(r, "clear")) /\ Sound(Go(r, "log")) /\ Sound(Go(r, "mark"))
  BY DEF Sound, Worker, Go
<1>2. Sound([r EXCEPT !.pc = "mark", !.st = ClearPushFailure(r.st)])
  BY DEF Sound, Worker, ClearPushFailure, Status
<1> QED BY <1>1, <1>2 DEF Decide

(* A local copy is no longer the latest version. *)
LEMMA StaleTyped ==
  ASSUME rec \in [CRs -> Worker], NEW cr \in CRs
  PROVE  Stale(rec, cr) \in [CRs -> Worker]
<1>1. [rec[cr] EXCEPT !.fresh = FALSE] \in Worker
  BY DEF Worker
<1>2. Stale(rec, cr) = [rec EXCEPT ![cr] = [rec[cr] EXCEPT !.fresh = FALSE]]
  BY DEF Stale
<1> QED BY <1>1, <1>2

(* IInv, worker by worker. *)
LEMMA IInvSound == IInv => \A cr \in CRs : Sound(rec[cr])
BY DEF IInv, TypeOK, Engaged, CopiesClocked, Sound

(* A step that only moves one worker. *)
LEMMA WorkerStep ==
  ASSUME IInv, NEW cr \in CRs, NEW r, Sound(r),
         rec' = [rec EXCEPT ![cr] = r], faults' \in 0..MaxFaults,
         UNCHANGED <<api, cache, slot, Baseten, edits>>
  PROVE  IInv'
<1>1. TypeOK'
  BY DEF IInv, TypeOK, Sound, Baseten
<1>2. Engaged'
  BY DEF IInv, Engaged, TypeOK, Sound
<1>3. Recoverable' /\ CopiesClocked'
  BY DEF IInv, Recoverable, CopiesClocked, TypeOK, Sound
<1> QED BY <1>1, <1>2, <1>3 DEF IInv

LEMMA FaultBounded == ASSUME IInv, Fault PROVE faults' \in 0..MaxFaults
BY BoundsAssumption DEF IInv, TypeOK, Fault

(* An update of the status with a typed and clocked copy. *)
LEMMA UpdateStep ==
  ASSUME IInv, NEW cr \in CRs, NEW r \in Worker, r.cfg # None, Clocked(r.st),
         NEW pc \in {"idle", "mark", "acquire", "log"},
         Update(cr, r, pc), UNCHANGED <<slot, Baseten, edits>>
  PROVE  IInv'
<1>1. Sound(Go(r, pc))
  BY IdleSound DEF Sound, Worker, Go
<1>2. CASE api' = api /\ cache' = cache
  <2>1. faults' \in 0..MaxFaults
    BY FaultBounded DEF Update, IInv, TypeOK
  <2>2. rec' = [rec EXCEPT ![cr] = Go(r, pc)]
    BY DEF Update
  <2> QED BY <1>1, <1>2, <2>1, <2>2, WorkerStep
<1>3. CASE /\ api' = [api EXCEPT ![cr].st = r.st]
           /\ cache' = Stale(cache, cr)
           /\ rec' = [rec EXCEPT ![cr] = Go(r, pc)]
           /\ UNCHANGED faults
  <2>1. TypeOK'
    <3>1. api' \in [CRs -> [cfg : Configs, st : Status]]
      <4>1. api \in [CRs -> [cfg : Configs, st : Status]] /\ r.st \in Status
        BY DEF IInv, TypeOK, Worker
      <4>2. [api[cr] EXCEPT !.st = r.st] \in [cfg : Configs, st : Status]
        BY <4>1
      <4>3. api' = [api EXCEPT ![cr] = [api[cr] EXCEPT !.st = r.st]]
        BY <1>3, <4>1
      <4> QED BY <4>1, <4>2, <4>3
    <3>2. cache' \in [CRs -> [cfg : Configs, st : Status, fresh : BOOLEAN]]
      BY <1>3 DEF IInv, TypeOK, Stale
    <3>3. rec' \in [CRs -> Worker]
      BY <1>1, <1>3 DEF IInv, TypeOK, Sound
    <3> QED BY <1>3, <3>1, <3>2, <3>3 DEF IInv, TypeOK, Baseten
  <2>2. Engaged'
    BY <1>1, <1>3 DEF IInv, TypeOK, Engaged, Sound
  <2>3. Recoverable' /\ CopiesClocked'
    BY <1>1, <1>3 DEF IInv, TypeOK, Recoverable, CopiesClocked, Sound, Stale
  <2> QED BY <2>1, <2>2, <2>3 DEF IInv
<1> QED BY <1>2, <1>3 DEF Update

(* The write of a goroutine: one status changes, every copy becomes stale. *)
LEMMA WriteBackStep ==
  ASSUME IInv, NEW s \in Slots, NEW pc, NEW st \in Status, Clocked(st),
         pc # "free", WriteBack(s, pc, st)
  PROVE  IInv'
<1> DEFINE cr == slot[s].cr
<1>1. cr \in CRs
  BY DEF IInv, TypeOK, Engaged, Goroutine, WriteBack
<1>2. /\ api' = [api EXCEPT ![cr].st = st]
      /\ cache' = [cache EXCEPT ![cr].fresh = FALSE]
      /\ rec' = [rec EXCEPT ![cr].fresh = FALSE]
      /\ slot' = [slot EXCEPT ![s] = Free]
      /\ UNCHANGED <<modelExists, created, edits, faults>>
  BY DEF WriteBack, Stale, Baseten
<1> HIDE DEF cr
<1>3. TypeOK'
  <2>1. slot' \in [Slots -> Goroutine]
    BY <1>2 DEF IInv, TypeOK, Goroutine, Free
  <2>2. rec' \in [CRs -> Worker]
    BY <1>1, <1>2 DEF IInv, TypeOK, Worker
  <2> QED BY <1>1, <1>2, <2>1, <2>2 DEF IInv, TypeOK
<1>4. Engaged'
  BY <1>1, <1>2 DEF IInv, TypeOK, Engaged, Worker, Free
<1>5. Recoverable' /\ CopiesClocked'
  BY <1>1, <1>2 DEF IInv, TypeOK, Recoverable, CopiesClocked, Worker
<1> QED BY <1>3, <1>4, <1>5 DEF IInv
(* Next, step by step. *)
LEMMA ReconcileIInv ==
  ASSUME IInv, NEW cr \in CRs, Reconcile(cr) \/ Abort(cr)
  PROVE  IInv'
<1> DEFINE r == rec[cr]
<1>1. Sound(r)
  BY IInvSound
<1>2. faults \in 0..MaxFaults
  BY DEF IInv, TypeOK
<1>3. CASE Start(cr)
  <2>1. /\ cache[cr].cfg \in Configs /\ cache[cr].st \in Status
        /\ cache[cr].fresh \in BOOLEAN /\ Clocked(cache[cr].st)
    BY DEF IInv, TypeOK, CopiesClocked
  <2>2. Sound([pc |-> "resolve", cfg |-> cache[cr].cfg,
               st |-> cache[cr].st, fresh |-> cache[cr].fresh])
    BY <2>1, ConfigsAssumption DEF Sound, Worker
  <2> QED BY <1>2, <1>3, <2>2, WorkerStep DEF Start
<1>4. CASE Resolve(cr)
  <2>1. Sound(Decide(r)) /\ Sound(Go(r, "find"))
    BY <1>1, <1>4, DecideSound DEF Resolve, Sound, Worker, Go
  <2> QED BY <1>2, <1>4, <2>1, IdleSound, WorkerStep DEF Resolve
<1>5. CASE Find(cr)
  <2>1. Sound(Decide(r)) /\ Sound(Go(r, "found"))
    BY <1>1, <1>5, DecideSound DEF Find, Sound, Worker, Go
  <2> QED BY <1>2, <1>5, <2>1, WorkerStep DEF Find
<1>6. CASE Abort(cr)
  <2>1. Sound(Go(r, "log"))
    BY <1>1, <1>6 DEF Abort, Sound, Worker, Go
  <2> QED BY <1>6, <2>1, FaultBounded, WorkerStep DEF Abort
<1>7. CASE SaveFound(cr)
  <2> DEFINE n == [r EXCEPT !.st = [ClearPushFailure(r.st) EXCEPT
                     !.hash = r.cfg, !.source = r.cfg, !.push = "done"]]
  <2>1. n \in Worker /\ n.cfg # None /\ Clocked(n.st)
    BY <1>1, <1>7 DEF SaveFound, Sound, Worker, Status, Clocked, ClearPushFailure
  <2> QED BY <1>7, <2>1, UpdateStep DEF SaveFound
<1>8. CASE ClearStale(cr)
  <2> DEFINE n == [r EXCEPT !.st.push = "none", !.st.time = "none"]
  <2>1. n \in Worker /\ n.cfg # None /\ Clocked(n.st)
    BY <1>1, <1>8 DEF ClearStale, Sound, Worker, Status, Clocked
  <2> QED BY <1>8, <2>1, UpdateStep DEF ClearStale
<1>9. CASE MarkPushing(cr)
  <2> DEFINE n == [r EXCEPT !.st = [r.st EXCEPT !.hash = r.cfg, !.source = r.cfg,
                     !.push = "pushing", !.time = "recent"]]
  <2>1. n \in Worker /\ n.cfg # None /\ Clocked(n.st)
    BY <1>1, <1>9 DEF MarkPushing, Sound, Worker, Status, Clocked
  <2> QED BY <1>9, <2>1, UpdateStep DEF MarkPushing
<1>10. CASE SemaphoreFull(cr)
  <2>1. Sound(Go(r, "reset"))
    BY <1>1, <1>10 DEF SemaphoreFull, Sound, Worker, Go
  <2> QED BY <1>2, <1>10, <2>1, WorkerStep DEF SemaphoreFull
<1>11. CASE ResetFull(cr)
  <2> DEFINE n == [r EXCEPT !.st.push = "none", !.st.source = None]
  <2>1. n \in Worker /\ n.cfg # None /\ Clocked(n.st)
    BY <1>1, <1>11 DEF ResetFull, Sound, Worker, Status, Clocked
  <2> QED BY <1>11, <2>1, UpdateStep DEF ResetFull
<1>12. CASE LogStatus(cr)
  <2>1. r \in Worker /\ r.cfg # None /\ Clocked(r.st)
    BY <1>1, <1>12 DEF LogStatus, Sound
  <2>2. CASE Update(cr, r, "idle")
    BY <1>12, <2>1, <2>2, UpdateStep DEF LogStatus
  <2>3. CASE rec' = [rec EXCEPT ![cr] = Idle] /\ UNCHANGED <<api, cache, faults>>
    BY <1>2, <1>12, <2>3, IdleSound, WorkerStep DEF LogStatus
  <2> QED BY <1>12, <2>2, <2>3 DEF LogStatus
<1>13. CASE Launch(cr)
  <2>1. Sound(Go(r, "log")) /\ r.cfg \in Configs
    BY <1>1, <1>13 DEF Launch, Sound, Worker, Go
  <2>2. PICK s \in Slots :
          /\ slot' = [slot EXCEPT ![s] = [pc |-> "push", cr |-> cr,
                                          cfg |-> r.cfg, age |-> "recent"]]
    BY <1>13 DEF Launch
  <2>3. /\ rec' = [rec EXCEPT ![cr] = Go(r, "log")]
        /\ UNCHANGED <<api, cache, modelExists, created, edits, faults>>
    BY <1>13 DEF Launch, Baseten
  <2>4. slot' \in [Slots -> Goroutine]
    BY <2>1, <2>2 DEF IInv, TypeOK, Goroutine
  <2>5. TypeOK'
    BY <2>1, <2>3, <2>4 DEF IInv, TypeOK, Sound
  <2>6. Engaged'
    BY <2>1, <2>2, <2>3, ConfigsAssumption, CRsAssumption
    DEF IInv, TypeOK, Engaged, Sound
  <2>7. Recoverable' /\ CopiesClocked'
    BY <2>1, <2>3 DEF IInv, TypeOK, Recoverable, CopiesClocked, Sound
  <2> QED BY <2>5, <2>6, <2>7 DEF IInv
<1> QED BY <1>3, <1>4, <1>5, <1>6, <1>7, <1>8, <1>9, <1>10, <1>11, <1>12, <1>13
        DEF Reconcile
(* A goroutine that moves on without touching a status. *)
LEMMA SlotStep ==
  ASSUME IInv, slot' \in [Slots -> Goroutine], Engaged',
         modelExists' \in BOOLEAN, created' \in [Configs -> 0..2],
         faults' \in 0..MaxFaults, UNCHANGED <<api, cache, rec, edits>>
  PROVE  IInv'
BY DEF IInv, TypeOK, Recoverable, CopiesClocked

LEMMA AsyncPushIInv ==
  ASSUME IInv, NEW s \in Slots, AsyncPush(s)
  PROVE  IInv'
<1>1. slot[s] \in Goroutine /\ slot \in [Slots -> Goroutine]
  BY DEF IInv, TypeOK
<1>2. slot[s].pc # "free" => /\ slot[s].cfg \in Configs /\ slot[s].cr \in CRs
  BY <1>1 DEF IInv, Engaged, Goroutine
<1>3. faults \in 0..MaxFaults /\ modelExists \in BOOLEAN
      /\ created \in [Configs -> 0..2]
  BY DEF IInv, TypeOK
<1>4. ASSUME slot[s].pc # "free", Create(slot[s].cfg)
      PROVE  modelExists' \in BOOLEAN /\ created' \in [Configs -> 0..2]
  BY <1>2, <1>3, <1>4 DEF Create
<1>5. ASSUME NEW pc \in {"writeDone", "writeFailed"}, slot[s].pc # "free",
             slot' = [slot EXCEPT ![s].pc = pc], UNCHANGED rec
      PROVE  slot' \in [Slots -> Goroutine] /\ Engaged'
  BY <1>1, <1>5 DEF IInv, Engaged, Goroutine
<1>6. CASE PushSucceeds(s)
  BY <1>3, <1>4, <1>5, <1>6, SlotStep DEF PushSucceeds
<1>7. CASE PushFails(s)
  <2>1. modelExists' \in BOOLEAN /\ created' \in [Configs -> 0..2]
    BY <1>3, <1>4, <1>7 DEF PushFails, Baseten
  <2> QED BY <1>5, <1>7, <2>1, FaultBounded, SlotStep DEF PushFails
<1>8. CASE LoseWriteBack(s)
  <2>1. slot' \in [Slots -> Goroutine]
    BY <1>1, <1>8 DEF LoseWriteBack, Goroutine, Free
  <2>2. Engaged'
    BY <1>1, <1>8 DEF LoseWriteBack, IInv, Engaged, Free
  <2>3. faults' \in 0..MaxFaults
    BY <1>3, <1>8, FaultBounded DEF LoseWriteBack
  <2> QED BY <1>3, <1>8, <2>1, <2>2, <2>3, SlotStep DEF LoseWriteBack, Baseten
<1>9. ASSUME slot[s].pc # "free"
      PROVE  cache[slot[s].cr].st \in Status /\ Clocked(cache[slot[s].cr].st)
  BY <1>2, <1>9 DEF IInv, TypeOK, CopiesClocked
<1>10. CASE UpdatePushStatus(s)
  <2> DEFINE st == [ClearPushFailure(cache[slot[s].cr].st) EXCEPT
                      !.push = "done", !.time = "none"]
  <2>1. st \in Status /\ Clocked(st)
    BY <1>9, <1>10 DEF UpdatePushStatus, WriteBack, ClearPushFailure, Status, Clocked
  <2> QED BY <1>10, <2>1, WriteBackStep DEF UpdatePushStatus
<1>11. CASE RecordPushFailure(s)
  <2> DEFINE st == [cache[slot[s].cr].st EXCEPT
                      !.push = "failed", !.time = "none", !.retry = "waiting"]
  <2>1. st \in Status /\ Clocked(st)
    BY <1>9, <1>11 DEF RecordPushFailure, WriteBack, Status, Clocked
  <2> QED BY <1>11, <2>1, WriteBackStep DEF RecordPushFailure
<1> QED BY <1>6, <1>7, <1>8, <1>10, <1>11 DEF AsyncPush

LEMMA DeliverIInv == ASSUME IInv, NEW cr \in CRs, Deliver(cr) PROVE IInv'
<1>1. TypeOK'
  BY DEF IInv, TypeOK, Deliver, Baseten
<1>2. Engaged' /\ Recoverable' /\ CopiesClocked'
  BY DEF IInv, TypeOK, Engaged, Recoverable, CopiesClocked, Deliver
<1> QED BY <1>1, <1>2 DEF IInv

LEMMA EditIInv ==
  ASSUME IInv, NEW cr \in CRs, NEW c \in Configs, Edit(cr, c) PROVE IInv'
<1>1. edits' \in 0..MaxEdits
  BY BoundsAssumption DEF IInv, TypeOK, Edit
<1>2. TypeOK'
  <2>1. api' \in [CRs -> [cfg : Configs, st : Status]]
    BY DEF IInv, TypeOK, Edit
  <2>2. cache' \in [CRs -> [cfg : Configs, st : Status, fresh : BOOLEAN]]
    BY DEF IInv, TypeOK, Edit, Stale
  <2>3. rec' \in [CRs -> Worker]
    BY StaleTyped DEF IInv, TypeOK, Edit
  <2> QED BY <1>1, <2>1, <2>2, <2>3 DEF IInv, TypeOK, Edit, Baseten
<1>3. Engaged' /\ Recoverable' /\ CopiesClocked'
  BY DEF IInv, TypeOK, Engaged, Recoverable, CopiesClocked, Edit, Stale, Worker
<1> QED BY <1>2, <1>3 DEF IInv

LEMMA ClockedAge ==
  ASSUME NEW st \in Status
  PROVE  LET n == [st EXCEPT !.time = AgeOf(@)] IN
           n \in Status /\ (Clocked(st) => Clocked(n))
BY DEF Status, AgeOf, Clocked

LEMMA ClockedElapse ==
  ASSUME NEW st \in Status
  PROVE  LET n == [st EXCEPT !.retry = ElapseOf(@)] IN
           n \in Status /\ (Clocked(st) => Clocked(n))
BY DEF Status, ElapseOf, Clocked

(* A clock step changes the status of one CR, in every copy, to f, g, h. *)
LEMMA ClockStep ==
  ASSUME IInv, NEW cr \in CRs, NEW f \in Status, NEW g \in Status, NEW h \in Status,
         Clocked(f), Clocked(g), rec[cr].pc # "mark" => Clocked(h),
         api' = [api EXCEPT ![cr].st = f],
         cache' = [cache EXCEPT ![cr].st = g],
         rec' = [rec EXCEPT ![cr].st = h],
         slot' \in [Slots -> Goroutine],
         \A s \in Slots : slot'[s].pc # "free" => slot'[s].cr # None /\ slot'[s].cfg # None,
         UNCHANGED <<Baseten, edits, faults>>
  PROVE  IInv'
<1>1. TypeOK'
  <2>1. rec' \in [CRs -> Worker]
    BY DEF IInv, TypeOK, Worker
  <2> QED BY <2>1 DEF IInv, TypeOK, Baseten
<1>2. Engaged'
  BY DEF IInv, TypeOK, Engaged, Worker
<1>3. Recoverable' /\ CopiesClocked'
  BY DEF IInv, TypeOK, Recoverable, CopiesClocked, Worker
<1> QED BY <1>1, <1>2, <1>3 DEF IInv

LEMMA StatusesTyped ==
  ASSUME IInv, NEW cr \in CRs
  PROVE  /\ api[cr].st \in Status /\ cache[cr].st \in Status /\ rec[cr].st \in Status
         /\ Clocked(api[cr].st) /\ Clocked(cache[cr].st)
         /\ rec[cr].pc # "mark" => Clocked(rec[cr].st)
BY DEF IInv, TypeOK, Worker, Recoverable, CopiesClocked

LEMMA AgeIInv == ASSUME IInv, NEW cr \in CRs, Age(cr) PROVE IInv'
<1> DEFINE aged(st) == [st EXCEPT !.time = AgeOf(@)]
<1>1. /\ aged(api[cr].st) \in Status /\ aged(cache[cr].st) \in Status
      /\ aged(rec[cr].st) \in Status
      /\ Clocked(aged(api[cr].st)) /\ Clocked(aged(cache[cr].st))
      /\ rec[cr].pc # "mark" => Clocked(aged(rec[cr].st))
  BY StatusesTyped, ClockedAge
<1>2. /\ api' = [api EXCEPT ![cr].st = aged(api[cr].st)]
      /\ cache' = [cache EXCEPT ![cr].st = aged(cache[cr].st)]
      /\ rec' = [rec EXCEPT ![cr].st = aged(rec[cr].st)]
      /\ UNCHANGED <<Baseten, edits, faults>>
  BY DEF Age, IInv, TypeOK, Worker
<1>3. slot' \in [Slots -> Goroutine]
  <2>1. \A s \in Slots : /\ slot[s] \in Goroutine
                         /\ [slot[s] EXCEPT !.age = "old"] \in Goroutine
    BY DEF IInv, TypeOK, Goroutine
  <2> QED BY <2>1 DEF Age
<1>4. \A s \in Slots : slot'[s].pc # "free" => slot'[s].cr # None /\ slot'[s].cfg # None
  BY DEF Age, IInv, TypeOK, Engaged, Goroutine
<1> HIDE DEF aged
<1> QED BY <1>1, <1>2, <1>3, <1>4, ClockStep

LEMMA ElapseIInv == ASSUME IInv, NEW cr \in CRs, Elapse(cr) PROVE IInv'
<1> DEFINE past(st) == [st EXCEPT !.retry = ElapseOf(@)]
<1>1. /\ past(api[cr].st) \in Status /\ past(cache[cr].st) \in Status
      /\ past(rec[cr].st) \in Status
      /\ Clocked(past(api[cr].st)) /\ Clocked(past(cache[cr].st))
      /\ rec[cr].pc # "mark" => Clocked(past(rec[cr].st))
  BY StatusesTyped, ClockedElapse
<1>2. /\ api' = [api EXCEPT ![cr].st = past(api[cr].st)]
      /\ cache' = [cache EXCEPT ![cr].st = past(cache[cr].st)]
      /\ rec' = [rec EXCEPT ![cr].st = past(rec[cr].st)]
      /\ UNCHANGED <<slot, Baseten, edits, faults>>
  BY DEF Elapse, IInv, TypeOK, Worker
<1>3. /\ slot' \in [Slots -> Goroutine]
      /\ \A s \in Slots : slot'[s].pc # "free" => slot'[s].cr # None /\ slot'[s].cfg # None
  BY <1>2 DEF IInv, TypeOK, Engaged
<1> HIDE DEF past
<1> QED BY <1>1, <1>2, <1>3, ClockStep

LEMMA CrashIInv == ASSUME IInv, Crash PROVE IInv'
<1>1. rec' \in [CRs -> Worker] /\ slot' \in [Slots -> Goroutine]
  BY IdleSound DEF Crash, Sound, Free, Goroutine
<1>2. TypeOK'
  BY <1>1, FaultBounded DEF Crash, IInv, TypeOK, Baseten
<1>3. Engaged'
  BY DEF Crash, Engaged, Idle, Free
<1>4. Recoverable' /\ CopiesClocked'
  BY IdleSound DEF Crash, IInv, Recoverable, CopiesClocked, Sound, Idle
<1> QED BY <1>2, <1>3, <1>4 DEF IInv

LEMMA NextIInv == IInv /\ [Next]_vars => IInv'
<1> SUFFICES ASSUME IInv, [Next]_vars PROVE IInv'
  OBVIOUS
<1>1. CASE UNCHANGED vars
  BY <1>1 DEF vars, IInv, TypeOK, Engaged, Recoverable, CopiesClocked
<1>2. CASE Next
  BY <1>2, ReconcileIInv, DeliverIInv, AgeIInv, ElapseIInv, EditIInv,
     AsyncPushIInv, CrashIInv DEF Next
<1> QED BY <1>1, <1>2

(* The invariant behind the theorems below. *)
THEOREM Invariance == Spec => []IInv
BY InitIInv, NextIInv, PTL DEF Spec

(* Every variable keeps its type. *)
THEOREM TypeCorrect == Spec => []TypeOK
BY Invariance, PTL DEF IInv

(* The stored truss status can always be left: a push announced there goes *)
(* stale, a failed one is retried (reconcileTrussDeployment), whatever     *)
(* copies the writers of the status worked on.                             *)
THEOREM AlwaysRecoverable == Spec => []Recoverable
BY Invariance, PTL DEF IInv

(* DoneMeansCreated.  It, too, speaks of stored statuses only, and "done"  *)
(* is written by a worker that found the deployment or by a goroutine that *)
(* pushed it, each with the config it started from.  Without edits these   *)
(* configs are all the CR's, and what one of them has seen created stays.  *)
Made(cr) == created[api[cr].cfg] > 0
True(cr, st) == st.push = "done" => Made(cr)

(* A worker of cr that may be put in the place of the one there is. *)
Honest(cr, r) ==
  /\ True(cr, r.st)
  /\ r.pc # "idle" => r.cfg = api[cr].cfg
  /\ r.pc = "found" => Made(cr)

HonestSlot(s) ==
  /\ slot[s].pc # "free" => slot[s].cfg = api[slot[s].cr].cfg
  /\ slot[s].pc = "writeDone" => Made(slot[s].cr)

Faithful ==
  /\ \A cr \in CRs : /\ cache[cr].cfg = api[cr].cfg
                     /\ True(cr, api[cr].st) /\ True(cr, cache[cr].st)
                     /\ Honest(cr, rec[cr])
  /\ \A s \in Slots : HonestSlot(s)

UnlessEdited == edits = 0 => Faithful

LEMMA InitFaithful == Init => Faithful
BY DEF Init, Faithful, Honest, HonestSlot, True, Idle, Free, Blank

LEMMA IdleHonest == ASSUME NEW cr PROVE Honest(cr, Idle)
BY DEF Honest, True, Idle, Blank

LEMMA DecideHonest ==
  ASSUME NEW cr \in CRs, NEW r, Sound(r), Honest(cr, r), r.pc \in {"resolve", "find"}
  PROVE  Honest(cr, Decide(r))
<1>1. /\ Honest(cr, Go(r, "clear")) /\ Honest(cr, Go(r, "log"))
      /\ Honest(cr, Go(r, "mark"))
  BY DEF Sound, Honest, True, Worker, Go
<1>2. Honest(cr, [r EXCEPT !.pc = "mark", !.st = ClearPushFailure(r.st)])
  BY DEF Sound, Honest, True, Worker, ClearPushFailure, Status
<1> QED BY <1>1, <1>2 DEF Decide

(* A step that only moves one worker. *)
LEMMA WorkerFaithful ==
  ASSUME IInv, Faithful, NEW cr \in CRs, NEW r, Honest(cr, r),
         rec' = [rec EXCEPT ![cr] = r], UNCHANGED <<api, cache, slot, Baseten>>
  PROVE  Faithful'
BY DEF IInv, TypeOK, Baseten, Faithful, Honest, HonestSlot, True, Made

(* An update of the status with a copy that tells the truth. *)
LEMMA UpdateFaithful ==
  ASSUME IInv, Faithful, NEW cr \in CRs, NEW r \in Worker, Honest(cr, r),
         r.pc # "idle", NEW pc \in {"idle", "mark", "acquire", "log"},
         Update(cr, r, pc), UNCHANGED <<slot, Baseten>>
  PROVE  Faithful'
<1>1. Honest(cr, Go(r, pc))
  BY IdleHonest DEF Honest, True, Worker, Go
<1>2. rec' = [rec EXCEPT ![cr] = Go(r, pc)]
  BY DEF Update
<1>3. CASE api' = api /\ cache' = cache
  BY <1>1, <1>2, <1>3, WorkerFaithful
<1>4. CASE api' = [api EXCEPT ![cr].st = r.st] /\ cache' = Stale(cache, cr)
  <2>1. \A c \in CRs : /\ api'[c].cfg = api[c].cfg /\ cache'[c].cfg = cache[c].cfg
                       /\ cache'[c].st = cache[c].st
                       /\ api'[c].st = IF c = cr THEN r.st ELSE api[c].st
                       /\ rec'[c] = IF c = cr THEN Go(r, pc) ELSE rec[c]
    BY <1>2, <1>4 DEF IInv, TypeOK, Stale
  <2>2. \A s \in Slots : HonestSlot(s)'
    BY <2>1 DEF IInv, TypeOK, Engaged, Goroutine, Faithful, HonestSlot, Made, Baseten
  <2>3. True(cr, r.st)
    BY DEF Honest
  <2> QED BY <1>1, <2>1, <2>2, <2>3 DEF Faithful, Honest, True, Made, Baseten
<1> QED BY <1>3, <1>4 DEF Update

LEMMA ReconcileFaithful ==
  ASSUME IInv, Faithful, NEW cr \in CRs, Reconcile(cr) \/ Abort(cr)
  PROVE  Faithful'
<1> DEFINE r == rec[cr]
<1>1. Sound(r) /\ Honest(cr, r)
  BY IInvSound DEF Faithful
<1>2. CASE Start(cr)
  <2>1. cache[cr].cfg = api[cr].cfg /\ True(cr, cache[cr].st)
    BY DEF Faithful
  <2>2. Honest(cr, [pc |-> "resolve", cfg |-> cache[cr].cfg,
                    st |-> cache[cr].st, fresh |-> cache[cr].fresh])
    BY <2>1 DEF Honest, True
  <2> QED BY <1>2, <2>2, WorkerFaithful DEF Start
<1>3. CASE Resolve(cr)
  <2>1. Honest(cr, Decide(r)) /\ Honest(cr, Go(r, "find"))
    BY <1>1, <1>3, DecideHonest DEF Resolve, Sound, Honest, True, Worker, Go
  <2> QED BY <1>3, <2>1, IdleHonest, WorkerFaithful DEF Resolve
<1>4. CASE Find(cr)
  <2>1. Honest(cr, Decide(r))
    BY <1>1, <1>4, DecideHonest DEF Find
  <2>2. created[r.cfg] > 0 => Honest(cr, Go(r, "found"))
    BY <1>1, <1>4 DEF Find, Sound, Honest, True, Made, Worker, Go
  <2> QED BY <1>4, <2>1, <2>2, WorkerFaithful DEF Find
<1>5. CASE Abort(cr)
  <2>1. Honest(cr, Go(r, "log"))
    BY <1>1, <1>5 DEF Abort, Sound, Honest, True, Worker, Go
  <2> QED BY <1>5, <2>1, WorkerFaithful DEF Abort
<1>6. CASE SaveFound(cr)
  <2> DEFINE n == [r EXCEPT !.st = [ClearPushFailure(r.st) EXCEPT
                     !.hash = r.cfg, !.source = r.cfg, !.push = "done"]]
  <2>1. n \in Worker /\ n.pc # "idle" /\ Honest(cr, n)
    BY <1>1, <1>6 DEF SaveFound, Sound, Honest, True, Worker, Status, ClearPushFailure
  <2> QED BY <1>6, <2>1, UpdateFaithful DEF SaveFound
<1>7. CASE ClearStale(cr)
  <2> DEFINE n == [r EXCEPT !.st.push = "none", !.st.time = "none"]
  <2>1. n \in Worker /\ n.pc # "idle" /\ Honest(cr, n)
    BY <1>1, <1>7 DEF ClearStale, Sound, Honest, True, Worker, Status
  <2> QED BY <1>7, <2>1, UpdateFaithful DEF ClearStale
<1>8. CASE MarkPushing(cr)
  <2> DEFINE n == [r EXCEPT !.st = [r.st EXCEPT !.hash = r.cfg, !.source = r.cfg,
                     !.push = "pushing", !.time = "recent"]]
  <2>1. n \in Worker /\ n.pc # "idle" /\ Honest(cr, n)
    BY <1>1, <1>8 DEF MarkPushing, Sound, Honest, True, Worker, Status
  <2> QED BY <1>8, <2>1, UpdateFaithful DEF MarkPushing
<1>9. CASE SemaphoreFull(cr)
  <2>1. Honest(cr, Go(r, "reset"))
    BY <1>1, <1>9 DEF SemaphoreFull, Sound, Honest, True, Worker, Go
  <2> QED BY <1>9, <2>1, WorkerFaithful DEF SemaphoreFull
<1>10. CASE ResetFull(cr)
  <2> DEFINE n == [r EXCEPT !.st.push = "none", !.st.source = None]
  <2>1. n \in Worker /\ n.pc # "idle" /\ Honest(cr, n)
    BY <1>1, <1>10 DEF ResetFull, Sound, Honest, True, Worker, Status
  <2> QED BY <1>10, <2>1, UpdateFaithful DEF ResetFull
<1>11. CASE LogStatus(cr)
  <2>1. CASE Update(cr, r, "idle")
    BY <1>1, <1>11, <2>1, UpdateFaithful DEF LogStatus, Sound
  <2>2. CASE rec' = [rec EXCEPT ![cr] = Idle] /\ UNCHANGED <<api, cache, faults>>
    BY <1>11, <2>2, IdleHonest, WorkerFaithful DEF LogStatus
  <2> QED BY <1>11, <2>1, <2>2 DEF LogStatus
<1>12. CASE Launch(cr)
  <2>1. Honest(cr, Go(r, "log")) /\ r.cfg = api[cr].cfg
    BY <1>1, <1>12 DEF Launch, Sound, Honest, True, Worker, Go
  <2>2. PICK s \in Slots :
          slot' = [slot EXCEPT ![s] = [pc |-> "push", cr |-> cr,
                                       cfg |-> r.cfg, age |-> "recent"]]
    BY <1>12 DEF Launch
  <2>3. /\ rec' = [rec EXCEPT ![cr] = Go(r, "log")]
        /\ UNCHANGED <<api, cache, created>>
    BY <1>12 DEF Launch, Baseten
  <2>4. \A t \in Slots : HonestSlot(t)'
    BY <2>1, <2>2, <2>3 DEF IInv, TypeOK, Faithful, HonestSlot, Made
  <2> QED BY <2>1, <2>3, <2>4 DEF IInv, TypeOK, Faithful, Honest, True, Made
<1> QED BY <1>2, <1>3, <1>4, <1>5, <1>6, <1>7, <1>8, <1>9, <1>10, <1>11, <1>12
        DEF Reconcile

(* A step of a goroutine: what was created stays, workers keep what they   *)
(* know, and the status it may write tells the truth.                      *)
LEMMA SlotFaithful ==
  ASSUME IInv, Faithful, \A c \in Configs : created[c] > 0 => created'[c] > 0,
         \A s \in Slots : slot'[s] = Free \/ slot'[s] = slot[s] \/
            /\ slot'[s].cr = slot[s].cr /\ slot'[s].cfg = slot[s].cfg
            /\ slot[s].pc = "push" /\ slot'[s].pc \in {"writeDone", "writeFailed"}
            /\ slot'[s].pc = "writeDone" => created'[slot[s].cfg] > 0,
         UNCHANGED <<api, cache, rec>>
  PROVE  Faithful'
<1>1. \A cr \in CRs : Made(cr) => Made(cr)'
  BY DEF IInv, TypeOK, Made
<1>2. ASSUME NEW s \in Slots PROVE HonestSlot(s)'
  <2>1. HonestSlot(s) /\ (slot[s].pc # "free" => slot[s].cr \in CRs)
    BY DEF IInv, TypeOK, Engaged, Goroutine, Faithful
  <2> QED BY <1>1, <2>1 DEF HonestSlot, Free, Made
<1> QED BY <1>1, <1>2 DEF Faithful, Honest, True

LEMMA WriteBackFaithful ==
  ASSUME IInv, Faithful, NEW s \in Slots, NEW pc, NEW st,
         pc # "free", True(slot[s].cr, st), WriteBack(s, pc, st)
  PROVE  Faithful'
<1> DEFINE cr == slot[s].cr
<1>1. cr \in CRs
  BY DEF IInv, TypeOK, Engaged, Goroutine, WriteBack
<1>2. \A c \in CRs : /\ api'[c].cfg = api[c].cfg
                     /\ api'[c].st = IF c = cr THEN st ELSE api[c].st
                     /\ cache'[c].cfg = cache[c].cfg /\ cache'[c].st = cache[c].st
                     /\ rec'[c].cfg = rec[c].cfg /\ rec'[c].st = rec[c].st
                     /\ rec'[c].pc = rec[c].pc
  BY <1>1 DEF WriteBack, Stale, IInv, TypeOK, Worker
<1>3. \A t \in Slots : slot'[t] = Free \/ slot'[t] = slot[t]
  BY DEF WriteBack, IInv, TypeOK
<1>4. created' = created
  BY DEF WriteBack, Baseten
<1>5. \A t \in Slots : HonestSlot(t)'
  BY <1>2, <1>3, <1>4
  DEF IInv, TypeOK, Engaged, Goroutine, Faithful, HonestSlot, Made, Free
<1> QED BY <1>1, <1>2, <1>4, <1>5 DEF Faithful, Honest, True, Made

LEMMA AsyncPushFaithful ==
  ASSUME IInv, Faithful, NEW s \in Slots, AsyncPush(s)
  PROVE  Faithful'
<1>1. slot[s].pc # "free" => /\ slot[s].cfg \in Configs /\ slot[s].cr \in CRs
                            /\ True(slot[s].cr, cache[slot[s].cr].st)
                            /\ cache[slot[s].cr].st \in Status
  BY DEF IInv, TypeOK, Engaged, Goroutine, Faithful
<1>2. ASSUME slot[s].pc # "free", Create(slot[s].cfg)
      PROVE  /\ \A c \in Configs : created[c] > 0 => created'[c] > 0
             /\ created'[slot[s].cfg] > 0
  BY <1>1, <1>2 DEF Create, IInv, TypeOK
<1>3. CASE PushSucceeds(s)
  BY <1>2, <1>3, SlotFaithful DEF PushSucceeds, IInv, TypeOK, Goroutine
<1>4. CASE PushFails(s)
  <2>1. \A c \in Configs : created[c] > 0 => created'[c] > 0
    BY <1>2, <1>4 DEF PushFails, Baseten
  <2> QED BY <1>4, <2>1, SlotFaithful DEF PushFails, IInv, TypeOK, Goroutine
<1>5. CASE LoseWriteBack(s)
  BY <1>5, SlotFaithful DEF LoseWriteBack, Baseten, IInv, TypeOK
<1>6. CASE UpdatePushStatus(s)
  <2>1. Made(slot[s].cr)
    BY <1>6 DEF UpdatePushStatus, WriteBack, Faithful, HonestSlot
  <2> QED BY <1>6, <2>1, WriteBackFaithful DEF UpdatePushStatus, True
<1>7. CASE RecordPushFailure(s)
  <2> DEFINE st == [cache[slot[s].cr].st EXCEPT
                      !.push = "failed", !.time = "none", !.retry = "waiting"]
  <2>1. st.push # "done"
    BY <1>1, <1>7 DEF RecordPushFailure, WriteBack, Status
  <2> QED BY <1>7, <2>1, WriteBackFaithful DEF RecordPushFailure, True
<1> QED BY <1>3, <1>4, <1>5, <1>6, <1>7 DEF AsyncPush

(* Deliveries, clocks and crashes only copy, and never touch `push'. *)
LEMMA OthersFaithful ==
  ASSUME IInv, Faithful, NEW cr \in CRs,
         Deliver(cr) \/ Age(cr) \/ Elapse(cr) \/ Crash
  PROVE  Faithful'
<1>1. CASE Deliver(cr)
  BY <1>1 DEF Deliver, Baseten, IInv, TypeOK, Faithful, Honest, HonestSlot, True, Made
<1>2. ASSUME \A c \in CRs :
               /\ api'[c].cfg = api[c].cfg /\ api'[c].st.push = api[c].st.push
               /\ cache'[c].cfg = cache[c].cfg /\ cache'[c].st.push = cache[c].st.push
               /\ rec'[c].cfg = rec[c].cfg /\ rec'[c].st.push = rec[c].st.push
               /\ rec'[c].pc = rec[c].pc,
             \A s \in Slots : /\ slot'[s].pc = slot[s].pc /\ slot'[s].cr = slot[s].cr
                              /\ slot'[s].cfg = slot[s].cfg,
             UNCHANGED created
      PROVE  Faithful'
  <2>1. \A s \in Slots : HonestSlot(s)'
    BY <1>2 DEF IInv, TypeOK, Engaged, Goroutine, Faithful, HonestSlot, Made
  <2> QED BY <1>2, <2>1 DEF Faithful, Honest, True, Made
<1>3. CASE Age(cr)
  <2>1. \A c \in CRs :
               /\ api'[c].cfg = api[c].cfg /\ api'[c].st.push = api[c].st.push
               /\ cache'[c].cfg = cache[c].cfg /\ cache'[c].st.push = cache[c].st.push
               /\ rec'[c].cfg = rec[c].cfg /\ rec'[c].st.push = rec[c].st.push
               /\ rec'[c].pc = rec[c].pc
    BY <1>3 DEF Age, IInv, TypeOK, Worker, Status
  <2>2. \A s \in Slots : /\ slot'[s].pc = slot[s].pc /\ slot'[s].cr = slot[s].cr
                         /\ slot'[s].cfg = slot[s].cfg
    BY <1>3 DEF Age, IInv, TypeOK, Goroutine
  <2> QED BY <1>2, <1>3, <2>1, <2>2 DEF Age, Baseten
<1>4. CASE Elapse(cr)
  <2>1. \A c \in CRs :
               /\ api'[c].cfg = api[c].cfg /\ api'[c].st.push = api[c].st.push
               /\ cache'[c].cfg = cache[c].cfg /\ cache'[c].st.push = cache[c].st.push
               /\ rec'[c].cfg = rec[c].cfg /\ rec'[c].st.push = rec[c].st.push
               /\ rec'[c].pc = rec[c].pc
    BY <1>4 DEF Elapse, IInv, TypeOK, Worker, Status
  <2> QED BY <1>2, <1>4, <2>1 DEF Elapse, Baseten
<1>5. CASE Crash
  BY <1>5, IdleHonest
  DEF Crash, Baseten, IInv, TypeOK, Faithful, Honest, HonestSlot, True, Made, Free, Idle, Blank
<1> QED BY <1>1, <1>3, <1>4, <1>5

LEMMA NextUnlessEdited == IInv /\ UnlessEdited /\ [Next]_vars => UnlessEdited'
<1> SUFFICES ASSUME IInv, UnlessEdited, [Next]_vars, edits' = 0 PROVE Faithful'
  BY DEF UnlessEdited
<1>1. CASE UNCHANGED vars
  BY <1>1 DEF vars, UnlessEdited, Faithful, Honest, HonestSlot, True, Made
<1>2. CASE Next
  <2>1. ASSUME NEW cr \in CRs, NEW c \in Configs, Edit(cr, c) PROVE FALSE
    BY <2>1 DEF Edit, IInv, TypeOK
  <2>2. CASE \E cr \in CRs : Reconcile(cr) \/ Abort(cr)
    <3>1. edits = 0
      BY <2>2 DEF Reconcile, Start, Resolve, Find, SaveFound, ClearStale, MarkPushing,
                  Launch, SemaphoreFull, ResetFull, LogStatus, Abort
    <3> QED BY <2>2, <3>1, ReconcileFaithful DEF UnlessEdited
  <2>3. CASE \E cr \in CRs : Deliver(cr) \/ Age(cr) \/ Elapse(cr)
    <3>1. edits = 0
      BY <2>3 DEF Deliver, Age, Elapse
    <3> QED BY <2>3, <3>1, OthersFaithful DEF UnlessEdited
  <2>4. CASE \E s \in Slots : AsyncPush(s)
    <3>1. edits = 0
      BY <2>4 DEF AsyncPush, PushSucceeds, PushFails, UpdatePushStatus,
                  RecordPushFailure, WriteBack, LoseWriteBack
    <3> QED BY <2>4, <3>1, AsyncPushFaithful DEF UnlessEdited
  <2>5. CASE Crash
    <3>1. edits = 0
      BY <2>5 DEF Crash
    <3>2. CASE CRs = {}
      BY <2>5, <3>2 DEF Crash, Faithful, HonestSlot, Free
    <3>3. CASE CRs # {}
      BY <2>5, <3>1, <3>3, OthersFaithful DEF UnlessEdited
    <3> QED BY <3>2, <3>3
  <2> QED BY <1>2, <2>1, <2>2, <2>3, <2>4, <2>5 DEF Next
<1> QED BY <1>1, <1>2

(* "TRUSS_PUSH_DONE (deployment created)": as long as no config was edited *)
(* no combination of failed pushes, lost writes, restarts and other CRs    *)
(* makes the operator believe in a deployment that is not there.           *)
THEOREM DoneIsTrue == Spec => []DoneMeansCreated
<1>1. Init => UnlessEdited
  BY InitFaithful DEF UnlessEdited
<1>2. UnlessEdited => DoneMeansCreated
  BY DEF UnlessEdited, DoneMeansCreated, Faithful, Done, True, Made
<1> QED BY Invariance, NextUnlessEdited, <1>1, <1>2, PTL DEF Spec
-----------------------------------------------------------------------------
(* A rollout that is settled stays so.                                     *)

(* A current copy is what is stored, and Baseten keeps the model of what   *)
(* was created.                                                            *)
Current ==
  /\ \A cr \in CRs : cache[cr].fresh => /\ cache[cr].cfg = api[cr].cfg
                                        /\ cache[cr].st = api[cr].st
  /\ \A c \in Configs : created[c] > 0 => modelExists

(* A copy o that shows the push of c as finished. *)
Finished(o, c) == o.cfg = c /\ o.st.push = "done" /\ o.st.hash = c

(* All that is known of a CR shows its push as finished: reconciles take   *)
(* the fast path, and at worst write that status once more.                *)
Rest(cr) ==
  /\ edits = MaxEdits /\ modelExists
  /\ Finished(api[cr], api[cr].cfg) /\ Finished(cache[cr], api[cr].cfg)
  /\ rec[cr].pc \in {"idle", "resolve", "log"}
  /\ rec[cr].pc # "idle" => Finished(rec[cr], api[cr].cfg)
  /\ \A s \in Slots : slot[s].cr # cr

LEMMA WriteCurrent ==
  ASSUME TypeOK, Current, NEW cr \in CRs, NEW st, api' = [api EXCEPT ![cr].st = st],
         cache' = Stale(cache, cr), UNCHANGED Baseten
  PROVE  Current'
BY DEF TypeOK, Current, Stale, Baseten

LEMMA SameCurrent == ASSUME Current, UNCHANGED <<api, cache, Baseten>> PROVE Current'
BY DEF Current, Baseten

LEMMA CreateCurrent ==
  ASSUME Current, NEW c, Create(c), UNCHANGED <<api, cache>> PROVE Current'
BY DEF Current, Create

LEMMA NextCurrent == TypeOK /\ Current /\ [Next]_vars => Current'
<1> SUFFICES ASSUME TypeOK, Current, [Next]_vars PROVE Current'
  OBVIOUS
<1>1. ASSUME NEW cr \in CRs, NEW r, NEW pc, Update(cr, r, pc), UNCHANGED Baseten
      PROVE  Current'
  BY <1>1, WriteCurrent, SameCurrent DEF Update
<1>2. ASSUME NEW cr \in CRs, Reconcile(cr) PROVE Current'
  <2>1. CASE SaveFound(cr)
    BY <1>1, <2>1 DEF SaveFound
  <2>2. CASE ClearStale(cr)
    BY <1>1, <2>2 DEF ClearStale
  <2>3. CASE MarkPushing(cr)
    BY <1>1, <2>3 DEF MarkPushing
  <2>4. CASE ResetFull(cr)
    BY <1>1, <2>4 DEF ResetFull
  <2>5. CASE LogStatus(cr)
    BY <1>1, <2>5, SameCurrent DEF LogStatus
  <2>6. CASE Start(cr) \/ Resolve(cr) \/ Find(cr) \/ Launch(cr) \/ SemaphoreFull(cr)
    BY <2>6, SameCurrent DEF Start, Resolve, Find, Launch, SemaphoreFull
  <2> QED BY <1>2, <2>1, <2>2, <2>3, <2>4, <2>5, <2>6 DEF Reconcile
<1>3. ASSUME NEW cr \in CRs, Abort(cr) PROVE Current'
  BY <1>3, SameCurrent DEF Abort
<1>4. ASSUME NEW cr \in CRs, Deliver(cr) PROVE Current'
  BY <1>4 DEF Deliver, TypeOK, Current, Baseten
<1>5. ASSUME NEW cr \in CRs, Age(cr) PROVE Current'
  BY <1>5 DEF Age, TypeOK, Current, Baseten
<1>6. ASSUME NEW cr \in CRs, Elapse(cr) PROVE Current'
  BY <1>6 DEF Elapse, TypeOK, Current, Baseten
<1>7. ASSUME NEW cr \in CRs, NEW c \in Configs, Edit(cr, c) PROVE Current'
  BY <1>7 DEF Edit, Stale, TypeOK, Current, Baseten
<1>8. ASSUME NEW s \in Slots, AsyncPush(s) PROVE Current'
  <2>1. ASSUME NEW pc, NEW st, WriteBack(s, pc, st) PROVE Current'
    <3>1. CASE slot[s].cr \in CRs
      BY <2>1, <3>1, WriteCurrent DEF WriteBack
    <3>2. CASE slot[s].cr \notin CRs
      BY <2>1, <3>2, SameCurrent DEF WriteBack, TypeOK, Stale
    <3> QED BY <3>1, <3>2
  <2>2. CASE PushSucceeds(s) \/ PushFails(s)
    BY <2>2, SameCurrent, CreateCurrent DEF PushSucceeds, PushFails
  <2>3. CASE LoseWriteBack(s)
    BY <2>3, SameCurrent DEF LoseWriteBack
  <2> QED BY <1>8, <2>1, <2>2, <2>3 DEF AsyncPush, UpdatePushStatus, RecordPushFailure
<1>9. CASE Crash
  BY <1>9 DEF Crash, Current, Baseten
<1>10. CASE UNCHANGED vars
  BY <1>10, SameCurrent DEF vars, Baseten
<1> QED BY <1>2, <1>3, <1>4, <1>5, <1>6, <1>7, <1>8, <1>9, <1>10 DEF Next


LEMMA OwnRest ==
  ASSUME TypeOK, NEW cr \in CRs, Rest(cr), Reconcile(cr) \/ Abort(cr) PROVE Rest(cr)'
<1>1. /\ rec[cr] \in Worker /\ api[cr].st \in Status
      /\ rec[cr].pc \in {"idle", "resolve", "log"}
      /\ rec[cr].pc # "idle" => Finished(rec[cr], api[cr].cfg)
  BY DEF TypeOK, Rest
<1>2. UNCHANGED <<slot, modelExists, edits>>
  BY <1>1 DEF Reconcile, Start, Resolve, Find, SaveFound, ClearStale, MarkPushing,
              Launch, SemaphoreFull, ResetFull, LogStatus, Abort, Baseten
<1>3. ASSUME NEW next, rec' = [rec EXCEPT ![cr] = next], UNCHANGED <<api, cache>>,
             next.pc \in {"idle", "resolve", "log"},
             next.pc # "idle" => Finished(next, api[cr].cfg)
      PROVE  Rest(cr)'
  <2>1. rec'[cr] = next
    BY <1>3 DEF TypeOK
  <2> QED BY <1>2, <1>3, <2>1 DEF Rest, Finished
<1>4. Idle.pc = "idle"
  BY DEF Idle
<1>5. CASE Start(cr)
  <2> DEFINE next == [pc |-> "resolve", cfg |-> cache[cr].cfg,
                      st |-> cache[cr].st, fresh |-> cache[cr].fresh]
  <2>1. next.pc = "resolve" /\ Finished(next, api[cr].cfg)
    BY DEF Rest, Finished
  <2>2. rec' = [rec EXCEPT ![cr] = next] /\ UNCHANGED <<api, cache>>
    BY <1>5 DEF Start
  <2> QED BY <1>3, <2>1, <2>2
<1>6. CASE Resolve(cr)
  <2>1. rec[cr].st.hash = rec[cr].cfg /\ rec[cr].st.push = "done" /\ modelExists
    BY <1>1, <1>6 DEF Resolve, Rest, Finished
  <2>2. rec' = [rec EXCEPT ![cr] = Idle] /\ UNCHANGED <<api, cache>>
    BY <1>6, <2>1 DEF Resolve
  <2> QED BY <1>3, <1>4, <2>2
<1>7. CASE Abort(cr)
  <2> DEFINE next == [rec[cr] EXCEPT !.pc = "log"]
  <2>1. next.pc = "log" /\ Finished(next, api[cr].cfg)
    BY <1>1, <1>7 DEF Abort, Worker, Finished
  <2>2. rec' = [rec EXCEPT ![cr] = next] /\ UNCHANGED <<api, cache>>
    BY <1>7 DEF Abort, Go, TypeOK
  <2> QED BY <1>3, <2>1, <2>2
<1>8. CASE LogStatus(cr)
  <2>1. CASE rec' = [rec EXCEPT ![cr] = Idle] /\ UNCHANGED <<api, cache>>
    BY <1>3, <1>4, <2>1
  <2>2. CASE /\ api' = [api EXCEPT ![cr].st = rec[cr].st]
             /\ cache' = Stale(cache, cr)
             /\ rec' = [rec EXCEPT ![cr] = Idle]
    <3>1. Finished(rec[cr], api[cr].cfg)
      BY <1>1, <1>8 DEF LogStatus
    <3>2. api'[cr].cfg = api[cr].cfg /\ api'[cr].st = rec[cr].st
      BY <2>2 DEF TypeOK
    <3>3. cache'[cr].cfg = cache[cr].cfg /\ cache'[cr].st = cache[cr].st
      BY <2>2 DEF TypeOK, Stale
    <3>4. rec'[cr] = Idle
      BY <2>2 DEF TypeOK
    <3> QED BY <1>2, <1>4, <3>1, <3>2, <3>3, <3>4 DEF Rest, Finished
  <2> QED BY <1>8, <2>1, <2>2 DEF LogStatus, Update, Go
<1> QED BY <1>1, <1>5, <1>6, <1>7, <1>8
        DEF Reconcile, Find, SaveFound, ClearStale, MarkPushing, Launch, SemaphoreFull,
            ResetFull

LEMMA OthersRest ==
  ASSUME TypeOK, NEW cr \in CRs, Rest(cr), NEW c \in CRs \ {cr},
         Reconcile(c) \/ Abort(c)
  PROVE  Rest(cr)'
<1>1. UNCHANGED <<modelExists, edits>>
  BY DEF Reconcile, Start, Resolve, Find, SaveFound, ClearStale, MarkPushing,
         Launch, SemaphoreFull, ResetFull, LogStatus, Abort, Baseten
<1>2. rec'[cr] = rec[cr]
  BY DEF Reconcile, Start, Resolve, Find, SaveFound, ClearStale, MarkPushing,
         Launch, SemaphoreFull, ResetFull, LogStatus, Abort, Update, TypeOK
<1>3. /\ api'[cr] = api[cr]
      /\ cache'[cr].cfg = cache[cr].cfg /\ cache'[cr].st = cache[cr].st
  <2>1. ASSUME NEW r, NEW pc, Update(c, r, pc)
        PROVE  /\ api'[cr] = api[cr]
               /\ cache'[cr].cfg = cache[cr].cfg /\ cache'[cr].st = cache[cr].st
    BY <2>1 DEF Update, Stale, TypeOK
  <2> QED BY <2>1 DEF Reconcile, Start, Resolve, Find, SaveFound, ClearStale,
                      MarkPushing, Launch, SemaphoreFull, ResetFull, LogStatus, Abort
<1>4. \A s \in Slots : slot'[s].cr # cr
  <2>1. CASE UNCHANGED slot
    BY <2>1 DEF Rest
  <2>2. CASE Launch(c)
    BY <2>2 DEF Launch, Rest, TypeOK
  <2> QED BY <2>1, <2>2 DEF Reconcile, Start, Resolve, Find, SaveFound, ClearStale,
                      MarkPushing, SemaphoreFull, ResetFull, LogStatus, Abort
<1> QED BY <1>1, <1>2, <1>3, <1>4 DEF Rest, Finished

(* A goroutine is another CR's. *)
LEMMA AsyncPushRest ==
  ASSUME TypeOK, NEW cr \in CRs, Rest(cr), NEW s \in Slots, AsyncPush(s)
  PROVE  Rest(cr)'
<1>1. slot[s].cr # cr /\ slot[s] \in Goroutine /\ Free.cr # cr
  BY CRsAssumption DEF Rest, TypeOK, Free
<1>2. edits' = edits /\ modelExists'
  BY DEF AsyncPush, PushSucceeds, PushFails, UpdatePushStatus, RecordPushFailure,
         WriteBack, LoseWriteBack, Baseten, Create, Rest
<1>3. ASSUME NEW pc, NEW st, WriteBack(s, pc, st)
      PROVE  /\ api'[cr] = api[cr]
             /\ cache'[cr].cfg = cache[cr].cfg /\ cache'[cr].st = cache[cr].st
             /\ rec'[cr] = rec[cr]
  BY <1>1, <1>3 DEF WriteBack, Stale, TypeOK
<1>4. /\ api'[cr] = api[cr]
      /\ cache'[cr].cfg = cache[cr].cfg /\ cache'[cr].st = cache[cr].st
      /\ rec'[cr] = rec[cr]
  BY <1>3 DEF AsyncPush, PushSucceeds, PushFails, UpdatePushStatus, RecordPushFailure,
              LoseWriteBack
<1>5. \A t \in Slots : slot'[t].cr # cr
  <2>1. CASE slot' = [slot EXCEPT ![s] = Free]
    BY <1>1, <2>1 DEF Rest, TypeOK
  <2>2. ASSUME NEW pc, slot' = [slot EXCEPT ![s].pc = pc]
        PROVE  \A t \in Slots : slot'[t].cr # cr
    BY <1>1, <2>2 DEF Rest, TypeOK, Goroutine
  <2> QED BY <2>1, <2>2 DEF AsyncPush, PushSucceeds, PushFails, UpdatePushStatus,
                            RecordPushFailure, WriteBack, LoseWriteBack
<1> QED BY <1>2, <1>4, <1>5 DEF Rest, Finished

(* Deliveries, clocks and restarts. *)
LEMMA ClocksRest ==
  ASSUME TypeOK, NEW cr \in CRs, Rest(cr),
         \/ \E c \in CRs : Deliver(c) \/ Age(c) \/ Elapse(c)
         \/ Crash
  PROVE  Rest(cr)'
<1>1. ASSUME NEW c \in CRs, Deliver(c) PROVE Rest(cr)'
  BY <1>1 DEF Deliver, Rest, Finished, TypeOK, Baseten
<1>2. ASSUME NEW c \in CRs, Age(c) PROVE Rest(cr)'
  <2>1. /\ api'[cr].cfg = api[cr].cfg /\ api'[cr].st.push = api[cr].st.push
        /\ api'[cr].st.hash = api[cr].st.hash
    BY <1>2 DEF Age, TypeOK, Status
  <2>2. /\ cache'[cr].cfg = cache[cr].cfg /\ cache'[cr].st.push = cache[cr].st.push
        /\ cache'[cr].st.hash = cache[cr].st.hash
    BY <1>2 DEF Age, TypeOK, Status
  <2>3. /\ rec'[cr].pc = rec[cr].pc /\ rec'[cr].cfg = rec[cr].cfg
        /\ rec'[cr].st.push = rec[cr].st.push /\ rec'[cr].st.hash = rec[cr].st.hash
    BY <1>2 DEF Age, TypeOK, Worker, Status
  <2>4. \A s \in Slots : slot'[s].cr = slot[s].cr
    BY <1>2 DEF Age, TypeOK, Goroutine
  <2> QED BY <1>2, <2>1, <2>2, <2>3, <2>4 DEF Age, Rest, Finished, Baseten
<1>3. ASSUME NEW c \in CRs, Elapse(c) PROVE Rest(cr)'
  <2>1. /\ api'[cr].cfg = api[cr].cfg /\ api'[cr].st.push = api[cr].st.push
        /\ api'[cr].st.hash = api[cr].st.hash
    BY <1>3 DEF Elapse, TypeOK, Status
  <2>2. /\ cache'[cr].cfg = cache[cr].cfg /\ cache'[cr].st.push = cache[cr].st.push
        /\ cache'[cr].st.hash = cache[cr].st.hash
    BY <1>3 DEF Elapse, TypeOK, Status
  <2>3. /\ rec'[cr].pc = rec[cr].pc /\ rec'[cr].cfg = rec[cr].cfg
        /\ rec'[cr].st.push = rec[cr].st.push /\ rec'[cr].st.hash = rec[cr].st.hash
    BY <1>3 DEF Elapse, TypeOK, Worker, Status
  <2> QED BY <1>3, <2>1, <2>2, <2>3 DEF Elapse, Rest, Finished, Baseten
<1>4. CASE Crash
  BY <1>4, CRsAssumption DEF Crash, Rest, Finished, Idle, Free, Baseten
<1> QED BY <1>1, <1>2, <1>3, <1>4

LEMMA NextRest ==
  ASSUME NEW cr \in CRs PROVE TypeOK /\ Rest(cr) /\ [Next]_vars => Rest(cr)'
<1> SUFFICES ASSUME TypeOK, Rest(cr), [Next]_vars PROVE Rest(cr)'
  OBVIOUS
<1>1. ASSUME NEW c \in CRs, Reconcile(c) \/ Abort(c) PROVE Rest(cr)'
  BY <1>1, OwnRest, OthersRest
<1>2. ASSUME NEW c \in CRs, NEW d \in Configs, Edit(c, d) PROVE FALSE
  BY <1>2, BoundsAssumption DEF Edit, Rest
<1>3. CASE UNCHANGED vars
  BY <1>3 DEF vars, Rest, Finished
<1> QED BY <1>1, <1>2, <1>3, AsyncPushRest, ClocksRest DEF Next

(* "a new hash triggers a new truss push", and nothing else does: once the *)
(* push of a config is recorded and no copy of the CR says otherwise, no   *)
(* restart, time-out, failure or push of another CR starts one again.      *)
THEOREM SettledStaysSettled == Spec => SettledIsStable
<1>1. Init => Current
  BY DEF Init, Current
<1>2. Spec => []Current
  BY <1>1, NextCurrent, TypeCorrect, PTL DEF Spec
<1>3. ASSUME NEW cr \in CRs
      PROVE  Spec => [](Settled(cr) /\ edits = MaxEdits
                          => [](\A s \in Slots : slot[s].cr # cr))
  <2>1. TypeOK /\ Current /\ Settled(cr) /\ edits = MaxEdits => Rest(cr)
    BY DEF TypeOK, Current, Settled, Done, Rest, Finished
  <2>2. Rest(cr) => \A s \in Slots : slot[s].cr # cr
    BY DEF Rest
  <2>3. TypeOK /\ Rest(cr) /\ [Next]_vars => Rest(cr)'
    BY NextRest
  <2> QED BY <1>2, <2>1, <2>2, <2>3, TypeCorrect, PTL DEF Spec
<1> QED BY <1>3 DEF SettledIsStable
=============================================================================
