-------------------------- MODULE PromotionProofs --------------------------
(***************************************************************************)
(* Proofs about Promotion, for any CRs, sources and bounds.                *)
(*                                                                         *)
(* The guard against a second promotion is evaluated several steps and     *)
(* status writes before Promote.  The invariant follows a worker that got  *)
(* past it: until it promotes or gives up, its environment has no          *)
(* candidate and serves another source, because nobody else starts a       *)
(* promotion to this environment.                                          *)
(***************************************************************************)
EXTENDS Promotion, TLAPS

Phases == {"none", "ready", "promoting", "waiting", "failed"}
Pcs == {"idle", "env", "tune", "reactivate", "validate", "activate",
        "announce", "promote", "first", "deadline", "recheck",
        "retry", "schedule", "log", "giveUp"}
Environment == [tuned : BOOLEAN, cur : Deployment \cup {NoDep},
                cand : Deployment \cup {NoDep}]

(* A worker past the guard, and what it relies on.                         *)
Past(r) == \/ r.pc \in {"validate", "activate", "promote"}
           \/ r.pc \in {"announce", "log"} /\ r.then = "promote"
Clear(r, e) == e.cand = NoDep /\ e.cur.of # r.src

(* A worker of an environment e. *)
Busy(r) == r \in Worker /\ r.src \in Sources
Sound(r, e) == /\ r \in Worker
               /\ r.pc # "idle" => r.src \in Sources
               /\ Past(r) => Clear(r, e)

(* Generations are counted by edits. *)
GenBounded == \A cr \in CRs : api[cr].gen <= edits

IInv == /\ TypeOK /\ GenBounded
        /\ \A cr \in CRs : Sound(rec[cr], env[cr])
-----------------------------------------------------------------------------
(* The operators that make up a worker's next state. *)

LEMMA BlankIsStatus == Blank \in Status
BY BoundsAssumption DEF Blank, Status

LEMMA IdleSound == \A e : Sound(Idle, e) /\ Idle \in Worker
BY BlankIsStatus, BoundsAssumption DEF Idle, Worker, Sound, Past

LEMMA GoSound ==
  ASSUME NEW e, NEW r, Busy(r), NEW pc \in (Pcs \cup {"asleep"}) \ {"announce", "log"},
         pc \in {"validate", "activate", "promote"} => Clear(r, e)
  PROVE  Sound(Go(r, pc), e)
<1>1. CASE pc \in {"idle", "asleep"}
  BY <1>1, IdleSound DEF Go
<1>2. CASE pc \notin {"idle", "asleep"}
  <2>1. Go(r, pc) = [r EXCEPT !.pc = pc]
    BY <1>2 DEF Go
  <2>2. [r EXCEPT !.pc = pc] \in Worker
    BY <1>2 DEF Busy, Worker, Pcs
  <2> QED BY <2>1, <2>2, <1>2 DEF Busy, Sound, Past, Clear, Worker
<1> QED BY <1>1, <1>2

LEMMA ReportTyped ==
  ASSUME NEW r, Busy(r), NEW phase \in Phases, NEW cand \in BOOLEAN,
         NEW pc \in {"log", "announce"},
         NEW then \in {"idle", "promote", "log", "asleep"}
  PROVE  /\ Busy(Report(r, phase, cand, pc, then))
         /\ Report(r, phase, cand, pc, then).pc = pc
         /\ Report(r, phase, cand, pc, then).then = then
         /\ Report(r, phase, cand, pc, then).src = r.src
         /\ Report(r, phase, cand, pc, then).target = r.target
<1> DEFINE first == IF phase = "ready" THEN "none" ELSE r.st.first
           retry == IF phase = "ready" THEN "none" ELSE r.st.retry
           st == [phase |-> phase, cand |-> cand, seen |-> r.gen,
                  first |-> first, retry |-> retry]
           changed == r.changed \/ r.st.phase # phase \/ r.st.cand # cand
<1>1. first \in {"none", "recent", "old"} /\ retry \in {"none", "waiting", "elapsed"}
  BY DEF Busy, Worker, Status
<1>2. st \in Status
  <2> HIDE DEF first, retry
  <2> QED BY <1>1 DEF Status, Busy, Worker, Phases
<1>3. changed \in BOOLEAN
  OBVIOUS
<1>4. Report(r, phase, cand, pc, then) =
        [r EXCEPT !.pc = pc, !.then = then, !.changed = changed, !.st = st]
  BY DEF Report
<1> HIDE DEF st, changed
<1> QED BY <1>2, <1>3, <1>4 DEF Busy, Worker

LEMMA LogSound ==
  ASSUME NEW e, NEW r, Busy(r), NEW phase \in Phases
  PROVE  Sound(Log(r, phase), e) /\ Busy(Log(r, phase))
<1> DEFINE l == Log(r, phase)
<1>1. r.st.cand \in BOOLEAN
  BY DEF Busy, Worker, Status
<1>2. Busy(l) /\ l.pc = "log" /\ l.then = "idle"
  BY <1>1, ReportTyped DEF Log
<1> HIDE DEF l
<1>3. Sound(l, e)
  BY <1>2 DEF Sound, Busy, Past
<1> QED BY <1>2, <1>3 DEF l

LEMMA TryRetrySound ==
  ASSUME NEW e, NEW r, Busy(r), NEW target \in {"source", "candidate"}
  PROVE  Sound(TryRetry(r, target), e)
<1> DEFINE pc == IF r.st.first = "none" THEN "first" ELSE "deadline"
<1>1. TryRetry(r, target) = [r EXCEPT !.target = target, !.pc = pc]
  BY DEF TryRetry
<1>2. pc \in {"first", "deadline"}
  OBVIOUS
<1> HIDE DEF pc
<1> QED BY <1>1, <1>2 DEF Busy, Sound, Worker, Past

LEMMA CurrentMatchesSound ==
  ASSUME NEW e, NEW r, Busy(r), NEW d
  PROVE  Sound(CurrentMatches(r, d), e)
<1>1. ASSUME NEW phase \in Phases
      PROVE  Sound(Report(r, phase, FALSE, "log", "idle"), e)
  <2> DEFINE l == Report(r, phase, FALSE, "log", "idle")
  <2>1. Busy(l) /\ l.pc = "log" /\ l.then = "idle"
    <3>1. \A cand \in BOOLEAN :
            LET m == Report(r, phase, cand, "log", "idle") IN
            Busy(m) /\ m.pc = "log" /\ m.then = "idle"
      BY <1>1, ReportTyped
    <3> QED BY <3>1, Zenon
  <2> HIDE DEF l
  <2>2. Sound(l, e)
    BY <2>1 DEF Sound, Busy, Past
  <2> QED BY <2>2 DEF l
<1>2. Sound(Go(r, "reactivate"), e)
  BY GoSound DEF Pcs
<1> QED BY <1>1, <1>2 DEF CurrentMatches, Phases

LEMMA CandidateMatchesSound ==
  ASSUME NEW e, NEW r, Busy(r), NEW d
  PROVE  Sound(CandidateMatches(r, d), e)
BY LogSound, TryRetrySound DEF CandidateMatches, Phases

LEMMA GuardSound ==
  ASSUME NEW e, NEW r, Busy(r), e.cur.of # r.src
  PROVE  Sound(Guard(r, e), e)
<1> DEFINE cleared == [r EXCEPT !.st.cand = FALSE]
           l == Log(cleared, "promoting")
<1>1. Busy(cleared) /\ cleared.src = r.src
  <2>1. [r.st EXCEPT !.cand = FALSE] \in Status
    BY DEF Busy, Worker, Status
  <2>2. cleared = [r EXCEPT !.st = [r.st EXCEPT !.cand = FALSE]]
    BY DEF Busy, Worker
  <2> QED BY <2>1, <2>2 DEF Busy, Worker
<1>2. CASE e.cand = NoDep
  <2>1. Guard(r, e) = Go(cleared, "validate")
    BY <1>2 DEF Guard
  <2>2. Clear(cleared, e)
    BY <1>1, <1>2 DEF Clear
  <2> HIDE DEF cleared
  <2> QED BY <1>1, <2>1, <2>2, GoSound DEF Pcs
<1>3. CASE e.cand # NoDep
  <2> DEFINE changed == l.changed \/ r.st.cand
  <2>1. Guard(r, e) = [l EXCEPT !.changed = changed]
    BY <1>3 DEF Guard
  <2>2. Busy(l) /\ l.pc = "log" /\ l.then = "idle"
    <3>1. cleared.st.cand \in BOOLEAN
      BY <1>1 DEF Busy, Worker, Status
    <3> HIDE DEF cleared
    <3> QED BY <1>1, <3>1, ReportTyped DEF Log, Phases
  <2>3. changed \in BOOLEAN
    OBVIOUS
  <2> HIDE DEF l, changed
  <2>4. [l EXCEPT !.changed = changed] \in Worker
    BY <2>2, <2>3 DEF Busy, Worker
  <2> QED BY <2>1, <2>2, <2>4 DEF Sound, Busy, Past, Worker
<1> QED BY <1>2, <1>3

LEMMA DecideSound ==
  ASSUME NEW e, NEW r, Busy(r)
  PROVE  Sound(Decide(r, e), e)
<1>1. CASE ~e.tuned
  BY <1>1, GoSound DEF Decide, Pcs
<1>2. CASE e.tuned /\ e.cur.of = r.src
  BY <1>2, CurrentMatchesSound DEF Decide
<1>3. CASE e.tuned /\ e.cur.of # r.src /\ e.cand.of = r.src
  BY <1>3, CandidateMatchesSound DEF Decide
<1>4. CASE e.tuned /\ e.cur.of # r.src /\ e.cand.of # r.src
  BY <1>4, GuardSound DEF Decide
<1> QED BY <1>1, <1>2, <1>3, <1>4

LEMMA ValidateSound ==
  ASSUME NEW e, NEW r, Busy(r), Clear(r, e), NEW d
  PROVE  Sound(Validate(r, d), e)
<1> DEFINE a == Report(r, "promoting", r.st.cand, "announce", "promote")
<1>1. Sound(a, e)
  <2>1. r.st.cand \in BOOLEAN
    BY DEF Busy, Worker, Status
  <2>2. Busy(a) /\ a.src = r.src /\ a.pc = "announce"
    BY <2>1, ReportTyped DEF Phases
  <2> HIDE DEF a
  <2> QED BY <2>2 DEF Sound, Clear, Busy
<1>2. Sound(Go(r, "activate"), e)
  BY GoSound DEF Pcs
<1> QED BY <1>1, <1>2, TryRetrySound, LogSound DEF Validate, Phases
-----------------------------------------------------------------------------
(* Deployments. *)

LEMMA DeploymentsTyped ==
  ASSUME NEW d \in Deployment \cup {NoDep}
  PROVE  /\ Activated(d) \in Deployment \cup {NoDep} /\ Activated(d).of = d.of
         /\ d # NoDep => /\ d \in Deployment /\ d.of \in Sources
                         /\ Activated(d) \in Deployment
                         /\ Built(d) \in Deployment /\ Built(d).of = d.of
                         /\ Broken(d) \in Deployment /\ Broken(d).of = d.of
         /\ NoDep.of = None /\ ~Failing(NoDep) /\ NoDep.status = "stopped"
         /\ Activated(NoDep) = NoDep
<1>1. NoDep.of = None /\ NoDep.status = "stopped" /\ Activated(NoDep) = NoDep
  BY DEF NoDep, Activated
<1>2. d # NoDep => /\ d \in Deployment /\ d.of \in Sources
                   /\ Activated(d) \in Deployment /\ Activated(d).of = d.of
                   /\ Built(d) \in Deployment /\ Built(d).of = d.of
  BY DEF Deployment, DepStatus, Since, Activated, Built
<1>3. d # NoDep => Broken(d) \in Deployment /\ Broken(d).of = d.of
  <2> SUFFICES ASSUME d \in Deployment
               PROVE  Broken(d) \in Deployment /\ Broken(d).of = d.of
    OBVIOUS
  <2> DEFINE since == IF d.since = "none" THEN "recent" ELSE d.since
  <2>1. Broken(d) = [d EXCEPT !.status = "failed", !.since = since]
    BY DEF Broken, Deployment
  <2>2. since \in Since
    BY DEF Deployment, Since
  <2> HIDE DEF since
  <2> QED BY <2>1, <2>2 DEF Deployment, DepStatus
<1> QED BY <1>1, <1>2, <1>3 DEF Failing

LEMMA WorseTyped ==
  ASSUME NEW d \in Deployment \cup {NoDep}, NEW w \in Worse(d)
  PROVE  d # NoDep /\ w \in Deployment /\ w.of = d.of
<1>1. d # NoDep
  BY DeploymentsTyped DEF Worse
<1>2. d \in Deployment /\ Broken(d) \in Deployment /\ Broken(d).of = d.of
  BY <1>1, DeploymentsTyped
<1>3. \A s \in DepStatus : [d EXCEPT !.status = s] \in Deployment
                           /\ [d EXCEPT !.status = s].of = d.of
  BY <1>2 DEF Deployment
<1>4. w \in {Broken(d), [d EXCEPT !.status = "stopped"], [d EXCEPT !.status = "inactive"]}
  BY DEF Worse
<1> QED BY <1>1, <1>2, <1>3, <1>4 DEF DepStatus
-----------------------------------------------------------------------------
(* The parts of the invariant that steps share. *)

LEMMA PartsOf ==
  ASSUME IInv, NEW cr \in CRs
  PROVE  /\ rec[cr] \in Worker /\ Sound(rec[cr], env[cr])
         /\ rec[cr].pc # "idle" => Busy(rec[cr])
         /\ rec[cr].st \in Status /\ rec[cr].then \in {"idle", "promote", "log", "asleep"}
         /\ env[cr] \in Environment
         /\ env[cr].cur \in Deployment \cup {NoDep}
         /\ env[cr].cand \in Deployment \cup {NoDep}
         /\ api[cr].src \in Sources /\ api[cr].gen \in 0..MaxEdits /\ api[cr].st \in Status
         /\ cache[cr].src \in Sources /\ cache[cr].gen \in 0..MaxEdits
         /\ cache[cr].st \in Status /\ cache[cr].fresh \in BOOLEAN
         /\ api[cr].gen <= edits
BY DEF IInv, TypeOK, GenBounded, Sound, Busy, Worker, Environment

LEMMA FaultBounded == ASSUME IInv, Fault PROVE faults' \in 0..MaxFaults
BY BoundsAssumption DEF IInv, TypeOK, Fault

LEMMA RequeueTyped ==
  ASSUME IInv, NEW cr \in CRs, NEW r, Requeue(cr, r)
  PROVE  queued' \in [CRs -> BOOLEAN]
BY DEF IInv, TypeOK, Requeue

(* A step of one worker that leaves its environment alone. *)
LEMMA WorkerStep ==
  ASSUME IInv, NEW cr \in CRs, NEW r, Sound(r, env[cr]),
         rec' = [rec EXCEPT ![cr] = r], UNCHANGED env
  PROVE  rec' \in [CRs -> Worker] /\ \A c \in CRs : Sound(rec'[c], env'[c])
<1>1. r \in Worker
  BY DEF Sound
<1> QED BY <1>1 DEF IInv, TypeOK

(* A worker stays sound while its environment keeps what it relies on.     *)
LEMMA SoundKept ==
  ASSUME NEW r, NEW e, NEW f, Sound(r, e),
         e.cand = NoDep => f.cand = NoDep /\ f.cur.of = e.cur.of
  PROVE  Sound(r, f)
BY DEF Sound, Clear

(* A step that touches only the worker and what is not in the invariant.   *)
LEMMA LocalStep ==
  ASSUME IInv, NEW cr \in CRs, NEW r, Sound(r, env[cr]),
         rec' = [rec EXCEPT ![cr] = r],
         UNCHANGED <<api, cache, edits, dep, env>>,
         queued' \in [CRs -> BOOLEAN], faults' \in 0..MaxFaults
  PROVE  IInv'
<1>1. rec' \in [CRs -> Worker] /\ \A c \in CRs : Sound(rec'[c], env'[c])
  BY WorkerStep
<1> QED BY <1>1 DEF IInv, TypeOK, GenBounded

(* A status write, accepted or not. *)
LEMMA UpdateStep ==
  ASSUME IInv, NEW cr \in CRs, NEW r, r.st \in Status, NEW next, Sound(next, env[cr]),
         Update(cr, r, next), UNCHANGED <<dep, env, edits>>,
         queued' \in [CRs -> BOOLEAN]
  PROVE  IInv'
<1>1. rec' \in [CRs -> Worker] /\ \A c \in CRs : Sound(rec'[c], env'[c])
  BY WorkerStep DEF Update
<1>2. /\ api' \in [CRs -> [src : Sources, gen : 0..MaxEdits, st : Status]]
      /\ \A c \in CRs : api'[c].gen = api[c].gen
  <2>1. CASE UNCHANGED api
    BY <2>1 DEF IInv, TypeOK
  <2>2. CASE api' = [api EXCEPT ![cr].st = r.st]
    <3> DEFINE o == [api[cr] EXCEPT !.st = r.st]
    <3>1. api \in [CRs -> [src : Sources, gen : 0..MaxEdits, st : Status]]
      BY DEF IInv, TypeOK
    <3>2. o \in [src : Sources, gen : 0..MaxEdits, st : Status] /\ o.gen = api[cr].gen
      BY <3>1
    <3>3. api' = [api EXCEPT ![cr] = o]
      BY <2>2, <3>1
    <3> QED BY <3>1, <3>2, <3>3
  <2> QED BY <2>1, <2>2 DEF Update
<1>3. cache' \in [CRs -> [src : Sources, gen : 0..MaxEdits, st : Status, fresh : BOOLEAN]]
  <2>1. CASE UNCHANGED cache
    BY <2>1 DEF IInv, TypeOK
  <2>2. CASE cache' = Stale(cache, cr)
    <3> DEFINE copy == [cache[cr] EXCEPT !.fresh = FALSE]
    <3>1. cache \in [CRs -> [src : Sources, gen : 0..MaxEdits, st : Status, fresh : BOOLEAN]]
      BY DEF IInv, TypeOK
    <3>2. copy \in [src : Sources, gen : 0..MaxEdits, st : Status, fresh : BOOLEAN]
      BY <3>1
    <3>3. cache' = [cache EXCEPT ![cr] = copy]
      BY <2>2, <3>1 DEF Stale
    <3> QED BY <3>1, <3>2, <3>3
  <2> QED BY <2>1, <2>2 DEF Update
<1>4. faults' \in 0..MaxFaults
  BY FaultBounded DEF Update, IInv, TypeOK
<1> QED BY <1>1, <1>2, <1>3, <1>4 DEF IInv, TypeOK, GenBounded
-----------------------------------------------------------------------------
(* The steps of a reconcile preserve the invariant. *)

LEMMA ReadsPreserve ==
  ASSUME IInv, NEW cr \in CRs,
         Start(cr) \/ GetEnvironment(cr) \/ ValidateSource(cr) \/ CallFails(cr)
         \/ GiveUp(cr) \/ Deadline(cr) \/ Recheck(cr)
  PROVE  IInv'
<1> DEFINE r == rec[cr]
<1> queued \in [CRs -> BOOLEAN] /\ faults \in 0..MaxFaults
  BY DEF IInv, TypeOK
<1>1. CASE Start(cr)
  <2> DEFINE n == [Idle EXCEPT !.pc = "env", !.src = cache[cr].src,
                     !.gen = cache[cr].gen, !.st = cache[cr].st,
                     !.fresh = cache[cr].fresh]
  <2>1. Sound(n, env[cr])
    BY PartsOf, IdleSound DEF Sound, Worker, Past
  <2>2. rec' = [rec EXCEPT ![cr] = n]
    BY <1>1 DEF Start
  <2>3. queued' \in [CRs -> BOOLEAN] /\ faults' \in 0..MaxFaults
    BY <1>1 DEF Start
  <2> HIDE DEF n
  <2> QED BY <1>1, <2>1, <2>2, <2>3, LocalStep DEF Start, Local, Baseten
<1>2. CASE GetEnvironment(cr)
  <2>1. Busy(r)
    BY <1>2, PartsOf DEF GetEnvironment
  <2>2. Sound(Decide(r, env[cr]), env[cr])
    BY <2>1, DecideSound
  <2>3. rec' = [rec EXCEPT ![cr] = Decide(r, env[cr])]
    BY <1>2 DEF GetEnvironment, IInv, TypeOK
  <2> QED BY <1>2, <2>2, <2>3, LocalStep DEF GetEnvironment, Local, Baseten
<1>3. CASE ValidateSource(cr)
  <2>1. Busy(r) /\ Clear(r, env[cr])
    BY <1>3, PartsOf DEF ValidateSource, Sound, Past
  <2>2. Sound(Validate(r, dep[r.src]), env[cr])
    BY <2>1, ValidateSound
  <2>3. rec' = [rec EXCEPT ![cr] = Validate(r, dep[r.src])]
    BY <1>3 DEF ValidateSource, IInv, TypeOK
  <2> QED BY <1>3, <2>2, <2>3, LocalStep DEF ValidateSource, Local, Baseten
<1>4. CASE CallFails(cr)
  <2>1. Busy(r)
    BY <1>4, PartsOf DEF CallFails
  <2>2. Sound(Log(r, "failed"), env[cr])
    BY <2>1, LogSound DEF Phases
  <2>3. rec' = [rec EXCEPT ![cr] = Log(r, "failed")]
    BY <1>4 DEF CallFails, IInv, TypeOK
  <2>4. faults' \in 0..MaxFaults
    BY <1>4, FaultBounded DEF CallFails
  <2> QED BY <1>4, <2>2, <2>3, <2>4, LocalStep DEF CallFails, Local, Baseten
<1>5. CASE GiveUp(cr)
  <2> DEFINE phase == IF r.target = "source" THEN "failed" ELSE "promoting"
             n == Report(r, phase, r.st.cand, "log", "asleep")
  <2>1. Busy(r) /\ r.st.cand \in BOOLEAN
    BY <1>5, PartsOf DEF GiveUp, Status
  <2>2. phase \in Phases
    BY DEF Phases
  <2>3. rec' = [rec EXCEPT ![cr] = n]
    BY <1>5 DEF GiveUp
  <2> HIDE DEF phase
  <2>4. Busy(n) /\ n.pc = "log" /\ n.then = "asleep"
    BY <2>1, <2>2, ReportTyped
  <2> HIDE DEF n
  <2>5. Sound(n, env[cr])
    BY <2>4 DEF Sound, Busy, Past
  <2> QED BY <1>5, <2>3, <2>5, LocalStep DEF GiveUp, Local, Baseten
<1>6. CASE Deadline(cr)
  <2>1. Busy(r)
    BY <1>6, PartsOf DEF Deadline
  <2>2. /\ Sound(Go(r, "giveUp"), env[cr]) /\ Sound(Go(r, "recheck"), env[cr])
        /\ Sound(Idle, env[cr])
    BY <2>1, GoSound, IdleSound DEF Pcs
  <2>3. PICK n \in {Go(r, "giveUp"), Idle, Go(r, "recheck")} : rec' = [rec EXCEPT ![cr] = n]
    BY <1>6 DEF Deadline
  <2>4. queued' \in [CRs -> BOOLEAN]
    BY <1>6, RequeueTyped DEF Deadline
  <2> QED BY <1>6, <2>2, <2>3, <2>4, LocalStep DEF Deadline, Local, Baseten
<1>7. CASE Recheck(cr)
  <2>1. Busy(r)
    BY <1>7, PartsOf DEF Recheck
  <2>2. Sound(Go(r, "retry"), env[cr]) /\ Sound(Idle, env[cr])
    BY <2>1, GoSound, IdleSound DEF Pcs
  <2>3. PICK n \in {Go(r, "retry"), Idle} : rec' = [rec EXCEPT ![cr] = n]
    BY <1>7 DEF Recheck
  <2>4. queued' \in [CRs -> BOOLEAN]
    BY <1>7, RequeueTyped DEF Recheck
  <2>5. faults' \in 0..MaxFaults
    BY <1>7, FaultBounded DEF Recheck
  <2> QED BY <1>7, <2>2, <2>3, <2>4, <2>5, LocalStep DEF Recheck, Local, Baseten
<1> QED BY <1>1, <1>2, <1>3, <1>4, <1>5, <1>6, <1>7

LEMMA WritesPreserve ==
  ASSUME IInv, NEW cr \in CRs,
         Write(cr) \/ FirstFailure(cr) \/ ScheduleNextRetry(cr)
  PROVE  IInv'
<1> DEFINE r == rec[cr]
<1> r \in Worker /\ r.st \in Status /\ r.then \in {"idle", "promote", "log", "asleep"}
  BY PartsOf
<1>1. CASE Write(cr)
  <2> DEFINE calm == [r EXCEPT !.changed = FALSE]
             n == Go(calm, r.then)
  <2>1. Busy(r) /\ Sound(r, env[cr])
    BY <1>1, PartsOf DEF Write
  <2>2. Busy(calm) /\ calm.src = r.src
    BY <2>1 DEF Busy, Worker
  <2>3. Sound(n, env[cr])
    <3>1. CASE r.then \in {"idle", "asleep"}
      BY <3>1, IdleSound DEF Go
    <3>2. CASE r.then = "promote"
      <4>1. Clear(r, env[cr])
        BY <1>1, <2>1, <3>2 DEF Write, Sound, Past
      <4>2. Clear(calm, env[cr])
        BY <2>2, <4>1 DEF Clear
      <4> HIDE DEF calm
      <4> QED BY <2>2, <3>2, <4>2, GoSound DEF Pcs
    <3>3. CASE r.then = "log"
      <4>1. n = [calm EXCEPT !.pc = "log"]
        BY <3>3 DEF Go
      <4>2. calm.then = "log"
        BY <3>3, <2>1 DEF Busy, Worker
      <4> HIDE DEF calm
      <4>3. [calm EXCEPT !.pc = "log"] \in Worker
        BY <2>2 DEF Busy, Worker
      <4> QED BY <2>2, <4>1, <4>2, <4>3 DEF Sound, Busy, Past, Worker
    <3> QED BY <3>1, <3>2, <3>3
  <2>4. queued' \in [CRs -> BOOLEAN]
    BY <1>1, RequeueTyped DEF Write
  <2> HIDE DEF n
  <2>5. CASE Update(cr, r, n)
    BY <1>1, <2>3, <2>4, <2>5, UpdateStep DEF Write, Baseten
  <2>6. CASE rec' = [rec EXCEPT ![cr] = n] /\ UNCHANGED <<api, cache, faults>>
    <3>1. faults' \in 0..MaxFaults
      BY <2>6 DEF IInv, TypeOK
    <3> QED BY <1>1, <2>3, <2>4, <2>6, <3>1, LocalStep DEF Write, Baseten
  <2> QED BY <1>1, <2>5, <2>6 DEF Write, n
<1>2. CASE FirstFailure(cr)
  <2> DEFINE f == [r EXCEPT !.st.first = "recent"]
  <2>1. Busy(r)
    BY <1>2, PartsOf DEF FirstFailure
  <2>2. [r.st EXCEPT !.first = "recent"] \in Status
    BY DEF Status
  <2>3. f = [r EXCEPT !.st = [r.st EXCEPT !.first = "recent"]]
    BY DEF Worker
  <2>4. Busy(f) /\ f.st \in Status
    BY <2>1, <2>2, <2>3 DEF Busy, Worker
  <2>5. Update(cr, f, Go(f, "deadline"))
    BY <1>2 DEF FirstFailure
  <2>6. UNCHANGED <<dep, env, edits>> /\ queued' \in [CRs -> BOOLEAN]
    BY <1>2 DEF FirstFailure, Baseten, IInv, TypeOK
  <2> HIDE DEF f
  <2>7. Sound(Go(f, "deadline"), env[cr])
    BY <2>4, GoSound DEF Pcs
  <2> QED BY <2>4, <2>5, <2>6, <2>7, UpdateStep
<1>3. CASE ScheduleNextRetry(cr)
  <2> DEFINE f == [r EXCEPT !.st.retry = "waiting"]
             n == IF f.then = "log" THEN Log(f, "waiting") ELSE Idle
  <2>1. Busy(r)
    BY <1>3, PartsOf DEF ScheduleNextRetry
  <2>2. [r.st EXCEPT !.retry = "waiting"] \in Status
    BY DEF Status
  <2>3. f = [r EXCEPT !.st = [r.st EXCEPT !.retry = "waiting"]]
    BY DEF Worker
  <2>4. Busy(f) /\ f.st \in Status
    BY <2>1, <2>2, <2>3 DEF Busy, Worker
  <2>5. Update(cr, f, n)
    BY <1>3 DEF ScheduleNextRetry
  <2>6. UNCHANGED <<dep, env, edits>> /\ queued' \in [CRs -> BOOLEAN]
    BY <1>3, RequeueTyped DEF ScheduleNextRetry, Baseten
  <2> HIDE DEF f
  <2>7. Sound(n, env[cr])
    BY <2>4, LogSound, IdleSound DEF Phases
  <2> QED BY <2>4, <2>5, <2>6, <2>7, UpdateStep
<1> QED BY <1>1, <1>2, <1>3

(* A step that changes Baseten. *)
LEMMA BasetenStep ==
  ASSUME IInv, UNCHANGED <<api, cache, edits, queued>>, faults' \in 0..MaxFaults,
         dep' \in [Sources -> Deployment], env' \in [CRs -> Environment],
         rec' \in [CRs -> Worker], \A c \in CRs : Sound(rec'[c], env'[c])
  PROVE  IInv'
BY DEF IInv, TypeOK, GenBounded, Environment

(* One environment changes, and its worker with it. *)
LEMMA EnvironmentStep ==
  ASSUME IInv, NEW cr \in CRs, NEW e \in Environment, NEW r, Sound(r, e),
         env' = [env EXCEPT ![cr] = e], rec' = [rec EXCEPT ![cr] = r],
         UNCHANGED <<api, cache, edits, queued, dep>>, faults' \in 0..MaxFaults
  PROVE  IInv'
<1>1. r \in Worker
  BY DEF Sound
<1>2. env' \in [CRs -> Environment] /\ rec' \in [CRs -> Worker]
      /\ \A c \in CRs : Sound(rec'[c], env'[c])
  BY <1>1 DEF IInv, TypeOK, Environment
<1>3. dep' \in [Sources -> Deployment]
  BY DEF IInv, TypeOK
<1> QED BY <1>2, <1>3, BasetenStep

(* An environment moves on by itself. *)
LEMMA EnvironmentMoves ==
  ASSUME IInv, NEW cr \in CRs, NEW e \in Environment, env' = [env EXCEPT ![cr] = e],
         env[cr].cand = NoDep => e.cand = NoDep /\ e.cur.of = env[cr].cur.of,
         UNCHANGED <<api, cache, edits, queued, rec, dep>>, faults' \in 0..MaxFaults
  PROVE  IInv'
<1>1. Sound(rec[cr], e)
  BY PartsOf, SoundKept
<1>2. rec' = [rec EXCEPT ![cr] = rec[cr]]
  BY DEF IInv, TypeOK
<1> QED BY <1>1, <1>2, EnvironmentStep

LEMMA CallsPreserve ==
  ASSUME IInv, NEW cr \in CRs,
         Tune(cr) \/ Reactivate(cr) \/ Activate(cr) \/ Promote(cr) \/ Retry(cr)
  PROVE  IInv'
<1> DEFINE r == rec[cr]
<1> queued \in [CRs -> BOOLEAN] /\ faults \in 0..MaxFaults /\ env \in [CRs -> Environment]
    /\ dep \in [Sources -> Deployment] /\ rec \in [CRs -> Worker]
  BY DEF IInv, TypeOK, Environment
<1>0. Busy(r)
  BY PartsOf DEF Tune, Reactivate, Activate, Promote, Retry
<1>1. CASE Tune(cr)
  <2> DEFINE e == [env[cr] EXCEPT !.tuned = TRUE]
  <2>1. e \in Environment
    BY DEF Environment
  <2>2. env' = [env EXCEPT ![cr] = e] /\ rec' = [rec EXCEPT ![cr] = Log(r, "waiting")]
    BY <1>1 DEF Tune
  <2>3. Sound(Log(r, "waiting"), e)
    BY <1>0, LogSound DEF Phases
  <2> HIDE DEF e
  <2> QED BY <1>1, <2>1, <2>2, <2>3, EnvironmentStep DEF Tune, Local
<1>2. CASE Reactivate(cr)
  <2> DEFINE e == [env[cr] EXCEPT !.cur = Activated(env[cr].cur)]
  <2>1. e \in Environment
    BY PartsOf, DeploymentsTyped DEF Environment
  <2>2. env' = [env EXCEPT ![cr] = e] /\ rec' = [rec EXCEPT ![cr] = Log(r, "waiting")]
    BY <1>2 DEF Reactivate
  <2>3. Sound(Log(r, "waiting"), e)
    BY <1>0, LogSound DEF Phases
  <2> HIDE DEF e
  <2> QED BY <1>2, <2>1, <2>2, <2>3, EnvironmentStep DEF Reactivate, Local
<1>3. CASE Activate(cr)
  <2>1. r.src \in Sources /\ dep[r.src] \in Deployment
    BY <1>0 DEF Busy
  <2>2. dep' \in [Sources -> Deployment]
    <3>1. dep[r.src] # NoDep
      BY <2>1, SourcesAssumption DEF Deployment, NoDep
    <3>2. Activated(dep[r.src]) \in Deployment
      BY <2>1, <3>1, DeploymentsTyped
    <3> QED BY <1>3, <2>1, <3>2 DEF Activate
  <2>3. rec' = [rec EXCEPT ![cr] = Log(r, "waiting")]
    BY <1>3 DEF Activate
  <2>4. Sound(Log(r, "waiting"), env[cr])
    BY <1>0, LogSound DEF Phases
  <2>5. rec' \in [CRs -> Worker] /\ \A c \in CRs : Sound(rec'[c], env'[c])
    BY <1>3, <2>3, <2>4, WorkerStep DEF Activate
  <2> QED BY <1>3, <2>2, <2>5, BasetenStep DEF Activate, Local
<1>4. CASE Promote(cr)
  <2> DEFINE copy == [of |-> r.src, status |-> "building", since |-> "none"]
             e == [env[cr] EXCEPT !.cand = copy]
             n == Report(r, "promoting", TRUE, "log", "idle")
  <2>1. e \in Environment
    <3>1. copy \in Deployment
      BY <1>0 DEF Deployment, DepStatus, Since, Busy
    <3> QED BY <3>1 DEF Environment
  <2>2. env' = [env EXCEPT ![cr] = e]
    BY <1>4 DEF Promote
  <2>3. PICK m \in {n, Log(r, "failed")} : rec' = [rec EXCEPT ![cr] = m]
    BY <1>4 DEF Promote
  <2>4. faults' \in 0..MaxFaults
    BY <1>4, FaultBounded DEF Promote
  <2>5. Busy(n) /\ n.pc = "log" /\ n.then = "idle"
    <3>1. \A cand \in BOOLEAN :
            LET k == Report(r, "promoting", cand, "log", "idle") IN
            Busy(k) /\ k.pc = "log" /\ k.then = "idle"
      BY <1>0, ReportTyped DEF Phases
    <3> QED BY <3>1, Zenon
  <2> HIDE DEF e, n
  <2>6. Sound(n, e) /\ Sound(Log(r, "failed"), e)
    BY <1>0, <2>5, LogSound DEF Sound, Busy, Past, Phases
  <2> QED BY <1>4, <2>1, <2>2, <2>3, <2>4, <2>6, EnvironmentStep DEF Promote, Local
<1>5. CASE Retry(cr)
  <2> DEFINE d == Target(cr)
             rebuilt == [d EXCEPT !.status = "building"]
             a == [r EXCEPT !.pc = "schedule", !.then = "log"]
             e == [env[cr] EXCEPT !.cand = rebuilt]
  <2>1. PICK m \in {a, Go(r, "schedule")} : rec' = [rec EXCEPT ![cr] = m]
    BY <1>5 DEF Retry
  <2>2. faults' \in 0..MaxFaults
    BY <1>5, FaultBounded DEF Retry
  <2>3. \A f : Sound(a, f)
    <3>1. a \in Worker
      BY <1>0 DEF Busy, Worker
    <3> QED BY <1>0, <3>1 DEF Busy, Sound, Past, Worker
  <2>4. \A f : Sound(Go(r, "schedule"), f)
    BY <1>0, GoSound DEF Pcs
  <2>5. m \in Worker /\ \A f : Sound(m, f)
    BY <2>3, <2>4 DEF Sound
  <2>6. Failing(d) => d \in Deployment /\ rebuilt \in Deployment
    <3>1. d \in Deployment \cup {NoDep}
      BY <1>0, PartsOf DEF Target, Busy
    <3>2. Failing(d) => d \in Deployment
      BY <3>1, DeploymentsTyped
    <3> HIDE DEF d
    <3> QED BY <3>2 DEF Deployment, DepStatus
  <2>7. CASE UNCHANGED Baseten
    <3>1. Sound(m, env[cr])
      BY <2>5
    <3> QED BY <1>5, <2>1, <2>2, <2>7, <3>1, LocalStep DEF Retry, Local, Baseten
  <2>8. CASE Failing(d) /\ dep' = [dep EXCEPT ![r.src] = rebuilt] /\ UNCHANGED env
    <3>1. dep' \in [Sources -> Deployment]
      BY <2>6, <2>8
    <3>2. rec' \in [CRs -> Worker] /\ \A c \in CRs : Sound(rec'[c], env'[c])
      BY <2>1, <2>5, <2>8, WorkerStep
    <3>3. env' \in [CRs -> Environment] /\ UNCHANGED <<api, cache, edits, queued>>
      BY <1>5, <2>8 DEF Retry, Local
    <3> QED BY <2>2, <3>1, <3>2, <3>3, BasetenStep
  <2>9. CASE Failing(d) /\ env' = [env EXCEPT ![cr].cand = rebuilt] /\ UNCHANGED dep
    <3> HIDE DEF rebuilt, d
    <3>1. e \in Environment
      BY <2>6, <2>9 DEF Environment
    <3>2. env' = [env EXCEPT ![cr] = e]
      BY <2>9
    <3> HIDE DEF e
    <3> QED BY <1>5, <2>1, <2>2, <2>5, <3>1, <3>2, <2>9, EnvironmentStep DEF Retry, Local
  <2> QED BY <1>5, <2>7, <2>8, <2>9 DEF Retry
<1> QED BY <1>1, <1>2, <1>3, <1>4, <1>5
-----------------------------------------------------------------------------
(* The other steps preserve the invariant. *)

LEMMA BasetenPreserves ==
  ASSUME IInv, NEW cr \in CRs,
         CompletePromotion(cr) \/ BuildCurrent(cr) \/ Trouble(cr)
  PROVE  IInv'
<1> /\ queued \in [CRs -> BOOLEAN] /\ faults \in 0..MaxFaults
    /\ env \in [CRs -> Environment] /\ dep \in [Sources -> Deployment]
    /\ rec \in [CRs -> Worker] /\ \A c \in CRs : Sound(rec[c], env[c])
  BY DEF IInv, TypeOK, Environment
<1>1. CASE CompletePromotion(cr)
  <2> DEFINE e == [env[cr] EXCEPT !.cur = Built(env[cr].cand), !.cand = NoDep]
  <2>1. Built(env[cr].cand) \in Deployment /\ env[cr].cand # NoDep
    BY <1>1, PartsOf, DeploymentsTyped DEF CompletePromotion
  <2>2. e \in Environment
    BY <2>1 DEF Environment
  <2>3. env' = [env EXCEPT ![cr] = e]
    BY <1>1 DEF CompletePromotion
  <2> HIDE DEF e
  <2> QED BY <1>1, <2>1, <2>2, <2>3, EnvironmentMoves DEF CompletePromotion, Local
<1>2. CASE BuildCurrent(cr)
  <2> DEFINE e == [env[cr] EXCEPT !.cur = Built(env[cr].cur)]
  <2>1. Built(env[cr].cur) \in Deployment /\ Built(env[cr].cur).of = env[cr].cur.of
    BY <1>2, PartsOf, DeploymentsTyped DEF BuildCurrent
  <2>2. e \in Environment /\ e.cand = env[cr].cand /\ e.cur.of = env[cr].cur.of
    BY <2>1 DEF Environment
  <2>3. env' = [env EXCEPT ![cr] = e]
    BY <1>2 DEF BuildCurrent
  <2> HIDE DEF e
  <2> QED BY <1>2, <2>2, <2>3, EnvironmentMoves DEF BuildCurrent, Local
<1>3. CASE Trouble(cr)
  <2>1. faults' \in 0..MaxFaults /\ UNCHANGED <<api, cache, edits, queued, rec>>
    BY <1>3, FaultBounded DEF Trouble, Local
  <2>2. ASSUME NEW s \in Sources, NEW d \in Worse(dep[s]),
               dep' = [dep EXCEPT ![s] = d], UNCHANGED env
        PROVE  IInv'
    <3>1. d \in Deployment
      BY <2>2, WorseTyped
    <3>2. dep' \in [Sources -> Deployment]
      BY <2>2, <3>1
    <3> QED BY <2>1, <2>2, <3>2, BasetenStep
  <2>3. ASSUME NEW d \in Worse(env[cr].cur), env' = [env EXCEPT ![cr].cur = d],
               UNCHANGED dep
        PROVE  IInv'
    <3> DEFINE e == [env[cr] EXCEPT !.cur = d]
    <3>1. d \in Deployment /\ d.of = env[cr].cur.of
      BY <2>3, PartsOf, WorseTyped
    <3>2. e \in Environment /\ e.cand = env[cr].cand /\ e.cur.of = env[cr].cur.of
      BY <3>1 DEF Environment
    <3>3. env' = [env EXCEPT ![cr] = e]
      BY <2>3
    <3> HIDE DEF e
    <3> QED BY <2>1, <2>3, <3>2, <3>3, EnvironmentMoves
  <2>4. ASSUME NEW d \in Worse(env[cr].cand), env' = [env EXCEPT ![cr].cand = d],
               UNCHANGED dep
        PROVE  IInv'
    <3> DEFINE e == [env[cr] EXCEPT !.cand = d]
    <3>1. d \in Deployment /\ env[cr].cand # NoDep
      BY <2>4, PartsOf, WorseTyped
    <3>2. e \in Environment
      BY <3>1 DEF Environment
    <3>3. env' = [env EXCEPT ![cr] = e]
      BY <2>4
    <3> HIDE DEF e
    <3> QED BY <2>1, <2>4, <3>1, <3>2, <3>3, EnvironmentMoves
  <2>5. ASSUME env' = [env EXCEPT ![cr].tuned = FALSE], UNCHANGED dep
        PROVE  IInv'
    <3> DEFINE e == [env[cr] EXCEPT !.tuned = FALSE]
    <3>1. e \in Environment /\ e.cand = env[cr].cand /\ e.cur.of = env[cr].cur.of
      BY DEF Environment
    <3>2. env' = [env EXCEPT ![cr] = e]
      BY <2>5
    <3> HIDE DEF e
    <3> QED BY <2>1, <2>5, <3>1, <3>2, EnvironmentMoves
  <2> QED BY <1>3, <2>2, <2>3, <2>4, <2>5 DEF Trouble
<1> QED BY <1>1, <1>2, <1>3

(* What a local copy may be replaced by without a step of its worker.      *)
LEMMA CopySound ==
  ASSUME NEW r, NEW e, Sound(r, e)
  PROVE  /\ Sound([r EXCEPT !.fresh = FALSE], e)
         /\ \A t \in {"none", "waiting", "elapsed"} : Sound([r EXCEPT !.st.retry = t], e)
<1>1. Sound([r EXCEPT !.fresh = FALSE], e)
  <2> DEFINE n == [r EXCEPT !.fresh = FALSE]
  <2>1. n \in Worker /\ n.pc = r.pc /\ n.then = r.then /\ n.src = r.src
    BY DEF Sound, Worker
  <2> HIDE DEF n
  <2>2. Sound(n, e)
    BY <2>1 DEF Sound, Past, Clear
  <2> QED BY <2>2 DEF n
<1>2. ASSUME NEW t \in {"none", "waiting", "elapsed"}
      PROVE  Sound([r EXCEPT !.st.retry = t], e)
  <2> DEFINE n == [r EXCEPT !.st.retry = t]
             st == [r.st EXCEPT !.retry = t]
  <2>1. st \in Status /\ n = [r EXCEPT !.st = st]
    BY DEF Sound, Worker, Status
  <2> HIDE DEF n, st
  <2>2. n \in Worker /\ n.pc = r.pc /\ n.then = r.then /\ n.src = r.src
    BY <2>1 DEF Sound, Worker
  <2>3. Sound(n, e)
    BY <2>2 DEF Sound, Past, Clear
  <2> QED BY <2>3 DEF n
<1> QED BY <1>1, <1>2

(* Stored and cached copies, as TypeOK has them. *)
Stored == [src : Sources, gen : 0..MaxEdits, st : Status]
Cached == [src : Sources, gen : 0..MaxEdits, st : Status, fresh : BOOLEAN]

LEMMA CopiesTyped ==
  /\ \A o \in Stored : /\ [o EXCEPT !.st.first = AgeOf(@)] \in Stored
                       /\ [o EXCEPT !.st.first = AgeOf(@)].gen = o.gen
                       /\ [o EXCEPT !.st.retry = ElapseOf(@)] \in Stored
                       /\ [o EXCEPT !.st.retry = ElapseOf(@)].gen = o.gen
  /\ \A o \in Cached : /\ [o EXCEPT !.st.first = AgeOf(@)] \in Cached
                       /\ [o EXCEPT !.st.retry = ElapseOf(@)] \in Cached
                       /\ [o EXCEPT !.fresh = FALSE] \in Cached
<1>1. \A st \in Status : /\ AgeOf(st.first) \in {"none", "recent", "old"}
                         /\ ElapseOf(st.retry) \in {"none", "waiting", "elapsed"}
  BY DEF Status, AgeOf, ElapseOf
<1>2. \A st \in Status : /\ [st EXCEPT !.first = AgeOf(st.first)] \in Status
                         /\ [st EXCEPT !.retry = ElapseOf(st.retry)] \in Status
  BY <1>1 DEF Status
<1>3. ASSUME NEW o \in Stored
      PROVE  /\ [o EXCEPT !.st.first = AgeOf(@)] \in Stored
             /\ [o EXCEPT !.st.first = AgeOf(@)].gen = o.gen
             /\ [o EXCEPT !.st.retry = ElapseOf(@)] \in Stored
             /\ [o EXCEPT !.st.retry = ElapseOf(@)].gen = o.gen
  BY <1>2 DEF Stored
<1>4. ASSUME NEW o \in Cached
      PROVE  /\ [o EXCEPT !.st.first = AgeOf(@)] \in Cached
             /\ [o EXCEPT !.st.retry = ElapseOf(@)] \in Cached
             /\ [o EXCEPT !.fresh = FALSE] \in Cached
  BY <1>2 DEF Cached
<1> QED BY <1>3, <1>4

LEMMA AgedDeployment ==
  ASSUME NEW d \in Deployment \cup {NoDep}
  PROVE  /\ [d EXCEPT !.since = AgeOf(@)] \in Deployment \cup {NoDep}
         /\ [d EXCEPT !.since = AgeOf(@)].of = d.of
         /\ d \in Deployment => [d EXCEPT !.since = AgeOf(@)] \in Deployment
         /\ d = NoDep => [d EXCEPT !.since = AgeOf(@)] = NoDep
<1>1. CASE d \in Deployment
  <2>1. AgeOf(d.since) \in Since
    BY <1>1 DEF Deployment, Since, AgeOf
  <2>2. d # NoDep
    BY <1>1, SourcesAssumption DEF Deployment, NoDep
  <2> QED BY <1>1, <2>1, <2>2 DEF Deployment
<1>2. CASE d = NoDep
  <2>1. [d EXCEPT !.since = AgeOf(@)] = NoDep
    BY <1>2 DEF NoDep, AgeOf
  <2>2. d \notin Deployment
    BY <1>2, SourcesAssumption DEF Deployment, NoDep
  <2> QED BY <1>2, <2>1, <2>2
<1> QED BY <1>1, <1>2

LEMMA ClocksPreserve ==
  ASSUME IInv, Age \/ \E cr \in CRs : Elapse(cr)
  PROVE  IInv'
<1> /\ api \in [CRs -> Stored] /\ cache \in [CRs -> Cached]
    /\ env \in [CRs -> Environment] /\ dep \in [Sources -> Deployment]
    /\ rec \in [CRs -> Worker] /\ \A c \in CRs : Sound(rec[c], env[c])
    /\ \A c \in CRs : api[c].gen <= edits
  BY DEF IInv, TypeOK, GenBounded, Environment, Stored, Cached
<1>1. ASSUME api' \in [CRs -> Stored], \A c \in CRs : api'[c].gen = api[c].gen,
             cache' \in [CRs -> Cached],
             dep' \in [Sources -> Deployment], env' \in [CRs -> Environment],
             rec' \in [CRs -> Worker], \A c \in CRs : Sound(rec'[c], env'[c]),
             UNCHANGED <<queued, edits, faults>>
      PROVE  IInv'
  BY <1>1 DEF IInv, TypeOK, GenBounded, Environment, Stored, Cached
<1>2. CASE Age
  <2>1. api' \in [CRs -> Stored] /\ \A c \in CRs : api'[c].gen = api[c].gen
    BY <1>2, CopiesTyped DEF Age
  <2>2. cache' \in [CRs -> Cached]
    BY <1>2, CopiesTyped DEF Age
  <2>3. dep' \in [Sources -> Deployment]
    BY <1>2, AgedDeployment DEF Age
  <2> DEFINE aged(e) == [e EXCEPT !.cur.since = AgeOf(@), !.cand.since = AgeOf(@)]
             a(d) == [d EXCEPT !.since = AgeOf(@)]
  <2>4. ASSUME NEW e \in Environment
        PROVE  /\ aged(e) \in Environment
               /\ e.cand = NoDep => aged(e).cand = NoDep /\ aged(e).cur.of = e.cur.of
    <3>1. aged(e) = [e EXCEPT !.cur = a(e.cur), !.cand = a(e.cand)]
      BY DEF Environment
    <3>2. /\ a(e.cur) \in Deployment \cup {NoDep} /\ a(e.cur).of = e.cur.of
          /\ a(e.cand) \in Deployment \cup {NoDep} /\ (e.cand = NoDep => a(e.cand) = NoDep)
      BY AgedDeployment DEF Environment
    <3> HIDE DEF a, aged
    <3> QED BY <3>1, <3>2 DEF Environment
  <2>5. env' = [c \in CRs |-> aged(env[c])] /\ UNCHANGED rec
    BY <1>2 DEF Age
  <2> HIDE DEF aged, a
  <2>6. env' \in [CRs -> Environment]
    BY <2>4, <2>5
  <2>7. \A c \in CRs : Sound(rec'[c], env'[c])
    BY <2>4, <2>5, SoundKept
  <2>8. UNCHANGED <<queued, edits, faults>>
    BY <1>2 DEF Age
  <2> QED BY <1>1, <2>1, <2>2, <2>3, <2>5, <2>6, <2>7, <2>8
<1>3. ASSUME NEW cr \in CRs, Elapse(cr) PROVE IInv'
  <2>1. api' \in [CRs -> Stored] /\ \A c \in CRs : api'[c].gen = api[c].gen
    <3>1. api' = [api EXCEPT ![cr] = [api[cr] EXCEPT !.st.retry = ElapseOf(@)]]
      BY <1>3 DEF Elapse
    <3> QED BY <3>1, CopiesTyped
  <2>2. cache' \in [CRs -> Cached]
    <3>1. cache' = [cache EXCEPT ![cr] = [cache[cr] EXCEPT !.st.retry = ElapseOf(@)]]
      BY <1>3 DEF Elapse
    <3> QED BY <3>1, CopiesTyped
  <2> DEFINE t == ElapseOf(rec[cr].st.retry)
             n == [rec[cr] EXCEPT !.st.retry = t]
  <2>3. rec' = [rec EXCEPT ![cr] = n]
    BY <1>3 DEF Elapse
  <2>4. t \in {"none", "waiting", "elapsed"}
    BY DEF Worker, Status, ElapseOf
  <2>5. Sound(n, env[cr])
    <3> HIDE DEF t
    <3> QED BY <2>4, CopySound
  <2>6. rec' \in [CRs -> Worker] /\ \A c \in CRs : Sound(rec'[c], env'[c])
    <3> HIDE DEF n
    <3> QED BY <1>3, <2>3, <2>5, WorkerStep DEF Elapse, Baseten
  <2>7. UNCHANGED <<dep, env, queued, edits, faults>>
    BY <1>3 DEF Elapse, Baseten
  <2> QED BY <1>1, <2>1, <2>2, <2>6, <2>7
<1> QED BY <1>2, <1>3

LEMMA StoresPreserve ==
  ASSUME IInv, Crash \/ \E cr \in CRs : Deliver(cr) \/ \E s \in Sources : EditSource(cr, s)
  PROVE  IInv'
<1> /\ api \in [CRs -> Stored] /\ cache \in [CRs -> Cached]
    /\ env \in [CRs -> Environment] /\ dep \in [Sources -> Deployment]
    /\ rec \in [CRs -> Worker] /\ \A c \in CRs : Sound(rec[c], env[c])
    /\ \A c \in CRs : api[c].gen <= edits
    /\ edits \in 0..MaxEdits /\ faults \in 0..MaxFaults /\ queued \in [CRs -> BOOLEAN]
  BY DEF IInv, TypeOK, GenBounded, Environment, Stored, Cached
<1>1. ASSUME api' \in [CRs -> Stored], \A c \in CRs : api'[c].gen <= edits',
             cache' \in [CRs -> Cached], queued' \in [CRs -> BOOLEAN],
             rec' \in [CRs -> Worker], \A c \in CRs : Sound(rec'[c], env'[c]),
             edits' \in 0..MaxEdits, faults' \in 0..MaxFaults, UNCHANGED <<dep, env>>
      PROVE  IInv'
  BY <1>1 DEF IInv, TypeOK, GenBounded, Environment, Stored, Cached
<1>2. CASE Crash
  <2>1. cache' \in [CRs -> Cached]
    BY <1>2 DEF Crash, Stored, Cached
  <2>2. rec' \in [CRs -> Worker] /\ \A c \in CRs : Sound(rec'[c], env'[c])
    BY <1>2, IdleSound DEF Crash
  <2>3. queued' \in [CRs -> BOOLEAN] /\ faults' \in 0..MaxFaults
    BY <1>2, FaultBounded DEF Crash
  <2> QED BY <1>1, <1>2, <2>1, <2>2, <2>3 DEF Crash, Baseten
<1>3. ASSUME NEW cr \in CRs, Deliver(cr) PROVE IInv'
  <2>1. cache' \in [CRs -> Cached]
    BY <1>3 DEF Deliver, Stored, Cached
  <2> QED BY <1>1, <1>3, <2>1 DEF Deliver, Baseten
<1>4. ASSUME NEW cr \in CRs, NEW s \in Sources, EditSource(cr, s) PROVE IInv'
  <2>1. edits' = edits + 1 /\ edits' \in 0..MaxEdits
    BY <1>4, BoundsAssumption DEF EditSource
  <2>2. api' \in [CRs -> Stored] /\ \A c \in CRs : api'[c].gen <= edits'
    BY <1>4, <2>1, BoundsAssumption DEF EditSource, Stored
  <2>3. cache' \in [CRs -> Cached]
    BY <1>4, CopiesTyped DEF EditSource, Stale
  <2>4. rec' = [rec EXCEPT ![cr] = [rec[cr] EXCEPT !.fresh = FALSE]]
    BY <1>4 DEF EditSource, Stale
  <2>5. rec' \in [CRs -> Worker] /\ \A c \in CRs : Sound(rec'[c], env'[c])
    BY <1>4, <2>4, CopySound, WorkerStep DEF EditSource, Baseten
  <2> QED BY <1>1, <1>4, <2>1, <2>2, <2>3, <2>5 DEF EditSource, Baseten
<1> QED BY <1>2, <1>3, <1>4

(* Environments and deployments in the beginning. *)
LEMMA InitBaseten ==
  ASSUME Init
  PROVE  /\ dep \in [Sources -> Deployment]
         /\ env \in [CRs -> Environment]
         /\ \A cr \in CRs : env[cr].cur.of \in Sources \cup {None} /\ env[cr].cand = NoDep
<1>1. \A s \in Sources : Running(s) \in Deployment /\ Running(s).of = s
  BY DEF Running, Deployment, DepStatus, Since
<1>2. NoDep.of = None
  BY DEF NoDep
<1>3. CASE /\ \E st \in [Sources -> {"building", "active", "inactive"}] :
                dep = [s \in Sources |-> [of |-> s, status |-> st[s], since |-> "none"]]
           /\ env = [cr \in CRs |-> [tuned |-> FALSE, cur |-> NoDep, cand |-> NoDep]]
  <2>1. dep \in [Sources -> Deployment]
    BY <1>3 DEF Deployment, DepStatus, Since
  <2> QED BY <1>2, <1>3, <2>1 DEF Environment
<1>4. ASSUME dep = [s \in Sources |-> Running(s)],
             NEW s \in [CRs -> Sources],
             env = [cr \in CRs |-> [tuned |-> TRUE, cur |-> Running(s[cr]), cand |-> NoDep]]
      PROVE  /\ dep \in [Sources -> Deployment]
             /\ env \in [CRs -> Environment]
             /\ \A cr \in CRs : env[cr].cur.of \in Sources \cup {None} /\ env[cr].cand = NoDep
  BY <1>1, <1>4 DEF Environment
<1> QED BY <1>3, <1>4 DEF Init

LEMMA InitIInv == Init => IInv
<1> SUFFICES ASSUME Init PROVE IInv
  OBVIOUS
<1>1. PICK s \in [CRs -> Sources] :
        /\ api = [cr \in CRs |-> [src |-> s[cr], gen |-> 0, st |-> Blank]]
        /\ cache = [cr \in CRs |->
                      [src |-> s[cr], gen |-> 0, st |-> Blank, fresh |-> TRUE]]
  BY DEF Init
<1>2. 0 \in 0..MaxEdits /\ 0 \in 0..MaxFaults /\ edits = 0 /\ faults = 0
  BY BoundsAssumption DEF Init
<1>3. api \in [CRs -> Stored] /\ cache \in [CRs -> Cached] /\ GenBounded
  BY <1>1, <1>2, BlankIsStatus DEF Stored, Cached, GenBounded
<1>4. dep \in [Sources -> Deployment]
  BY InitBaseten
<1>5. env \in [CRs -> Environment]
  BY InitBaseten
<1>6. rec \in [CRs -> Worker] /\ \A cr \in CRs : Sound(rec[cr], env[cr])
  BY IdleSound DEF Init
<1>7. queued \in [CRs -> BOOLEAN]
  BY DEF Init
<1> QED BY <1>2, <1>3, <1>4, <1>5, <1>6, <1>7
        DEF IInv, TypeOK, Stored, Cached, Environment

LEMMA StepIInv == IInv /\ [Next]_vars => IInv'
<1> SUFFICES ASSUME IInv, [Next]_vars PROVE IInv'
  OBVIOUS
<1>1. ASSUME NEW cr \in CRs, Reconcile(cr) \/ CallFails(cr) PROVE IInv'
  BY <1>1, ReadsPreserve, WritesPreserve, CallsPreserve DEF Reconcile
<1>2. CASE UNCHANGED vars
  BY <1>2 DEF vars, IInv, TypeOK, GenBounded
<1>3. CASE Age \/ \E cr \in CRs : Elapse(cr)
  BY <1>3, ClocksPreserve
<1>4. CASE Crash \/ \E cr \in CRs : Deliver(cr) \/ \E s \in Sources : EditSource(cr, s)
  BY <1>4, StoresPreserve
<1>5. ASSUME NEW cr \in CRs, CompletePromotion(cr) \/ BuildCurrent(cr) \/ Trouble(cr)
      PROVE  IInv'
  BY <1>5, BasetenPreserves
<1>6. ASSUME NEW s \in Sources, BuildSource(s) PROVE IInv'
  <2>1. dep[s] \in Deployment /\ dep[s] # NoDep
    BY SourcesAssumption DEF IInv, TypeOK, Deployment, NoDep
  <2>2. dep' \in [Sources -> Deployment]
    BY <1>6, <2>1, DeploymentsTyped DEF BuildSource, IInv, TypeOK
  <2> QED BY <1>6, <2>2, BasetenStep
          DEF BuildSource, Local, IInv, TypeOK, Environment
<1> QED BY <1>1, <1>2, <1>3, <1>4, <1>5, <1>6 DEF Next
-----------------------------------------------------------------------------
LEMMA Invariance == Spec => []IInv
BY InitIInv, StepIInv, PTL DEF Spec

(* In every reachable state every variable has its type, whatever number   *)
(* of CRs, sources, edits and faults.                                      *)
THEOREM TypeCorrect == Spec => []TypeOK
<1>1. IInv => TypeOK
  BY DEF IInv
<1> QED BY Invariance, <1>1, PTL

(* checkDoublePromoteGuard suffices: though several calls, status writes,  *)
(* lost answers, edits and restarts lie between the guard and Promote, no  *)
(* promotion is ever started over a running one.                           *)
THEOREM NeverTwoPromotions == Spec => NoDoublePromote
<1>1. IInv /\ [Next]_vars
        => [\A cr \in CRs : Promote(cr) => env[cr].cand = NoDep]_vars
  <2> SUFFICES ASSUME IInv, NEW cr \in CRs, Promote(cr)
               PROVE  env[cr].cand = NoDep
    OBVIOUS
  <2> QED BY PartsOf DEF Promote, Sound, Past, Clear
<1> QED BY Invariance, <1>1, PTL DEF Spec, NoDoublePromote
-----------------------------------------------------------------------------
(* Promotion implements Rollout. *)

(* A step of a worker goes on with its source, or ends the reconcile.      *)
Keeps(n, r) == n.pc = "idle" \/ n.src = r.src

LEMMA OperatorsKeep ==
  ASSUME NEW r, Busy(r)
  PROVE  /\ \A pc : Keeps(Go(r, pc), r)
         /\ \A phase, cand, pc, then : Keeps(Report(r, phase, cand, pc, then), r)
         /\ \A phase : Keeps(Log(r, phase), r)
         /\ \A target : Keeps(TryRetry(r, target), r)
         /\ \A e : Keeps(Guard(r, e), r)
<1>1. \A pc : Keeps(Go(r, pc), r)
  BY DEF Go, Keeps, Idle, Busy, Worker
<1>2. \A phase, cand, pc, then : Report(r, phase, cand, pc, then).src = r.src
  BY DEF Report, Busy, Worker
<1>3. \A phase : Log(r, phase).src = r.src
  BY <1>2 DEF Log
<1>4. \A target : TryRetry(r, target).src = r.src
  BY DEF TryRetry, Busy, Worker
<1>5. ASSUME NEW e PROVE Keeps(Guard(r, e), r)
  <2> DEFINE cleared == [r EXCEPT !.st.cand = FALSE]
             l == Log(cleared, "promoting")
  <2>1. Busy(cleared) /\ cleared.src = r.src
    <3>1. [r.st EXCEPT !.cand = FALSE] \in Status
      BY DEF Busy, Worker, Status
    <3>2. cleared = [r EXCEPT !.st = [r.st EXCEPT !.cand = FALSE]]
      BY DEF Busy, Worker
    <3> QED BY <3>1, <3>2 DEF Busy, Worker
  <2> HIDE DEF cleared
  <2>2. Keeps(Go(cleared, "validate"), r)
    BY <2>1 DEF Go, Keeps, Idle, Busy, Worker
  <2>3. l.src = r.src
    <3>1. Busy(l) /\ \A phase, cand, pc, then :
            Report(cleared, phase, cand, pc, then).src = cleared.src
      BY <2>1, LogSound DEF Report, Busy, Worker, Phases
    <3> QED BY <2>1, <3>1 DEF Log
  <2>4. Busy(l)
    BY <2>1, LogSound DEF Phases
  <2> HIDE DEF l
  <2>5. \A b : [l EXCEPT !.changed = b].src = r.src
    BY <2>3, <2>4 DEF Busy, Worker
  <2> QED BY <2>2, <2>5 DEF Guard, Keeps, cleared, l
<1> QED BY <1>1, <1>2, <1>3, <1>4, <1>5 DEF Keeps

LEMMA DecisionsKeep ==
  ASSUME NEW r, Busy(r)
  PROVE  /\ \A e : Keeps(Decide(r, e), r)
         /\ \A d : Keeps(Validate(r, d), r)
<1>1. \A d : Keeps(CurrentMatches(r, d), r) /\ Keeps(CandidateMatches(r, d), r)
  BY OperatorsKeep DEF CurrentMatches, CandidateMatches
<1>2. \A e : Keeps(Decide(r, e), r)
  BY <1>1, OperatorsKeep DEF Decide
<1>3. \A d : Keeps(Validate(r, d), r)
  BY OperatorsKeep DEF Validate
<1> QED BY <1>2, <1>3

(* Steps that start no promotion and complete none. *)
LEMMA LearnStep ==
  ASSUME IInv, IInv',
         \A c \in CRs : /\ api'[c].src = api[c].src
                        /\ Known(c)' \subseteq Known(c)
                        /\ env'[c].cur.of = env[c].cur.of
                        /\ env'[c].cand.of = env[c].cand.of
  PROVE  R!Learn
<1>1. \A c \in CRs : Known(c)' \subseteq Sources /\ api[c].src \in Known(c)'
  BY PartsOf DEF Known, Sound
<1> QED BY <1>1 DEF R!Learn

(* The workers' steps that leave the stored source alone. *)
LEMMA KeepStep ==
  ASSUME IInv, IInv', NEW cr \in CRs, rec[cr].pc # "idle",
         NEW n, Keeps(n, rec[cr]), rec' = [rec EXCEPT ![cr] = n],
         \A c \in CRs : /\ api'[c].src = api[c].src /\ cache'[c].src = cache[c].src
                        /\ env'[c].cur.of = env[c].cur.of
                        /\ env'[c].cand.of = env[c].cand.of
  PROVE  R!Learn
<1>1. \A c \in CRs : Known(c)' \subseteq Known(c)
  BY DEF Known, Keeps, IInv, TypeOK
<1> QED BY <1>1, LearnStep

LEMMA ReconcileLearns ==
  ASSUME IInv, IInv', NEW cr \in CRs, Reconcile(cr) \/ CallFails(cr), ~Promote(cr)
  PROVE  R!Learn
<1> DEFINE r == rec[cr]
<1> USE DEF Local, Baseten
<1>0. /\ rec \in [CRs -> Worker] /\ api \in [CRs -> Stored] /\ cache \in [CRs -> Cached]
      /\ env \in [CRs -> Environment]
  BY DEF IInv, TypeOK, Stored, Cached, Environment
<1>1. CASE Start(cr)
  <2>1. \A c \in CRs : Known(c)' \subseteq Known(c)
    BY <1>0, <1>1 DEF Known, Start, Idle
  <2> QED BY <1>1, <2>1, LearnStep DEF Start
<1>2. CASE ~Start(cr)
  <2>1. Busy(r) /\ r.pc # "idle"
    BY <1>2, PartsOf
       DEF Reconcile, GetEnvironment, ValidateSource, CallFails, Tune, Reactivate,
           Activate, Write, FirstFailure, Deadline, GiveUp, Recheck, Retry,
           ScheduleNextRetry
  <2>2. \E n : rec' = [rec EXCEPT ![cr] = n] /\ Keeps(n, r)
    <3>1. ASSUME NEW f, Busy(f), f.src = r.src, NEW n, Keeps(n, f) PROVE Keeps(n, r)
      BY <3>1 DEF Keeps
    <3>2. Keeps(Idle, r)
      BY DEF Keeps, Idle
    <3>3. CASE GetEnvironment(cr)
      BY <2>1, <3>3, DecisionsKeep DEF GetEnvironment
    <3>4. CASE ValidateSource(cr)
      BY <2>1, <3>4, DecisionsKeep DEF ValidateSource
    <3>5. CASE CallFails(cr) \/ Tune(cr) \/ Reactivate(cr) \/ Activate(cr)
      BY <2>1, <3>5, OperatorsKeep DEF CallFails, Tune, Reactivate, Activate
    <3>6. CASE GiveUp(cr)
      BY <2>1, <3>6, OperatorsKeep DEF GiveUp
    <3>7. CASE Deadline(cr) \/ Recheck(cr)
      BY <2>1, <3>2, <3>7, OperatorsKeep DEF Deadline, Recheck
    <3>8. CASE Retry(cr)
      <4>1. Keeps([r EXCEPT !.pc = "schedule", !.then = "log"], r)
        BY <2>1 DEF Keeps, Busy, Worker
      <4> QED BY <2>1, <3>8, <4>1, OperatorsKeep DEF Retry
    <3>9. CASE Write(cr)
      <4> DEFINE calm == [r EXCEPT !.changed = FALSE]
                 n == Go(calm, r.then)
      <4>1. Busy(calm) /\ calm.src = r.src
        BY <2>1 DEF Busy, Worker
      <4>2. rec' = [rec EXCEPT ![cr] = n]
        BY <3>9 DEF Write, Update
      <4> HIDE DEF calm
      <4>3. Keeps(n, r)
        BY <3>1, <4>1, OperatorsKeep
      <4> QED BY <4>2, <4>3
    <3>10. CASE FirstFailure(cr)
      <4> DEFINE f == [r EXCEPT !.st.first = "recent"]
      <4>1. rec' = [rec EXCEPT ![cr] = Go(f, "deadline")]
        BY <3>10 DEF FirstFailure, Update
      <4>2. Keeps(Go(f, "deadline"), r)
        BY <2>1 DEF Go, Keeps, Busy, Worker
      <4> QED BY <4>1, <4>2
    <3>11. CASE ScheduleNextRetry(cr)
      <4> DEFINE f == [r EXCEPT !.st.retry = "waiting"]
                 n == IF f.then = "log" THEN Log(f, "waiting") ELSE Idle
      <4>1. rec' = [rec EXCEPT ![cr] = n]
        BY <3>11 DEF ScheduleNextRetry, Update
      <4>2. [r.st EXCEPT !.retry = "waiting"] \in Status
        BY <2>1 DEF Busy, Worker, Status
      <4>3. f = [r EXCEPT !.st = [r.st EXCEPT !.retry = "waiting"]]
        BY <2>1 DEF Busy, Worker
      <4>4. Busy(f) /\ f.src = r.src
        BY <2>1, <4>2, <4>3 DEF Busy, Worker
      <4> HIDE DEF f
      <4>5. Keeps(n, r)
        BY <3>1, <3>2, <4>4, OperatorsKeep
      <4> QED BY <4>1, <4>5
    <3> QED BY <1>2, <3>3, <3>4, <3>5, <3>6, <3>7, <3>8, <3>9, <3>10, <3>11
            DEF Reconcile
  <2>3. \A c \in CRs : api'[c].src = api[c].src /\ cache'[c].src = cache[c].src
    <3>1. CASE UNCHANGED <<api, cache>>
      BY <3>1
    <3>2. ASSUME NEW st, api' = [api EXCEPT ![cr].st = st], cache' = Stale(cache, cr)
          PROVE  \A c \in CRs : api'[c].src = api[c].src /\ cache'[c].src = cache[c].src
      BY <1>0, <3>2 DEF Stale, Stored, Cached
    <3>3. CASE Write(cr) \/ FirstFailure(cr) \/ ScheduleNextRetry(cr)
      BY <3>1, <3>2, <3>3 DEF Write, FirstFailure, ScheduleNextRetry, Update
    <3> QED BY <1>2, <3>1, <3>3
            DEF Reconcile, GetEnvironment, ValidateSource, CallFails, Tune,
                Reactivate, Activate, Deadline, GiveUp, Recheck, Retry
  <2>4. \A c \in CRs : env'[c].cur.of = env[c].cur.of /\ env'[c].cand.of = env[c].cand.of
    <3>1. CASE UNCHANGED env
      BY <3>1
    <3>2. CASE Tune(cr)
      BY <1>0, <3>2 DEF Tune, Environment
    <3>3. CASE Reactivate(cr)
      <4>1. Activated(env[cr].cur).of = env[cr].cur.of
        BY PartsOf, DeploymentsTyped
      <4> QED BY <1>0, <3>3, <4>1 DEF Reactivate, Environment
    <3>4. CASE Retry(cr) /\ r.target # "source"
      <4> DEFINE rebuilt == [Target(cr) EXCEPT !.status = "building"]
      <4>1. Target(cr) = env[cr].cand
        BY <3>4 DEF Target
      <4>2. rebuilt.of = env[cr].cand.of
        BY <4>1, PartsOf DEF Deployment, NoDep
      <4>3. env' = env \/ env' = [env EXCEPT ![cr].cand = rebuilt]
        BY <3>4 DEF Retry
      <4> HIDE DEF rebuilt
      <4> QED BY <1>0, <4>2, <4>3 DEF Environment
    <3>5. CASE Retry(cr) /\ r.target = "source"
      BY <3>1, <3>5 DEF Retry
    <3> QED BY <1>2, <3>1, <3>2, <3>3, <3>4, <3>5
            DEF Reconcile, GetEnvironment, ValidateSource, CallFails, Activate,
                Deadline, GiveUp, Recheck, Write, FirstFailure, ScheduleNextRetry
  <2> QED BY <2>1, <2>2, <2>3, <2>4, KeepStep
<1> QED BY <1>1, <1>2

LEMMA StepImplements == IInv /\ IInv' /\ [Next]_vars => [R!Next]_(R!vars)
<1> SUFFICES ASSUME IInv, IInv', [Next]_vars PROVE [R!Next]_(R!vars)
  OBVIOUS
<1>0. /\ rec \in [CRs -> Worker] /\ api \in [CRs -> Stored] /\ cache \in [CRs -> Cached]
      /\ env \in [CRs -> Environment]
  BY DEF IInv, TypeOK, Stored, Cached, Environment
<1>1. CASE R!Learn
  BY <1>1 DEF R!Next
<1>2. ASSUME NEW cr \in CRs, Promote(cr) PROVE R!Next
  <2>0. PICK s \in Sources : s = rec[cr].src
    BY <1>2, PartsOf DEF Promote, Busy
  <2> DEFINE copy == [of |-> s, status |-> "building", since |-> "none"]
  <2>1. env[cr].cand.of = None /\ s # env[cr].cur.of
    BY <1>2, <2>0, PartsOf, DeploymentsTyped DEF Promote, Sound, Past, Clear
  <2>2. s \in Known(cr)
    BY <1>2, <2>0 DEF Promote, Known
  <2>3. env' = [env EXCEPT ![cr].cand = copy] /\ UNCHANGED <<api, cache>>
    BY <1>2, <2>0 DEF Promote, Local
  <2>4. [c \in CRs |-> env'[c].cand.of] = [[c \in CRs |-> env[c].cand.of] EXCEPT ![cr] = s]
        /\ \A c \in CRs : env'[c].cur.of = env[c].cur.of
    BY <1>0, <2>3 DEF Environment
  <2>5. \A c \in CRs : Known(c)' = Known(c)
    <3>1. \A phase, cand, then :
            /\ Report(rec[cr], phase, cand, "log", then).src = s
            /\ Report(rec[cr], phase, cand, "log", then).pc = "log"
      BY <1>0, <2>0 DEF Report, Worker
    <3>2. PICK n : rec' = [rec EXCEPT ![cr] = n] /\ n.src = s /\ n.pc = "log"
      <4>1. CASE rec' = [rec EXCEPT ![cr] = Report(rec[cr], "promoting", TRUE, "log", "idle")]
        BY <3>1, <4>1, Zenon
      <4>2. CASE rec' = [rec EXCEPT ![cr] = Log(rec[cr], "failed")]
        <5>1. Log(rec[cr], "failed").src = s /\ Log(rec[cr], "failed").pc = "log"
          BY <3>1 DEF Log
        <5> QED BY <4>2, <5>1, Zenon
      <4> QED BY <1>2, <4>1, <4>2, Zenon DEF Promote
    <3>3. rec'[cr].src = s /\ rec'[cr].pc = "log" /\ \A c \in CRs \ {cr} : rec'[c] = rec[c]
      BY <1>0, <3>2
    <3>4. rec[cr].pc = "promote"
      BY <1>2 DEF Promote
    <3>5. ASSUME NEW c \in CRs PROVE Known(c)' = Known(c)
      <4>1. api' = api /\ cache' = cache
        BY <2>3
      <4>2. (rec'[c].pc = "idle" <=> rec[c].pc = "idle") /\ rec'[c].src = rec[c].src
        BY <2>0, <3>3, <3>4
      <4> QED BY <4>1, <4>2 DEF Known
    <3> QED BY <3>5
  <2>6. R!Promote(cr, s)
    <3> HIDE DEF copy
    <3>1. /\ [c \in CRs |-> api'[c].src] = [c \in CRs |-> api[c].src]
          /\ [c \in CRs |-> Known(c)'] = [c \in CRs |-> Known(c)]
          /\ [c \in CRs |-> env'[c].cur.of] = [c \in CRs |-> env[c].cur.of]
      BY <2>3, <2>4, <2>5
    <3> QED BY <2>1, <2>2, <2>4, <3>1 DEF R!Promote
  <2> QED BY <2>6 DEF R!Next
<1>3. ASSUME NEW cr \in CRs, CompletePromotion(cr) PROVE R!Next
  <2>1. /\ env[cr].cand.of \in Sources
        /\ Built(env[cr].cand).of = env[cr].cand.of /\ NoDep.of = None
    BY <1>3, PartsOf, DeploymentsTyped DEF CompletePromotion
  <2>2. /\ [c \in CRs |-> env'[c].cand.of] = [[c \in CRs |-> env[c].cand.of] EXCEPT ![cr] = None]
        /\ [c \in CRs |-> env'[c].cur.of] =
             [[c \in CRs |-> env[c].cur.of] EXCEPT ![cr] = env[cr].cand.of]
    BY <1>0, <1>3, <2>1 DEF CompletePromotion, Environment
  <2>3. \A c \in CRs : Known(c)' = Known(c) /\ api'[c].src = api[c].src
    BY <1>3 DEF CompletePromotion, Local, Known
  <2>4. R!Complete(cr)
    BY <2>1, <2>2, <2>3, SourcesAssumption DEF R!Complete
  <2> QED BY <2>4 DEF R!Next
<1>4. ASSUME NEW cr \in CRs, NEW s \in Sources, EditSource(cr, s) PROVE R!Next
  <2> DEFINE old == {cache[cr].src}
                    \cup (IF rec[cr].pc = "idle" THEN {} ELSE {rec[cr].src})
  <2>1. /\ api' = [api EXCEPT ![cr].src = s, ![cr].gen = @ + 1]
        /\ cache' = Stale(cache, cr) /\ rec' = Stale(rec, cr) /\ UNCHANGED env
    BY <1>4 DEF EditSource, Baseten
  <2>2. [c \in CRs |-> api'[c].src] = [[c \in CRs |-> api[c].src] EXCEPT ![cr] = s]
    BY <1>0, <2>1 DEF Stored
  <2>3. \A c \in CRs : /\ cache'[c].src = cache[c].src
                       /\ rec'[c].src = rec[c].src /\ rec'[c].pc = rec[c].pc
    BY <1>0, <2>1 DEF Stale, Worker, Cached
  <2>4. old \in SUBSET Known(cr)
    BY DEF Known
  <2>5. [c \in CRs |-> Known(c)'] = [[c \in CRs |-> Known(c)] EXCEPT ![cr] = old \cup {s}]
    BY <1>0, <2>1, <2>3 DEF Known, Stored
  <2>6. R!Rename(cr, s)
    BY <2>1, <2>2, <2>4, <2>5 DEF R!Rename
  <2> QED BY <2>6 DEF R!Next
<1>5. ASSUME NEW cr \in CRs, (Reconcile(cr) \/ CallFails(cr)) /\ ~Promote(cr)
      PROVE  R!Learn
  BY <1>5, ReconcileLearns
<1>6. ASSUME NEW cr \in CRs, Deliver(cr) PROVE R!Learn
  <2>1. \A c \in CRs : Known(c)' \subseteq Known(c)
    BY <1>0, <1>6 DEF Deliver, Known
  <2> QED BY <1>6, <2>1, LearnStep DEF Deliver, Baseten
<1>7. CASE Crash
  <2>1. \A c \in CRs : Known(c)' \subseteq Known(c)
    BY <1>7 DEF Crash, Known, Idle
  <2> QED BY <1>1, <1>7, <2>1, LearnStep DEF Crash, Baseten
<1>8. ASSUME \A c \in CRs : /\ api'[c].src = api[c].src /\ cache'[c].src = cache[c].src
                            /\ rec'[c].src = rec[c].src /\ rec'[c].pc = rec[c].pc
                            /\ env'[c].cur.of = env[c].cur.of
                            /\ env'[c].cand.of = env[c].cand.of
      PROVE  R!Learn
  <2>1. \A c \in CRs : Known(c)' = Known(c)
    BY <1>8 DEF Known
  <2> QED BY <1>8, <2>1, LearnStep
<1>9. CASE Age
  <2>1. \A c \in CRs : api'[c].src = api[c].src /\ cache'[c].src = cache[c].src
    BY <1>0, <1>9 DEF Age, Stored, Cached
  <2>2. \A c \in CRs : /\ [env[c].cur EXCEPT !.since = AgeOf(@)].of = env[c].cur.of
                       /\ [env[c].cand EXCEPT !.since = AgeOf(@)].of = env[c].cand.of
    BY PartsOf, AgedDeployment
  <2>3. \A c \in CRs : env'[c].cur.of = env[c].cur.of /\ env'[c].cand.of = env[c].cand.of
    BY <1>0, <1>9, <2>2 DEF Age, Environment
  <2> QED BY <1>1, <1>8, <1>9, <2>1, <2>3 DEF Age
<1>10. ASSUME NEW cr \in CRs, Elapse(cr) PROVE R!Learn
  BY <1>0, <1>8, <1>10 DEF Elapse, Baseten, Stored, Cached, Worker
<1>11. ASSUME NEW cr \in CRs, BuildCurrent(cr) PROVE R!Learn
  <2>1. Built(env[cr].cur).of = env[cr].cur.of
    BY <1>11, PartsOf, DeploymentsTyped DEF BuildCurrent
  <2> QED BY <1>0, <1>8, <1>11, <2>1 DEF BuildCurrent, Local, Environment
<1>12. ASSUME NEW cr \in CRs, Trouble(cr) PROVE R!Learn
  <2>1. UNCHANGED <<api, cache, rec>>
    BY <1>12 DEF Trouble, Local
  <2>2. ASSUME NEW d \in Worse(env[cr].cur), env' = [env EXCEPT ![cr].cur = d]
        PROVE  \A c \in CRs : env'[c].cur.of = env[c].cur.of
                              /\ env'[c].cand.of = env[c].cand.of
    BY <1>0, <2>2, PartsOf, WorseTyped DEF Environment
  <2>3. ASSUME NEW d \in Worse(env[cr].cand), env' = [env EXCEPT ![cr].cand = d]
        PROVE  \A c \in CRs : env'[c].cur.of = env[c].cur.of
                              /\ env'[c].cand.of = env[c].cand.of
    BY <1>0, <2>3, PartsOf, WorseTyped DEF Environment
  <2>4. ASSUME env' = [env EXCEPT ![cr].tuned = FALSE]
        PROVE  \A c \in CRs : env'[c].cur.of = env[c].cur.of
                              /\ env'[c].cand.of = env[c].cand.of
    BY <1>0, <2>4 DEF Environment
  <2> QED BY <1>8, <1>12, <2>1, <2>2, <2>3, <2>4 DEF Trouble
<1>13. ASSUME NEW s \in Sources, BuildSource(s) PROVE R!Learn
  BY <1>8, <1>13 DEF BuildSource, Local
<1>14. CASE UNCHANGED vars
  BY <1>1, <1>8, <1>14 DEF vars
<1> QED BY <1>1, <1>2, <1>3, <1>4, <1>5, <1>6, <1>7, <1>9, <1>10, <1>11, <1>12,
           <1>13, <1>14 DEF Next

(* Reconcile, with all its calls, retries, failures and restarts,          *)
(* implements the abstract rollout: it promotes only what a spec it may    *)
(* still be acting on names, never what is served already and never over a *)
(* running promotion.                                                      *)
THEOREM RolloutImplemented == Spec => R!Safety
<1>1. Init => R!Init
  <2> SUFFICES ASSUME Init PROVE R!Init
    OBVIOUS
  <2>1. PICK s \in [CRs -> Sources] :
          /\ api = [cr \in CRs |-> [src |-> s[cr], gen |-> 0, st |-> Blank]]
          /\ cache = [cr \in CRs |->
                        [src |-> s[cr], gen |-> 0, st |-> Blank, fresh |-> TRUE]]
    BY DEF Init
  <2>2. \A cr \in CRs : api[cr].src = s[cr] /\ Known(cr) = {s[cr]}
    BY <2>1 DEF Init, Known, Idle
  <2>3. \A cr \in CRs : env[cr].cand.of = None
    BY InitBaseten, DeploymentsTyped
  <2>4. [cr \in CRs |-> env[cr].cur.of] \in [CRs -> Sources \cup {None}]
    BY InitBaseten
  <2>5. [cr \in CRs |-> api[cr].src] \in [CRs -> Sources]
    BY <2>2
  <2>6. [cr \in CRs |-> Known(cr)] = [e \in CRs |-> {[cr \in CRs |-> api[cr].src][e]}]
    BY <2>2
  <2>7. [cr \in CRs |-> env[cr].cand.of] = [e \in CRs |-> None]
    BY <2>3
  <2> QED BY <2>4, <2>5, <2>6, <2>7, Zenon DEF R!Init
<1> QED BY Invariance, <1>1, StepImplements, PTL DEF Spec, R!Safety
=============================================================================
