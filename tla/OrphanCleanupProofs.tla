------------------------ MODULE OrphanCleanupProofs ------------------------
(***************************************************************************)
(* Proofs about OrphanCleanup, for any environments, CRs, minToKeep and    *)
(* bounds.                                                                 *)
(*                                                                         *)
(* What a cleanup is about to delete was chosen from a listing that may be *)
(* outdated in every respect: the newer orphans it was to leave may have   *)
(* been deleted before it chose.  The invariant says what remains true:    *)
(* as many orphans as minToKeep of some CR are newer and there (Backed).   *)
(* It says so of what is chosen and of what is gone already, since what a  *)
(* listing shows and is no longer there was deleted, then had enough       *)
(* orphans newer than itself, and these are newer than everything older.   *)
(***************************************************************************)
EXTENDS OrphanCleanup, TLAPS, FiniteSetTheorems, WellFoundedInduction

(* What a worker that has its orphans has chosen, or will choose at most.  *)
Chosen(cr) ==
  rec[cr].todo \cup {d \in Beyond(rec[cr].spare, Keep[cr]) :
                       cr \in Deleting /\ rec[cr].pc = "scale"}

ChoicesBacked == \A cr \in CRs : \A d \in Chosen(cr) : Backed(d)

(* What was listed was created; if it is gone, it was deleted. *)
SparesThere == \A cr \in CRs : \A d \in rec[cr].spare : dep[d].status # "none"

GoneBacked == \A d \in Ids : dep[d].status = "gone" => Backed(d)

Backing == SparesThere /\ GoneBacked /\ ChoicesBacked

IInv == TypeOK /\ Backing

(* The orphans that are there. *)
Kept == Existing \cap found
-----------------------------------------------------------------------------
(* Numbers of deployments. *)

LEMMA CardinalityGrows ==
  ASSUME NEW S \in SUBSET Ids, NEW T \in SUBSET S
  PROVE  Cardinality(S) \in Nat /\ Cardinality(T) \in Nat
         /\ Cardinality(T) <= Cardinality(S)
<1>1. IsFiniteSet(Ids)
  BY BoundsAssumption, FS_Interval DEF Ids
<1>2. IsFiniteSet(S)
  BY <1>1, FS_Subset
<1>3. IsFiniteSet(T) /\ Cardinality(T) <= Cardinality(S)
  BY <1>2, FS_Subset
<1> QED BY <1>2, <1>3, FS_CardinalityType

(* The larger the set, the more of it is beyond the k newest. *)
LEMMA BeyondGrows ==
  ASSUME NEW S \in SUBSET Ids, NEW T \in SUBSET S, NEW k \in Nat
  PROVE  Beyond(T, k) \subseteq Beyond(S, k)
<1> SUFFICES ASSUME NEW d \in T, Cardinality(Newer(d, T)) >= k
             PROVE  Cardinality(Newer(d, S)) >= k
  BY DEF Beyond
<1>1. Newer(d, S) \in SUBSET Ids /\ Newer(d, T) \in SUBSET Newer(d, S)
  BY DEF Newer
<1> QED BY <1>1, CardinalityGrows

LEMMA LeastOf ==
  ASSUME NEW S \in SUBSET Ids, S # {}
  PROVE  \E d \in S : \A e \in S : d <= e
<1>1. S \subseteq Nat
  BY BoundsAssumption DEF Ids
<1>2. PICK d \in S : \A e \in S : ~(<<e, d>> \in OpToRel(<, Nat))
  BY <1>1, NatLessThanWellFounded, WFMin, Zenon
<1>3. \A e \in S : ~(e < d)
  BY <1>1, <1>2 DEF OpToRel
<1> QED BY <1>1, <1>3

(* The next to be deleted is one of those chosen. *)
LEMMA VictimChosen ==
  ASSUME NEW r \in Worker, r.todo # {}
  PROVE  Victim(r) \in r.todo
<1> DEFINE first == IF r.todo \ r.match # {} THEN r.todo \ r.match ELSE r.todo
<1>1. first \in SUBSET Ids /\ first # {} /\ first \subseteq r.todo
  BY DEF Worker
<1>2. \E d \in first : \A e \in first : d <= e
  BY <1>1, LeastOf
<1>3. Victim(r) = CHOOSE d \in first : \A e \in first : d <= e
  BY DEF Victim
<1>4. Victim(r) \in first
  <2> HIDE DEF first
  <2> QED BY <1>2, <1>3
<1> QED BY <1>1, <1>4
-----------------------------------------------------------------------------
(* The invariant, step by step. *)

LEMMA IdleIsWorker == Idle \in Worker
BY DEF Idle, Worker

LEMMA InitTypeOK == Init => TypeOK
<1> SUFFICES ASSUME Init PROVE TypeOK
  OBVIOUS
<1>1. rec \in [CRs -> Worker]
  BY IdleIsWorker DEF Init
<1>2. dep \in [Ids -> Deployment]
  BY DEF Init, Deployment
<1>3. env \in [Envs -> [cur : Ids \cup {Nothing}, cand : Ids \cup {Nothing}]]
  BY DEF Init, Existing
<1>4. /\ src \in [CRs -> Sources] /\ due \in [CRs -> BOOLEAN]
      /\ held \in [CRs -> SUBSET Ids] /\ found \subseteq Ids
  BY DEF Init
<1>5. horizon \in 0..MaxId /\ edits \in 0..MaxEdits /\ faults \in 0..MaxFaults
  BY BoundsAssumption DEF Init
<1> QED BY <1>1, <1>2, <1>3, <1>4, <1>5 DEF TypeOK

LEMMA NothingBeyondNothing == \A k : Beyond({}, k) = {}
BY DEF Beyond

LEMMA InitIInv == Init => IInv
<1> SUFFICES ASSUME Init PROVE IInv
  OBVIOUS
<1>1. \A cr \in CRs : Chosen(cr) = {} /\ rec[cr].spare = {}
  BY NothingBeyondNothing DEF Init, Chosen, Idle
<1>2. \A d \in Ids : dep[d].status # "gone"
  BY DEF Init
<1> QED
  BY <1>1, <1>2, InitTypeOK DEF IInv, Backing, SparesThere, GoneBacked, ChoicesBacked

LEMMA AttachedAreIds == TypeOK => Attached \in SUBSET Ids
BY DEF TypeOK, Attached

LEMMA FaultBounded == ASSUME TypeOK, Fault PROVE faults' \in 0..MaxFaults
BY BoundsAssumption DEF TypeOK, Fault

LEMMA EditBounded ==
  ASSUME TypeOK, edits < MaxEdits, edits' = edits + 1
  PROVE  edits' \in 0..MaxEdits
BY BoundsAssumption DEF TypeOK

(* The workers after a step of one of them. *)
LEMMA WorkersTyped ==
  ASSUME TypeOK, NEW cr \in CRs, NEW r \in Worker, rec' = [rec EXCEPT ![cr] = r]
  PROVE  rec' \in [CRs -> Worker]
BY DEF TypeOK

LEMMA CleanupTyped ==
  ASSUME TypeOK, NEW cr \in CRs, Cleanup(cr)
  PROVE  TypeOK'
<1> rec[cr] \in Worker
  BY DEF TypeOK
<1>1. CASE Start(cr)
  <2>1. rec' = [rec EXCEPT ![cr] = [rec[cr] EXCEPT !.pc = "list", !.src = src[cr]]]
    BY <1>1 DEF Start, TypeOK
  <2>2. [rec[cr] EXCEPT !.pc = "list", !.src = src[cr]] \in Worker
    BY DEF Worker, TypeOK
  <2>3. held' \in [CRs -> SUBSET Ids]
    BY <1>1, AttachedAreIds DEF Start, TypeOK
  <2> QED BY <1>1, <2>1, <2>2, <2>3, WorkersTyped DEF Start, TypeOK
<1>2. CASE ListDeployments(cr)
  <2> PICK m \in SUBSET Ids, s \in SUBSET Ids, d \in SUBSET Ids, u \in SUBSET Ids :
         rec' = [rec EXCEPT ![cr].pc = "environments", ![cr].spare = s,
                   ![cr].dead = d, ![cr].match = m, ![cr].up = u]
    BY <1>2 DEF ListDeployments, Existing
  <2> DEFINE r == [rec[cr] EXCEPT !.pc = "environments", !.spare = s,
                     !.dead = d, !.match = m, !.up = u]
  <2>1. rec' = [rec EXCEPT ![cr] = r]
    BY DEF TypeOK
  <2>2. r \in Worker
    BY DEF Worker
  <2> QED BY <1>2, <2>1, <2>2, WorkersTyped DEF ListDeployments, TypeOK
<1>3. CASE ListEnvironments(cr)
  <2> PICK m \in SUBSET Ids, s \in SUBSET Ids, d \in SUBSET Ids, u \in SUBSET Ids :
         rec' = [rec EXCEPT ![cr].pc = "scale", ![cr].spare = s,
                   ![cr].dead = d, ![cr].match = m, ![cr].up = u]
    <3>1. rec[cr].spare \ Protected \in SUBSET Ids
      BY DEF Worker
    <3>2. \A X \in SUBSET Ids : X \cap (rec[cr].spare \ Protected) \in SUBSET Ids
      OBVIOUS
    <3>3. /\ rec[cr].dead \in SUBSET Ids /\ rec[cr].match \in SUBSET Ids
          /\ rec[cr].up \in SUBSET Ids
      BY DEF Worker
    <3> QED BY <1>3, <3>1, <3>2, <3>3 DEF ListEnvironments, TypeOK
  <2> DEFINE r == [rec[cr] EXCEPT !.pc = "scale", !.spare = s,
                     !.dead = d, !.match = m, !.up = u]
  <2>1. rec' = [rec EXCEPT ![cr] = r]
    BY DEF TypeOK
  <2>2. r \in Worker
    BY DEF Worker
  <2>3. found' \subseteq Ids
    BY <1>3 DEF ListEnvironments, TypeOK, Worker
  <2> QED BY <1>3, <2>1, <2>2, <2>3, WorkersTyped DEF ListEnvironments, TypeOK
<1>4. ASSUME NEW d \in Ids, ScaleIn(cr, d)
      PROVE  TypeOK'
  <2>1. rec' = [rec EXCEPT ![cr] = [rec[cr] EXCEPT !.up = @ \ {d}]]
    BY <1>4 DEF ScaleIn, TypeOK
  <2>2. [rec[cr] EXCEPT !.up = @ \ {d}] \in Worker
    BY DEF Worker
  <2>3. dep' \in [Ids -> Deployment]
    <3>1. dep \in [Ids -> Deployment]
      BY DEF TypeOK
    <3>2. [dep[d] EXCEPT !.scaled = TRUE] \in Deployment
      BY <3>1 DEF Deployment
    <3>3. dep' = dep \/ dep' = [dep EXCEPT ![d] = [dep[d] EXCEPT !.scaled = TRUE]]
      BY <1>4, <3>1 DEF ScaleIn
    <3> QED BY <3>1, <3>2, <3>3
  <2>4. faults' \in 0..MaxFaults
    BY <1>4, FaultBounded DEF ScaleIn, TypeOK
  <2> QED BY <1>4, <2>1, <2>2, <2>3, <2>4, WorkersTyped DEF ScaleIn, TypeOK
<1>5. CASE SelectStale(cr)
  <2> PICK t \in SUBSET Ids :
         rec' = [rec EXCEPT ![cr].pc = "delete", ![cr].spare = {},
                   ![cr].dead = {}, ![cr].todo = t]
    <3>1. {d \in Beyond(rec[cr].spare, Keep[cr]) \cap rec[cr].dead : d <= horizon}
             \in SUBSET Ids
      BY DEF Worker
    <3> QED BY <1>5, <3>1 DEF SelectStale
  <2> DEFINE r == [rec[cr] EXCEPT !.pc = "delete", !.spare = {}, !.dead = {},
                     !.todo = t]
  <2>1. rec' = [rec EXCEPT ![cr] = r]
    BY DEF TypeOK
  <2>2. r \in Worker
    BY DEF Worker
  <2> QED BY <1>5, <2>1, <2>2, WorkersTyped DEF SelectStale, TypeOK
<1>6. CASE Delete(cr)
  <2> DEFINE d == Victim(rec[cr])
  <2>1. d \in Ids
    BY <1>6, VictimChosen DEF Delete, Worker
  <2>2. rec' = [rec EXCEPT ![cr] = [rec[cr] EXCEPT !.todo = @ \ {d}]]
    BY <1>6 DEF Delete, TypeOK
  <2>3. [rec[cr] EXCEPT !.todo = @ \ {d}] \in Worker
    BY DEF Worker
  <2> HIDE DEF d
  <2>4. dep' \in [Ids -> Deployment]
    BY <1>6, <2>1 DEF Delete, TypeOK, Deployment, d
  <2>5. env' \in [Envs -> [cur : Ids \cup {Nothing}, cand : Ids \cup {Nothing}]]
    <3>1. \A e \in Envs : Without(env[e], d) \in [cur : Ids \cup {Nothing},
                                                  cand : Ids \cup {Nothing}]
      BY DEF Without, TypeOK
    <3> QED BY <1>6, <3>1 DEF Delete, TypeOK, d
  <2>6. held' \in [CRs -> SUBSET Ids]
    BY <1>6 DEF Delete, TypeOK
  <2>7. faults' \in 0..MaxFaults
    BY <1>6, FaultBounded DEF Delete, TypeOK
  <2>8. rec' \in [CRs -> Worker]
    BY <2>2, <2>3, WorkersTyped
  <2> QED BY <1>6, <2>4, <2>5, <2>6, <2>7, <2>8 DEF Delete, TypeOK
<1>7. CASE Stamp(cr)
  <2>1. held' \in [CRs -> SUBSET Ids] /\ due' \in [CRs -> BOOLEAN]
    BY <1>7 DEF Stamp, TypeOK
  <2>2. rec' \in [CRs -> Worker]
    BY <1>7, IdleIsWorker, WorkersTyped DEF Stamp
  <2> QED BY <1>7, <2>1, <2>2 DEF Stamp, TypeOK
<1> QED BY <1>1, <1>2, <1>3, <1>4, <1>5, <1>6, <1>7 DEF Cleanup

LEMMA OthersTyped ==
  ASSUME TypeOK, UNCHANGED Others,
         dep' \in [Ids -> Deployment],
         env' \in [Envs -> [cur : Ids \cup {Nothing}, cand : Ids \cup {Nothing}]],
         held' \in [CRs -> SUBSET Ids],
         edits' \in 0..MaxEdits, faults' \in 0..MaxFaults
  PROVE  TypeOK'
BY DEF TypeOK, Others

LEMMA StepTyped == TypeOK /\ [Next]_vars => TypeOK'
<1> SUFFICES ASSUME TypeOK, [Next]_vars PROVE TypeOK'
  OBVIOUS
<1>1. ASSUME NEW cr \in CRs, Cleanup(cr) PROVE TypeOK'
  BY <1>1, CleanupTyped
<1>2. ASSUME NEW cr \in CRs, ListFails(cr) PROVE TypeOK'
  BY <1>2, IdleIsWorker, WorkersTyped, FaultBounded DEF ListFails, TypeOK
<1>3. ASSUME NEW cr \in CRs, Elapse(cr) PROVE TypeOK'
  BY <1>3 DEF Elapse, TypeOK
<1>4. ASSUME NEW cr \in CRs, NEW s \in Sources, EditSource(cr, s) PROVE TypeOK'
  BY <1>4, EditBounded DEF EditSource, TypeOK
<1>5. ASSUME NEW s \in Sources, Create(s) PROVE TypeOK'
  <2>1. dep' \in [Ids -> Deployment]
    BY <1>5 DEF Create, TypeOK, Deployment
  <2> QED BY <1>5, <2>1, OthersTyped DEF Create, Others, TypeOK
<1>6. ASSUME NEW e \in Envs, NEW d \in Ids, Promote(e, d) PROVE TypeOK'
  <2>1. env' \in [Envs -> [cur : Ids \cup {Nothing}, cand : Ids \cup {Nothing}]]
    BY <1>6 DEF Promote, TypeOK
  <2>2. held' \in [CRs -> SUBSET Ids]
    BY <1>6 DEF Promote, Hold, TypeOK
  <2> QED BY <1>6, <2>1, <2>2, OthersTyped, EditBounded DEF Promote, Others, TypeOK
<1>7. ASSUME NEW e \in Envs, Complete(e) PROVE TypeOK'
  <2>1. env' \in [Envs -> [cur : Ids \cup {Nothing}, cand : Ids \cup {Nothing}]]
    BY <1>7 DEF Complete, TypeOK
  <2>2. dep' \in [Ids -> Deployment]
    BY <1>7 DEF Complete, TypeOK, Deployment
  <2>3. held' \in [CRs -> SUBSET Ids]
    BY <1>7 DEF Complete, Hold, TypeOK
  <2> QED BY <1>7, <2>1, <2>2, <2>3, OthersTyped DEF Complete, Others, TypeOK
<1>8. ASSUME NEW d \in Ids, NEW from \in {"active", "inactive", "failed"},
             NEW to \in {"active", "inactive", "failed"}, Change(d, from, to)
      PROVE  TypeOK'
  <2>1. dep' \in [Ids -> Deployment]
    BY <1>8 DEF Change, TypeOK, Deployment
  <2> QED BY <1>8, <2>1, OthersTyped, EditBounded DEF Change, Others, TypeOK
<1>9. CASE Age
  BY <1>9, BoundsAssumption DEF Age, TypeOK
<1>10. CASE Crash
  BY <1>10, IdleIsWorker, FaultBounded DEF Crash, TypeOK
<1>11. CASE UNCHANGED vars
  BY <1>11 DEF vars, TypeOK
<1> QED BY <1>1, <1>2, <1>3, <1>4, <1>5, <1>6, <1>7, <1>8, <1>9, <1>10, <1>11 DEF Next
-----------------------------------------------------------------------------
(* What a step does to the orphans that are there. *)

LEMMA KeptAreIds == Kept \in SUBSET Ids /\ Kept' \in SUBSET Ids
BY DEF Kept, Existing

LEMMA CreationBacks ==
  ASSUME Kept \subseteq Kept', NEW d \in Ids, Backed(d)
  PROVE  Backed(d)'
<1> PICK c \in Deleting : Cardinality(Newer(d, Kept)) >= Keep[c]
  BY DEF Backed, Kept
<1>1. Newer(d, Kept) \in SUBSET Newer(d, Kept')
  BY DEF Newer
<1>2. Newer(d, Kept') \in SUBSET Ids
  BY KeptAreIds DEF Newer
<1>3. Keep[c] \in Nat
  BY CRsAssumption
<1>4. Cardinality(Newer(d, Kept')) >= Keep[c]
  BY <1>1, <1>2, <1>3, CardinalityGrows
<1> QED BY <1>4 DEF Backed, Kept

(* What is older than a backed deployment is backed too. *)
LEMMA OlderBacked ==
  ASSUME NEW e \in Ids, Backed(e)', NEW d \in Ids, e > d
  PROVE  Backed(d)'
<1>0. d \in Nat /\ e \in Nat /\ \A x \in Kept' : x \in Nat
  BY BoundsAssumption, KeptAreIds DEF Ids
<1> PICK c \in Deleting : Cardinality(Newer(e, Kept')) >= Keep[c]
  BY DEF Backed, Kept
<1>1. Newer(e, Kept') \in SUBSET Newer(d, Kept')
  BY <1>0 DEF Newer
<1>2. Newer(d, Kept') \in SUBSET Ids
  BY KeptAreIds DEF Newer
<1>3. Keep[c] \in Nat
  BY CRsAssumption
<1>4. Cardinality(Newer(d, Kept')) >= Keep[c]
  BY <1>1, <1>2, <1>3, CardinalityGrows
<1> QED BY <1>4 DEF Backed, Kept

LEMMA DeletionBacks ==
  ASSUME NEW e \in Ids, Kept' = Kept \ {e}, Backed(e),
         NEW d \in Ids, Backed(d)
  PROVE  Backed(d)'
<1>0. d \in Nat /\ e \in Nat /\ \A x \in Kept : x \in Nat
  BY BoundsAssumption, KeptAreIds DEF Ids
<1>1. CASE e > d
  <2> PICK c \in Deleting : Cardinality(Newer(e, Kept)) >= Keep[c]
    BY DEF Backed, Kept
  <2>1. Newer(e, Kept) \in SUBSET Newer(d, Kept')
    BY <1>0, <1>1 DEF Newer
  <2>2. Newer(d, Kept') \in SUBSET Ids
    BY KeptAreIds DEF Newer
  <2>3. Keep[c] \in Nat
    BY CRsAssumption
  <2>4. Cardinality(Newer(d, Kept')) >= Keep[c]
    BY <2>1, <2>2, <2>3, CardinalityGrows
  <2> QED BY <2>4 DEF Backed, Kept
<1>2. CASE ~(e > d)
  <2>1. Newer(d, Kept') = Newer(d, Kept)
    BY <1>2 DEF Newer
  <2> QED BY <2>1 DEF Backed, Kept
<1> QED BY <1>1, <1>2

(* What a listing leaves over minToKeep is backed once it is known which   *)
(* deployments are orphans, though some of the list may be gone.           *)
LEMMA BeyondBacked ==
  ASSUME TypeOK', GoneBacked', NEW S \in SUBSET found',
         \A x \in S : dep'[x].status # "none",
         NEW c \in Deleting, NEW d \in Beyond(S, Keep[c])
  PROVE  Backed(d)'
<1>0. /\ found' \subseteq Ids /\ d \in S /\ Keep[c] \in Nat
      /\ Cardinality(Newer(d, S)) >= Keep[c]
  BY CRsAssumption DEF TypeOK, Beyond
<1>1. CASE \E x \in Newer(d, S) : dep'[x].status = "gone"
  <2> PICK x \in Newer(d, S) : dep'[x].status = "gone"
    BY <1>1
  <2>1. x \in Ids /\ d \in Ids /\ x > d
    BY <1>0 DEF Newer
  <2> QED BY <2>1, OlderBacked DEF GoneBacked
<1>2. CASE \A x \in Newer(d, S) : dep'[x].status # "gone"
  <2>1. Newer(d, S) \in SUBSET Newer(d, Kept')
    BY <1>0, <1>2 DEF Newer, Kept, Existing, Exists
  <2>2. Newer(d, Kept') \in SUBSET Ids
    BY KeptAreIds DEF Newer
  <2>3. Cardinality(Newer(d, Kept')) >= Keep[c]
    BY <1>0, <2>1, <2>2, CardinalityGrows
  <2> QED BY <2>3 DEF Backed, Kept
<1> QED BY <1>1, <1>2
-----------------------------------------------------------------------------
(* Preservation of Backing. *)

(* A step of one worker at most that keeps backed what is.                 *)
LEMMA BackingStays ==
  ASSUME IInv, \A d \in Ids : Backed(d) => Backed(d)',
         \A d \in Ids : dep[d].status # "none" => dep'[d].status # "none",
         \A d \in Ids : dep'[d].status = "gone" => Backed(d)',
         NEW c, \A cr \in CRs \ {c} : rec'[cr] = rec[cr],
         c \in CRs => /\ \A d \in Chosen(c)' : Backed(d)'
                      /\ \A d \in rec'[c].spare : dep'[d].status # "none"
  PROVE  Backing'
<1>1. ASSUME NEW cr \in CRs
      PROVE  /\ \A d \in Chosen(cr)' : Backed(d)'
             /\ \A d \in rec'[cr].spare : dep'[d].status # "none"
  <2>1. CASE cr = c
    BY <2>1
  <2>2. CASE cr # c
    <3>1. Chosen(cr)' = Chosen(cr) /\ rec'[cr] = rec[cr]
      BY <2>2 DEF Chosen
    <3>2. Chosen(cr) \subseteq Ids /\ rec[cr].spare \subseteq Ids
      BY DEF IInv, TypeOK, Worker, Chosen, Beyond
    <3> QED BY <3>1, <3>2 DEF IInv, Backing, ChoicesBacked, SparesThere
  <2> QED BY <2>1, <2>2
<1> QED BY <1>1 DEF Backing, ChoicesBacked, SparesThere, GoneBacked

(* The same when no deployment is deleted, and the worker chooses nothing  *)
(* new and has no more spares.                                             *)
LEMMA NothingNew ==
  ASSUME IInv, UNCHANGED found,
         \A d \in Ids : \/ dep'[d].status = dep[d].status
                        \/ dep'[d].status \notin {"none", "gone"},
         NEW c \in CRs, \A cr \in CRs \ {c} : rec'[cr] = rec[cr],
         Chosen(c)' \subseteq Chosen(c), rec'[c].spare \subseteq rec[c].spare
  PROVE  Backing'
<1>1. Chosen(c) \subseteq Ids /\ rec[c].spare \subseteq Ids
  BY DEF IInv, TypeOK, Worker, Chosen, Beyond
<1>2. Kept \subseteq Kept'
  BY DEF Kept, Existing, Exists
<1>3. \A d \in Ids : Backed(d) => Backed(d)'
  BY <1>2, CreationBacks
<1>4. \A d \in Chosen(c)' : Backed(d)'
  BY <1>1, <1>3 DEF IInv, Backing, ChoicesBacked
<1>5. \A d \in Ids : dep[d].status # "none" => dep'[d].status # "none"
  OBVIOUS
<1>6. \A d \in rec'[c].spare : dep'[d].status # "none"
  BY <1>1, <1>5 DEF IInv, Backing, SparesThere
<1>7. \A d \in Ids : dep'[d].status = "gone" => Backed(d)'
  BY <1>3 DEF IInv, Backing, GoneBacked
<1> QED BY <1>3, <1>4, <1>5, <1>6, <1>7, BackingStays

(* What the proofs below need of a worker's type.                          *)
LEMMA SparesAreIds ==
  ASSUME TypeOK, NEW cr \in CRs
  PROVE  rec[cr] \in Worker /\ rec[cr].spare \in SUBSET Ids
         /\ rec[cr].todo \in SUBSET Ids /\ Keep[cr] \in Nat
BY CRsAssumption DEF TypeOK, Worker

LEMMA CleanupBacked ==
  ASSUME IInv, NEW cr \in CRs, Cleanup(cr)
  PROVE  Backing'
<1> USE SparesAreIds DEF IInv
<1>1. CASE Start(cr)
  <2>1. /\ rec'[cr].todo = rec[cr].todo /\ rec'[cr].spare = rec[cr].spare
        /\ rec'[cr].pc = "list" /\ \A c \in CRs \ {cr} : rec'[c] = rec[c]
    BY <1>1 DEF Start, TypeOK, Worker
  <2>2. Chosen(cr)' \subseteq Chosen(cr)
    BY <2>1 DEF Chosen
  <2> QED BY <1>1, <2>1, <2>2, NothingNew DEF Start
<1>2. CASE ListDeployments(cr)
  <2> PICK match \in SUBSET Ids, s \in SUBSET Existing,
            dead \in SUBSET Ids, up \in SUBSET Ids :
         rec' = [rec EXCEPT ![cr].pc = "environments", ![cr].spare = s,
                   ![cr].dead = dead, ![cr].match = match, ![cr].up = up]
    BY <1>2 DEF ListDeployments, Existing
  <2>1. /\ rec'[cr].todo = rec[cr].todo /\ rec'[cr].spare = s
        /\ rec'[cr].pc = "environments" /\ \A c \in CRs \ {cr} : rec'[c] = rec[c]
    BY DEF TypeOK, Worker
  <2>2. UNCHANGED <<dep, found>>
    BY <1>2 DEF ListDeployments
  <2>3. Chosen(cr)' \subseteq Chosen(cr)
    BY <2>1 DEF Chosen
  <2>4. \A d \in Ids : Backed(d) => Backed(d)'
    BY <2>2, CreationBacks DEF Kept, Existing, Exists
  <2>5. \A d \in Chosen(cr)' : Backed(d)'
    BY <2>3, <2>4 DEF Backing, ChoicesBacked, Chosen, Beyond
  <2>6. \A d \in s : dep'[d].status # "none"
    BY <2>2 DEF Existing, Exists
  <2>7. \A d \in Ids : dep'[d].status = "gone" => Backed(d)'
    BY <2>2, <2>4 DEF Backing, GoneBacked
  <2> QED BY <2>1, <2>2, <2>4, <2>5, <2>6, <2>7, BackingStays
<1>3. CASE ListEnvironments(cr)
  <2> DEFINE s == rec[cr].spare \ Protected
  <2>1. /\ rec'[cr].todo = rec[cr].todo /\ rec'[cr].spare = s
        /\ \A c \in CRs \ {cr} : rec'[c] = rec[c]
    BY <1>3 DEF ListEnvironments, TypeOK
  <2>2. UNCHANGED dep /\ found' = found \cup s
    BY <1>3 DEF ListEnvironments
  <2>3. \A d \in Ids : Backed(d) => Backed(d)'
    <3>1. Kept \subseteq Kept'
      BY <2>2 DEF Kept, Existing, Exists
    <3> QED BY <3>1, CreationBacks
  <2>4. \A d \in s : dep'[d].status # "none"
    BY <2>2 DEF Backing, SparesThere
  <2>5. \A d \in Ids : dep'[d].status = "gone" => Backed(d)'
    BY <2>2, <2>3 DEF Backing, GoneBacked
  <2>6. cr \in Deleting => \A d \in Beyond(s, Keep[cr]) : Backed(d)'
    <3> HIDE DEF s
    <3>1. TypeOK' /\ GoneBacked' /\ s \in SUBSET found'
      BY <2>2, <2>5, CleanupTyped DEF GoneBacked
    <3> SUFFICES ASSUME cr \in Deleting, NEW d \in Beyond(s, Keep[cr])
                 PROVE  Backed(d)'
      OBVIOUS
    <3> QED BY <2>4, <3>1, BeyondBacked
  <2>7. \A d \in Chosen(cr)' : Backed(d)'
    <3>1. Chosen(cr)' \subseteq rec[cr].todo
                              \cup {d \in Beyond(s, Keep[cr]) : cr \in Deleting}
      BY <2>1 DEF Chosen
    <3>2. \A d \in rec[cr].todo : Backed(d)
      BY DEF Backing, ChoicesBacked, Chosen
    <3> QED BY <2>3, <2>6, <3>1, <3>2
  <2> QED BY <2>1, <2>2, <2>3, <2>4, <2>5, <2>7, BackingStays
<1>4. ASSUME NEW d \in Ids, ScaleIn(cr, d)
      PROVE  Backing'
  <2>1. /\ rec'[cr].todo = rec[cr].todo /\ rec'[cr].spare = rec[cr].spare
        /\ rec'[cr].pc = rec[cr].pc /\ \A c \in CRs \ {cr} : rec'[c] = rec[c]
    BY <1>4 DEF ScaleIn, TypeOK
  <2>2. UNCHANGED found /\ \A x \in Ids : dep'[x].status = dep[x].status
    BY <1>4 DEF ScaleIn, TypeOK, Deployment
  <2>3. Chosen(cr)' = Chosen(cr)
    BY <2>1 DEF Chosen
  <2> QED BY <2>1, <2>2, <2>3, NothingNew
<1>5. CASE SelectStale(cr)
  <2>1. /\ rec'[cr].todo \subseteq {d \in Beyond(rec[cr].spare, Keep[cr]) :
                                      cr \in Deleting /\ rec[cr].pc = "scale"}
        /\ rec'[cr].spare = {}
        /\ \A c \in CRs \ {cr} : rec'[c] = rec[c]
    BY <1>5 DEF SelectStale, TypeOK
  <2>2. Chosen(cr)' \subseteq Chosen(cr)
    BY <2>1, NothingBeyondNothing DEF Chosen
  <2> QED BY <1>5, <2>1, <2>2, NothingNew DEF SelectStale
<1>6. CASE Delete(cr)
  <2> DEFINE e == Victim(rec[cr])
  <2>1. e \in rec[cr].todo
    BY <1>6, VictimChosen DEF Delete
  <2>2. /\ rec'[cr].todo \subseteq rec[cr].todo /\ rec'[cr].spare = rec[cr].spare
        /\ rec'[cr].pc = rec[cr].pc /\ \A c \in CRs \ {cr} : rec'[c] = rec[c]
    BY <1>6 DEF Delete, TypeOK
  <2>3. Backed(e) /\ e \in Ids
    BY <2>1 DEF Backing, ChoicesBacked, Chosen
  <2>4. Chosen(cr)' \subseteq Chosen(cr)
    BY <2>2 DEF Chosen
  <2>5. CASE UNCHANGED dep
    BY <1>6, <2>2, <2>4, <2>5, NothingNew DEF Delete
  <2>6. CASE dep' = [dep EXCEPT ![e].status = "gone", ![e].scaled = FALSE]
    <3> HIDE DEF e
    <3>1. /\ dep'[e].status = "gone"
          /\ \A x \in Ids \ {e} : dep'[x].status = dep[x].status
      BY <2>3, <2>6 DEF TypeOK, Deployment
    <3>2. Kept' = Kept \ {e}
      BY <1>6, <2>3, <3>1 DEF Delete, Kept, Existing, Exists
    <3>3. \A d \in Ids : Backed(d) => Backed(d)'
      BY <2>3, <3>2, DeletionBacks
    <3>4. \A d \in Ids : dep'[d].status = "gone" => Backed(d)'
      BY <2>3, <3>1, <3>3 DEF Backing, GoneBacked
    <3>5. \A d \in Chosen(cr)' : Backed(d)'
      BY <2>4, <3>3 DEF Backing, ChoicesBacked, Chosen, Beyond
    <3>6. \A d \in Ids : dep[d].status # "none" => dep'[d].status # "none"
      BY <3>1
    <3>7. \A d \in rec'[cr].spare : dep'[d].status # "none"
      BY <2>2, <3>6 DEF Backing, SparesThere
    <3> QED BY <2>2, <3>3, <3>4, <3>5, <3>6, <3>7, BackingStays
  <2> QED BY <1>6, <2>5, <2>6 DEF Delete
<1>7. CASE Stamp(cr)
  <2>1. /\ rec'[cr].todo = {} /\ rec'[cr].spare = {}
        /\ \A c \in CRs \ {cr} : rec'[c] = rec[c]
    BY <1>7 DEF Stamp, TypeOK, Idle
  <2>2. Chosen(cr)' \subseteq Chosen(cr)
    BY <2>1, NothingBeyondNothing DEF Chosen
  <2> QED BY <1>7, <2>1, <2>2, NothingNew DEF Stamp
<1> QED BY <1>1, <1>2, <1>3, <1>4, <1>5, <1>6, <1>7 DEF Cleanup

LEMMA StepBacked == IInv /\ [Next]_vars => Backing'
<1> SUFFICES ASSUME IInv, [Next]_vars PROVE Backing'
  OBVIOUS
<1> USE DEF IInv
<1>1. ASSUME NEW cr \in CRs, Cleanup(cr) PROVE Backing'
  BY <1>1, CleanupBacked
<1>2. ASSUME NEW cr \in CRs, ListFails(cr) PROVE Backing'
  <2>1. /\ rec'[cr].todo = {} /\ rec'[cr].spare = {}
        /\ \A c \in CRs \ {cr} : rec'[c] = rec[c]
    BY <1>2 DEF ListFails, TypeOK, Idle
  <2>2. Chosen(cr)' \subseteq Chosen(cr)
    BY <2>1, NothingBeyondNothing DEF Chosen
  <2> QED BY <1>2, <2>1, <2>2, NothingNew DEF ListFails
<1>3. ASSUME UNCHANGED <<rec, found>>,
             \A d \in Ids : \/ dep'[d].status = dep[d].status
                            \/ dep'[d].status \notin {"none", "gone"}
      PROVE  Backing'
  <2>1. \A cr \in CRs : Chosen(cr)' = Chosen(cr)
    BY <1>3 DEF Chosen
  <2>2. \A d \in Ids : Backed(d) => Backed(d)'
    BY <1>3, CreationBacks DEF Kept, Existing, Exists
  <2>3. CASE CRs = {}
    BY <1>3, <2>2, <2>3 DEF Backing, GoneBacked, ChoicesBacked, SparesThere
  <2>4. ASSUME NEW cr \in CRs PROVE Backing'
    BY <1>3, <2>1, NothingNew
  <2> QED BY <2>3, <2>4
<1>4. ASSUME NEW s \in Sources, Create(s) PROVE Backing'
  BY <1>3, <1>4 DEF Create, Others, TypeOK, Deployment
<1>5. ASSUME NEW e \in Envs, Complete(e) PROVE Backing'
  BY <1>3, <1>5 DEF Complete, Others, TypeOK, Deployment
<1>6. ASSUME NEW d \in Ids, NEW from, NEW to \in {"active", "inactive", "failed"},
             Change(d, from, to)
      PROVE  Backing'
  BY <1>3, <1>6 DEF Change, Others, TypeOK, Deployment
<1>7. ASSUME UNCHANGED <<rec, dep, found>> PROVE Backing'
  BY <1>3, <1>7
<1>8. CASE Crash
  <2>1. \A cr \in CRs : Chosen(cr)' = {} /\ rec'[cr].spare = {}
    BY <1>8, NothingBeyondNothing DEF Crash, Chosen, Idle
  <2>2. GoneBacked'
    BY <1>8, CreationBacks DEF Crash, Backing, GoneBacked, Kept, Existing, Exists
  <2> QED BY <2>1, <2>2 DEF Backing, ChoicesBacked, SparesThere
<1>9. CASE Age
  BY <1>7, <1>9 DEF Age
<1>10. ASSUME NEW cr \in CRs, Elapse(cr) PROVE Backing'
  BY <1>7, <1>10 DEF Elapse
<1>11. ASSUME NEW cr \in CRs, NEW s \in Sources, EditSource(cr, s) PROVE Backing'
  BY <1>7, <1>11 DEF EditSource
<1>12. ASSUME NEW e \in Envs, NEW d \in Ids, Promote(e, d) PROVE Backing'
  BY <1>7, <1>12 DEF Promote, Others
<1>13. CASE UNCHANGED vars
  BY <1>7, <1>13 DEF vars
<1> QED BY <1>1, <1>2, <1>4, <1>5, <1>6, <1>8, <1>9, <1>10, <1>11, <1>12, <1>13 DEF Next
-----------------------------------------------------------------------------
(* Theorems. *)

LEMMA Invariance == Spec => []IInv
<1>1. IInv /\ [Next]_vars => IInv'
  BY StepTyped, StepBacked DEF IInv
<1> QED BY InitIInv, <1>1, PTL DEF Spec

(* In every reachable state every variable has its type: no cleanup works  *)
(* on numbers that are not those of deployments.                           *)
THEOREM TypeCorrect == Spec => []TypeOK
<1>1. IInv => TypeOK
  BY DEF IInv
<1> QED BY Invariance, <1>1, PTL

(* Whatever number of CRs clean up one model at the same time, each from   *)
(* listings that may be outdated: deleteStaleOrphans never deletes what is *)
(* among the newest of the deployments that were found to be orphans and   *)
(* are there when it does, up to the least minToKeep of the CRs that       *)
(* delete.                                                                 *)
THEOREM NewestAreKept == Spec => KeepsNewest
<1>1. IInv /\ [Next]_vars => [\A cr \in CRs : Delete(cr) => Backed(Victim(rec[cr]))]_vars
  <2> SUFFICES ASSUME IInv, NEW cr \in CRs, Delete(cr)
               PROVE  Backed(Victim(rec[cr]))
    OBVIOUS
  <2>1. rec[cr] \in Worker /\ rec[cr].todo # {}
    BY DEF IInv, TypeOK, Delete
  <2>2. Victim(rec[cr]) \in rec[cr].todo
    BY <2>1, VictimChosen
  <2> QED BY <2>2 DEF IInv, Backing, ChoicesBacked, Chosen
<1> QED BY Invariance, <1>1, PTL DEF Spec, KeepsNewest
-----------------------------------------------------------------------------
(* What is attached throughout a cleanup is on none of its lists.          *)

(* A worker that knows the environments leaves h alone. *)
Spares(r, h) == /\ r.pc = "scale" => (r.spare \cup r.up) \cap h = {}
                /\ r.pc = "delete" => r.todo \cap h = {}

HeldSpared == \A cr \in CRs : held[cr] \subseteq Attached /\ Spares(rec[cr], held[cr])

LEMMA IdleSpares == \A h : Spares(Idle, h)
BY DEF Spares, Idle

(* A step of one worker that detaches nothing. *)
LEMMA WorkerSpares ==
  ASSUME TypeOK, HeldSpared, NEW cr \in CRs, NEW r, Spares(r, held'[cr]),
         held'[cr] \subseteq Attached, \A c \in CRs \ {cr} : held'[c] = held[c],
         rec' = [rec EXCEPT ![cr] = r], UNCHANGED env
  PROVE  HeldSpared'
<1>1. Attached' = Attached
  BY DEF Attached
<1>2. \A c \in CRs : rec'[c] = IF c = cr THEN r ELSE rec[c]
  BY DEF TypeOK
<1> QED BY <1>1, <1>2 DEF HeldSpared

(* Others detach deployments, which are then no longer held. *)
LEMMA HoldSpares == ASSUME HeldSpared, Hold, UNCHANGED rec PROVE HeldSpared'
<1>1. \A cr \in CRs : held'[cr] = held[cr] \cap Attached'
  BY DEF Hold
<1> QED BY <1>1 DEF HeldSpared, Spares

LEMMA SameSpares == ASSUME HeldSpared, UNCHANGED <<rec, held, env>> PROVE HeldSpared'
BY DEF HeldSpared, Attached, Spares

(* A deletion detaches one deployment only. *)
LEMMA OneDetached ==
  ASSUME NEW d, env' = [e \in Envs |-> Without(env[e], d)]
  PROVE  Attached \ {d} \subseteq Attached'
<1> SUFFICES ASSUME NEW x \in Attached, x # d
             PROVE  x \in Attached'
  OBVIOUS
<1>1. PICK e \in Envs : x \in {env[e].cur, env[e].cand}
  BY DEF Attached
<1>2. x \in {env'[e].cur, env'[e].cand}
  BY <1>1 DEF Without
<1>3. x # Nothing
  BY DEF Attached
<1> QED BY <1>2, <1>3 DEF Attached

LEMMA CleanupSpares ==
  ASSUME TypeOK, HeldSpared, NEW cr \in CRs, Cleanup(cr)
  PROVE  HeldSpared'
<1> DEFINE r == rec[cr]
<1>0. /\ held \in [CRs -> SUBSET Ids] /\ rec \in [CRs -> Worker]
      /\ held[cr] \subseteq Attached /\ Spares(r, held[cr])
  BY DEF TypeOK, HeldSpared
<1>1. CASE Start(cr)
  <2>1. rec' = [rec EXCEPT ![cr] = [r EXCEPT !.pc = "list", !.src = src[cr]]]
    BY <1>0, <1>1 DEF Start
  <2>2. Spares([r EXCEPT !.pc = "list", !.src = src[cr]], held'[cr])
    BY <1>0 DEF Spares, Worker
  <2>3. /\ held'[cr] = Attached /\ UNCHANGED env
        /\ \A c \in CRs \ {cr} : held'[c] = held[c]
    BY <1>0, <1>1 DEF Start
  <2> QED BY <2>1, <2>2, <2>3, WorkerSpares
<1>2. CASE ListDeployments(cr)
  <2>1. PICK next : rec' = [rec EXCEPT ![cr] = next] /\ next.pc = "environments"
    <3>1. PICK m, s, dead, u :
            rec' = [rec EXCEPT ![cr].pc = "environments", ![cr].spare = s,
                      ![cr].dead = dead, ![cr].match = m, ![cr].up = u]
      BY <1>2 DEF ListDeployments
    <3> DEFINE next == [r EXCEPT !.pc = "environments", !.spare = s, !.dead = dead,
                          !.match = m, !.up = u]
    <3>2. rec' = [rec EXCEPT ![cr] = next]
      BY <1>0, <3>1
    <3>3. next.pc = "environments"
      BY <1>0 DEF Worker
    <3> QED BY <3>2, <3>3
  <2>2. UNCHANGED <<held, env>>
    BY <1>2 DEF ListDeployments
  <2>3. Spares(next, held'[cr])
    BY <2>1 DEF Spares
  <2> QED BY <1>0, <2>1, <2>2, <2>3, WorkerSpares
<1>3. CASE ListEnvironments(cr)
  <2>1. PICK next : /\ rec' = [rec EXCEPT ![cr] = next] /\ next.pc = "scale"
                    /\ next.spare \cap Attached = {} /\ next.up \cap Attached = {}
    <3> DEFINE s == r.spare \ Protected
               up == IF cr \in Scaling THEN r.up \cap s ELSE {}
               next == [r EXCEPT !.pc = "scale", !.spare = s, !.dead = @ \cap s,
                          !.match = @ \cap s, !.up = up]
    <3>1. rec' = [rec EXCEPT ![cr].pc = "scale", ![cr].spare = s,
                    ![cr].dead = @ \cap s, ![cr].match = @ \cap s, ![cr].up = up]
      BY <1>3 DEF ListEnvironments
    <3>2. rec' = [rec EXCEPT ![cr] = next]
      <4> HIDE DEF s, up
      <4> QED BY <1>0, <3>1
    <3>3. next.pc = "scale" /\ next.spare = s /\ next.up = up
      <4> HIDE DEF s, up
      <4> QED BY <1>0 DEF Worker
    <3>4. s \cap Attached = {} /\ up \subseteq s
      BY DEF Protected
    <3> HIDE DEF s, up, next
    <3>5. next.spare \cap Attached = {} /\ next.up \cap Attached = {}
      BY <3>3, <3>4
    <3> QED BY <3>2, <3>3, <3>5
  <2>2. UNCHANGED <<held, env>>
    BY <1>3 DEF ListEnvironments
  <2>3. Spares(next, held'[cr])
    BY <1>0, <2>1, <2>2 DEF Spares
  <2> QED BY <1>0, <2>1, <2>2, <2>3, WorkerSpares
<1>4. ASSUME NEW d \in Ids, ScaleIn(cr, d)
      PROVE  HeldSpared'
  <2>1. rec' = [rec EXCEPT ![cr] = [r EXCEPT !.up = @ \ {d}]]
    BY <1>0, <1>4 DEF ScaleIn
  <2>2. UNCHANGED <<held, env>>
    BY <1>4 DEF ScaleIn
  <2>3. Spares([r EXCEPT !.up = @ \ {d}], held'[cr])
    BY <1>0, <2>2 DEF Spares, Worker
  <2> QED BY <1>0, <2>1, <2>2, <2>3, WorkerSpares
<1>5. CASE SelectStale(cr)
  <2>1. PICK t : /\ t \subseteq r.spare
                 /\ rec' = [rec EXCEPT ![cr].pc = "delete", ![cr].spare = {},
                              ![cr].dead = {}, ![cr].todo = t]
    <3>1. {d \in Beyond(r.spare, Keep[cr]) \cap r.dead : d <= horizon} \subseteq r.spare
      BY DEF Beyond
    <3> QED BY <1>5, <3>1 DEF SelectStale
  <2> DEFINE next == [r EXCEPT !.pc = "delete", !.spare = {}, !.dead = {}, !.todo = t]
  <2>2. rec' = [rec EXCEPT ![cr] = next]
    BY <1>0, <2>1
  <2>3. UNCHANGED <<held, env>> /\ r.pc = "scale"
    BY <1>5 DEF SelectStale
  <2>4. r.spare \cap held'[cr] = {}
    BY <1>0, <2>3 DEF Spares
  <2>5. Spares(next, held'[cr])
    BY <1>0, <2>1, <2>4 DEF Spares, Worker
  <2> QED BY <1>0, <2>2, <2>3, <2>5, WorkerSpares
<1>6. CASE Delete(cr)
  <2> DEFINE d == Victim(r)
             next == [r EXCEPT !.todo = @ \ {d}]
  <2>1. rec' = [rec EXCEPT ![cr] = next]
    BY <1>0, <1>6 DEF Delete
  <2>2. \A h \in SUBSET held[cr] : Spares(next, h)
    <3> HIDE DEF d
    <3> QED BY <1>0 DEF Spares, Worker
  <2>3. CASE UNCHANGED <<env, held>>
    BY <1>0, <2>1, <2>2, <2>3, WorkerSpares
  <2>4. CASE /\ env' = [e \in Envs |-> Without(env[e], d)]
             /\ held' = [c \in CRs |-> held[c] \ {d}]
    <3> HIDE DEF d, next
    <3>1. \A c \in CRs : held'[c] = held[c] \ {d} /\ held'[c] \subseteq Attached'
      BY <2>4, OneDetached DEF HeldSpared
    <3>2. \A c \in CRs : rec'[c] = IF c = cr THEN next ELSE rec[c]
      BY <1>0, <2>1
    <3>3. \A c \in CRs : Spares(rec'[c], held'[c])
      BY <2>2, <3>1, <3>2 DEF HeldSpared, Spares
    <3> QED BY <3>1, <3>3 DEF HeldSpared
  <2> QED BY <1>6, <2>3, <2>4 DEF Delete
<1>7. CASE Stamp(cr)
  <2>1. /\ rec' = [rec EXCEPT ![cr] = Idle] /\ UNCHANGED env
        /\ held'[cr] = {} /\ \A c \in CRs \ {cr} : held'[c] = held[c]
    BY <1>0, <1>7 DEF Stamp
  <2> QED BY <2>1, IdleSpares, WorkerSpares
<1> QED BY <1>1, <1>2, <1>3, <1>4, <1>5, <1>6, <1>7 DEF Cleanup

LEMMA StepSpares == TypeOK /\ HeldSpared /\ [Next]_vars => HeldSpared'
<1> SUFFICES ASSUME TypeOK, HeldSpared, [Next]_vars PROVE HeldSpared'
  OBVIOUS
<1>1. ASSUME NEW cr \in CRs, Cleanup(cr) PROVE HeldSpared'
  BY <1>1, CleanupSpares
<1>2. ASSUME NEW cr \in CRs, ListFails(cr) PROVE HeldSpared'
  <2>1. /\ rec' = [rec EXCEPT ![cr] = Idle] /\ UNCHANGED env
        /\ held'[cr] = {} /\ \A c \in CRs \ {cr} : held'[c] = held[c]
    BY <1>2 DEF ListFails, TypeOK
  <2> QED BY <2>1, IdleSpares, WorkerSpares
<1>3. CASE Crash
  <2>1. \A cr \in CRs : held'[cr] = {} /\ rec'[cr] = Idle
    BY <1>3 DEF Crash
  <2> QED BY <2>1, IdleSpares DEF HeldSpared
<1>4. ASSUME NEW e \in Envs, Complete(e) PROVE HeldSpared'
  BY <1>4, HoldSpares DEF Complete, Others
<1>5. ASSUME NEW e \in Envs, NEW d \in Ids, Promote(e, d) PROVE HeldSpared'
  BY <1>5, HoldSpares DEF Promote, Others
<1>6. ASSUME NEW cr \in CRs, Elapse(cr) PROVE HeldSpared'
  BY <1>6, SameSpares DEF Elapse
<1>7. ASSUME NEW cr \in CRs, NEW s \in Sources, EditSource(cr, s) PROVE HeldSpared'
  BY <1>7, SameSpares DEF EditSource
<1>8. ASSUME NEW s \in Sources, Create(s) PROVE HeldSpared'
  BY <1>8, SameSpares DEF Create, Others
<1>9. ASSUME NEW d, NEW from, NEW to, Change(d, from, to) PROVE HeldSpared'
  BY <1>9, SameSpares DEF Change, Others
<1>10. CASE Age
  BY <1>10, SameSpares DEF Age
<1>11. CASE UNCHANGED vars
  BY <1>11, SameSpares DEF vars
<1> QED BY <1>1, <1>2, <1>3, <1>4, <1>5, <1>6, <1>7, <1>8, <1>9, <1>10, <1>11 DEF Next

LEMMA AlwaysSpared == Spec => []HeldSpared
<1>1. Init => HeldSpared
  BY IdleSpares DEF Init, HeldSpared
<1> QED BY <1>1, StepSpares, TypeCorrect, PTL DEF Spec

(* findOrphanDeployments lists deployments and environments in two calls,  *)
(* and what it found is scaled in and deleted later, one by one: whatever  *)
(* is promoted, completed or deleted meanwhile, a deployment that stayed   *)
(* attached to some environment all along is left alone.                   *)
THEOREM AttachedAreSpared == Spec => SparesHeld
<1> DEFINE Step == \A cr \in CRs :
                     /\ (Delete(cr) => Victim(rec[cr]) \notin held[cr])
                     /\ \A d \in Ids : ScaleIn(cr, d) => d \notin held[cr]
<1>1. TypeOK /\ HeldSpared /\ [Next]_vars => [Step]_vars
  <2> SUFFICES ASSUME TypeOK, HeldSpared, NEW cr \in CRs
               PROVE  /\ (Delete(cr) => Victim(rec[cr]) \notin held[cr])
                      /\ \A d \in Ids : ScaleIn(cr, d) => d \notin held[cr]
    OBVIOUS
  <2>1. rec[cr] \in Worker /\ Spares(rec[cr], held[cr])
    BY DEF TypeOK, HeldSpared
  <2>2. Delete(cr) => Victim(rec[cr]) \notin held[cr]
    BY <2>1, VictimChosen DEF Delete, Spares
  <2>3. \A d \in Ids : ScaleIn(cr, d) => d \notin held[cr]
    BY <2>1 DEF ScaleIn, Spares
  <2> QED BY <2>2, <2>3
<1> QED BY <1>1, AlwaysSpared, TypeCorrect, PTL DEF Spec, SparesHeld
=============================================================================
