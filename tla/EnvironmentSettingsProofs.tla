--------------------- MODULE EnvironmentSettingsProofs ---------------------
(***************************************************************************)
(* Proofs about EnvironmentSettings, for any specs, contents, values and   *)
(* bounds.                                                                 *)
(*                                                                         *)
(* diffSchedules reads a list that may hold several schedules of a name    *)
(* and writes by id, so what it leaves behind depends on the ids: that     *)
(* they tell the schedules of an environment apart is an invariant of      *)
(* Baseten's and of the worker's copy.                                     *)
(***************************************************************************)
EXTENDS EnvironmentSettings, WellFoundedInduction, TLAPS

Scheduled == [id : Ids, name : Names, is : Contents]

(* An id stands for one schedule. *)
Unique(S) == \A o, p \in S : o.id = p.id => o = p

IInv ==
  /\ TypeOK
  /\ rec.pc # "idle" => rec.want \in Specs
  /\ Unique(env.schedules) /\ Unique(rec.obs)
-----------------------------------------------------------------------------
(* Of any ids one is the least. *)
LEMMA Least ==
  ASSUME NEW T \in SUBSET Nat, T # {} PROVE \E x \in T : \A y \in T : x <= y
<1> DEFINE R == {ss \in Nat \X Nat : ss[1] < ss[2]}
<1>1. IsWellFoundedOn(R, Nat)
  BY NatLessThanWellFounded DEF OpToRel
<1>2. PICK x \in T : \A y \in T : <<y, x>> \notin R
  <2> HIDE DEF R
  <2> QED BY <1>1, WFMin
<1>3. \A y \in T : ~(y < x)
  BY <1>2
<1> QED BY <1>2, <1>3

(* Of the schedules of a name the first is one of them, and has the least  *)
(* id.                                                                     *)
LEMMA FirstOfName ==
  ASSUME NEW obs \in Collections, NEW n \in Listed(obs)
  PROVE  /\ First(obs, n) \in obs /\ First(obs, n).name = n
         /\ \A p \in obs : p.name = n => First(obs, n).id <= p.id
<1>1. obs \subseteq Scheduled
  BY DEF Collections, Scheduled
<1>2. PICK o \in obs : o.name = n
  BY DEF Listed
<1> DEFINE T == {p.id : p \in {p \in obs : p.name = n}}
<1>3. T \subseteq Nat /\ T # {}
  BY <1>1, <1>2, BoundsAssumption DEF Scheduled, Ids
<1>4. PICK x \in T : \A y \in T : x <= y
  <2> HIDE DEF T
  <2> QED BY <1>3, Least
<1>5. \E p \in obs : p.name = n /\ \A q \in obs : q.name = n => p.id <= q.id
  BY <1>4
<1> QED BY <1>5 DEF First
-----------------------------------------------------------------------------
(* A normalized schedule keeps the fields that its cadence has a use for.  *)
LEMMA NormalizedFields ==
  ASSUME NEW s, IsContent(s)
  PROVE  Normalize(s) =
           [cadence  |-> s.cadence,
            days     |-> IF s.cadence = "ONE_TIME" THEN {} ELSE ToSet(s.days),
            hour     |-> IF s.cadence = "DAILY" THEN s.hour ELSE Nil,
            at       |-> IF s.cadence = "ONE_TIME" THEN s.at.instant ELSE Nil,
            replicas |-> s.replicas]
<1> DEFINE days == ToSet(s.days)
           at   == s.at.instant
<1>1. DOMAIN s = {"cadence", "days", "hour", "at", "replicas"}
  BY DEF IsContent
<1>2. s.cadence \in {"DAILY", "HOURLY", "ONE_TIME"}
  BY DEF IsContent, Cadences
<1> HIDE DEF days, at
<1>3. CASE s.cadence = "ONE_TIME"
  <2>1. Normalize(s) = [s EXCEPT !.days = {}, !.hour = Nil, !.at = at]
    BY <1>1, <1>3 DEF Normalize, at
  <2> QED BY <1>1, <1>3, <2>1 DEF at
<1>4. CASE s.cadence = "HOURLY"
  <2>1. Normalize(s) = [s EXCEPT !.days = days, !.hour = Nil, !.at = Nil]
    BY <1>1, <1>4 DEF Normalize, days
  <2> QED BY <1>1, <1>4, <2>1 DEF days
<1>5. CASE s.cadence = "DAILY"
  <2>1. Normalize(s) = [s EXCEPT !.days = days, !.at = Nil]
    BY <1>1, <1>5 DEF Normalize, days
  <2> QED BY <1>1, <1>5, <2>1 DEF days
<1> QED BY <1>2, <1>3, <1>4, <1>5

(* normalizeSchedule tells schedules apart that mean something else, and   *)
(* no others: reordered weekdays and other offsets are no difference.      *)
LEMMA NormalizeIsMeaning ==
  ASSUME NEW a, IsContent(a), NEW b, IsContent(b)
  PROVE  Normalize(a) = Normalize(b) <=> Same(a, b)
<1> DEFINE da == ToSet(a.days)
           db == ToSet(b.days)
           ia == a.at.instant
           ib == b.at.instant
<1> HIDE DEF da, db, ia, ib
<1>1. a.cadence \in {"DAILY", "HOURLY", "ONE_TIME"}
  BY DEF IsContent, Cadences
<1>2. Normalize(a) =
        [cadence  |-> a.cadence, days |-> IF a.cadence = "ONE_TIME" THEN {} ELSE da,
         hour     |-> IF a.cadence = "DAILY" THEN a.hour ELSE Nil,
         at       |-> IF a.cadence = "ONE_TIME" THEN ia ELSE Nil,
         replicas |-> a.replicas]
  BY NormalizedFields DEF da, ia
<1>3. Normalize(b) =
        [cadence  |-> b.cadence, days |-> IF b.cadence = "ONE_TIME" THEN {} ELSE db,
         hour     |-> IF b.cadence = "DAILY" THEN b.hour ELSE Nil,
         at       |-> IF b.cadence = "ONE_TIME" THEN ib ELSE Nil,
         replicas |-> b.replicas]
  BY NormalizedFields DEF db, ib
<1>4. Same(a, b) <=>
        /\ a.cadence = b.cadence /\ a.replicas = b.replicas
        /\ a.cadence = "ONE_TIME" => ia = ib
        /\ a.cadence # "ONE_TIME" => da = db
        /\ a.cadence = "DAILY" => a.hour = b.hour
  BY DEF Same, da, db, ia, ib
<1>5. CASE a.cadence = "ONE_TIME"
  BY <1>2, <1>3, <1>4, <1>5
<1>6. CASE a.cadence = "HOURLY"
  BY <1>2, <1>3, <1>4, <1>6
<1>7. CASE a.cadence = "DAILY"
  BY <1>2, <1>3, <1>4, <1>7
<1> QED BY <1>1, <1>5, <1>6, <1>7
-----------------------------------------------------------------------------
(* What diffSchedules writes: for a name one schedule at most, as the spec *)
(* has it, under the id of the first of that name if there is one.         *)
LEMMA UpsertOf ==
  ASSUME NEW w, NEW obs \in Collections, NEW u \in Upserts(w, obs)
  PROVE  /\ u.name \in Added(w, obs) \cup Changed(w, obs)
         /\ u = Schedule(IF u.name \in Listed(obs) THEN First(obs, u.name).id ELSE 0,
                         u.name, w.schedules[u.name])
<1>1. CASE \E n \in Added(w, obs) : u = Schedule(0, n, w.schedules[n])
  BY <1>1 DEF Schedule, Added
<1>2. CASE \E n \in Changed(w, obs) : u = Schedule(First(obs, n).id, n, w.schedules[n])
  BY <1>2 DEF Schedule, Changed
<1> QED BY <1>1, <1>2 DEF Upserts

LEMMA UpsertsAre ==
  ASSUME NEW w, NEW obs \in Collections, NEW n \in Added(w, obs) \cup Changed(w, obs)
  PROVE  Schedule(IF n \in Listed(obs) THEN First(obs, n).id ELSE 0, n, w.schedules[n])
           \in Upserts(w, obs)
<1>1. CASE n \in Added(w, obs)
  BY <1>1 DEF Added, Upserts
<1>2. CASE n \in Changed(w, obs)
  BY <1>2 DEF Changed, Upserts
<1> QED BY <1>1, <1>2

LEMMA UpsertFields ==
  ASSUME NEW w, IsSpec(w), NEW obs \in Collections, NEW u \in Upserts(w, obs)
  PROVE  /\ u.name \in Names /\ u.name \in DOMAIN w.schedules
         /\ u.id \in Ids \cup {0} /\ u.is = w.schedules[u.name]
         /\ u = [id |-> u.id, name |-> u.name, is |-> u.is]
         /\ \A v \in Upserts(w, obs) : v.name = u.name => v = u
<1>1. u.name \in DOMAIN w.schedules /\ u.name \in Names
  BY UpsertOf DEF Added, Changed, IsSpec
<1>2. u.name \in Listed(obs) => First(obs, u.name).id \in Ids
  BY FirstOfName DEF Collections
<1>3. u = [id |-> IF u.name \in Listed(obs) THEN First(obs, u.name).id ELSE 0,
           name |-> u.name, is |-> w.schedules[u.name]]
  BY UpsertOf DEF Schedule
<1>4. /\ u.id = (IF u.name \in Listed(obs) THEN First(obs, u.name).id ELSE 0)
      /\ u.is = w.schedules[u.name]
  BY <1>3
<1>5. ASSUME NEW v \in Upserts(w, obs), v.name = u.name PROVE v = u
  BY <1>5, UpsertOf
<1> QED BY <1>1, <1>2, <1>3, <1>4, <1>5

(* What is left after the deletes is the first of each name the spec has.  *)
LEMMA KeptAre ==
  ASSUME NEW w, NEW obs \in Collections, NEW o \in obs, o.id \notin Deletes(w, obs)
  PROVE  o.name \in DOMAIN w.schedules /\ o = First(obs, o.name)
BY DEF Deletes

LEMMA FirstIsKept ==
  ASSUME NEW w, NEW obs \in Collections, Unique(obs),
         NEW n \in Listed(obs) \cap DOMAIN w.schedules
  PROVE  First(obs, n).id \notin Deletes(w, obs)
<1>1. First(obs, n) \in obs /\ First(obs, n).name = n
  BY FirstOfName
<1>2. ASSUME NEW o \in obs, o.id = First(obs, n).id
      PROVE  o = First(obs, o.name) /\ o.name \in DOMAIN w.schedules
  BY <1>1, <1>2 DEF Unique
<1> QED BY <1>2 DEF Deletes

(* diffSchedules finds nothing to write exactly if the schedules are the   *)
(* spec's: a reconcile of a collection as wanted sends no PATCH, and one   *)
(* that sends none has found it so (HasScheduleDrift).                     *)
THEOREM DriftIsDifference ==
  ASSUME NEW w \in Specs, NEW obs \in Collections, Unique(obs)
  PROVE  Upserts(w, obs) = {} /\ Deletes(w, obs) = {} <=> AsWanted(w, obs)
<1>1. IsSpec(w)
  BY SpecsAssumption
<1>2. ASSUME NEW n \in Listed(obs) \cap DOMAIN w.schedules
      PROVE  /\ First(obs, n) \in obs /\ First(obs, n).name = n
             /\ Normalize(w.schedules[n]) = Normalize(First(obs, n).is)
                <=> Same(First(obs, n).is, w.schedules[n])
  <2>1. First(obs, n) \in obs /\ First(obs, n).name = n
    BY FirstOfName
  <2>2. IsContent(First(obs, n).is) /\ IsContent(w.schedules[n])
    BY <1>1, <2>1, ContentsAssumption DEF Collections, IsSpec
  <2>3. Normalize(First(obs, n).is) = Normalize(w.schedules[n])
        <=> Same(First(obs, n).is, w.schedules[n])
    BY <2>2, NormalizeIsMeaning
  <2> QED BY <2>1, <2>3
<1>3. ASSUME Upserts(w, obs) = {}, Deletes(w, obs) = {} PROVE AsWanted(w, obs)
  <2>1. \A o \in obs : o.name \in DOMAIN w.schedules /\ o = First(obs, o.name)
    BY <1>3, KeptAre
  <2>2. Added(w, obs) = {} /\ Changed(w, obs) = {}
    BY <1>3, UpsertsAre
  <2>3. ASSUME NEW n \in DOMAIN w.schedules, ~Expired(w.schedules[n])
        PROVE  \E o \in obs : o.name = n /\ Same(o.is, w.schedules[n])
    <3>1. n \in Listed(obs)
      BY <2>2, <2>3 DEF Added
    <3>2. Normalize(w.schedules[n]) = Normalize(First(obs, n).is)
      BY <2>2, <2>3, <3>1 DEF Changed
    <3> QED BY <1>2, <3>1, <3>2
  <2>4. Listed(obs) \subseteq DOMAIN w.schedules
    BY <2>1 DEF Listed
  <2>5. \A n \in DOMAIN w.schedules : \A o, p \in obs : o.name = n /\ p.name = n => o = p
    BY <2>1
  <2> QED BY <2>3, <2>4, <2>5 DEF AsWanted
<1>4. ASSUME AsWanted(w, obs) PROVE Upserts(w, obs) = {} /\ Deletes(w, obs) = {}
  <2>1. /\ Listed(obs) \subseteq DOMAIN w.schedules
        /\ \A n \in DOMAIN w.schedules :
             \A o, p \in obs : o.name = n /\ p.name = n => o = p
        /\ \A n \in DOMAIN w.schedules :
             ~Expired(w.schedules[n]) =>
               \E o \in obs : o.name = n /\ Same(o.is, w.schedules[n])
    BY <1>4 DEF AsWanted
  <2>2. Added(w, obs) = {}
    BY <2>1 DEF Added, Listed
  <2>3. Changed(w, obs) = {}
    <3> SUFFICES ASSUME NEW n \in Changed(w, obs) PROVE FALSE
      OBVIOUS
    <3>1. /\ n \in Listed(obs) \cap DOMAIN w.schedules /\ ~Expired(w.schedules[n])
          /\ Normalize(w.schedules[n]) # Normalize(First(obs, n).is)
      BY DEF Changed
    <3>2. PICK o \in obs : o.name = n /\ Same(o.is, w.schedules[n])
      BY <2>1, <3>1
    <3>3. First(obs, n) = o
      BY <1>2, <2>1, <3>1, <3>2
    <3> QED BY <1>2, <3>1, <3>2, <3>3
  <2>4. Upserts(w, obs) = {}
    BY <2>2, <2>3 DEF Upserts
  <2>5. ASSUME NEW o \in obs PROVE o = First(obs, o.name) /\ o.name \in DOMAIN w.schedules
    <3>1. o.name \in Listed(obs) /\ o.name \in DOMAIN w.schedules
      BY <2>1 DEF Listed
    <3> QED BY <1>2, <2>1, <3>1
  <2> QED BY <2>4, <2>5 DEF Deletes
<1> QED BY <1>3, <1>4
-----------------------------------------------------------------------------
(* What Baseten makes of a collection: an id still stands for one schedule. *)
LEMMA WrittenIs ==
  ASSUME TypeOK, NEW have \in Collections, Unique(have), NEW U,
         \A u \in U : /\ u.id \in Ids \cup {0} /\ u.name \in Names /\ u.is \in Contents
                      /\ u = [id |-> u.id, name |-> u.name, is |-> u.is],
         NEW S \in Written(have, U)
  PROVE  S \in Collections /\ Unique(S)
<1>1. PICK f \in Numberings(U, {o.id : o \in have \cup rec.obs}) :
        S = {[u EXCEPT !.id = f[u]] : u \in U}
              \cup {o \in have : o.id \notin {u.id : u \in U}}
  BY DEF Written
<1>2. /\ f \in [U -> Ids]
      /\ \A u, v \in U : f[u] = f[v] => u = v
      /\ \A u \in U : u.id # 0 => f[u] = u.id
      /\ \A u \in U : u.id = 0 => f[u] \notin {o.id : o \in have \cup rec.obs}
  BY DEF Numberings, IsInjective
<1>3. \A u \in U : [u EXCEPT !.id = f[u]] = [id |-> f[u], name |-> u.name, is |-> u.is]
  OBVIOUS
<1>4. \A o \in have : o \in Scheduled
  BY DEF Collections, Scheduled
<1>5. \A s \in S : \/ s \in have /\ s.id \notin {u.id : u \in U}
                   \/ \E u \in U : s = [id |-> f[u], name |-> u.name, is |-> u.is]
  BY <1>1, <1>3
<1>6. S \in Collections
  BY <1>2, <1>4, <1>5 DEF Collections, Scheduled
<1>7. ASSUME NEW u \in U, NEW o \in have, o.id \notin {v.id : v \in U}
      PROVE  f[u] # o.id
  BY <1>2, <1>7
<1>8. ASSUME NEW s \in S, NEW t \in S, s.id = t.id PROVE s = t
  <2>1. CASE s \in have /\ t \in have
    BY <1>8, <2>1 DEF Unique
  <2>2. CASE \E u \in U : s = [id |-> f[u], name |-> u.name, is |-> u.is]
    BY <1>2, <1>5, <1>7, <1>8, <2>2
  <2>3. CASE \E u \in U : t = [id |-> f[u], name |-> u.name, is |-> u.is]
    BY <1>2, <1>5, <1>7, <1>8, <2>3
  <2> QED BY <1>5, <2>1, <2>2, <2>3
<1> QED BY <1>6, <1>8 DEF Unique

(* The schedules that Baseten stores for the upserts of a reconcile. *)
LEMMA StoredAre ==
  ASSUME NEW w \in Specs, NEW obs \in Collections,
         NEW is \in [Upserts(w, obs) -> Contents],
         NEW x \in {[u EXCEPT !.is = is[u]] : u \in Upserts(w, obs)}
  PROVE  /\ x.id \in Ids \cup {0} /\ x.name \in Names /\ x.is \in Contents
         /\ x = [id |-> x.id, name |-> x.name, is |-> x.is]
         /\ \E u \in Upserts(w, obs) :
              x.id = u.id /\ x.name = u.name /\ x.is = is[u]
<1>1. PICK u \in Upserts(w, obs) : x = [u EXCEPT !.is = is[u]]
  OBVIOUS
<1>2. /\ u.name \in Names /\ u.id \in Ids \cup {0}
      /\ u = [id |-> u.id, name |-> u.name, is |-> u.is]
  BY UpsertFields, SpecsAssumption
<1>3. x = [id |-> u.id, name |-> u.name, is |-> is[u]]
  BY <1>1, <1>2
<1> QED BY <1>2, <1>3

(* The second PATCH of a reconcile, applied to what its difference was     *)
(* taken from, leaves what the spec asks for: duplicates go, the first of  *)
(* a name stays or is replaced, and nothing is there twice.                *)
LEMMA PatchedIsAsWanted ==
  ASSUME TypeOK, NEW w \in Specs, NEW obs \in Collections, Unique(obs),
         NEW is \in [Upserts(w, obs) -> Contents],
         \A u \in Upserts(w, obs) : is[u] \in Stored(u.is),
         NEW S \in Written({o \in obs : o.id \notin Deletes(w, obs)},
                           {[u EXCEPT !.is = is[u]] : u \in Upserts(w, obs)})
  PROVE  AsWanted(w, S)
<1> DEFINE ups  == Upserts(w, obs)
           U    == {[u EXCEPT !.is = is[u]] : u \in ups}
           have == {o \in obs : o.id \notin Deletes(w, obs)}
<1>1. IsSpec(w)
  BY SpecsAssumption
<1>2. PICK f \in Numberings(U, {o.id : o \in have \cup rec.obs}) :
        S = {[x EXCEPT !.id = f[x]] : x \in U} \cup {o \in have : o.id \notin {x.id : x \in U}}
  BY DEF Written
<1>3. \A u \in ups : /\ u.name \in DOMAIN w.schedules /\ u.is = w.schedules[u.name]
                     /\ Same(is[u], w.schedules[u.name])
                     /\ \A v \in ups : v.name = u.name => v = u
  <2>1. \A u \in ups : /\ u.name \in DOMAIN w.schedules /\ u.is = w.schedules[u.name]
                       /\ \A v \in ups : v.name = u.name => v = u
    BY <1>1, UpsertFields
  <2>2. \A u \in ups : Same(is[u], u.is)
    BY DEF Stored
  <2> QED BY <2>1, <2>2
<1> DEFINE sent(u) == [id |-> u.id, name |-> u.name, is |-> is[u]]
           put(u)  == [id |-> f[sent(u)], name |-> u.name, is |-> is[u]]
           keep    == {o \in have : \A u \in ups : o.id # u.id}
<1>4. \A x : x \in U <=> \E u \in ups : x = sent(u)
  <2>1. \A u \in ups : u = [id |-> u.id, name |-> u.name, is |-> u.is]
    BY <1>1, UpsertFields
  <2>2. \A u \in ups : [u EXCEPT !.is = is[u]] = sent(u)
    BY <2>1
  <2> QED BY <2>2
<1>5. \A s : s \in S <=> (\E u \in ups : s = put(u)) \/ s \in keep
  <2>1. \A u \in ups : [sent(u) EXCEPT !.id = f[sent(u)]] = put(u)
    OBVIOUS
  <2>2. \A u \in ups : sent(u).id = u.id
    OBVIOUS
  <2>3. S = {[x EXCEPT !.id = f[x]] : x \in U}
              \cup {o \in have : o.id \notin {x.id : x \in U}}
    BY <1>2
  <2>4. \A s : s \in keep <=> s \in have /\ \A u \in ups : s.id # u.id
    OBVIOUS
  <2> HIDE DEF sent, put, keep, ups, U, have
  <2>5. \A s : s \in {[x EXCEPT !.id = f[x]] : x \in U} <=> \E u \in ups : s = put(u)
    BY <1>4, <2>1
  <2>6. \A s : s \in {o \in have : o.id \notin {x.id : x \in U}} <=> s \in keep
    BY <1>4, <2>2, <2>4
  <2> QED BY <2>3, <2>5, <2>6
<1>6. \A u \in ups : put(u).name = u.name /\ put(u).is = is[u]
  OBVIOUS
<1>7. \A o \in keep : /\ o \in obs /\ o.name \in DOMAIN w.schedules
                      /\ o = First(obs, o.name)
  BY KeptAre
<1>8. ASSUME NEW u \in ups, NEW o \in keep PROVE u.name # o.name
  <2>1. o \in obs /\ o = First(obs, o.name) /\ \A v \in ups : o.id # v.id
    BY <1>7
  <2>2. u.name \in Listed(obs) => u.id = First(obs, u.name).id
    <3>1. u = Schedule(IF u.name \in Listed(obs) THEN First(obs, u.name).id ELSE 0,
                       u.name, w.schedules[u.name])
      BY UpsertOf
    <3> QED BY <3>1 DEF Schedule
  <2>3. o.name \in Listed(obs)
    BY <2>1 DEF Listed
  <2> QED BY <2>1, <2>2, <2>3
<1> HIDE DEF sent, put, keep, ups, U, have
<1>9. Listed(S) \subseteq DOMAIN w.schedules
  BY <1>3, <1>5, <1>6, <1>7 DEF Listed
<1>10. ASSUME NEW s \in S, NEW t \in S, s.name = t.name PROVE s = t
  <2>1. CASE s \in keep /\ t \in keep
    BY <1>7, <1>10, <2>1
  <2>2. CASE (\E u \in ups : s = put(u)) /\ (\E u \in ups : t = put(u))
    BY <1>3, <1>6, <1>10, <2>2
  <2>3. CASE (\E u \in ups : s = put(u)) /\ t \in keep
    BY <1>6, <1>8, <1>10, <2>3
  <2>4. CASE s \in keep /\ (\E u \in ups : t = put(u))
    BY <1>6, <1>8, <1>10, <2>4
  <2> QED BY <1>5, <2>1, <2>2, <2>3, <2>4
<1>11. ASSUME NEW n \in DOMAIN w.schedules, ~Expired(w.schedules[n])
       PROVE  \E s \in S : s.name = n /\ Same(s.is, w.schedules[n])
  <2>1. CASE \E u \in ups : u.name = n
    BY <1>3, <1>5, <1>6, <2>1
  <2>2. CASE ~\E u \in ups : u.name = n
    <3> DEFINE o == First(obs, n)
    <3>1. n \notin Added(w, obs) /\ n \notin Changed(w, obs)
      <4> SUFFICES ASSUME n \in Added(w, obs) \cup Changed(w, obs) PROVE FALSE
        OBVIOUS
      <4>1. Schedule(IF n \in Listed(obs) THEN First(obs, n).id ELSE 0, n, w.schedules[n])
              \in ups
        BY UpsertsAre DEF ups
      <4>2. \A id : Schedule(id, n, w.schedules[n]).name = n
        BY DEF Schedule
      <4> QED BY <2>2, <4>1, <4>2
    <3>2. n \in Listed(obs) /\ Normalize(w.schedules[n]) = Normalize(o.is)
      BY <1>11, <3>1 DEF Added, Changed
    <3>3. o \in obs /\ o.name = n
      BY <3>2, FirstOfName
    <3>4. o.id \notin Deletes(w, obs)
      BY <1>11, <3>2, FirstIsKept
    <3>5. \A u \in ups : o.id # u.id
      <4> SUFFICES ASSUME NEW u \in ups, o.id = u.id PROVE FALSE
        OBVIOUS
      <4>1. u = Schedule(IF u.name \in Listed(obs) THEN First(obs, u.name).id ELSE 0,
                         u.name, w.schedules[u.name])
        BY UpsertOf DEF ups
      <4>2. o.id # 0
        BY <3>3, BoundsAssumption DEF Collections, Ids
      <4>3. u.name \in Listed(obs) /\ o.id = First(obs, u.name).id
        BY <4>1, <4>2 DEF Schedule
      <4>4. First(obs, u.name) \in obs /\ First(obs, u.name).name = u.name
        BY <4>3, FirstOfName
      <4> QED BY <2>2, <3>3, <4>3, <4>4 DEF Unique
    <3>6. o \in keep
      BY <3>3, <3>4, <3>5 DEF keep, have
    <3>7. IsContent(o.is) /\ IsContent(w.schedules[n])
      BY <1>1, <3>3, ContentsAssumption DEF Collections, IsSpec
    <3>8. Same(o.is, w.schedules[n])
      BY <3>2, <3>7, NormalizeIsMeaning
    <3> QED BY <1>5, <3>3, <3>6, <3>8
  <2> QED BY <2>1, <2>2
<1> QED BY <1>9, <1>10, <1>11 DEF AsWanted
-----------------------------------------------------------------------------
LEMMA IdleTyped == Idle \in Worker /\ Unique(Idle.obs) /\ Idle.pc = "idle"
BY DEF Idle, Worker, Collections, Unique

LEMMA BlankTyped ==
  /\ Blank \in Environment
  /\ Unique(Blank.schedules)
BY ValuesAssumption DEF Blank, Environment, Collections, Unique

(* A PATCH of settings sends the fields that are set. *)
LEMMA PatchedTyped ==
  ASSUME NEW e \in Environment, NEW w \in Specs, NEW auto \in BOOLEAN,
         NEW promotion \in BOOLEAN
  PROVE  /\ Patched(e, w, auto, promotion) \in Environment
         /\ Patched(e, w, auto, promotion).schedules = e.schedules
<1>1. w.auto \in Opt /\ w.ramp \in Opt /\ w.surge \in Opt
  BY SpecsAssumption DEF IsSpec
<1>2. /\ e.auto \in Values /\ e.ramp \in Values /\ e.surge \in Values
      /\ e.rolling \in BOOLEAN
  BY DEF Environment
<1>3. \A v \in Opt, old \in Values : Or(v, old) \in Values
  BY DEF Or, Opt
<1> DEFINE a == IF auto THEN Or(w.auto, e.auto) ELSE e.auto
           r == IF promotion THEN Or(w.ramp, e.ramp) ELSE e.ramp
           s == IF promotion THEN Or(w.surge, e.surge) ELSE e.surge
           g == e.rolling \/ (promotion /\ w.surge # Nil)
<1>4. a \in Values /\ r \in Values /\ s \in Values /\ g \in BOOLEAN
  BY <1>1, <1>2, <1>3
<1>5. Patched(e, w, auto, promotion)
        = [e EXCEPT !.auto = a, !.ramp = r, !.surge = s, !.rolling = g]
  BY DEF Patched, Environment
<1> HIDE DEF a, r, s, g
<1> QED BY <1>4, <1>5 DEF Environment

(* The invariant after a step, part by part. *)
LEMMA StepIInv ==
  ASSUME spec' \in Specs,
         rec' \in Worker, rec'.pc # "idle" => rec'.want \in Specs, Unique(rec'.obs),
         env' \in Environment, Unique(env'.schedules),
         window' \in Ids \cup {0}, now' \in 0..1,
         edits' \in 0..MaxEdits, faults' \in 0..MaxFaults
  PROVE  IInv'
BY DEF IInv, TypeOK, Unique

LEMMA Counted ==
  ASSUME TypeOK
  PROVE  (Fault => faults' \in 0..MaxFaults) /\ (Edit => edits' \in 0..MaxEdits)
BY BoundsAssumption DEF TypeOK, Fault, Edit

LEMMA InitIInv == Init => IInv
<1> SUFFICES ASSUME Init PROVE IInv
  OBVIOUS
<1>1. /\ spec \in Specs /\ rec = Idle /\ env = Blank /\ window = 0 /\ now = 0
      /\ edits = 0 /\ faults = 0
  BY DEF Init
<1>2. TypeOK
  BY <1>1, IdleTyped, BlankTyped, BoundsAssumption DEF TypeOK
<1> QED BY <1>1, <1>2, IdleTyped, BlankTyped DEF IInv

(* What is found to drift decides where the worker goes. *)
LEMMA DecideTyped ==
  ASSUME NEW r \in Worker, r.want \in Specs, Unique(r.obs)
  PROVE  /\ Decide(r) \in Worker /\ Unique(Decide(r).obs)
         /\ Decide(r).pc # "idle" => Decide(r).want \in Specs
<1>1. /\ [r EXCEPT !.pc = "settings"] \in Worker
      /\ [r EXCEPT !.pc = "settings"].want \in Specs
      /\ Unique([r EXCEPT !.pc = "settings"].obs)
  BY DEF Worker
<1>2. /\ [r EXCEPT !.pc = "schedules"] \in Worker
      /\ [r EXCEPT !.pc = "schedules"].want \in Specs
      /\ Unique([r EXCEPT !.pc = "schedules"].obs)
  BY DEF Worker
<1>3. Decide(r) \in {Idle, [r EXCEPT !.pc = "settings"], [r EXCEPT !.pc = "schedules"]}
  BY DEF Decide
<1> QED BY <1>1, <1>2, <1>3, IdleTyped

LEMMA ReconcileIInv == ASSUME IInv, Reconcile PROVE IInv'
<1>1. /\ spec \in Specs /\ rec \in Worker /\ env \in Environment
      /\ window \in Ids \cup {0} /\ now \in 0..1 /\ edits \in 0..MaxEdits
      /\ faults \in 0..MaxFaults
      /\ rec.pc # "idle" => rec.want \in Specs
      /\ Unique(env.schedules) /\ Unique(rec.obs)
  BY DEF IInv, TypeOK
<1>2. rec.obs \in Collections /\ env.schedules \in Collections /\ env.timezone \in Values
  BY <1>1 DEF Worker, Environment
<1>3. CASE Start
  <2> DEFINE n == [rec EXCEPT !.pc = "get", !.want = spec]
  <2>1. n \in Worker /\ n.want \in Specs /\ n.obs = rec.obs
    BY <1>1 DEF Worker
  <2>2. rec' = n /\ UNCHANGED <<spec, env, window, now, edits, faults>>
    BY <1>3 DEF Start
  <2> HIDE DEF n
  <2> QED BY <1>1, <2>1, <2>2, StepIInv
<1>4. CASE GetNone
  <2> DEFINE n == [rec EXCEPT !.pc = "create"]
  <2>1. n \in Worker /\ n.want = rec.want /\ n.obs = rec.obs /\ rec.pc # "idle"
    BY <1>1, <1>4 DEF Worker, GetNone
  <2>2. rec' = n /\ UNCHANGED <<spec, env, window, now, edits, faults>>
    BY <1>4 DEF GetNone
  <2> HIDE DEF n
  <2> QED BY <1>1, <2>1, <2>2, StepIInv
<1>5. CASE Create
  <2>1. /\ rec.pc = "create" /\ rec' = Idle
        /\ env' = IF env.exists THEN env
                  ELSE [Patched(Blank, rec.want, TRUE, TRUE) EXCEPT !.exists = TRUE]
        /\ UNCHANGED <<spec, window, now, edits, faults>>
    BY <1>5 DEF Create
  <2> DEFINE e == Patched(Blank, rec.want, TRUE, TRUE)
  <2>2. e \in Environment /\ e.schedules = Blank.schedules
    BY <1>1, <2>1, BlankTyped, PatchedTyped
  <2> HIDE DEF e
  <2>3. [e EXCEPT !.exists = TRUE] \in Environment
        /\ [e EXCEPT !.exists = TRUE].schedules = Blank.schedules
    BY <2>2 DEF Environment
  <2>4. env' \in Environment /\ Unique(env'.schedules)
    BY <1>1, <2>1, <2>3, BlankTyped DEF e
  <2> QED BY <1>1, <2>1, <2>4, IdleTyped, StepIInv
<1>6. CASE GetEnvironment
  <2>1. PICK auto \in Reported :
          rec' = Decide([rec EXCEPT
            !.obs = env.schedules, !.applied = ScheduleActive,
            !.auto = AutoDrift(rec.want, auto, ScheduleActive),
            !.promotion = PromotionDrift(rec.want, env),
            !.schedule = ScheduleDrift(rec.want, env.schedules, env.timezone),
            !.zone = rec.want.timezone \notin {Nil, env.timezone}])
    BY <1>6 DEF GetEnvironment
  <2> DEFINE a == AutoDrift(rec.want, auto, ScheduleActive)
             p == PromotionDrift(rec.want, env)
             s == ScheduleDrift(rec.want, env.schedules, env.timezone)
             z == rec.want.timezone \notin {Nil, env.timezone}
             n == [rec EXCEPT !.obs = env.schedules, !.applied = ScheduleActive,
                              !.auto = a, !.promotion = p, !.schedule = s,
                              !.zone = z]
  <2>2. /\ a \in BOOLEAN /\ p \in BOOLEAN /\ s \in BOOLEAN
        /\ z \in BOOLEAN /\ ScheduleActive \in BOOLEAN
    BY DEF AutoDrift, PromotionDrift, ScheduleDrift, ScheduleActive
  <2>3. rec.want \in Specs /\ UNCHANGED <<spec, env, window, now, edits, faults>>
    BY <1>1, <1>6 DEF GetEnvironment
  <2>4. rec' = Decide(n)
    BY <2>1
  <2> HIDE DEF a, p, s, z
  <2>5. n \in Worker /\ n.want = rec.want /\ n.obs = env.schedules
    BY <1>1, <1>2, <2>2 DEF Worker
  <2> HIDE DEF n
  <2>6. /\ rec' \in Worker /\ Unique(rec'.obs)
        /\ rec'.pc # "idle" => rec'.want \in Specs
    BY <1>1, <2>3, <2>4, <2>5, DecideTyped
  <2> QED BY <1>1, <2>3, <2>6, StepIInv
<1>7. CASE UpdateSettings
  <2>1. /\ rec.pc = "settings" /\ env' = Patched(env, rec.want, rec.auto, rec.promotion)
        /\ rec' = Idle \/ rec' = [rec EXCEPT !.pc = "schedules"]
        /\ faults' = faults \/ Fault
        /\ UNCHANGED <<spec, window, now, edits>>
    BY <1>7 DEF UpdateSettings
  <2>2. rec.auto \in BOOLEAN /\ rec.promotion \in BOOLEAN /\ rec.want \in Specs
    BY <1>1, <2>1 DEF Worker
  <2>3. env' \in Environment /\ env'.schedules = env.schedules
    BY <1>1, <2>1, <2>2, PatchedTyped
  <2> DEFINE n == [rec EXCEPT !.pc = "schedules"]
  <2>4. n \in Worker /\ n.want = rec.want /\ n.obs = rec.obs
    BY <1>1 DEF Worker
  <2>5. /\ rec' \in Worker /\ Unique(rec'.obs)
        /\ rec'.pc # "idle" => rec'.want \in Specs
    <3> HIDE DEF n
    <3>1. rec' = Idle \/ rec' = n
      BY <2>1 DEF n
    <3> QED BY <1>1, <2>2, <2>4, <3>1, IdleTyped
  <2>6. faults' \in 0..MaxFaults
    BY <1>1, <2>1, Counted DEF IInv
  <2> QED BY <1>1, <2>1, <2>3, <2>5, <2>6, StepIInv
<1>8. CASE UpdateSchedules
  <2>1. rec.pc = "schedules" /\ rec' = Idle /\ UNCHANGED <<spec, now, edits, faults>>
    BY <1>8 DEF UpdateSchedules
  <2>2. rec.want \in Specs
    BY <1>1, <2>1
  <2>3. CASE UNCHANGED <<env, window>>
    BY <1>1, <2>1, <2>3, IdleTyped, StepIInv
  <2>4. CASE \E is \in [Ups -> Contents] :
               \E S \in Written({o \in env.schedules : o.id \notin Dels},
                                {[u EXCEPT !.is = is[u]] : u \in Ups}) :
                 /\ env' = [env EXCEPT !.timezone = Or(rec.want.timezone, @),
                                       !.schedules = S]
                 /\ window' = IF window \in Dels THEN 0 ELSE window
    <3>1. PICK is \in [Ups -> Contents] :
            \E S \in Written({o \in env.schedules : o.id \notin Dels},
                             {[u EXCEPT !.is = is[u]] : u \in Ups}) :
              /\ env' = [env EXCEPT !.timezone = Or(rec.want.timezone, @),
                                    !.schedules = S]
              /\ window' = IF window \in Dels THEN 0 ELSE window
      BY <2>4
    <3> DEFINE have == {o \in env.schedules : o.id \notin Dels}
               U    == {[u EXCEPT !.is = is[u]] : u \in Ups}
    <3>2. PICK S \in Written(have, U) :
            /\ env' = [env EXCEPT !.timezone = Or(rec.want.timezone, @), !.schedules = S]
            /\ window' = IF window \in Dels THEN 0 ELSE window
      BY <3>1
    <3>3. have \in Collections /\ Unique(have)
      BY <1>1, <1>2 DEF Collections, Unique
    <3>4. \A x \in U : /\ x.id \in Ids \cup {0} /\ x.name \in Names /\ x.is \in Contents
                       /\ x = [id |-> x.id, name |-> x.name, is |-> x.is]
      BY <1>2, <2>2, StoredAre DEF Ups
    <3>5. S \in Collections /\ Unique(S)
      <4> HIDE DEF have, U
      <4> QED BY <3>2, <3>3, <3>4, WrittenIs DEF IInv
    <3>6. Or(rec.want.timezone, env.timezone) \in Values
      BY <1>2, <2>2, SpecsAssumption DEF IsSpec, Or, Opt
    <3> DEFINE z == Or(rec.want.timezone, env.timezone)
    <3>7. env' = [env EXCEPT !.timezone = z, !.schedules = S]
      BY <1>1, <3>2 DEF Environment
    <3>8. env' \in Environment /\ env'.schedules = S
      <4> HIDE DEF z
      <4>1. z \in Values
        BY <3>6 DEF z
      <4> QED BY <1>1, <3>5, <3>7, <4>1 DEF Environment
    <3>9. window' \in Ids \cup {0}
      BY <1>1, <3>2
    <3> QED BY <1>1, <2>1, <3>5, <3>8, <3>9, IdleTyped, StepIInv
  <2> QED BY <1>8, <2>3, <2>4 DEF UpdateSchedules
<1> QED BY <1>3, <1>4, <1>5, <1>6, <1>7, <1>8 DEF Reconcile

(* Users, the clock and failing calls. *)
LEMMA OthersIInv ==
  ASSUME IInv, CallFails \/ EditSpec \/ EditSettings \/ EditSchedules \/ Window \/ Tick
  PROVE  IInv'
<1>1. /\ spec \in Specs /\ rec \in Worker /\ env \in Environment
      /\ window \in Ids \cup {0} /\ now \in 0..1 /\ edits \in 0..MaxEdits
      /\ faults \in 0..MaxFaults
      /\ rec.pc # "idle" => rec.want \in Specs
      /\ Unique(env.schedules) /\ Unique(rec.obs)
  BY DEF IInv, TypeOK
<1>2. env.schedules \in Collections
  BY <1>1 DEF Environment
<1>3. (Fault => faults' \in 0..MaxFaults) /\ (Edit => edits' \in 0..MaxEdits)
  BY Counted DEF IInv
<1>4. CASE CallFails
  <2>1. rec' = Idle /\ Fault /\ UNCHANGED <<spec, env, window, now, edits>>
    BY <1>4 DEF CallFails
  <2> QED BY <1>1, <1>3, <2>1, IdleTyped, StepIInv
<1>5. CASE EditSpec
  <2>1. spec' \in Specs /\ Edit /\ UNCHANGED <<rec, env, window, now, faults>>
    BY <1>5 DEF EditSpec
  <2> QED BY <1>1, <1>3, <2>1, StepIInv
<1>6. CASE EditSettings
  <2>1. /\ Edit /\ UNCHANGED <<spec, rec, now, faults, window>>
        /\ \/ \E v \in Values : env' \in {[env EXCEPT !.auto = v], [env EXCEPT !.ramp = v],
                                          [env EXCEPT !.timezone = v]}
           \/ env' = [env EXCEPT !.rolling = FALSE, !.surge = 0]
           \/ env' = [env EXCEPT !.readable = ~@]
    BY <1>6 DEF EditSettings, Others
  <2>2. CASE \E v \in Values : env' \in {[env EXCEPT !.auto = v], [env EXCEPT !.ramp = v],
                                         [env EXCEPT !.timezone = v]}
    <3>1. \A v \in Values :
            /\ [env EXCEPT !.auto = v] \in Environment
            /\ [env EXCEPT !.ramp = v] \in Environment
            /\ [env EXCEPT !.timezone = v] \in Environment
      BY <1>1 DEF Environment
    <3>2. env' \in Environment /\ env'.schedules = env.schedules
      BY <1>1, <2>2, <3>1 DEF Environment
    <3> QED BY <1>1, <1>3, <2>1, <3>2, StepIInv
  <2>3. CASE env' = [env EXCEPT !.rolling = FALSE, !.surge = 0]
    <3>1. env' \in Environment /\ env'.schedules = env.schedules
      BY <1>1, <2>3, ValuesAssumption DEF Environment
    <3> QED BY <1>1, <1>3, <2>1, <3>1, StepIInv
  <2>4. CASE env' = [env EXCEPT !.readable = ~@]
    <3>1. env' \in Environment /\ env'.schedules = env.schedules
      BY <1>1, <2>4 DEF Environment
    <3> QED BY <1>1, <1>3, <2>1, <3>1, StepIInv
  <2> QED BY <2>1, <2>2, <2>3, <2>4
<1>7. CASE EditSchedules
  <2>1. /\ Edit /\ UNCHANGED <<spec, rec, now, faults>>
        /\ \/ \E n \in Names, c \in Contents :
                \E S \in Written(env.schedules, {Schedule(0, n, c)}) :
                  env' = [env EXCEPT !.schedules = S]
           \/ \E o \in env.schedules : env' = [env EXCEPT !.schedules = @ \ {o}]
        /\ window' = IF window \in {o.id : o \in env'.schedules} THEN window ELSE 0
    BY <1>7 DEF EditSchedules, Others
  <2>2. \E S \in Collections : Unique(S) /\ env' = [env EXCEPT !.schedules = S]
    <3>1. CASE \E n \in Names, c \in Contents :
                 \E S \in Written(env.schedules, {Schedule(0, n, c)}) :
                   env' = [env EXCEPT !.schedules = S]
      <4>1. PICK n \in Names, c \in Contents :
              \E S \in Written(env.schedules, {Schedule(0, n, c)}) :
                env' = [env EXCEPT !.schedules = S]
        BY <3>1
      <4> DEFINE U == {Schedule(0, n, c)}
      <4>2. \A u \in U : /\ u.id \in Ids \cup {0} /\ u.name \in Names /\ u.is \in Contents
                         /\ u = [id |-> u.id, name |-> u.name, is |-> u.is]
        BY DEF Schedule
      <4>3. PICK S \in Written(env.schedules, U) : env' = [env EXCEPT !.schedules = S]
        BY <4>1
      <4> HIDE DEF U
      <4>4. S \in Collections /\ Unique(S)
        BY <1>1, <1>2, <4>2, <4>3, WrittenIs DEF IInv
      <4> QED BY <4>3, <4>4
    <3>2. ASSUME NEW o \in env.schedules, env' = [env EXCEPT !.schedules = @ \ {o}]
          PROVE  \E S \in Collections : Unique(S) /\ env' = [env EXCEPT !.schedules = S]
      <4>1. env.schedules \ {o} \in Collections /\ Unique(env.schedules \ {o})
        BY <1>1, <1>2 DEF Collections, Unique
      <4>2. env' = [env EXCEPT !.schedules = env.schedules \ {o}]
        BY <1>1, <3>2 DEF Environment
      <4> QED BY <4>1, <4>2
    <3> QED BY <2>1, <3>1, <3>2
  <2>3. env' \in Environment /\ Unique(env'.schedules)
    BY <1>1, <2>2 DEF Environment
  <2>4. window' \in Ids \cup {0}
    BY <1>1, <2>1
  <2> QED BY <1>1, <1>3, <2>1, <2>3, <2>4, StepIInv
<1>8. CASE Window
  <2>1. /\ window' \in {0} \cup {o.id : o \in env.schedules}
        /\ UNCHANGED <<spec, rec, now, faults, env, edits>>
    BY <1>8 DEF Window, Others
  <2>2. window' \in Ids \cup {0}
    BY <1>2, <2>1 DEF Collections
  <2> QED BY <1>1, <2>1, <2>2, StepIInv
<1>9. CASE Tick
  <2>1. now' \in 0..1 /\ UNCHANGED <<spec, rec, env, window, edits, faults>>
    BY <1>9 DEF Tick
  <2> QED BY <1>1, <2>1, StepIInv
<1> QED BY <1>4, <1>5, <1>6, <1>7, <1>8, <1>9

LEMMA NextIInv == IInv /\ [Next]_vars => IInv'
<1> SUFFICES ASSUME IInv, [Next]_vars PROVE IInv'
  OBVIOUS
<1>1. CASE UNCHANGED vars
  BY <1>1 DEF vars, IInv, TypeOK, Unique
<1>2. CASE Next
  BY <1>2, ReconcileIInv, OthersIInv DEF Next
<1> QED BY <1>1, <1>2

(* The invariant: types, and ids that tell the schedules of an environment *)
(* apart, at Baseten and in what a worker has read.                        *)
THEOREM Invariance == Spec => []IInv
BY InitIInv, NextIInv, PTL DEF Spec

(* Every variable keeps its type. *)
THEOREM TypeCorrect == Spec => []TypeOK
BY Invariance, PTL DEF IInv

(* A second PATCH that meets the schedules it was computed from leaves     *)
(* the collection that the spec asks for (diffSchedules, UpdateSchedules), *)
(* whatever duplicates and strangers it found.                             *)
THEOREM OnePatchSuffices == Spec => OnePatchIsEnough
<1>1. ASSUME IInv, UpdateSchedules, rec.obs = env.schedules, env' # env
      PROVE  AsWanted(rec.want, env'.schedules)
  <2>1. /\ rec.want \in Specs /\ rec.obs \in Collections /\ Unique(rec.obs)
        /\ env \in Environment /\ TypeOK
    BY <1>1 DEF IInv, TypeOK, Worker, UpdateSchedules
  <2>2. PICK is \in [Ups -> Contents] :
          /\ \A u \in Ups : is[u] \in Stored(u.is)
          /\ \E S \in Written({o \in env.schedules : o.id \notin Dels},
                              {[u EXCEPT !.is = is[u]] : u \in Ups}) :
               env' = [env EXCEPT !.timezone = Or(rec.want.timezone, @), !.schedules = S]
    BY <1>1 DEF UpdateSchedules
  <2>3. PICK S \in Written({o \in env.schedules : o.id \notin Dels},
                           {[u EXCEPT !.is = is[u]] : u \in Ups}) :
          env' = [env EXCEPT !.timezone = Or(rec.want.timezone, @), !.schedules = S]
    BY <2>2
  <2>4. env'.schedules = S
    BY <2>1, <2>3 DEF Environment
  <2>5. AsWanted(rec.want, S)
    BY <1>1, <2>1, <2>2, <2>3, PatchedIsAsWanted DEF Ups, Dels
  <2> QED BY <2>4, <2>5
<1>2. IInv => [UpdateSchedules /\ rec.obs = env.schedules /\ env' # env
                 => AsWanted(rec.want, env'.schedules)]_vars
  BY <1>1
<1> QED BY <1>2, Invariance, PTL DEF OnePatchIsEnough

(* One PATCH of the settings repairs all drift it was computed from, and   *)
(* changes no field that the spec leaves open (UpdateEnvironmentSettings,  *)
(* HasPromotionSettingsDrift, baselineAutoscalingDrift).                   *)
THEOREM PatchRepairs ==
  ASSUME NEW e \in Environment, NEW w \in Specs, NEW applied \in BOOLEAN, NEW n,
         n = Patched(e, w, AutoDrift(w, e.auto, applied), PromotionDrift(w, e))
  PROVE  /\ ~AutoDrift(w, n.auto, applied) /\ ~PromotionDrift(w, n)
         /\ (w.auto = Nil => n.auto = e.auto) /\ (w.ramp = Nil => n.ramp = e.ramp)
         /\ (w.surge = Nil => n.surge = e.surge /\ n.rolling = e.rolling)
<1> DEFINE auto == AutoDrift(w, e.auto, applied)
           promotion == PromotionDrift(w, e)
<1>1. e.rolling \in BOOLEAN
  BY DEF Environment
<1>2. /\ n.auto = (IF auto THEN Or(w.auto, e.auto) ELSE e.auto)
      /\ n.ramp = (IF promotion THEN Or(w.ramp, e.ramp) ELSE e.ramp)
      /\ n.surge = (IF promotion THEN Or(w.surge, e.surge) ELSE e.surge)
      /\ n.rolling = (e.rolling \/ (promotion /\ w.surge # Nil))
  <2> HIDE DEF auto, promotion
  <2>1. n = Patched(e, w, auto, promotion)
    BY DEF auto, promotion
  <2> QED BY <2>1 DEF Patched, Environment
<1>3. ~AutoDrift(w, n.auto, applied) /\ (w.auto = Nil => n.auto = e.auto)
  BY <1>2 DEF AutoDrift, HasAutoscalingDrift, Or
<1>4. /\ ~PromotionDrift(w, n) /\ (w.ramp = Nil => n.ramp = e.ramp)
      /\ (w.surge = Nil => n.surge = e.surge /\ n.rolling = e.rolling)
  <2>1. CASE promotion
    BY <1>1, <1>2, <2>1 DEF PromotionDrift, Or
  <2>2. CASE ~promotion
    BY <1>1, <1>2, <2>2 DEF PromotionDrift, Or
  <2> QED BY <2>1, <2>2
<1> QED BY <1>3, <1>4

(* What a reconcile of w compares finds nothing to repair: the baseline    *)
(* counts unless a window is open under managed schedules, and schedules   *)
(* count if they are managed.                                              *)
Fits(w) ==
  /\ w.auto \in {Nil, env.auto} \/ (w.managed /\ window # 0)
  /\ w.ramp \in {Nil, env.ramp}
  /\ w.surge # Nil => env.rolling /\ env.surge = w.surge
  /\ w.managed => w.timezone \in {Nil, env.timezone} /\ AsWanted(w, env.schedules)

(* A reconcile that reads an environment sends a PATCH exactly if          *)
(* something differs from its copy of the spec, except that it sends none  *)
(* for schedules that do not decode (reconcileEnvironment).  The condition *)
(* leaves out the one case where a difference may be reported that is not  *)
(* there: an open window of schedules that are not managed.                *)
THEOREM StopsIfNothingDiffers ==
  ASSUME IInv, GetEnvironment, window = 0 \/ rec.want.managed
  PROVE  rec' = Idle <=> (rec.want.managed /\ ~env.readable) \/ Fits(rec.want)
<1> DEFINE w == rec.want
<1>1. /\ w \in Specs /\ IsSpec(w) /\ rec \in Worker /\ env \in Environment
      /\ env.schedules \in Collections /\ Unique(env.schedules)
  BY SpecsAssumption DEF IInv, TypeOK, GetEnvironment, Environment
<1>2. PICK auto \in Reported :
        rec' = Decide([rec EXCEPT
          !.obs = env.schedules, !.applied = ScheduleActive,
          !.auto = AutoDrift(w, auto, ScheduleActive),
          !.promotion = PromotionDrift(w, env),
          !.schedule = ScheduleDrift(w, env.schedules, env.timezone),
          !.zone = w.timezone \notin {Nil, env.timezone}])
  BY DEF GetEnvironment
<1> DEFINE a == AutoDrift(w, auto, ScheduleActive)
           p == PromotionDrift(w, env)
           s == ScheduleDrift(w, env.schedules, env.timezone)
           z == w.timezone \notin {Nil, env.timezone}
           n == [rec EXCEPT !.obs = env.schedules, !.applied = ScheduleActive,
                            !.auto = a, !.promotion = p, !.schedule = s,
                            !.zone = z]
<1>3. ~a <=> w.auto \in {Nil, env.auto} \/ (w.managed /\ window # 0)
  <2>1. CASE window = 0
    <3>1. \A o \in env.schedules : o.id # window
      BY <1>1, <2>1, BoundsAssumption DEF Collections, Ids
    <3>2. auto = env.auto
      BY <3>1 DEF Reported
    <3> QED BY <2>1, <3>2 DEF AutoDrift, HasAutoscalingDrift, ScheduleActive
  <2>2. CASE window # 0
    BY <2>2 DEF AutoDrift, ScheduleActive
  <2> QED BY <2>1, <2>2
<1>4. ~p <=> /\ w.ramp \in {Nil, env.ramp}
             /\ w.surge # Nil => env.rolling /\ env.surge = w.surge
  BY <1>1 DEF PromotionDrift, Environment
<1>5. ~s <=> (w.managed => w.timezone \in {Nil, env.timezone} /\ AsWanted(w, env.schedules))
  <2>1. AsWanted(w, env.schedules)
        <=> Upserts(w, env.schedules) = {} /\ Deletes(w, env.schedules) = {}
    BY <1>1, DriftIsDifference
  <2> QED BY <2>1 DEF ScheduleDrift
<1>6. rec' = Decide(n)
  BY <1>2
<1>7. /\ n.want = w /\ n.auto = a /\ n.promotion = p /\ n.schedule = s
      /\ [n EXCEPT !.pc = "settings"].pc = "settings"
      /\ [n EXCEPT !.pc = "schedules"].pc = "schedules"
  <2> HIDE DEF a, p, s, z
  <2> QED BY <1>1 DEF Worker
<1> HIDE DEF a, p, s, z, n
<1>8. Decide(n) = Idle <=> (w.managed /\ ~env.readable) \/ (~a /\ ~p /\ ~s)
  <2>1. Idle.pc = "idle" /\ w.managed \in BOOLEAN /\ env.readable \in BOOLEAN
    BY <1>1, IdleTyped DEF IsSpec, Environment
  <2>2. CASE w.managed /\ ~env.readable
    BY <1>7, <2>2 DEF Decide
  <2>3. CASE (w.managed => env.readable) /\ (a \/ p)
    <3>1. Decide(n) = [n EXCEPT !.pc = "settings"]
      BY <1>7, <2>3 DEF Decide
    <3> QED BY <1>7, <2>1, <2>3, <3>1
  <2>4. CASE (w.managed => env.readable) /\ ~(a \/ p) /\ s
    <3>1. Decide(n) = [n EXCEPT !.pc = "schedules"]
      BY <1>7, <2>4 DEF Decide
    <3> QED BY <1>7, <2>1, <2>4, <3>1
  <2>5. CASE (w.managed => env.readable) /\ ~(a \/ p) /\ ~s
    BY <1>7, <2>5 DEF Decide
  <2> QED BY <2>1, <2>2, <2>3, <2>4, <2>5
<1> QED BY <1>3, <1>4, <1>5, <1>6, <1>8 DEF Fits
=============================================================================
