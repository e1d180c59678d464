------------------------ MODULE EnvironmentSettings ------------------------
(***************************************************************************)
(* Settings of an environment: reconcileEnvironment, the drift of          *)
(* autoscaling and promotion settings (internal/baseten/client.go) and the *)
(* collection of autoscaling schedules (internal/baseten/schedules.go).    *)
(* A reconcile reads the environment once and repairs it in two PATCHes,   *)
(* settings first; users edit spec and environment at any time, and the    *)
(* windows of schedules open and close.                                    *)
(*                                                                         *)
(* Abstractions.  One field stands for those of its kind: `auto' for the   *)
(* baseline, `ramp' for promotion settings at the top and `surge' for      *)
(* those in the rolling deploy config.  A schedule has weekdays, an hour,  *)
(* an instant written with an offset, and replicas.  Schedules are listed  *)
(* by id, so the first of a name has the least.  Fields of the environment *)
(* that are nil count as zero, as they do in every comparison; autoscaling *)
(* settings as such are always there (toEnvironment).                      *)
(***************************************************************************)
EXTENDS Integers, SequencesExt

CONSTANTS
  Specs,     \* what spec.environment may say
  Names,     \* names of schedules
  Contents,  \* contents of schedules as Baseten stores them
  Values,    \* of a setting
  Nil,       \* a field that is not set
  MaxId,     \* bound: ids of schedules
  MaxEdits,  \* bound: edits by users, of the spec or at Baseten
  MaxFaults  \* bound: failed calls and crashes

Opt == Values \cup {Nil}
Ids == 1..MaxId
Cadences == {"DAILY", "HOURLY", "ONE_TIME"}

(* A schedule without id and name. *)
IsContent(s) ==
  /\ DOMAIN s = {"cadence", "days", "hour", "at", "replicas"}
  /\ s.cadence \in Cadences /\ s.replicas \in Values
  /\ s.cadence = "ONE_TIME" => s.at.instant \in Nat

(* autoscaling, promotionSettings and autoscalingSchedule; without the     *)
(* last (managed is FALSE) schedules are not the operator's business.      *)
IsSpec(w) ==
  /\ DOMAIN w = {"auto", "ramp", "surge", "managed", "timezone", "schedules"}
  /\ w.auto \in Opt /\ w.ramp \in Opt /\ w.surge \in Opt
  /\ w.managed \in BOOLEAN /\ w.timezone \in Opt
  /\ DOMAIN w.schedules \subseteq Names
  /\ \A n \in DOMAIN w.schedules : IsContent(w.schedules[n])

ASSUME ValuesAssumption == Values \subseteq Nat /\ 0 \in Values /\ Nil \notin Values
ASSUME BoundsAssumption == MaxId \in Nat /\ MaxEdits \in Nat /\ MaxFaults \in Nat
ASSUME SpecsAssumption == \A w \in Specs : IsSpec(w)
ASSUME ContentsAssumption == \A s \in Contents : IsContent(s)

VARIABLES
  spec,    \* spec.environment of the CR
  rec,     \* the worker of the CR
  env,     \* Baseten: the environment
  window,  \* Baseten: the id of the schedule applied, or 0
  now,     \* the clock
  edits, faults

vars == <<spec, rec, env, window, now, edits, faults>>
-----------------------------------------------------------------------------
Schedule(id, n, s) == [id |-> id, name |-> n, is |-> s]

(* Mutant: instants are compared as they are written. *)
Normalize_AsWritten(s) ==
  CASE s.cadence = "ONE_TIME" -> [s EXCEPT !.days = {}, !.hour = Nil]
    [] s.cadence = "HOURLY" -> [s EXCEPT !.days = ToSet(@), !.hour = Nil, !.at = Nil]
    [] s.cadence = "DAILY"  -> [s EXCEPT !.days = ToSet(@), !.at = Nil]

(* normalizeSchedule.  Weekdays do not repeat: sorted, they are a set. *)
Normalize(s) ==
  CASE s.cadence = "ONE_TIME" -> [s EXCEPT !.days = {}, !.hour = Nil, !.at = @.instant]
    [] s.cadence = "HOURLY" -> [s EXCEPT !.days = ToSet(@), !.hour = Nil, !.at = Nil]
    [] s.cadence = "DAILY"  -> [s EXCEPT !.days = ToSet(@), !.at = Nil]

(* A ONE_TIME schedule whose window has ended. *)
Expired(s) == s.cadence = "ONE_TIME" /\ s.at.instant < now

Listed(obs) == {o.name : o \in obs}
First(obs, n) ==
  CHOOSE o \in obs : o.name = n /\ \A p \in obs : p.name = n => o.id <= p.id

(* The names whose schedule diffSchedules adds, or replaces. *)
Added(w, obs) ==
  {n \in DOMAIN w.schedules : ~Expired(w.schedules[n]) /\ n \notin Listed(obs)}
Changed(w, obs) ==
  {n \in DOMAIN w.schedules \cap Listed(obs) :
     /\ ~Expired(w.schedules[n])
     /\ Normalize(w.schedules[n]) # Normalize(First(obs, n).is)}

(* Mutant: a schedule is replaced without its id. *)
Upserts_NoId(w, obs) ==
  {Schedule(0, n, w.schedules[n]) : n \in Added(w, obs) \cup Changed(w, obs)}

(* What is written: id 0 creates. *)
Upserts(w, obs) ==
  {Schedule(0, n, w.schedules[n]) : n \in Added(w, obs)} \cup
  {Schedule(First(obs, n).id, n, w.schedules[n]) : n \in Changed(w, obs)}

(* Mutant: all schedules of a name in the spec are kept. *)
Deletes_KeepsDuplicates(w, obs) ==
  {o.id : o \in {o \in obs : o.name \notin DOMAIN w.schedules}}

(* What is deleted: duplicates, and what the spec does not name. *)
Deletes(w, obs) ==
  {o.id : o \in {o \in obs : o # First(obs, o.name) \/ o.name \notin DOMAIN w.schedules}}

(* HasScheduleDrift *)
ScheduleDrift(w, obs, timezone) ==
  /\ w.managed
  /\ \/ w.timezone \notin {Nil, timezone}
     \/ Upserts(w, obs) # {} \/ Deletes(w, obs) # {}
-----------------------------------------------------------------------------
HasAutoscalingDrift(w, auto) == w.auto \notin {Nil, auto}

(* baselineAutoscalingDrift; applied: a window is open. *)
AutoDrift(w, auto, applied) ==
  ~(w.managed /\ applied) /\ HasAutoscalingDrift(w, auto)

(* Mutant: without a rolling config at Baseten nothing is compared. *)
PromotionDrift_BothOnly(w, e) ==
  \/ w.ramp \notin {Nil, e.ramp}
  \/ w.surge # Nil /\ e.rolling /\ w.surge # e.surge

(* HasPromotionSettingsDrift: if the environment has no rolling config,    *)
(* any field that the spec sets is drift.                                  *)
PromotionDrift(w, e) ==
  \/ w.ramp \notin {Nil, e.ramp}
  \/ w.surge # Nil /\ (e.rolling => w.surge # e.surge)

(* Mutant: fields that are not set are sent. *)
Or_Sent(v, old) == v

(* A field that is not set is left out of the PATCH. *)
Or(v, old) == IF v = Nil THEN old ELSE v

(* UpdateEnvironmentSettings with the parts that drifted. *)
Patched(e, w, auto, promotion) ==
  [e EXCEPT !.auto    = IF auto THEN Or(w.auto, @) ELSE @,
            !.ramp    = IF promotion THEN Or(w.ramp, @) ELSE @,
            !.surge   = IF promotion THEN Or(w.surge, @) ELSE @,
            !.rolling = @ \/ (promotion /\ w.surge # Nil)]
-----------------------------------------------------------------------------
Collections == SUBSET [id : Ids, name : Names, is : Contents]

Environment == [exists : BOOLEAN, auto : Values, ramp : Values, surge : Values,
                rolling : BOOLEAN,  \* it has a rolling deploy config
                timezone : Values,
                readable : BOOLEAN, \* its schedules decode
                schedules : Collections]

Blank == [exists |-> FALSE, auto |-> 0, ramp |-> 0, surge |-> 0, rolling |-> FALSE,
          timezone |-> 0, readable |-> TRUE, schedules |-> {}]

(* A worker: its copy of the spec, the schedules it read, whether under an *)
(* open window, and the drift it found.                                    *)
Worker == [pc : {"idle", "get", "create", "settings", "schedules"},
           want : Specs \cup {Nil}, obs : Collections, applied : BOOLEAN,
           auto : BOOLEAN, promotion : BOOLEAN, schedule : BOOLEAN,
           zone : BOOLEAN]  \* the timezone that was read is not the spec's

Idle == [pc |-> "idle", want |-> Nil, obs |-> {}, applied |-> FALSE,
         auto |-> FALSE, promotion |-> FALSE, schedule |-> FALSE, zone |-> FALSE]

Fault == faults < MaxFaults /\ faults' = faults + 1
Edit == edits < MaxEdits /\ edits' = edits + 1

Init ==
  /\ spec \in Specs
  /\ rec = Idle
  /\ env = Blank /\ window = 0 /\ now = 0
  /\ edits = 0 /\ faults = 0

Start ==
  /\ rec.pc = "idle"
  /\ rec' = [rec EXCEPT !.pc = "get", !.want = spec]
  /\ UNCHANGED <<spec, env, window, now, edits, faults>>

(* GetEnvironment finds none, ... *)
GetNone ==
  /\ rec.pc = "get" /\ ~env.exists
  /\ rec' = [rec EXCEPT !.pc = "create"]
  /\ UNCHANGED <<spec, env, window, now, edits, faults>>

(* ... and CreateEnvironment makes it, without schedules. *)
Create ==
  /\ rec.pc = "create"
  /\ env' = IF env.exists THEN env
            ELSE [Patched(Blank, rec.want, TRUE, TRUE) EXCEPT !.exists = TRUE]
  /\ rec' = Idle
  /\ UNCHANGED <<spec, window, now, edits, faults>>

(* The drift of what was read decides what comes next.  Schedules that do  *)
(* not decode end the reconcile of a CR that manages them.                 *)
Decide(r) ==
  CASE r.want.managed /\ ~env.readable -> Idle
    [] (r.want.managed => env.readable) /\ (r.auto \/ r.promotion)
         -> [r EXCEPT !.pc = "settings"]
    [] (r.want.managed => env.readable) /\ ~(r.auto \/ r.promotion) /\ r.schedule
         -> [r EXCEPT !.pc = "schedules"]
    [] OTHER -> Idle

(* What Baseten may report as the baseline: "in case the API reports       *)
(* applied settings as the baseline" (baselineAutoscalingDrift).           *)
Reported == {env.auto} \cup {o.is.replicas : o \in {o \in env.schedules : o.id = window}}

ScheduleActive == window # 0

GetEnvironment ==
  LET w == rec.want IN
  /\ rec.pc = "get" /\ env.exists
  /\ \E auto \in Reported :
       rec' = Decide([rec EXCEPT
         !.obs = env.schedules, !.applied = ScheduleActive,
         !.auto = AutoDrift(w, auto, ScheduleActive),
         !.promotion = PromotionDrift(w, env),
         !.schedule = ScheduleDrift(w, env.schedules, env.timezone),
         !.zone = w.timezone \notin {Nil, env.timezone}])
  /\ UNCHANGED <<spec, env, window, now, edits, faults>>

(* The first PATCH; then the schedules, if they drifted. *)
UpdateSettings ==
  /\ rec.pc = "settings"
  /\ env' = Patched(env, rec.want, rec.auto, rec.promotion)
  /\ \/ /\ rec' = IF rec.schedule THEN [rec EXCEPT !.pc = "schedules"] ELSE Idle
        /\ UNCHANGED faults
     \/ rec' = Idle /\ Fault    \* the answer is lost
  /\ UNCHANGED <<spec, window, now, edits>>

(* The second PATCH, from the schedules that were read; the difference is  *)
(* taken anew.                                                             *)
Ups == Upserts(rec.want, rec.obs)
Dels == Deletes(rec.want, rec.obs)

(* Without a change nothing is sent: the window may have ended since. *)
Sends == Ups # {} \/ Dels # {} \/ rec.zone

(* Two schedules mean the same. *)
Same(a, b) ==
  /\ a.cadence = b.cadence /\ a.replicas = b.replicas
  /\ a.cadence = "ONE_TIME" => a.at.instant = b.at.instant
  /\ a.cadence # "ONE_TIME" => ToSet(a.days) = ToSet(b.days)
  /\ a.cadence = "DAILY" => a.hour = b.hour

(* Baseten stores what was sent: the fields that the cadence has no use    *)
(* for are not sent, weekdays may be reordered, and an instant may come    *)
(* back with another offset.                                               *)
Stored(s) == {c \in Contents : Same(c, s)}

(* Baseten's ids for the schedules in U: those that have none (there is at *)
(* most one of a name) get the least that are free.                        *)
Numberings(U, used) ==
  {f \in [U -> Ids] :
     /\ IsInjective(f)
     /\ \A u \in U : u.id # 0 => f[u] = u.id
     /\ \A u \in U : u.id = 0 => /\ f[u] \notin used
                                 /\ 1..(f[u] - 1) \subseteq used \cup Range(f)}

(* The collections that `have' may become when U is written. *)
Written(have, U) ==
  {{[u EXCEPT !.id = f[u]] : u \in U} \cup {o \in have : o.id \notin {u.id : u \in U}} :
     f \in Numberings(U, {o.id : o \in have \cup rec.obs})}

UpdateSchedules ==
  /\ rec.pc = "schedules"
  /\ rec' = Idle
  /\ \/ /\ \E is \in [Ups -> Contents] :
             /\ \A u \in Ups : is[u] \in Stored(u.is)
             /\ \E S \in Written({o \in env.schedules : o.id \notin Dels},
                               {[u EXCEPT !.is = is[u]] : u \in Ups}) :
                  env' = [env EXCEPT !.timezone = Or(rec.want.timezone, @),
                                     !.schedules = S]
        /\ window' = IF window \in Dels THEN 0 ELSE window
        /\ Sends /\ UNCHANGED faults
     \/ ~Sends /\ UNCHANGED <<env, window, faults>>
     \/ /\ \* Baseten declines: a schedule that is to be replaced or deleted is gone
           \E id \in Dels \cup {u.id : u \in Ups} :
             id # 0 /\ id \notin {o.id : o \in env.schedules}
        /\ UNCHANGED <<env, window, faults>>
  /\ UNCHANGED <<spec, now, edits>>

(* A call fails, and with it the reconcile; after a failed second PATCH    *)
(* the first remains.                                                      *)
CallFails ==
  /\ rec.pc # "idle" /\ Fault
  /\ rec' = Idle
  /\ UNCHANGED <<spec, env, window, now, edits>>
-----------------------------------------------------------------------------
(* Users, the clock and Baseten. *)
EditSpec ==
  /\ Edit
  /\ \E w \in Specs \ {spec} : spec' = w
  /\ UNCHANGED <<rec, env, window, now, faults>>

Others == <<spec, rec, now, faults>>

(* Settings are edited at Baseten. *)
EditSettings ==
  /\ Edit /\ env.exists
  /\ \/ \E v \in Values : env' \in {[env EXCEPT !.auto = v], [env EXCEPT !.ramp = v],
                                    [env EXCEPT !.timezone = v]}
     \/ env' = [env EXCEPT !.rolling = FALSE, !.surge = 0]
     \/ env' = [env EXCEPT !.readable = ~@]
  /\ UNCHANGED <<Others, window>>

(* A schedule is added, possibly of a name that is there, or removed. *)
EditSchedules ==
  /\ Edit /\ env.exists
  /\ \/ \E n \in Names, c \in Contents :
          \E S \in Written(env.schedules, {Schedule(0, n, c)}) :
            env' = [env EXCEPT !.schedules = S]
     \/ \E o \in env.schedules : env' = [env EXCEPT !.schedules = @ \ {o}]
  /\ window' = IF window \in {o.id : o \in env'.schedules} THEN window ELSE 0
  /\ UNCHANGED Others

(* A window opens or closes. *)
Window ==
  /\ window' \in {0} \cup {o.id : o \in env.schedules}
  /\ window' # window
  /\ UNCHANGED <<Others, env, edits>>

(* ONE_TIME windows end. *)
Tick ==
  /\ now = 0 /\ now' = 1
  /\ UNCHANGED <<spec, rec, env, window, edits, faults>>
-----------------------------------------------------------------------------
Reconcile == Start \/ GetNone \/ Create \/ GetEnvironment \/ UpdateSettings \/ UpdateSchedules

Next == Reconcile \/ CallFails \/ EditSpec \/ EditSettings \/ EditSchedules \/ Window \/ Tick

Spec == Init /\ [][Next]_vars /\ WF_vars(Reconcile)
-----------------------------------------------------------------------------
(* The types of all variables. *)
TypeOK ==
  /\ spec \in Specs /\ rec \in Worker /\ env \in Environment
  /\ window \in Ids \cup {0} /\ now \in 0..1
  /\ edits \in 0..MaxEdits /\ faults \in 0..MaxFaults

(* What the spec asks of promotion settings. *)
PromotionAsWanted ==
  /\ spec.ramp # Nil => env.ramp = spec.ramp
  /\ spec.surge # Nil => env.rolling /\ env.surge = spec.surge

(* The schedules are the spec's: none but those it names, each once and as *)
(* it says, except where the window of a ONE_TIME schedule has ended.      *)
AsWanted(w, S) ==
  /\ Listed(S) \subseteq DOMAIN w.schedules
  /\ \A n \in DOMAIN w.schedules :
       /\ \A o, p \in S : o.name = n /\ p.name = n => o = p
       /\ ~Expired(w.schedules[n]) =>
            \E o \in S : o.name = n /\ Same(o.is, w.schedules[n])

Unreadable == spec.managed /\ ~env.readable

(* "Changes made directly in the Baseten UI are detected and reverted"     *)
(* (README): though PATCHes fail between the two, users edit during a      *)
(* reconcile and windows open and close, the promotion settings end up as  *)
(* the spec wants them, and the baseline unless a window is open.          *)
SettingsConverge ==
  /\ <>[](Unreadable \/ (env.exists /\ PromotionAsWanted))
  /\ []<>(Unreadable \/ window # 0 \/ spec.auto \in {Nil, env.auto})

(* The operator "owns the collection" (basetenmodel_types.go): schedules   *)
(* end up as the spec wants them.                                          *)
SchedulesConverge ==
  <>[](spec.managed => \/ Unreadable
                       \/ /\ AsWanted(spec, env.schedules)
                          /\ spec.timezone \in {Nil, env.timezone})

(* One PATCH is enough: applied to the schedules it was computed from it   *)
(* leaves what the spec asks for.                                          *)
OnePatchIsEnough ==
  [][UpdateSchedules /\ rec.obs = env.schedules /\ env' # env
       => AsWanted(rec.want, env'.schedules)]_vars

(* Drift is found in what differs and in nothing else: reordered weekdays, *)
(* other offsets and applied windows do not make the operator write for    *)
(* ever, except for the baseline of an environment whose schedules are not *)
(* its business, while one is applied and reported as the baseline.        *)
Quiet ==
  <>[][/\ UpdateSettings => rec.applied /\ ~rec.want.managed
       /\ ~(UpdateSchedules /\ Sends)]_vars
=============================================================================
