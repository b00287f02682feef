------------------------------ MODULE EngineProofs ------------------------------
(***************************************************************************)
(* Theorems about the effects engine for every set of devices, calls,       *)
(* mappings, jobs, settings and lamps: its invariants, one after the other, *)
(* and last the refinement of AtomicRuns, which rests on them.              *)
(***************************************************************************)
EXTENDS Engine, SequenceTheorems, FiniteSetTheorems, TLAPS

-----------------------------------------------------------------------------
(* What the engine is built from: the window of inQuietHours against the     *)
(* clock, for a day of any length, and the types of plans and lamps.         *)

LEMMA ModSmall ==
  ASSUME NEW D \in Nat \ {0}, NEW a \in 0 .. D - 1
  PROVE  a % D = a
  BY SMT

LEMMA ModOver ==
  ASSUME NEW D \in Nat \ {0}, NEW a \in D .. 2 * D - 1
  PROVE  a % D = a - D
  BY SMT

LEMMA ModUnder ==
  ASSUME NEW D \in Nat \ {0}, NEW a \in Int, -D <= a, a < 0
  PROVE  a % D = a + D
  BY SMT

LEMMA ModRange ==
  ASSUME NEW D \in Nat \ {0}, NEW a \in Int
  PROVE  a % D \in 0 .. D - 1
  BY SMT

(***************************************************************************)
(* inQuietHours compares one or two bounds; the clock walks from start to   *)
(* end.  The two agree on every minute of every window: no minute lost at   *)
(* an end, none at midnight, and an equal pair is an empty window.          *)
(***************************************************************************)
THEOREM WindowMatchesClock ==
  ASSUME NEW s \in MinuteOfDay, NEW e \in MinuteOfDay, NEW t \in MinuteOfDay
  PROVE  InWindow(s, e, t) <=> t \in QuietMinutes(s, e)
<1> DEFINE D == DayMinutes
<1> DEFINE len == (e - s) % D
<1>1. D \in Nat \ {0}
  BY DayAssumption
<1>2. s \in 0 .. D - 1 /\ e \in 0 .. D - 1 /\ t \in 0 .. D - 1
  BY DEF MinuteOfDay
<1>3. t \in QuietMinutes(s, e) <=> \E k \in 0 .. len - 1 : t = (s + k) % D
  BY DEF QuietMinutes
<1> HIDE DEF D
<1>4. CASE s <= e
  <2>1. len = e - s
    BY <1>1, <1>2, <1>4, ModSmall
  <2>2. ASSUME NEW k \in 0 .. len - 1
        PROVE  (s + k) % D = s + k
    <3> HIDE DEF len
    <3>1. s + k \in 0 .. D - 1
      BY <1>1, <1>2, <1>4, <2>1
    <3> QED BY <1>1, <3>1, ModSmall
  <2>3. (\E k \in 0 .. len - 1 : t = (s + k) % D) <=> (s <= t /\ t < e)
    <3> HIDE DEF len
    <3>1. ASSUME s <= t, t < e
          PROVE  \E k \in 0 .. len - 1 : t = (s + k) % D
      <4>1. t - s \in 0 .. len - 1
        BY <1>2, <2>1, <3>1
      <4>2. (s + (t - s)) % D = t
        BY <1>2, <2>2, <4>1
      <4> QED BY <4>1, <4>2
    <3>2. ASSUME NEW k \in 0 .. len - 1, t = (s + k) % D
          PROVE  s <= t /\ t < e
      BY <1>2, <2>1, <2>2, <3>2
    <3> QED BY <3>1, <3>2
  <2> QED BY <1>2, <1>3, <1>4, <2>3 DEF InWindow
<1>5. CASE e < s
  <2>1. len = e - s + D
    <3>1. e - s \in Int /\ -D <= e - s /\ e - s < 0
      BY <1>1, <1>2, <1>5
    <3> QED BY ONLY <1>1, <3>1, ModUnder DEF len
  <2>2. ASSUME NEW k \in 0 .. len - 1
        PROVE  (s + k) % D = IF s + k < D THEN s + k ELSE s + k - D
    <3> HIDE DEF len
    <3>1. k \in Nat /\ s + k < 2 * D
      BY <1>1, <1>2, <2>1
    <3>2. CASE s + k < D
      <4>1. s + k \in 0 .. D - 1
        BY <1>1, <1>2, <3>1, <3>2
      <4> QED BY <1>1, <3>2, <4>1, ModSmall
    <3>3. CASE ~(s + k < D)
      <4>1. s + k \in D .. 2 * D - 1
        BY <1>1, <1>2, <3>1, <3>3
      <4>2. (s + k) % D = (s + k) - D
        BY <1>1, <4>1, ModOver
      <4> QED BY <1>1, <1>2, <3>1, <3>3, <4>2
    <3> QED BY <3>2, <3>3
  <2>3. (\E k \in 0 .. len - 1 : t = (s + k) % D) <=> (s <= t \/ t < e)
    <3> HIDE DEF len
    <3>1. ASSUME s <= t
          PROVE  \E k \in 0 .. len - 1 : t = (s + k) % D
      <4>1. t - s \in 0 .. len - 1 /\ s + (t - s) < D
        BY <1>1, <1>2, <2>1, <3>1
      <4>2. (s + (t - s)) % D = t
        BY <1>1, <1>2, <2>2, <4>1
      <4> QED BY <4>1, <4>2
    <3>2. ASSUME t < e
          PROVE  \E k \in 0 .. len - 1 : t = (s + k) % D
      <4> DEFINE k == t - s + D
      <4>1. k \in 0 .. len - 1 /\ ~(s + k < D)
        BY <1>1, <1>2, <1>5, <2>1, <3>2
      <4>2. s + k - D = t
        BY <1>1, <1>2
      <4>3. (s + k) % D = t
        BY <2>2, <4>1, <4>2
      <4> QED BY <4>1, <4>3
    <3>3. ASSUME NEW k \in 0 .. len - 1, t = (s + k) % D
          PROVE  s <= t \/ t < e
      <4>1. CASE s + k < D
        BY <1>1, <1>2, <2>2, <3>3, <4>1
      <4>2. CASE ~(s + k < D)
        BY <1>1, <1>2, <2>1, <2>2, <3>3, <4>2
      <4> QED BY <4>1, <4>2
    <3> QED BY <3>1, <3>2, <3>3
  <2> QED BY <1>2, <1>3, <1>5, <2>3 DEF InWindow
<1> QED BY <1>2, <1>4, <1>5

(***************************************************************************)
(* The decision inQuietHours takes is the one the clock gives, whatever the *)
(* setting: disabled and malformed settings never suppress, and an unusable *)
(* timezone is read as host time.                                           *)
(***************************************************************************)
THEOREM QuietHoursMatchClock ==
  ASSUME NEW q \in QuietSetting, NEW t \in Int
  PROVE  InQuietHours(q, t) <=> QuietByTheClock(q, t)
<1>1. Location(q) \in Int
  BY ZoneAssumption DEF Location, QuietSetting
<1>2. LocalMinute(q, t) \in MinuteOfDay
  BY <1>1, DayAssumption, ModRange DEF LocalMinute, MinuteOfDay
<1>3. CASE q.start # Malformed /\ q.end # Malformed
  <2>1. q.start \in MinuteOfDay /\ q.end \in MinuteOfDay
    BY <1>3 DEF QuietSetting
  <2> QED BY <1>2, <1>3, <2>1, WindowMatchesClock DEF InQuietHours, QuietByTheClock
<1>4. CASE ~(q.start # Malformed /\ q.end # Malformed)
  BY <1>4 DEF InQuietHours, QuietByTheClock
<1> QED BY <1>3, <1>4

-----------------------------------------------------------------------------
(* Plans and lamps. *)

\* A command built from a number is a command, whatever its failure policy.
LEMMA CommandType ==
  ASSUME NEW op \in WriteOps \cup SleepOps, NEW v \in Nat
  PROVE  Do(op, v) \in Command /\ Try(op, v) \in Command
  BY DEF Do, Try, Command

LEMMA BlinkType ==
  ASSUME NEW j \in EffectJob
  PROVE  Blink(j) \in Seq(Command)
<1>1. 4 * j.cycles \in Nat /\ j.colorA \in Nat /\ j.colorB \in Nat
  BY DEF EffectJob
<1>2. ASSUME NEW i \in 1 .. 4 * j.cycles
      PROVE  (IF i % 2 = 0 THEN Do("sleep", 0)
              ELSE Do("color", IF i % 4 = 1 THEN j.colorA ELSE j.colorB)) \in Command
  <2>1. Do("sleep", 0) \in Command
    BY CommandType DEF SleepOps
  <2>2. (IF i % 4 = 1 THEN j.colorA ELSE j.colorB) \in Nat
    BY <1>1
  <2>3. Do("color", IF i % 4 = 1 THEN j.colorA ELSE j.colorB) \in Command
    BY <2>2, CommandType DEF WriteOps
  <2> QED BY <2>1, <2>3
<1>3. Blink(j) \in [1 .. 4 * j.cycles -> Command]
  BY <1>2 DEF Blink
<1> QED BY <1>1, <1>3

LEMMA EffectPlanType ==
  ASSUME NEW j \in EffectJob
  PROVE  EffectPlan(j) \in Seq(Command)
<1>1. j.brightness \in Nat /\ j.colorA \in Nat /\ j.colorB \in Nat
  BY DEF EffectJob
<1>2. \A v \in Nat : \A op \in WriteOps : Do(op, v) \in Command
  BY CommandType
<1>3. CASE j.effect = Flash
  <2>1. EndPlan(j) \in Seq(Command)
    BY <1>1, <1>2 DEF EndPlan, EffectJob, EndStates, WriteOps
  <2>2. <<Do("power", 1), Do("brightness", j.brightness)>> \in Seq(Command)
    BY <1>1, <1>2 DEF WriteOps
  <2>3. RunFlash(j) \in Seq(Command)
    BY <2>1, <2>2, BlinkType DEF RunFlash
  <2> QED BY <1>3, <2>3 DEF EffectPlan, Flash
<1>4. CASE j.effect = "solid"
  <2>1. RunSolid(j) \in Seq(Command)
    BY <1>1, <1>2 DEF RunSolid, WriteOps
  <2> QED BY <1>4, <2>1 DEF EffectPlan, Flash
<1>5. CASE j.effect = "on"
  <2>1. RunOn(j) \in Seq(Command)
    BY <1>1, <1>2 DEF RunOn, WriteOps
  <2> QED BY <1>5, <2>1 DEF EffectPlan, Flash
<1>6. CASE j.effect = "off"
  BY <1>6, <1>2 DEF EffectPlan, Flash, WriteOps
<1> QED BY <1>3, <1>4, <1>5, <1>6 DEF EffectJob

LEMMA RestoreType ==
  ASSUME NEW r \in Report
  PROVE  Restore(r) \in Seq(Command)
<1>1. ASSUME NEW op \in WriteOps, NEW v \in Field
      PROVE  TryReported(op, v) \in Seq(Command)
  BY CommandType DEF TryReported, Field
<1>2. CASE r.power = 0
  BY <1>2, CommandType DEF Restore, WriteOps
<1>3. CASE r.power # 0
  <2>1. TryReported("power", r.power) \in Seq(Command)
    BY <1>1 DEF Report, Field, WriteOps
  <2>2. TryReported("brightness", r.brightness) \in Seq(Command)
    BY <1>1 DEF Report, WriteOps
  <2>3. (IF r.scene # Unreported THEN <<Try("scene", r.scene)>>
         ELSE TryReported("color", r.color)) \in Seq(Command)
    <3>1. ASSUME r.scene # Unreported
          PROVE  <<Try("scene", r.scene)>> \in Seq(Command)
      <4>1. r.scene \in Nat
        BY <3>1 DEF Report, Field
      <4> QED BY <4>1, CommandType DEF WriteOps
    <3>2. TryReported("color", r.color) \in Seq(Command)
      BY <1>1 DEF Report, WriteOps
    <3> QED BY <3>1, <3>2
  <2> QED BY <1>3, <2>1, <2>2, <2>3 DEF Restore
<1> QED BY <1>2, <1>3

(***************************************************************************)
(* Whatever job is accepted and whatever the state read reported, the plan  *)
(* of a run (execute, engine.go) is a finite sequence of commands.          *)
(***************************************************************************)
THEOREM ExecuteType ==
  ASSUME NEW j \in EffectJob \cup ManualJob, NEW e \in Entry, NEW r \in Report
  PROVE  Execute(j, e, r) \in Seq(Command)
<1>1. CASE Manual(j)
  <2>1. j \in ManualJob
    BY <1>1 DEF Manual, EffectJob, Flash
  <2>2. Do(j.op, j.v) \in Command
    BY <2>1, CommandType DEF ManualJob
  <2> QED BY <1>1, <2>2 DEF Execute
<1>2. CASE ~Manual(j)
  <2>1. j \in EffectJob
    BY <1>2 DEF Manual, ManualJob
  <2>2. EffectPlan(j) \in Seq(Command)
    BY <2>1, EffectPlanType
  <2>3. j.scenes[e] \in Nat
    BY <2>1 DEF EffectJob
  <2>4. ApplyAfterScene(j.scenes[e]) \in Seq(Command)
    BY <2>3, CommandType DEF ApplyAfterScene, WriteOps, SleepOps
  <2>5. Restore(r) \in Seq(Command)
    BY RestoreType
  <2> QED BY <1>2, <2>2, <2>4, <2>5 DEF Execute
<1> QED BY <1>1, <1>2

LEMMA NothingReportedType == NothingReported \in Report
  BY DEF NothingReported, Report, Field

LEMMA ReportedType ==
  ASSUME NEW l \in Lamp, NEW fields
  PROVE  Reported(l, fields) \in Report
  BY DEF Reported, Report, Lamp, Field

LEMMA ApplyType ==
  ASSUME NEW cmd \in Command, NEW l \in Lamp, NEW asleep \in BOOLEAN
  PROVE  Apply(cmd, l, asleep) \in Lamp
  BY DEF Apply, Command, Lamp

-----------------------------------------------------------------------------
(* Type correctness. *)

\* A call has a job from its first step on; between Enqueue's steps it is an
\* effect job, with a mapping.  A started worker's call has returned.
JobInv ==
  /\ \A c \in Call : stage[c] # "idle" => work[c] \in EffectJob \cup ManualJob
  /\ \A c \in Call : stage[c] \in {"quiet", "clock", "cooldown", "start"} =>
       work[c] \in EffectJob /\ via[c] \in Mapping
  /\ \A w \in Worker : pc[w] # "none" =>
       stage[Caller(w)] = "returned" /\ work[Caller(w)] \in EffectJob \cup ManualJob

TypeInv == TypeOK /\ JobInv

LEMMA WorkerParts ==
  ASSUME NEW w \in Worker
  PROVE  /\ Caller(w) \in Call /\ Listed(w) \in Entry /\ Lit(w) \in Device
         /\ w = <<Caller(w), Listed(w)>>
  BY DEF Worker, Entry, Caller, Listed, Lit

LEMMA AddType ==
  ASSUME TypeOK, NEW c \in Call, NEW d \in Device \cup {JobLevel}, NEW r \in Result,
         Add(c, d, r)
  PROVE  activity' \in [Call -> Seq(Record)]
<1>1. [device |-> d, result |-> r] \in Record
  BY DEF Record
<1>2. activity[c] \in Seq(Record)
  BY DEF TypeOK
<1>3. Append(activity[c], [device |-> d, result |-> r]) \in Seq(Record)
  BY <1>1, <1>2
<1> QED BY <1>3 DEF Add, TypeOK

LEMMA StartType ==
  ASSUME TypeOK, NEW c \in Call, NEW devices, Start(c, devices)
  PROVE  pc' \in [Worker -> Phase]
  BY DEF Start, TypeOK, Phase

LEMMA FinishType ==
  ASSUME TypeInv, NEW w \in Worker, NEW r \in Result, Finish(w, r)
  PROVE  /\ activity' \in [Call -> Seq(Record)]
         /\ pc' \in [Worker -> Phase]
         /\ todo' \in [Worker -> Seq(Command)]
         /\ deviceLocks' \in [Device -> Worker \cup {NoWorker}]
<1>1. Caller(w) \in Call /\ Lit(w) \in Device
  BY WorkerParts
<1>2. activity' \in [Call -> Seq(Record)]
  BY <1>1, AddType DEF Finish, TypeInv
<1>3. pc' \in [Worker -> Phase]
  <2> DEFINE p == IF r = "effect ok" THEN "ok" ELSE "failed"
  <2>1. p \in Phase /\ pc' = [pc EXCEPT ![w] = p] /\ pc \in [Worker -> Phase]
    BY DEF Finish, TypeInv, TypeOK, Phase
  <2> QED BY ONLY <2>1
<1>4. todo' \in [Worker -> Seq(Command)]
  <2>1. todo \in [Worker -> Seq(Command)] /\ todo' = [todo EXCEPT ![w] = <<>>]
    BY DEF Finish, TypeInv, TypeOK
  <2> QED BY ONLY <2>1
<1>5. deviceLocks' \in [Device -> Worker \cup {NoWorker}]
  <2>1. /\ deviceLocks \in [Device -> Worker \cup {NoWorker}]
        /\ deviceLocks' = [deviceLocks EXCEPT ![Lit(w)] = NoWorker]
    BY DEF Finish, TypeInv, TypeOK
  <2> QED BY ONLY <2>1
<1> QED BY <1>2, <1>3, <1>4, <1>5

LEMMA InitType == Init => TypeInv
<1> SUFFICES ASSUME Init PROVE TypeInv
  OBVIOUS
<1>1. quiet \in QuietSetting
  BY DEF Init, NotConfigured, QuietSetting
<1>2. lamp \in [Device -> Lamp] /\ before \in [Device -> Lamp]
  BY EnvironmentAssumption DEF Init
<1>3. TypeOK
  BY <1>1, <1>2, EnvironmentAssumption
     DEF Init, TypeOK, Stage, Phase, Never, NotConfigured, QuietSetting
<1> QED BY <1>3 DEF TypeInv, JobInv, Init

LEMMA EnvironmentType ==
  ASSUME TypeInv, Environment
  PROVE  TypeInv'
<1>1. CASE Tick
  BY <1>1, EnvironmentAssumption
     DEF TypeInv, TypeOK, JobInv, Tick, calls, workers, room, history
<1>2. ASSUME NEW q \in Settings, SetQuietHours(q)
      PROVE  TypeInv'
  <2>1. q \in QuietSetting
    BY EnvironmentAssumption
  <2> QED BY <1>2, <2>1
       DEF TypeInv, TypeOK, JobInv, SetQuietHours, calls, workers, room, history
<1>3. ASSUME NEW d \in Device, Woken(d)
      PROVE  TypeInv'
  BY <1>3 DEF TypeInv, TypeOK, JobInv, Woken, calls, workers, time, history
<1> QED BY <1>1, <1>2, <1>3 DEF Environment

LEMMA ArrivalType ==
  ASSUME TypeInv, NEW c \in Call, Arrival(c)
  PROVE  TypeInv'
<1>1. ASSUME NEW e \in Jobs, Enqueue(c, e.job, e.mapping)
      PROVE  TypeInv'
  <2>1. e.job \in EffectJob /\ e.mapping \in Mapping
    BY JobAssumption DEF MappedJob
  <2>2. TypeOK'
    BY <1>1, <2>1 DEF TypeInv, TypeOK, Enqueue, Stage, workers, time, room, history
  <2>3. JobInv'
    BY <1>1, <2>1, WorkerParts
       DEF TypeInv, TypeOK, JobInv, Enqueue, Stage, workers
  <2> QED BY <2>2, <2>3 DEF TypeInv
<1>2. ASSUME NEW j \in ManualJobs, EnqueueControl(c, j)
      PROVE  TypeInv'
  <2>1. j \in ManualJob
    BY JobAssumption
  <2>2. activity' \in [Call -> Seq(Record)]
    BY <1>2, AddType DEF EnqueueControl, TypeInv, Result
  <2>3. pc' \in [Worker -> Phase]
    BY <1>2, StartType DEF EnqueueControl, TypeInv
  <2>4. TypeOK'
    BY <1>2, <2>1, <2>2, <2>3
       DEF TypeInv, TypeOK, EnqueueControl, Stage, time, room, history
  <2>5. JobInv'
    BY <1>2, <2>1, WorkerParts
       DEF TypeInv, TypeOK, JobInv, EnqueueControl, Start, Stage
  <2> QED BY <2>4, <2>5 DEF TypeInv
<1> QED BY <1>1, <1>2 DEF Arrival

LEMMA CallStepsType ==
  ASSUME TypeInv, NEW c \in Call, CallSteps(c)
  PROVE  TypeInv'
<1>0. CASE ReadQuiet(c)
  <2>1. TypeOK'
    BY <1>0 DEF TypeInv, TypeOK, ReadQuiet, Stage, time, workers, room, history
  <2>2. JobInv'
    BY <1>0, WorkerParts DEF TypeInv, TypeOK, JobInv, ReadQuiet, workers
  <2> QED BY <2>1, <2>2 DEF TypeInv
<1>1. CASE EnqueueQuietCheck(c)
  <2>1. activity' \in [Call -> Seq(Record)]
    BY <1>1, AddType DEF EnqueueQuietCheck, TypeInv, TypeOK, Result
  <2>2. stage' \in [Call -> Stage]
    BY <1>1 DEF EnqueueQuietCheck, TypeInv, TypeOK, Stage
  <2>3. decided' \in [Call -> BOOLEAN]
    BY <1>1 DEF EnqueueQuietCheck, TypeInv, TypeOK, QuietByTheClock
  <2>4. TypeOK'
    BY <1>1, <2>1, <2>2, <2>3
       DEF TypeInv, TypeOK, EnqueueQuietCheck, NotConfigured, QuietSetting, time, workers,
           room
  <2>5. JobInv'
    BY <1>1, WorkerParts DEF TypeInv, TypeOK, JobInv, EnqueueQuietCheck, workers
  <2> QED BY <2>4, <2>5 DEF TypeInv
<1>2. CASE EnqueueCooldown(c)
  <2>1. activity' \in [Call -> Seq(Record)]
    BY <1>2, AddType DEF EnqueueCooldown, TypeInv, TypeOK, Result
  <2>2. work[c] \in EffectJob /\ via[c] \in Mapping /\ now \in Nat
    BY <1>2, EnvironmentAssumption DEF EnqueueCooldown, TypeInv, TypeOK, JobInv
  <2>3. work[c].cooldown \in Nat
    BY <2>2 DEF EffectJob
  <2>4. [call |-> c, mapping |-> via[c], at |-> now, cooldown |-> work[c].cooldown]
          \in [call : Call, mapping : Mapping, at : Nat, cooldown : Nat]
    BY <2>2, <2>3
  <2>5. /\ stage' \in [Call -> Stage]
        /\ lastRun' \in [Mapping -> Nat \cup {Never}]
        /\ accepted' \subseteq [call : Call, mapping : Mapping, at : Nat, cooldown : Nat]
    <3>1. CASE work[c].cooldown > 0 /\ CoolingDown(c)
      BY <1>2, <3>1 DEF EnqueueCooldown, TypeInv, TypeOK, Stage
    <3>2. CASE ~(work[c].cooldown > 0 /\ CoolingDown(c)) /\ work[c].cooldown > 0
      <4>1. /\ stage' = [stage EXCEPT ![c] = "start"]
            /\ lastRun' = [lastRun EXCEPT ![via[c]] = now]
            /\ accepted' = accepted \cup
                 {[call |-> c, mapping |-> via[c], at |-> now,
                   cooldown |-> work[c].cooldown]}
        BY <1>2, <3>2 DEF EnqueueCooldown
      <4> QED BY <4>1, <2>2, <2>4 DEF TypeInv, TypeOK, Stage
    <3>3. CASE ~(work[c].cooldown > 0)
      BY <1>2, <3>3 DEF EnqueueCooldown, TypeInv, TypeOK, Stage
    <3> QED BY <3>1, <3>2, <3>3
  <2>6. TypeOK'
    BY <1>2, <2>1, <2>5 DEF TypeInv, TypeOK, EnqueueCooldown, time, workers, room
  <2>7. JobInv'
    BY <1>2, <2>2, WorkerParts DEF TypeInv, TypeOK, JobInv, EnqueueCooldown, workers
  <2> QED BY <2>6, <2>7 DEF TypeInv
<1>3. CASE EnqueueStart(c)
  <2>1. activity' \in [Call -> Seq(Record)]
    BY <1>3, AddType DEF EnqueueStart, TypeInv, Result
  <2>2. pc' \in [Worker -> Phase]
    BY <1>3, StartType DEF EnqueueStart, TypeInv
  <2>3. TypeOK'
    BY <1>3, <2>1, <2>2 DEF TypeInv, TypeOK, EnqueueStart, Stage, time, room, history
  <2>4. JobInv'
    BY <1>3, WorkerParts DEF TypeInv, TypeOK, JobInv, EnqueueStart, Start
  <2> QED BY <2>3, <2>4 DEF TypeInv
<1> QED BY <1>0, <1>1, <1>2, <1>3 DEF CallSteps

LEMMA WorkerStepType ==
  ASSUME TypeInv, NEW w \in Worker, WorkerStep(w)
  PROVE  TypeInv'
<1> DEFINE c == Caller(w)
<1> DEFINE d == Lit(w)
<1> USE DEF Caller, Lit
<1>1. c \in Call /\ Listed(w) \in Entry /\ d \in Device
  BY WorkerParts
<1>2. pc[w] # "none" => work[c] \in EffectJob \cup ManualJob
  BY DEF TypeInv, JobInv
<1>3. lamp[d] \in Lamp /\ waking[d] \in BOOLEAN
  BY <1>1 DEF TypeInv, TypeOK
<1>4. CASE TakeLock(w)
  <2>1. Execute(work[c], Listed(w), NothingReported) \in Seq(Command)
    BY <1>4, <1>1, <1>2, ExecuteType, NothingReportedType DEF TakeLock
  <2>2. TypeOK'
    BY <1>4, <1>1, <1>3, <2>1
       DEF TypeInv, TypeOK, TakeLock, Phase, time, calls, room
  <2>3. JobInv'
    BY <1>4 DEF TypeInv, TypeOK, JobInv, TakeLock, calls
  <2> QED BY <2>2, <2>3 DEF TypeInv
<1>5. ASSUME NEW look \in {lamp[d]} \cup EarlierLooks, NEW fields \in FieldSets,
             Capture(w, look, fields)
      PROVE  TypeInv'
  <2>0. look \in Lamp
    BY <1>3, EnvironmentAssumption
  <2>1. Execute(work[c], Listed(w), Reported(look, fields)) \in Seq(Command)
    BY <1>5, <1>1, <1>2, <2>0, ExecuteType, ReportedType DEF Capture
  <2>2. slips' \in [Worker -> SUBSET Slip]
    BY <1>5 DEF TypeInv, TypeOK, Capture, Slips, Slip
  <2>3. TypeOK'
    BY <1>5, <1>1, <2>1, <2>2
       DEF TypeInv, TypeOK, Capture, Phase, time, calls, room
  <2>4. JobInv'
    BY <1>5 DEF TypeInv, TypeOK, JobInv, Capture, calls
  <2> QED BY <2>3, <2>4 DEF TypeInv
<1>6. CASE CaptureFails(w)
  <2>1. Execute(work[c], Listed(w), NothingReported) \in Seq(Command)
    BY <1>6, <1>1, <1>2, ExecuteType, NothingReportedType DEF CaptureFails
  <2>2. slips' \in [Worker -> SUBSET Slip]
    BY <1>6 DEF TypeInv, TypeOK, CaptureFails, Slips, Slip
  <2>3. TypeOK'
    BY <1>6, <1>1, <2>1, <2>2
       DEF TypeInv, TypeOK, CaptureFails, Phase, time, calls, room
  <2>4. JobInv'
    BY <1>6 DEF TypeInv, TypeOK, JobInv, CaptureFails, calls
  <2> QED BY <2>3, <2>4 DEF TypeInv
<1>7. ASSUME NEW ok \in BOOLEAN, NEW landed \in BOOLEAN, SendCommand(w, ok, landed)
      PROVE  TypeInv'
  <2> DEFINE cmd == Head(todo[w])
  <2>1. todo[w] \in Seq(Command) /\ todo[w] # <<>>
    BY <1>7 DEF TypeInv, TypeOK, SendCommand
  <2>2. cmd \in Command /\ Tail(todo[w]) \in Seq(Command)
    BY <2>1
  <2>3. Apply(cmd, lamp[d], waking[d]) \in Lamp
    BY <2>2, <1>3, ApplyType
  <2>4. lamp' \in [Device -> Lamp] /\ waking' \in [Device -> BOOLEAN]
    <3>1. CASE landed
      <4>1. lamp' = [lamp EXCEPT ![d] = Apply(cmd, lamp[d], waking[d])]
        BY <1>7, <1>1, <3>1 DEF SendCommand, TypeInv, TypeOK
      <4>2. \E x \in BOOLEAN : waking' = [waking EXCEPT ![d] = x]
        <5> DEFINE x == IF cmd.op = "power"
                          THEN cmd.v = 1 /\ (waking[d] \/ Wakes(cmd, lamp[d]))
                          ELSE waking[d]
        <5>1. x \in BOOLEAN
          BY <1>3 DEF Wakes
        <5>2. waking' = [waking EXCEPT ![d] = x]
          BY <1>7, <1>1, <3>1 DEF SendCommand, TypeInv, TypeOK
        <5> QED BY <5>1, <5>2
      <4> QED BY <4>1, <4>2, <2>3, <1>1 DEF TypeInv, TypeOK
    <3>2. CASE ~landed
      BY <1>7, <3>2 DEF SendCommand, TypeInv, TypeOK, room
    <3> QED BY <3>1, <3>2
  <2>5. turns' \in [Device -> Seq(Worker)]
    <3>1. Append(turns[d], w) \in Seq(Worker)
      BY <1>1 DEF TypeInv, TypeOK
    <3> QED BY <1>7, <1>1, <3>1 DEF SendCommand, TypeInv, TypeOK
  <2>6. CASE ok \/ ~cmd.must
    <3>1. /\ todo' = [todo EXCEPT ![w] = Tail(@)]
          /\ UNCHANGED <<pc, deviceLocks, activity>>
      BY <1>7, <2>6 DEF SendCommand
    <3>2. slips' \in [Worker -> SUBSET Slip]
      <4>1. \E what \in SUBSET Slip : Slips(w, what)
        <5>1. cmd.must \in BOOLEAN
          BY <2>2 DEF Command
        <5>2. CASE cmd.must
          BY <1>7, <2>6, <5>2 DEF SendCommand, Slip
        <5>3. CASE ~cmd.must /\ ~ok
          BY <1>7, <2>6, <5>3 DEF SendCommand, Slip
        <5>4. CASE ~cmd.must /\ ok
          BY <1>7, <2>6, <5>4 DEF SendCommand, Slip
        <5> QED BY <5>1, <5>2, <5>3, <5>4
      <4> QED BY <4>1 DEF Slips, TypeInv, TypeOK
    <3>3. TypeOK'
      BY <1>7, <2>2, <2>4, <2>5, <3>1, <3>2
         DEF TypeInv, TypeOK, SendCommand, time, calls
    <3>4. JobInv'
      BY <1>7, <3>1 DEF TypeInv, JobInv, SendCommand, calls
    <3> QED BY <3>3, <3>4 DEF TypeInv
  <2>7. CASE ~(ok \/ ~cmd.must)
    <3>1. Finish(w, "effect failed") /\ UNCHANGED slips
      BY <1>7, <2>7 DEF SendCommand
    <3>2. TypeOK'
      BY <1>7, <2>4, <2>5, <3>1, FinishType
         DEF TypeInv, TypeOK, SendCommand, time, calls, Result
    <3>3. JobInv'
      BY <1>7, <3>1 DEF TypeInv, TypeOK, JobInv, SendCommand, calls, Finish
    <3> QED BY <3>2, <3>3 DEF TypeInv
  <2> QED BY <2>6, <2>7
<1>8. CASE SleepCtx(w)
  <2>1. Tail(todo[w]) \in Seq(Command)
    BY <1>8 DEF SleepCtx, Sleeping, TypeInv, TypeOK
  <2>2. TypeOK'
    BY <1>8, <1>1, <2>1 DEF TypeInv, TypeOK, SleepCtx, time, calls, history
  <2>3. JobInv'
    BY <1>8 DEF TypeInv, JobInv, SleepCtx, calls
  <2> QED BY <2>2, <2>3 DEF TypeInv
<1>9. ASSUME NEW r \in Result, Finish(w, r), pc[w] # "none",
             UNCHANGED <<time, lastRun, calls, stop, room, history>>
      PROVE  TypeInv'
  <2>1. TypeOK'
    BY <1>9, FinishType DEF TypeInv, TypeOK, time, calls, room, history
  <2>2. JobInv'
    BY <1>9 DEF TypeInv, TypeOK, JobInv, calls, Finish
  <2> QED BY <2>1, <2>2 DEF TypeInv
<1>10. CASE SleepCanceled(w)
  BY <1>10, <1>9 DEF SleepCanceled, Sleeping, Result
<1>11. CASE SleepDeadline(w)
  BY <1>11, <1>9 DEF SleepDeadline, Sleeping, Result
<1>12. CASE RunEnds(w)
  BY <1>12, <1>9 DEF RunEnds, Result
<1>13. CASE VerifyFails(w)
  BY <1>13, <1>9 DEF VerifyFails, Result
<1> QED BY <1>4, <1>5, <1>6, <1>7, <1>8, <1>10, <1>11, <1>12, <1>13 DEF WorkerStep

LEMMA StopType ==
  ASSUME TypeInv, StopCancel \/ StopDrained \/ StopAbandons
  PROVE  TypeInv'
  BY DEF TypeInv, TypeOK, JobInv, StopCancel, StopDrained, StopAbandons, time, calls,
         workers, room, history

LEMMA StutterType ==
  ASSUME TypeInv, UNCHANGED vars
  PROVE  TypeInv'
  BY DEF TypeInv, TypeOK, JobInv, vars, time, calls, workers, room, history

LEMMA TypeStep == TypeInv /\ [Next]_vars => TypeInv'
  BY EnvironmentType, ArrivalType, CallStepsType, WorkerStepType, StopType, StutterType
     DEF Next

LEMMA TypeInvariance == Spec => []TypeInv
<1>1. Init => TypeInv
  BY InitType
<1>2. TypeInv /\ [Next]_vars => TypeInv'
  BY TypeStep
<1> QED BY <1>1, <1>2, PTL DEF Spec

(***************************************************************************)
(* Every variable of the engine keeps its type, for every instance: in      *)
(* particular a worker's remaining plan is always a sequence of commands    *)
(* with real values (restore never sends a field the device did not         *)
(* report) and every lamp keeps legal settings.                             *)
(***************************************************************************)
THEOREM TypeCorrect == Spec => []TypeOK
<1>1. TypeInv => TypeOK
  BY DEF TypeInv
<1> QED BY <1>1, TypeInvariance, PTL

-----------------------------------------------------------------------------
(* Serialization. *)

(***************************************************************************)
(* Why commands cannot interleave.  A worker past its lock holds the mutex  *)
(* of its lamp; a worker that has not yet begun to send is in nobody's      *)
(* turns; a worker that is sending is in them at most once, at the end.     *)
(***************************************************************************)
Absent(w) == \A i \in 1 .. Len(turns[Lit(w)]) : turns[Lit(w)][i] # w
AtMostLast(w) ==
  \A i \in 1 .. Len(turns[Lit(w)]) : turns[Lit(w)][i] = w => i = Len(turns[Lit(w)])

SerialInv ==
  /\ \A w \in Worker : pc[w] \in {"capture", "run"} => deviceLocks[Lit(w)] = w
  /\ \A w \in Worker : pc[w] \in {"none", "lock", "capture"} => Absent(w)
  /\ \A w \in Worker : pc[w] = "run" => AtMostLast(w)
  /\ NoInterleaving

LEMMA InitSerial == Init => SerialInv
  BY WorkerParts DEF Init, SerialInv, Absent, AtMostLast, NoInterleaving

\* Steps that leave the mutexes, the turns and the phases of running workers
\* alone.
LEMMA QuietStepSerial ==
  ASSUME TypeInv, SerialInv, UNCHANGED <<deviceLocks, turns>>,
         \A w \in Worker : pc'[w] = pc[w] \/ (pc[w] = "none" /\ pc'[w] = "lock")
  PROVE  SerialInv'
  BY WorkerParts DEF SerialInv, Absent, AtMostLast, NoInterleaving

\* A worker that has no lock yet is sent for: its call was not started before.
LEMMA StartSerial ==
  ASSUME TypeInv, NEW c \in Call, NEW devices, stage[c] # "returned", Start(c, devices)
  PROVE  \A w \in Worker : pc'[w] = pc[w] \/ (pc[w] = "none" /\ pc'[w] = "lock")
  BY DEF Start, TypeInv, JobInv

LEMMA OtherStepsSerial ==
  ASSUME TypeInv, SerialInv,
         \/ Environment
         \/ \E c \in Call : Arrival(c) \/ CallSteps(c)
         \/ StopCancel \/ StopDrained \/ StopAbandons
  PROVE  SerialInv'
<1>1. CASE Environment
  BY <1>1, QuietStepSerial
     DEF Environment, Tick, SetQuietHours, Woken, workers, history
<1>2. ASSUME NEW c \in Call, Arrival(c)
      PROVE  SerialInv'
  <2>1. ASSUME NEW e \in Jobs, Enqueue(c, e.job, e.mapping)
        PROVE  SerialInv'
    BY <2>1, QuietStepSerial DEF Enqueue, workers, history
  <2>2. ASSUME NEW j \in ManualJobs, EnqueueControl(c, j)
        PROVE  SerialInv'
    BY <2>2, QuietStepSerial, StartSerial DEF EnqueueControl, history
  <2> QED BY <1>2, <2>1, <2>2 DEF Arrival
<1>3. ASSUME NEW c \in Call, CallSteps(c)
      PROVE  SerialInv'
  <2>0. CASE ReadQuiet(c)
    BY <2>0, QuietStepSerial DEF ReadQuiet, workers, history
  <2>1. CASE EnqueueQuietCheck(c)
    BY <2>1, QuietStepSerial DEF EnqueueQuietCheck, workers
  <2>2. CASE EnqueueCooldown(c)
    BY <2>2, QuietStepSerial DEF EnqueueCooldown, workers
  <2>3. CASE EnqueueStart(c)
    BY <2>3, QuietStepSerial, StartSerial DEF EnqueueStart, history
  <2> QED BY <1>3, <2>0, <2>1, <2>2, <2>3 DEF CallSteps
<1>4. CASE StopCancel \/ StopDrained \/ StopAbandons
  BY <1>4, QuietStepSerial DEF StopCancel, StopDrained, StopAbandons, workers, history
<1> QED BY <1>1, <1>2, <1>3, <1>4

LEMMA TakeLockSerial ==
  ASSUME TypeInv, SerialInv, NEW w \in Worker, TakeLock(w)
  PROVE  SerialInv'
<1>1. /\ pc[w] = "lock" /\ deviceLocks[Lit(w)] = NoWorker
      /\ deviceLocks' = [deviceLocks EXCEPT ![Lit(w)] = w]
      /\ pc'[w] \in {"capture", "run"}
      /\ \A v \in Worker : v # w => pc'[v] = pc[v]
      /\ turns' = turns
  BY DEF TakeLock, TypeInv, TypeOK
<1>2. Absent(w)
  BY <1>1 DEF SerialInv
<1>3. ASSUME NEW v \in Worker, pc'[v] \in {"capture", "run"}
      PROVE  deviceLocks'[Lit(v)] = v
  <2>1. CASE v = w
    BY <1>1, <2>1, WorkerParts DEF TypeInv, TypeOK
  <2>2. CASE v # w
    <3>1. deviceLocks[Lit(v)] = v
      BY <1>1, <1>3, <2>2 DEF SerialInv
    <3>2. v # NoWorker
      BY NoWorkerAssumption DEF Worker
    <3>3. Lit(v) # Lit(w)
      BY <1>1, <3>1, <3>2
    <3> QED BY <1>1, <3>1, <3>3, WorkerParts DEF TypeInv, TypeOK
  <2> QED BY <2>1, <2>2
<1>4. \A v \in Worker : pc'[v] \in {"none", "lock", "capture"} => Absent(v)'
  BY <1>1, <1>2 DEF SerialInv, Absent
<1>5. \A v \in Worker : pc'[v] = "run" => AtMostLast(v)'
  BY <1>1, <1>2 DEF SerialInv, Absent, AtMostLast
<1> QED BY <1>1, <1>3, <1>4, <1>5 DEF SerialInv, NoInterleaving

LEMMA CaptureSerial ==
  ASSUME TypeInv, SerialInv, NEW w \in Worker,
         CaptureFails(w) \/ \E look, fields : Capture(w, look, fields)
  PROVE  SerialInv'
<1>1. /\ pc[w] = "capture" /\ pc' = [pc EXCEPT ![w] = "run"]
      /\ UNCHANGED <<deviceLocks, turns>>
  BY DEF Capture, CaptureFails
<1>2. Absent(w)
  BY <1>1 DEF SerialInv
<1> QED BY <1>1, <1>2
        DEF TypeInv, TypeOK, SerialInv, Absent, AtMostLast, NoInterleaving

\* Sending puts the worker at the end of its lamp's turns; only the holder of
\* the mutex sends.
LEMMA TurnsSerial ==
  ASSUME TypeInv, SerialInv, NEW w \in Worker, pc[w] = "run",
         turns' = [turns EXCEPT ![Lit(w)] =
           IF @ # <<>> /\ @[Len(@)] = w THEN @ ELSE Append(@, w)]
  PROVE  /\ NoInterleaving'
         /\ AtMostLast(w)'
         /\ \A v \in Worker : v # w /\ Absent(v) => Absent(v)'
         /\ \A v \in Worker : v # w /\ pc[v] = "run" => (AtMostLast(v) => AtMostLast(v)')
<1> DEFINE d == Lit(w)
<1> DEFINE t == turns[d]
<1>1. d \in Device /\ t \in Seq(Worker)
  BY WorkerParts DEF TypeInv, TypeOK
<1>2. AtMostLast(w) /\ deviceLocks[d] = w
  BY DEF SerialInv
<1>3. ASSUME NEW v \in Worker, v # w, pc[v] = "run"
      PROVE  Lit(v) # d
  <2>1. deviceLocks[Lit(v)] = v
    BY <1>3 DEF SerialInv
  <2> QED BY <1>2, <1>3, <2>1
<1>4. \A x \in Device : x # d => turns'[x] = turns[x]
  BY <1>1 DEF TypeInv, TypeOK
<1>5. CASE t # <<>> /\ t[Len(t)] = w
  <2>1. turns' = turns
    BY <1>1, <1>5 DEF TypeInv, TypeOK
  <2> QED BY <1>2, <2>1 DEF SerialInv, NoInterleaving, Absent, AtMostLast
<1>6. CASE ~(t # <<>> /\ t[Len(t)] = w)
  <2>1. turns'[d] = Append(t, w)
    BY <1>1, <1>6 DEF TypeInv, TypeOK
  <2>2. \A i \in 1 .. Len(t) : t[i] # w
    <3> SUFFICES ASSUME NEW i \in 1 .. Len(t), t[i] = w PROVE FALSE
      OBVIOUS
    <3>1. i = Len(t)
      BY <1>2 DEF AtMostLast
    <3> QED BY <1>1, <1>6, <3>1
  <2>3. /\ Len(Append(t, w)) = Len(t) + 1 /\ Len(t) \in Nat
        /\ \A i \in 1 .. Len(t) : Append(t, w)[i] = t[i]
        /\ Append(t, w)[Len(t) + 1] = w
    BY <1>1
  <2>4. NoInterleaving'
    <3> SUFFICES ASSUME NEW x \in Device, NEW i \in 1 .. Len(turns'[x]),
                        NEW k \in 1 .. Len(turns'[x]), turns'[x][i] = turns'[x][k]
                 PROVE  i = k
      BY DEF NoInterleaving
    <3>1. CASE x # d
      BY <1>4, <3>1 DEF SerialInv, NoInterleaving
    <3>2. CASE x = d
      <4>1. CASE i \in 1 .. Len(t) /\ k \in 1 .. Len(t)
        BY <1>1, <2>1, <2>3, <3>2, <4>1 DEF SerialInv, NoInterleaving
      <4>2. CASE i = Len(t) + 1 \/ k = Len(t) + 1
        BY <2>1, <2>2, <2>3, <3>2, <4>2
      <4> QED BY <2>1, <2>3, <3>2, <4>1, <4>2
    <3> QED BY <3>1, <3>2
  <2>5. AtMostLast(w)'
    BY <2>1, <2>2, <2>3 DEF AtMostLast
  <2>6. ASSUME NEW v \in Worker, v # w, Absent(v)
        PROVE  Absent(v)'
    <3>1. CASE Lit(v) = d
      BY <2>1, <2>3, <2>6, <3>1 DEF Absent
    <3>2. CASE Lit(v) # d
      BY <1>4, <2>6, <3>2, WorkerParts DEF Absent
    <3> QED BY <3>1, <3>2
  <2>7. ASSUME NEW v \in Worker, v # w, pc[v] = "run", AtMostLast(v)
        PROVE  AtMostLast(v)'
    BY <1>3, <1>4, <2>7, WorkerParts DEF AtMostLast
  <2> QED BY <2>4, <2>5, <2>6, <2>7
<1> QED BY <1>5, <1>6

LEMMA FinishSerial ==
  ASSUME TypeInv, SerialInv, NEW w \in Worker, NEW r, pc[w] = "run", Finish(w, r),
         NoInterleaving',
         \A v \in Worker : v # w /\ Absent(v) => Absent(v)',
         \A v \in Worker : v # w /\ pc[v] = "run" => (AtMostLast(v) => AtMostLast(v)')
  PROVE  SerialInv'
<1>1. /\ pc' = [pc EXCEPT ![w] = IF r = "effect ok" THEN "ok" ELSE "failed"]
      /\ deviceLocks' = [deviceLocks EXCEPT ![Lit(w)] = NoWorker]
  BY DEF Finish
<1>2. deviceLocks[Lit(w)] = w
  BY DEF SerialInv
<1>3. ASSUME NEW v \in Worker, pc'[v] \in {"capture", "run"}
      PROVE  deviceLocks'[Lit(v)] = v
  <2>1. v # w /\ pc[v] \in {"capture", "run"}
    BY <1>1, <1>3 DEF TypeInv, TypeOK
  <2>2. deviceLocks[Lit(v)] = v
    BY <2>1 DEF SerialInv
  <2>3. Lit(v) # Lit(w)
    BY <1>2, <2>1, <2>2
  <2> QED BY <1>1, <2>2, <2>3, WorkerParts DEF TypeInv, TypeOK
<1>4. \A v \in Worker : v = w => pc'[v] \in {"ok", "failed"}
  BY <1>1 DEF TypeInv, TypeOK
<1>5. \A v \in Worker : v # w => pc'[v] = pc[v]
  BY <1>1 DEF TypeInv, TypeOK
<1> QED BY <1>3, <1>4, <1>5 DEF SerialInv

LEMMA SendCommandSerial ==
  ASSUME TypeInv, SerialInv, NEW w \in Worker, NEW ok \in BOOLEAN, NEW landed \in BOOLEAN,
         SendCommand(w, ok, landed)
  PROVE  SerialInv'
<1>1. /\ pc[w] = "run"
      /\ turns' = [turns EXCEPT ![Lit(w)] =
           IF @ # <<>> /\ @[Len(@)] = w THEN @ ELSE Append(@, w)]
  BY DEF SendCommand
<1>2. /\ NoInterleaving'
      /\ AtMostLast(w)'
      /\ \A v \in Worker : v # w /\ Absent(v) => Absent(v)'
      /\ \A v \in Worker : v # w /\ pc[v] = "run" => (AtMostLast(v) => AtMostLast(v)')
  BY <1>1, TurnsSerial
<1>3. CASE UNCHANGED <<pc, deviceLocks>>
  BY <1>1, <1>2, <1>3 DEF SerialInv
<1>4. CASE Finish(w, "effect failed")
  BY <1>1, <1>2, <1>4, FinishSerial
<1> QED BY <1>3, <1>4 DEF SendCommand

LEMMA SerialStep ==
  ASSUME TypeInv, SerialInv, [Next]_vars
  PROVE  SerialInv'
<1>1. ASSUME NEW w \in Worker, WorkerStep(w)
      PROVE  SerialInv'
  <2>1. CASE TakeLock(w)
    BY <2>1, TakeLockSerial
  <2>2. CASE CaptureFails(w) \/ \E look, fields : Capture(w, look, fields)
    BY <2>2, CaptureSerial
  <2>3. CASE \E ok, landed \in BOOLEAN : SendCommand(w, ok, landed)
    BY <2>3, SendCommandSerial
  <2>4. CASE SleepCtx(w)
    BY <2>4, QuietStepSerial DEF SleepCtx, history
  <2>5. ASSUME NEW r, Finish(w, r), pc[w] = "run", UNCHANGED turns
        PROVE  SerialInv'
    <3>1. /\ NoInterleaving'
          /\ \A v \in Worker : Absent(v) <=> Absent(v)'
          /\ \A v \in Worker : AtMostLast(v) <=> AtMostLast(v)'
      BY <2>5 DEF SerialInv, NoInterleaving, Absent, AtMostLast
    <3> QED BY <2>5, <3>1, FinishSerial
  <2>6. CASE SleepCanceled(w)
    BY <2>5, <2>6 DEF SleepCanceled, Sleeping, history
  <2>7. CASE SleepDeadline(w)
    BY <2>5, <2>7 DEF SleepDeadline, Sleeping, history
  <2>8. CASE RunEnds(w)
    BY <2>5, <2>8 DEF RunEnds, history
  <2>9. CASE VerifyFails(w)
    BY <2>5, <2>9 DEF VerifyFails, history
  <2> QED BY <1>1, <2>1, <2>2, <2>3, <2>4, <2>6, <2>7, <2>8, <2>9 DEF WorkerStep
<1>2. CASE UNCHANGED vars
  BY <1>2, QuietStepSerial DEF vars, workers, history
<1> QED BY <1>1, <1>2, OtherStepsSerial DEF Next

(***************************************************************************)
(* Execution rule 2 for any number of calls, devices and jobs: effects and  *)
(* manual writes on one lamp never interleave their commands.               *)
(***************************************************************************)
THEOREM CommandsNeverInterleave == Spec => []NoInterleaving
<1>1. Init => TypeInv /\ SerialInv
  BY InitType, InitSerial
<1>2. TypeInv /\ SerialInv /\ [Next]_vars => TypeInv' /\ SerialInv'
  BY TypeStep, SerialStep
<1>3. SerialInv => NoInterleaving
  BY DEF SerialInv
<1> QED BY <1>1, <1>2, <1>3, PTL DEF Spec

-----------------------------------------------------------------------------
(* Cooldowns. *)

(***************************************************************************)
(* lastRun is the latest acceptance of a mapping and never lies ahead of    *)
(* the clock, so a call that passes the test is a cooldown away from every  *)
(* acceptance, not only from the last.                                      *)
(***************************************************************************)
CooldownInv ==
  /\ \A m \in Mapping : lastRun[m] # Never => lastRun[m] <= now
  /\ \A a \in accepted : lastRun[a.mapping] # Never /\ a.at <= lastRun[a.mapping]
  /\ CooldownCollapses

LEMMA CooldownStep ==
  ASSUME TypeInv, CooldownInv, [Next]_vars
  PROVE  CooldownInv'
<1>1. ASSUME UNCHANGED <<lastRun, accepted>>, now' = now \/ now' = now + 1
      PROVE  CooldownInv'
  <2>1. now \in Nat /\ lastRun \in [Mapping -> Nat \cup {Never}]
    BY EnvironmentAssumption DEF TypeInv, TypeOK
  <2> QED BY <1>1, <2>1 DEF CooldownInv, CooldownCollapses, Never
<1>2. ASSUME NEW c \in Call, EnqueueCooldown(c)
      PROVE  CooldownInv'
  <2>1. CASE work[c].cooldown > 0 /\ ~CoolingDown(c)
    <3> DEFINE new == [call |-> c, mapping |-> via[c], at |-> now,
                       cooldown |-> work[c].cooldown]
    <3>1. /\ lastRun' = [lastRun EXCEPT ![via[c]] = now]
          /\ accepted' = accepted \cup {new}
          /\ now' = now
      BY <1>2, <2>1 DEF EnqueueCooldown, time
    <3>2. /\ now \in Nat /\ via[c] \in Mapping /\ work[c].cooldown \in Nat
          /\ lastRun \in [Mapping -> Nat \cup {Never}]
          /\ \A a \in accepted : a.at \in Nat /\ a.mapping \in Mapping /\ a.cooldown \in Nat
      BY <1>2, EnvironmentAssumption
         DEF EnqueueCooldown, TypeInv, TypeOK, JobInv, EffectJob
    <3>3. ASSUME NEW a \in accepted, a.mapping = via[c]
          PROVE  now - a.at >= work[c].cooldown /\ a.at <= now
      <4>1. lastRun[via[c]] # Never /\ a.at <= lastRun[via[c]] /\ lastRun[via[c]] <= now
        BY <3>2, <3>3 DEF CooldownInv
      <4>2. ~(now - lastRun[via[c]] < work[c].cooldown)
        BY <2>1, <4>1 DEF CoolingDown
      <4>3. lastRun[via[c]] \in Nat
        BY <3>2, <4>1
      <4> QED BY <3>2, <4>1, <4>2, <4>3
    <3>4. CooldownCollapses'
      <4> SUFFICES ASSUME NEW a \in accepted', NEW b \in accepted', a # b,
                          a.mapping = b.mapping
                   PROVE  b.at - a.at >= b.cooldown \/ a.at - b.at >= a.cooldown
        BY DEF CooldownCollapses
      <4>1. CASE a \in accepted /\ b \in accepted
        BY <4>1 DEF CooldownInv, CooldownCollapses
      <4>2. CASE a \in accepted /\ b = new
        BY <3>3, <4>2
      <4>3. CASE a = new /\ b \in accepted
        BY <3>3, <4>3
      <4> QED BY <3>1, <4>1, <4>2, <4>3
    <3>5. \A m \in Mapping : lastRun'[m] # Never => lastRun'[m] <= now'
      BY <3>1, <3>2 DEF CooldownInv
    <3>6. \A a \in accepted' : lastRun'[a.mapping] # Never /\ a.at <= lastRun'[a.mapping]
      <4> SUFFICES ASSUME NEW a \in accepted'
                   PROVE  lastRun'[a.mapping] # Never /\ a.at <= lastRun'[a.mapping]
        OBVIOUS
      <4>1. CASE a = new
        BY <3>1, <3>2, <4>1 DEF Never
      <4>2. CASE a \in accepted /\ a.mapping = via[c]
        BY <3>1, <3>2, <3>3, <4>2 DEF Never
      <4>3. CASE a \in accepted /\ a.mapping # via[c]
        BY <3>1, <3>2, <4>3 DEF CooldownInv
      <4> QED BY <3>1, <4>1, <4>2, <4>3
    <3> QED BY <3>4, <3>5, <3>6 DEF CooldownInv
  <2>2. CASE ~(work[c].cooldown > 0 /\ ~CoolingDown(c))
    BY <1>1, <1>2, <2>2 DEF EnqueueCooldown, time
  <2> QED BY <2>1, <2>2
<1>3. CASE Environment
  BY <1>1, <1>3 DEF Environment, Tick, SetQuietHours, Woken, history, time
<1>4. ASSUME NEW c \in Call, Arrival(c)
      PROVE  CooldownInv'
  BY <1>1, <1>4 DEF Arrival, Enqueue, EnqueueControl, history, time
<1>5. ASSUME NEW c \in Call, ReadQuiet(c) \/ EnqueueQuietCheck(c) \/ EnqueueStart(c)
      PROVE  CooldownInv'
  BY <1>1, <1>5 DEF ReadQuiet, EnqueueQuietCheck, EnqueueStart, history, time
<1>6. ASSUME NEW w \in Worker, WorkerStep(w)
      PROVE  CooldownInv'
  <2>1. UNCHANGED <<lastRun, accepted, now>>
    BY <1>6 DEF WorkerStep, TakeLock, Capture, CaptureFails, SendCommand, SleepCtx,
                SleepCanceled, SleepDeadline, RunEnds, VerifyFails, history, time
  <2> QED BY <1>1, <2>1
<1>7. CASE StopCancel \/ StopDrained \/ StopAbandons
  BY <1>1, <1>7 DEF StopCancel, StopDrained, StopAbandons, history, time
<1>8. CASE UNCHANGED vars
  BY <1>1, <1>8 DEF vars, history, time
<1> QED BY <1>2, <1>3, <1>4, <1>5, <1>6, <1>7, <1>8 DEF Next, CallSteps

(***************************************************************************)
(* Execution rule 3: whatever the number of concurrent calls, two accepted  *)
(* runs of one mapping are a cooldown apart.                                *)
(***************************************************************************)
THEOREM StormsCollapse == Spec => []CooldownCollapses
<1>1. Init => CooldownInv
  BY DEF Init, CooldownInv, CooldownCollapses
<1>2. TypeInv /\ CooldownInv /\ [Next]_vars => CooldownInv'
  BY CooldownStep
<1>3. CooldownInv => CooldownCollapses
  BY DEF CooldownInv
<1> QED BY <1>1, <1>2, <1>3, TypeInvariance, PTL DEF Spec

-----------------------------------------------------------------------------
(* The activity log. *)

(***************************************************************************)
(* A call has no record until it returns, and its first is job-level.  A    *)
(* worker writes one record, of its own lamp, in the step that ends it, so  *)
(* the ok and the failed records of a lamp tally with the workers of the    *)
(* call that ended so on it.                                                *)
(***************************************************************************)
Consistent(log) ==
  \A i \in 1 .. Len(log) :
    /\ (log[i].device = JobLevel) <=> (i = 1)
    /\ i > 1 => /\ log[1].result = "queued"
                /\ log[i].result \in Failure \cup {"effect ok"}

\* Where a log names a device with one of the results: Outcomes, of any log.
Naming(log, d, results) ==
  {i \in 1 .. Len(log) : log[i].device = d /\ log[i].result \in results}

Ended(c, d, phase) == {e \in Entry : e[1] = d /\ pc[<<c, e>>] = phase}

Matched(S, T) == IsFiniteSet(S) /\ IsFiniteSet(T) /\ Cardinality(S) = Cardinality(T)

Tallies(c, d) ==
  /\ Matched(Naming(activity[c], d, {"effect ok"}), Ended(c, d, "ok"))
  /\ Matched(Naming(activity[c], d, Failure), Ended(c, d, "failed"))

LogInv ==
  /\ \A c \in Call : (stage[c] = "returned") <=> (activity[c] # <<>>)
  /\ \A c \in Call : Consistent(activity[c])
  /\ \A w \in Worker : pc[w] # "none" =>
       activity[Caller(w)][1].result = "queued" /\ Listed(w) \in work[Caller(w)].devices
  /\ \A c \in Call, d \in Device : Tallies(c, d)

LEMMA Matches ==
  /\ Matched({}, {})
  /\ \A S, T, x, y : Matched(S, T) /\ x \notin S /\ y \notin T =>
                       Matched(S \cup {x}, T \cup {y})
<1>1. Matched({}, {})
  BY FS_EmptySet DEF Matched
<1>2. ASSUME NEW S, NEW T, NEW x, NEW y, Matched(S, T), x \notin S, y \notin T
      PROVE  Matched(S \cup {x}, T \cup {y})
  <2>1. /\ IsFiniteSet(S \cup {x}) /\ Cardinality(S \cup {x}) = Cardinality(S) + 1
        /\ IsFiniteSet(T \cup {y}) /\ Cardinality(T \cup {y}) = Cardinality(T) + 1
    BY <1>2, FS_AddElement DEF Matched
  <2> QED BY <1>2, <2>1 DEF Matched
<1> QED BY <1>1, <1>2

LEMMA MatchedWithOneMore ==
  ASSUME NEW S, NEW T, NEW x, NEW y, NEW S2, NEW T2, Matched(S, T), x \notin S, y \notin T,
         S2 = S \cup {x}, T2 = T \cup {y}
  PROVE  Matched(S2, T2)
  BY Matches

LEMMA EmptyLog ==
  /\ Consistent(<<>>)
  /\ \A d, results : Naming(<<>>, d, results) = {}
  BY DEF Consistent, Naming

LEMMA EntryOfWorker ==
  ASSUME NEW c \in Call, NEW e \in Entry
  PROVE  /\ <<c, e>> \in Worker /\ Caller(<<c, e>>) = c /\ Listed(<<c, e>>) = e
         /\ Lit(<<c, e>>) = e[1] /\ e[1] \in Device
  BY DEF Worker, Caller, Listed, Lit, Entry

LEMMA InitLog == Init => LogInv
<1> SUFFICES ASSUME Init PROVE LogInv
  OBVIOUS
<1>1. ASSUME NEW c \in Call, NEW d \in Device
      PROVE  Tallies(c, d)
  <2>1. \A phase \in {"ok", "failed"} : Ended(c, d, phase) = {}
    BY EntryOfWorker DEF Init, Ended
  <2>2. activity[c] = <<>>
    BY DEF Init
  <2> QED BY <2>1, <2>2, EmptyLog, Matches DEF Tallies
<1>2. \A c \in Call : Consistent(activity[c])
  BY EmptyLog DEF Init
<1> QED BY <1>1, <1>2, WorkerParts DEF Init, LogInv

\* A tally stands while the log's outcomes and the ended workers do.
LEMMA SameTally ==
  ASSUME NEW c \in Call, NEW d \in Device, Tallies(c, d),
         \A results : Naming(activity'[c], d, results) = Naming(activity[c], d, results),
         \A w \in Worker : Caller(w) = c /\ Lit(w) = d =>
           \A phase \in {"ok", "failed"} : (pc'[w] = phase) <=> (pc[w] = phase)
  PROVE  Tallies(c, d)'
<1>1. \A phase \in {"ok", "failed"} : Ended(c, d, phase)' = Ended(c, d, phase)
  BY EntryOfWorker DEF Ended
<1> QED BY <1>1 DEF Tallies

\* Steps that add no record: the phases of workers move, none starts or ends.
LEMMA NoRecordStep ==
  ASSUME TypeInv, LogInv, UNCHANGED activity,
         \A c \in Call : stage'[c] = "returned" <=> stage[c] = "returned",
         \A c \in Call : stage[c] # "idle" => work'[c] = work[c],
         \A w \in Worker : \A phase \in {"none", "ok", "failed"} :
           (pc'[w] = phase) <=> (pc[w] = phase)
  PROVE  LogInv'
<1>1. \A c \in Call : Consistent(activity'[c])
  BY DEF LogInv
<1>2. ASSUME NEW w \in Worker, pc'[w] # "none"
      PROVE  activity'[Caller(w)][1].result = "queued" /\ Listed(w) \in work'[Caller(w)].devices
  <2>1. pc[w] # "none"
    BY <1>2
  <2>2. stage[Caller(w)] = "returned"
    BY <2>1 DEF TypeInv, JobInv
  <2>3. work'[Caller(w)] = work[Caller(w)]
    BY <2>2, WorkerParts
  <2> QED BY <2>1, <2>3 DEF LogInv
<1>3. \A c \in Call, d \in Device : Tallies(c, d)'
  BY SameTally DEF LogInv
<1> QED BY <1>1, <1>2, <1>3 DEF LogInv

LEMMA OneRecord ==
  ASSUME NEW r \in Record, r.device = JobLevel
  PROVE  /\ Consistent(<<r>>)
         /\ \A d \in Device : \A results : Naming(<<r>>, d, results) = {}
         /\ <<r>> # <<>> /\ <<r>>[1] = r
<1>1. Len(<<r>>) = 1 /\ <<r>>[1] = r
  OBVIOUS
<1>2. \A i \in 1 .. 1 : i = 1 /\ ~(i > 1)
  OBVIOUS
<1>3. \A i \in 1 .. Len(<<r>>) : <<r>>[i] = r /\ i = 1 /\ ~(i > 1)
  BY ONLY <1>1, <1>2
<1>4. Consistent(<<r>>)
  BY <1>3 DEF Consistent
<1>5. ASSUME NEW d \in Device, NEW results
      PROVE  Naming(<<r>>, d, results) = {}
  <2>1. \A i \in 1 .. Len(<<r>>) : <<r>>[i].device # d
    BY <1>3, JobLevelAssumption
  <2> QED BY <2>1 DEF Naming
<1> QED BY <1>1, <1>4, <1>5

\* A call's first record is job-level; it may start workers with it.
LEMMA FirstRecordStep ==
  ASSUME TypeInv, LogInv, NEW c \in Call, NEW r \in Result, stage[c] # "returned",
         stage' = [stage EXCEPT ![c] = "returned"], Add(c, JobLevel, r),
         \A x \in Call : x # c => work'[x] = work[x],
         \/ UNCHANGED pc
         \/ Start(c, work'[c].devices) /\ r = "queued"
  PROVE  LogInv'
<1> DEFINE rec == [device |-> JobLevel, result |-> r]
<1>1. activity[c] = <<>>
  BY DEF LogInv
<1>2. activity' = [activity EXCEPT ![c] = <<rec>>]
  BY <1>1 DEF Add, TypeInv, TypeOK
<1>3. activity'[c] = <<rec>> /\ \A x \in Call : x # c => activity'[x] = activity[x]
  BY <1>2 DEF TypeInv, TypeOK
<1>4. rec \in Record /\ rec.device = JobLevel /\ rec.result = r
  BY DEF Record
<1> HIDE DEF rec
<1>5. /\ Consistent(activity'[c])
      /\ \A d \in Device : \A results : Naming(activity'[c], d, results) = {}
      /\ activity'[c] # <<>> /\ activity'[c][1].result = r
  BY <1>3, <1>4, OneRecord
<1>6. \A x \in Call : Consistent(activity'[x])
  BY <1>3, <1>5 DEF LogInv
<1>7. \A w \in Worker : Caller(w) = c => pc[w] = "none"
  BY DEF TypeInv, JobInv
<1>8. ASSUME NEW w \in Worker, pc'[w] # "none"
      PROVE  activity'[Caller(w)][1].result = "queued" /\ Listed(w) \in work'[Caller(w)].devices
  <2>1. CASE Caller(w) = c
    <3>1. pc[w] = "none" /\ pc'[w] # pc[w]
      BY <1>7, <1>8, <2>1
    <3>2. Start(c, work'[c].devices) /\ r = "queued"
      BY <3>1
    <3>3. Listed(w) \in work'[c].devices
      BY <3>1, <3>2 DEF Start
    <3> QED BY <1>5, <2>1, <3>2, <3>3
  <2>2. CASE Caller(w) # c
    <3>1. pc'[w] = pc[w]
      BY <2>2 DEF Start, TypeInv, TypeOK
    <3> QED BY <1>3, <1>8, <2>2, <3>1, WorkerParts DEF LogInv
  <2> QED BY <2>1, <2>2
<1>9. \A w \in Worker : \A phase \in {"ok", "failed"} : (pc'[w] = phase) <=> (pc[w] = phase)
  BY <1>7 DEF Start, TypeInv, TypeOK
<1>10. ASSUME NEW x \in Call, NEW d \in Device
       PROVE  Tallies(x, d)'
  <2>1. \A results : Naming(activity'[x], d, results) = Naming(activity[x], d, results)
    BY <1>1, <1>3, <1>5, EmptyLog
  <2> QED BY <1>9, <2>1, SameTally DEF LogInv
<1>11. \A x \in Call : (stage'[x] = "returned") <=> (activity'[x] # <<>>)
  BY <1>3, <1>5 DEF LogInv, TypeInv, TypeOK
<1> QED BY <1>6, <1>8, <1>10, <1>11 DEF LogInv

LEMMA AppendFacts ==
  ASSUME NEW s \in Seq(Record), NEW e \in Record
  PROVE  /\ Len(s) \in Nat
         /\ Len(Append(s, e)) = Len(s) + 1
         /\ Append(s, e)[Len(s) + 1] = e
         /\ \A i \in 1 .. Len(s) : Append(s, e)[i] = s[i]
         /\ Append(s, e) # <<>>
<1>1. Len(Append(s, e)) = Len(s) + 1
  OBVIOUS
<1>2. Len(<<>>) = 0 /\ Len(s) \in Nat
  OBVIOUS
<1> QED BY <1>1, <1>2

LEMMA UpTo ==
  ASSUME NEW n \in Nat
  PROVE  /\ 1 .. n + 1 = (1 .. n) \cup {n + 1} /\ n + 1 \notin 1 .. n
         /\ \A i \in 1 .. n + 1 : i \in 1 .. n \/ i = n + 1
  OBVIOUS

\* A queued call's log that gains the verdict of a device stays consistent.
LEMMA LogGrows ==
  ASSUME NEW a \in Seq(Record), NEW e \in Record, a # <<>>, a[1].result = "queued",
         Consistent(a), e.device # JobLevel, e.result \in Failure \cup {"effect ok"}
  PROVE  Consistent(Append(a, e)) /\ Append(a, e)[1] = a[1] /\ Append(a, e) # <<>>
<1> DEFINE n == Len(a)
<1> DEFINE b == Append(a, e)
<1>1. /\ n \in Nat /\ n >= 1 /\ Len(b) = n + 1 /\ b[n + 1] = e /\ b # <<>>
      /\ \A i \in 1 .. n : b[i] = a[i]
  <2>1. n \in Nat \ {0}
    BY EmptySeq
  <2>2. n \in Nat /\ n >= 1
    BY ONLY <2>1
  <2>3. a \in Seq(Record) /\ e \in Record
    OBVIOUS
  <2> QED BY ONLY <2>2, <2>3, AppendFacts
<1>2. /\ \A i \in 1 .. n : (a[i].device = JobLevel) <=> (i = 1)
      /\ \A i \in 1 .. n : i > 1 => a[i].result \in Failure \cup {"effect ok"}
  BY DEF Consistent
<1> HIDE DEF n, b
<1>3. 1 \in 1 .. n /\ n + 1 > 1 /\ n + 1 # 1
  BY ONLY <1>1
<1>4. b[1] = a[1]
  BY <1>1, <1>3
<1>5. ASSUME NEW i \in 1 .. n + 1
      PROVE  /\ (b[i].device = JobLevel) <=> (i = 1)
             /\ i > 1 => /\ b[1].result = "queued"
                         /\ b[i].result \in Failure \cup {"effect ok"}
  <2>1. CASE i \in 1 .. n
    <3>1. b[i] = a[i]
      BY <1>1, <2>1
    <3> QED BY <1>2, <1>4, <2>1, <3>1
  <2>2. CASE i = n + 1
    <3>1. b[i] = e
      BY <1>1, <2>2
    <3> QED BY <1>3, <1>4, <2>2, <3>1
  <2>3. i \in 1 .. n \/ i = n + 1
    BY <1>1, UpTo
  <2> QED BY ONLY <2>1, <2>2, <2>3
<1>6. Consistent(b)
  BY <1>1, <1>5 DEF Consistent
<1> QED BY <1>1, <1>4, <1>6 DEF b

\* One more record of a device and a result: one more place where it is named.
LEMMA NamingGrows ==
  ASSUME NEW a \in Seq(Record), NEW e \in Record, NEW d, NEW results
  PROVE  /\ Naming(Append(a, e), d, results) =
              IF e.device = d /\ e.result \in results
                THEN Naming(a, d, results) \cup {Len(a) + 1}
                ELSE Naming(a, d, results)
         /\ Len(a) + 1 \notin Naming(a, d, results)
<1> DEFINE n == Len(a)
<1> DEFINE b == Append(a, e)
<1>1. /\ n \in Nat /\ Len(b) = n + 1 /\ b[n + 1] = e
      /\ \A i \in 1 .. n : b[i] = a[i]
  BY AppendFacts
<1>2. /\ Naming(a, d, results) = {i \in 1 .. n : a[i].device = d /\ a[i].result \in results}
      /\ Naming(b, d, results) = {i \in 1 .. Len(b) : b[i].device = d /\ b[i].result \in results}
  BY DEF Naming
<1> HIDE DEF n, b
<1>3. 1 .. Len(b) = (1 .. n) \cup {n + 1} /\ n + 1 \notin 1 .. n
  BY <1>1, UpTo
<1>4. /\ Naming(b, d, results) =
           IF e.device = d /\ e.result \in results
             THEN Naming(a, d, results) \cup {n + 1}
             ELSE Naming(a, d, results)
      /\ n + 1 \notin Naming(a, d, results)
  BY <1>1, <1>2, <1>3
<1> QED BY <1>4 DEF n, b

RunResult == Failure \cup {"effect ok"}

\* A run that ends adds one record, of its lamp and its verdict.
LEMMA VerdictStep ==
  ASSUME TypeInv, LogInv, NEW w \in Worker, NEW r \in RunResult,
         pc[w] \notin {"none", "ok", "failed"}, Finish(w, r), UNCHANGED <<stage, work>>
  PROVE  LogInv'
<1> DEFINE rec == [device |-> Lit(w), result |-> r]
<1> DEFINE a == activity[Caller(w)]
<1> DEFINE end == IF r = "effect ok" THEN "ok" ELSE "failed"
<1>1. /\ Caller(w) \in Call /\ Listed(w) \in Entry /\ Lit(w) \in Device /\ Lit(w) # JobLevel
      /\ w = <<Caller(w), Listed(w)>> /\ Lit(w) = Listed(w)[1]
  BY WorkerParts, JobLevelAssumption DEF Lit, Listed
<1>2. rec \in Record
  BY <1>1 DEF Record, RunResult, Failure, Result
<1>3. rec.device = Lit(w) /\ rec.result = r
  OBVIOUS
<1>4. /\ activity' = [activity EXCEPT ![Caller(w)] = Append(a, rec)]
      /\ pc' = [pc EXCEPT ![w] = end]
  BY DEF Finish, Add
<1> HIDE DEF rec, end
<1>5. /\ activity'[Caller(w)] = Append(a, rec)
      /\ \A x \in Call : x # Caller(w) => activity'[x] = activity[x]
      /\ a \in Seq(Record)
  BY <1>1, <1>4 DEF TypeInv, TypeOK
<1>6. /\ a # <<>> /\ a[1].result = "queued" /\ stage[Caller(w)] = "returned"
      /\ Listed(w) \in work[Caller(w)].devices /\ Consistent(a)
  BY <1>1 DEF TypeInv, JobInv, LogInv
<1>7. /\ Consistent(activity'[Caller(w)])
      /\ activity'[Caller(w)][1] = a[1] /\ activity'[Caller(w)] # <<>>
  <2> HIDE DEF a
  <2> QED BY <1>1, <1>2, <1>3, <1>5, <1>6, LogGrows DEF RunResult
<1>8. \A x \in Call : Consistent(activity'[x])
  BY <1>5, <1>7 DEF LogInv
<1>9. ASSUME NEW v \in Worker, pc'[v] # "none"
      PROVE  activity'[Caller(v)][1].result = "queued" /\ Listed(v) \in work'[Caller(v)].devices
  <2>1. pc[v] # "none"
    BY <1>4, <1>9 DEF TypeInv, TypeOK
  <2>2. CASE Caller(v) = Caller(w)
    BY <1>7, <2>1, <2>2 DEF LogInv
  <2>3. CASE Caller(v) # Caller(w)
    BY <1>5, <2>1, <2>3, WorkerParts DEF LogInv
  <2> QED BY <2>2, <2>3
<1>10. pc'[w] = end /\ \A v \in Worker : v # w => pc'[v] = pc[v]
  BY <1>4 DEF TypeInv, TypeOK
<1>11. Tallies(Caller(w), Lit(w))'
  <2>1. ASSUME NEW phase \in {"ok", "failed"}
        PROVE  /\ Ended(Caller(w), Lit(w), phase)' =
                    IF phase = end THEN Ended(Caller(w), Lit(w), phase) \cup {Listed(w)}
                                   ELSE Ended(Caller(w), Lit(w), phase)
               /\ Listed(w) \notin Ended(Caller(w), Lit(w), phase)
    <3>1. Listed(w) \notin Ended(Caller(w), Lit(w), phase)
      BY <1>1 DEF Ended
    <3>2. ASSUME NEW e \in Entry
          PROVE  e \in Ended(Caller(w), Lit(w), phase)' <=>
                   \/ e \in Ended(Caller(w), Lit(w), phase)
                   \/ e = Listed(w) /\ phase = end
      <4>1. CASE e = Listed(w)
        BY <1>1, <1>10, <3>1, <4>1 DEF Ended
      <4>2. CASE e # Listed(w)
        <5>1. <<Caller(w), e>> \in Worker /\ Listed(<<Caller(w), e>>) = e
          BY <1>1, EntryOfWorker
        <5>2. pc'[<<Caller(w), e>>] = pc[<<Caller(w), e>>]
          BY <1>10, <4>2, <5>1
        <5> QED BY <4>2, <5>2 DEF Ended
      <4> QED BY <4>1, <4>2
    <3>3. /\ Ended(Caller(w), Lit(w), phase) \subseteq Entry
          /\ Ended(Caller(w), Lit(w), phase)' \subseteq Entry
      BY DEF Ended
    <3> QED BY <1>1, <3>1, <3>2, <3>3
  <2>2. ASSUME NEW results
        PROVE  /\ Naming(activity'[Caller(w)], Lit(w), results) =
                    IF r \in results THEN Naming(a, Lit(w), results) \cup {Len(a) + 1}
                                     ELSE Naming(a, Lit(w), results)
               /\ Len(a) + 1 \notin Naming(a, Lit(w), results)
    <3> HIDE DEF a
    <3>1. /\ Naming(Append(a, rec), Lit(w), results) =
               IF rec.device = Lit(w) /\ rec.result \in results
                 THEN Naming(a, Lit(w), results) \cup {Len(a) + 1}
                 ELSE Naming(a, Lit(w), results)
          /\ Len(a) + 1 \notin Naming(a, Lit(w), results)
      BY <1>2, <1>5, NamingGrows
    <3> QED BY <1>3, <1>5, <3>1
  <2>3. (r \in {"effect ok"} <=> end = "ok") /\ (r \in Failure <=> end = "failed")
    BY DEF RunResult, Failure, end
  <2>4. /\ Matched(Naming(a, Lit(w), {"effect ok"}), Ended(Caller(w), Lit(w), "ok"))
        /\ Matched(Naming(a, Lit(w), Failure), Ended(Caller(w), Lit(w), "failed"))
    BY <1>1 DEF LogInv, Tallies
  <2>5. ASSUME NEW results, NEW phase \in {"ok", "failed"}, r \in results <=> end = phase,
               Matched(Naming(a, Lit(w), results), Ended(Caller(w), Lit(w), phase))
        PROVE  Matched(Naming(activity'[Caller(w)], Lit(w), results),
                       Ended(Caller(w), Lit(w), phase)')
    <3>1. CASE end = phase
      <4>1. /\ Naming(activity'[Caller(w)], Lit(w), results) =
                 Naming(a, Lit(w), results) \cup {Len(a) + 1}
            /\ Ended(Caller(w), Lit(w), phase)' =
                 Ended(Caller(w), Lit(w), phase) \cup {Listed(w)}
        BY <2>1, <2>2, <2>5, <3>1
      <4>2. /\ Len(a) + 1 \notin Naming(a, Lit(w), results)
            /\ Listed(w) \notin Ended(Caller(w), Lit(w), phase)
        BY <2>1, <2>2
      <4> QED BY ONLY <2>5, <4>1, <4>2, MatchedWithOneMore
    <3>2. CASE end # phase
      <4>1. /\ Naming(activity'[Caller(w)], Lit(w), results) = Naming(a, Lit(w), results)
            /\ Ended(Caller(w), Lit(w), phase)' = Ended(Caller(w), Lit(w), phase)
        BY <2>1, <2>2, <2>5, <3>2
      <4> QED BY <2>5, <4>1
    <3> QED BY <3>1, <3>2
  <2> QED BY <2>3, <2>4, <2>5 DEF Tallies
<1>12. ASSUME NEW x \in Call, NEW d \in Device, <<x, d>> # <<Caller(w), Lit(w)>>
       PROVE  Tallies(x, d)'
  <2>1. \A results : Naming(activity'[x], d, results) = Naming(activity[x], d, results)
    <3>1. CASE x # Caller(w)
      BY <1>5, <3>1
    <3>2. CASE x = Caller(w)
      <4>1. d # Lit(w)
        BY <1>12, <3>2
      <4>2. \A results : Naming(Append(a, rec), d, results) = Naming(a, d, results)
        <5> HIDE DEF a
        <5>1. a \in Seq(Record) /\ rec \in Record /\ rec.device # d
          BY <1>2, <1>3, <1>5, <4>1
        <5> QED BY ONLY <5>1, NamingGrows
      <4> QED BY <1>5, <3>2, <4>2
    <3> QED BY <3>1, <3>2
  <2>2. \A v \in Worker : Caller(v) = x /\ Lit(v) = d => v # w
    BY <1>12
  <2>3. Tallies(x, d)
    BY DEF LogInv
  <2> QED BY <1>10, <2>1, <2>2, <2>3, SameTally
<1>13. \A x \in Call : (stage'[x] = "returned") <=> (activity'[x] # <<>>)
  BY <1>5, <1>6, <1>7 DEF LogInv
<1>14. \A x \in Call, d \in Device : Tallies(x, d)'
  BY <1>1, <1>11, <1>12
<1> QED BY <1>8, <1>9, <1>13, <1>14 DEF LogInv

LEMMA CallStepsLog ==
  ASSUME TypeInv, LogInv, NEW c \in Call, Arrival(c) \/ CallSteps(c)
  PROVE  LogInv'
<1>1. ASSUME NEW e \in Jobs, Enqueue(c, e.job, e.mapping)
      PROVE  LogInv'
  BY <1>1, NoRecordStep DEF Enqueue, workers, TypeInv, TypeOK
<1>2. ASSUME NEW j \in ManualJobs, EnqueueControl(c, j)
      PROVE  LogInv'
  <2>1. work'[c] = j
    BY <1>2 DEF EnqueueControl, TypeInv, TypeOK
  <2> QED BY <1>2, <2>1, FirstRecordStep DEF EnqueueControl, TypeInv, TypeOK, Result
<1>0. CASE ReadQuiet(c)
  BY <1>0, NoRecordStep DEF ReadQuiet, workers, TypeInv, TypeOK
<1>3. CASE EnqueueQuietCheck(c)
  <2>1. CASE InQuietHours(copy[c], now)
    BY <1>3, <2>1, FirstRecordStep DEF EnqueueQuietCheck, workers, Result
  <2>2. CASE ~InQuietHours(copy[c], now)
    BY <1>3, <2>2, NoRecordStep DEF EnqueueQuietCheck, workers, TypeInv, TypeOK
  <2> QED BY <2>1, <2>2
<1>4. CASE EnqueueCooldown(c)
  <2>1. CASE work[c].cooldown > 0 /\ CoolingDown(c)
    BY <1>4, <2>1, FirstRecordStep DEF EnqueueCooldown, workers, Result
  <2>2. CASE ~(work[c].cooldown > 0 /\ CoolingDown(c))
    BY <1>4, <2>2, NoRecordStep DEF EnqueueCooldown, workers, TypeInv, TypeOK
  <2> QED BY <2>1, <2>2
<1>5. CASE EnqueueStart(c)
  BY <1>5, FirstRecordStep DEF EnqueueStart, Result
<1> QED BY <1>0, <1>1, <1>2, <1>3, <1>4, <1>5 DEF Arrival, CallSteps

LEMMA WorkerStepLog ==
  ASSUME TypeInv, LogInv, NEW w \in Worker, WorkerStep(w)
  PROVE  LogInv'
<1>1. CASE TakeLock(w)
  BY <1>1, NoRecordStep DEF TakeLock, calls, TypeInv, TypeOK
<1>2. ASSUME NEW look, NEW fields, Capture(w, look, fields)
      PROVE  LogInv'
  BY <1>2, NoRecordStep DEF Capture, calls, TypeInv, TypeOK
<1>3. CASE CaptureFails(w)
  BY <1>3, NoRecordStep DEF CaptureFails, calls, TypeInv, TypeOK
<1>4. ASSUME NEW ok \in BOOLEAN, NEW landed \in BOOLEAN, SendCommand(w, ok, landed)
      PROVE  LogInv'
  <2>1. UNCHANGED <<stage, work>> /\ pc[w] = "run"
    BY <1>4 DEF SendCommand, calls
  <2>2. CASE ok \/ ~Head(todo[w]).must
    <3>1. UNCHANGED <<pc, activity>>
      BY <1>4, <2>2 DEF SendCommand
    <3> QED BY <2>1, <3>1, NoRecordStep
  <2>3. CASE ~(ok \/ ~Head(todo[w]).must)
    <3>1. Finish(w, "effect failed")
      BY <1>4, <2>3 DEF SendCommand
    <3> QED BY <2>1, <3>1, VerdictStep DEF RunResult, Failure, Result
  <2> QED BY <2>2, <2>3
<1>5. CASE SleepCtx(w)
  BY <1>5, NoRecordStep DEF SleepCtx, calls
<1>6. CASE SleepCanceled(w)
  BY <1>6, VerdictStep DEF SleepCanceled, Sleeping, calls, RunResult, Failure, Result
<1>7. CASE SleepDeadline(w)
  BY <1>7, VerdictStep DEF SleepDeadline, Sleeping, calls, RunResult, Failure, Result
<1>8. CASE RunEnds(w)
  BY <1>8, VerdictStep DEF RunEnds, calls, RunResult
<1>9. CASE VerifyFails(w)
  BY <1>9, VerdictStep DEF VerifyFails, calls, RunResult, Failure, Result
<1> QED BY <1>1, <1>2, <1>3, <1>4, <1>5, <1>6, <1>7, <1>8, <1>9 DEF WorkerStep

LEMMA LogStep == TypeInv /\ LogInv /\ [Next]_vars => LogInv'
<1> SUFFICES ASSUME TypeInv, LogInv, [Next]_vars
             PROVE  LogInv'
  OBVIOUS
<1>1. CASE Environment
  BY <1>1, NoRecordStep DEF Environment, Tick, SetQuietHours, Woken, calls, workers
<1>2. ASSUME NEW c \in Call, Arrival(c) \/ CallSteps(c)
      PROVE  LogInv'
  BY <1>2, CallStepsLog
<1>3. ASSUME NEW w \in Worker, WorkerStep(w)
      PROVE  LogInv'
  BY <1>3, WorkerStepLog
<1>4. CASE StopCancel \/ StopDrained \/ StopAbandons
  BY <1>4, NoRecordStep DEF StopCancel, StopDrained, StopAbandons, calls, workers
<1>5. CASE UNCHANGED vars
  BY <1>5, NoRecordStep DEF vars, calls, workers
<1> QED BY <1>1, <1>2, <1>3, <1>4, <1>5 DEF Next

(***************************************************************************)
(* The activity log of every call reads the same way whatever failed and    *)
(* however the runs interleaved: one job-level record first, then as many   *)
(* ok and as many failed verdicts of a lamp as the job's runs on it have    *)
(* ended so, also when the job lists the lamp more than once.               *)
(***************************************************************************)
THEOREM OneVerdict == Spec => []OneVerdictPerRun
<1>1. TypeInv /\ LogInv => OneVerdictPerRun
  <2> SUFFICES ASSUME TypeInv, LogInv PROVE OneVerdictPerRun
    OBVIOUS
  <2>1. ASSUME NEW c \in Call, stage[c] # "idle", NEW d \in Device,
               NEW phase \in {"ok", "failed"}
        PROVE  Runs(c, d, phase) = Ended(c, d, phase)
    <3>1. work[c].devices \subseteq Entry
      BY <2>1 DEF TypeInv, JobInv, EffectJob, ManualJob
    <3>2. \A e \in Entry : pc[<<c, e>>] = phase => e \in work[c].devices
      BY EntryOfWorker DEF LogInv
    <3> QED BY <3>1, <3>2 DEF Runs, Ended
  <2>2. ASSUME NEW c \in Call, NEW d \in Device
        PROVE  /\ Cardinality(Outcomes(c, d, {"effect ok"})) = Cardinality(Ended(c, d, "ok"))
               /\ Cardinality(Outcomes(c, d, Failure)) = Cardinality(Ended(c, d, "failed"))
    BY DEF LogInv, Tallies, Matched, Naming, Outcomes
  <2> QED BY <2>1, <2>2 DEF LogInv, Consistent, OneVerdictPerRun
<1>2. TypeInv /\ LogInv /\ [Next]_vars => LogInv'
  BY LogStep
<1> QED BY <1>1, <1>2, InitLog, TypeInvariance, PTL DEF Spec

-----------------------------------------------------------------------------
(* Quiet hours. *)

\* What the test decided is kept until it is written as the first record.
QuietInv ==
  \A c \in Call :
    /\ stage[c] \in {"cooldown", "start"} => ~decided[c]
    /\ (stage[c] = "returned" /\ ~Manual(work[c])) =>
         ((activity[c][1].result = "quiet hours") <=> decided[c])

\* No step rewrites a call's first record.
LEMMA FirstRecordStays ==
  ASSUME TypeInv, LogInv, NEW c \in Call, activity[c] # <<>>,
         NEW x \in Call, NEW d \in Device \cup {JobLevel}, NEW r \in Result, Add(x, d, r)
  PROVE  activity'[c][1] = activity[c][1]
<1> DEFINE rec == [device |-> d, result |-> r]
<1>1. rec \in Record
  BY DEF Record
<1>2. activity' = [activity EXCEPT ![x] = Append(activity[x], rec)]
  BY DEF Add
<1> HIDE DEF rec
<1>3. CASE c # x
  BY <1>2, <1>3 DEF TypeInv, TypeOK
<1>4. CASE c = x
  <2>1. activity[c] \in Seq(Record) /\ activity'[c] = Append(activity[c], rec)
    BY <1>2, <1>4 DEF TypeInv, TypeOK
  <2>2. Len(activity[c]) \in Nat \ {0}
    BY <2>1, EmptySeq
  <2>3. 1 \in 1 .. Len(activity[c])
    BY ONLY <2>2
  <2> QED BY <1>1, <2>1, <2>3, AppendFacts
<1> QED BY <1>3, <1>4

LEMMA FirstRecord ==
  ASSUME TypeOK, NEW c \in Call, activity[c] = <<>>, NEW r \in Result, Add(c, JobLevel, r)
  PROVE  /\ activity'[c][1].result = r
         /\ \A x \in Call : x # c => activity'[x] = activity[x]
<1> DEFINE rec == [device |-> JobLevel, result |-> r]
<1>1. activity' = [activity EXCEPT ![c] = <<rec>>]
  BY DEF Add, TypeOK
<1>2. activity'[c] = <<rec>> /\ \A x \in Call : x # c => activity'[x] = activity[x]
  BY <1>1 DEF TypeOK
<1>3. rec \in Record /\ rec.device = JobLevel /\ rec.result = r
  BY DEF Record
<1> HIDE DEF rec
<1> QED BY <1>2, <1>3, OneRecord

LEMMA CallStepsQuiet ==
  ASSUME TypeInv, LogInv, QuietInv, NEW c \in Call, Arrival(c) \/ CallSteps(c)
  PROVE  QuietInv'
<1>1. ASSUME NEW e \in Jobs, Enqueue(c, e.job, e.mapping)
      PROVE  QuietInv'
  BY <1>1 DEF Enqueue, history, QuietInv, TypeInv, TypeOK
<1>2. ASSUME NEW j \in ManualJobs, EnqueueControl(c, j)
      PROVE  QuietInv'
  <2>1. work' = [work EXCEPT ![c] = j] /\ Manual(j)
    BY <1>2, JobAssumption DEF EnqueueControl, Manual, ManualJob
  <2>2. \A x \in Call : x # c => activity'[x] = activity[x]
    BY <1>2 DEF EnqueueControl, Add, TypeInv, TypeOK
  <2> QED BY <1>2, <2>1, <2>2 DEF EnqueueControl, history, QuietInv, TypeInv, TypeOK
<1>0. CASE ReadQuiet(c)
  BY <1>0 DEF ReadQuiet, history, QuietInv, TypeInv, TypeOK
<1>3. CASE EnqueueQuietCheck(c)
  <2>1. decided' = [decided EXCEPT ![c] = InQuietHours(copy[c], now)]
    <3>1. copy[c] \in QuietSetting /\ now \in Int
      BY EnvironmentAssumption DEF TypeInv, TypeOK
    <3>2. InQuietHours(copy[c], now) <=> QuietByTheClock(copy[c], now)
      BY <3>1, QuietHoursMatchClock
    <3>3. InQuietHours(copy[c], now) \in BOOLEAN /\ QuietByTheClock(copy[c], now) \in BOOLEAN
      BY DEF InQuietHours, QuietByTheClock
    <3>4. InQuietHours(copy[c], now) = QuietByTheClock(copy[c], now)
      BY <3>2, <3>3
    <3> QED BY <1>3, <3>4 DEF EnqueueQuietCheck
  <2>2. UNCHANGED work
    BY <1>3 DEF EnqueueQuietCheck
  <2>3. CASE InQuietHours(copy[c], now)
    <3>1. activity[c] = <<>> /\ Add(c, JobLevel, "quiet hours")
      BY <1>3, <2>3 DEF EnqueueQuietCheck, LogInv
    <3>2. /\ activity'[c][1].result = "quiet hours"
          /\ \A x \in Call : x # c => activity'[x] = activity[x]
      BY <3>1, FirstRecord DEF TypeInv, Result
    <3>3. stage' = [stage EXCEPT ![c] = "returned"]
      BY <1>3, <2>3 DEF EnqueueQuietCheck
    <3> QED BY <2>1, <2>2, <2>3, <3>2, <3>3 DEF QuietInv, TypeInv, TypeOK
  <2>4. CASE ~InQuietHours(copy[c], now)
    BY <1>3, <2>1, <2>2, <2>4 DEF EnqueueQuietCheck, QuietInv, TypeInv, TypeOK
  <2> QED BY <2>3, <2>4
<1>4. ASSUME NEW r \in {"cooldown", "queued"}, Add(c, JobLevel, r),
             stage[c] \in {"cooldown", "start"},
             stage' = [stage EXCEPT ![c] = "returned"], UNCHANGED <<work, decided>>
      PROVE  QuietInv'
  <2>1. activity[c] = <<>>
    BY <1>4 DEF LogInv
  <2>2. /\ activity'[c][1].result = r
        /\ \A x \in Call : x # c => activity'[x] = activity[x]
    BY <1>4, <2>1, FirstRecord DEF TypeInv, Result
  <2> QED BY <1>4, <2>2 DEF QuietInv, TypeInv, TypeOK
<1>5. CASE EnqueueCooldown(c)
  <2>1. CASE work[c].cooldown > 0 /\ CoolingDown(c)
    BY <1>4, <1>5, <2>1 DEF EnqueueCooldown
  <2>2. CASE ~(work[c].cooldown > 0 /\ CoolingDown(c))
    BY <1>5, <2>2 DEF EnqueueCooldown, QuietInv, TypeInv, TypeOK
  <2> QED BY <2>1, <2>2
<1>6. CASE EnqueueStart(c)
  BY <1>4, <1>6 DEF EnqueueStart, history
<1> QED BY <1>0, <1>1, <1>2, <1>3, <1>5, <1>6 DEF Arrival, CallSteps

LEMMA KeepQuiet ==
  ASSUME LogInv, QuietInv, UNCHANGED <<stage, work, decided>>,
         \A c \in Call : activity[c] # <<>> => activity'[c][1] = activity[c][1]
  PROVE  QuietInv'
  BY DEF QuietInv, LogInv

LEMMA WorkerStepQuiet ==
  ASSUME TypeInv, LogInv, QuietInv, NEW w \in Worker, WorkerStep(w)
  PROVE  QuietInv'
<1>1. UNCHANGED <<stage, work, decided>>
  BY DEF WorkerStep, TakeLock, Capture, CaptureFails, SendCommand, SleepCtx, SleepCanceled,
         SleepDeadline, RunEnds, VerifyFails, calls, history
<1>2. UNCHANGED activity \/ \E r \in Result : Finish(w, r)
  BY DEF WorkerStep, TakeLock, Capture, CaptureFails, SendCommand, SleepCtx, SleepCanceled,
         SleepDeadline, RunEnds, VerifyFails, Result
<1>3. CASE UNCHANGED activity
  BY <1>1, <1>3, KeepQuiet
<1>4. ASSUME NEW r \in Result, Finish(w, r)
      PROVE  QuietInv'
  <2>1. Add(Caller(w), Lit(w), r)
    BY <1>4 DEF Finish
  <2>2. \A c \in Call : activity[c] # <<>> => activity'[c][1] = activity[c][1]
    BY <2>1, WorkerParts, FirstRecordStays
  <2> QED BY <1>1, <2>2, KeepQuiet
<1> QED BY <1>2, <1>3, <1>4

LEMMA QuietStep == TypeInv /\ LogInv /\ QuietInv /\ [Next]_vars => QuietInv'
<1> SUFFICES ASSUME TypeInv, LogInv, QuietInv, [Next]_vars
             PROVE  QuietInv'
  OBVIOUS
<1>1. CASE Environment
  BY <1>1 DEF Environment, Tick, SetQuietHours, Woken, calls, history, QuietInv
<1>2. ASSUME NEW c \in Call, Arrival(c) \/ CallSteps(c)
      PROVE  QuietInv'
  BY <1>2, CallStepsQuiet
<1>3. ASSUME NEW w \in Worker, WorkerStep(w)
      PROVE  QuietInv'
  BY <1>3, WorkerStepQuiet
<1>4. CASE StopCancel \/ StopDrained \/ StopAbandons
  BY <1>4 DEF StopCancel, StopDrained, StopAbandons, calls, history, QuietInv
<1>5. CASE UNCHANGED vars
  BY <1>5 DEF vars, calls, history, QuietInv
<1> QED BY <1>1, <1>2, <1>3, <1>4, <1>5 DEF Next

(***************************************************************************)
(* Quiet hours are honoured whatever the setting and whenever it changes:   *)
(* a call is recorded as suppressed exactly when the minute at which        *)
(* Enqueue tested it was quiet by the clock.                                *)
(***************************************************************************)
THEOREM QuietHoursAreHonoured == Spec => []QuietHoursHonoured
<1>1. Init => QuietInv
  BY DEF Init, QuietInv
<1>2. TypeInv /\ LogInv /\ QuietInv => QuietHoursHonoured
  <2> SUFFICES ASSUME TypeInv, LogInv, QuietInv, NEW c \in Call,
                      stage[c] \notin {"idle", "quiet", "clock"}, ~Manual(work[c])
               PROVE  Suppressed(c) <=> decided[c]
    BY DEF QuietHoursHonoured
  <2>1. CASE stage[c] = "returned"
    BY <2>1 DEF QuietInv, LogInv, Suppressed
  <2>2. CASE stage[c] \in {"cooldown", "start"}
    BY <2>2 DEF QuietInv, LogInv, Suppressed
  <2> QED BY <2>1, <2>2 DEF TypeInv, TypeOK, Stage
<1>3. TypeInv /\ LogInv /\ [Next]_vars => LogInv'
  BY LogStep
<1>4. TypeInv /\ LogInv /\ QuietInv /\ [Next]_vars => QuietInv'
  BY QuietStep
<1> QED BY <1>1, <1>2, <1>3, <1>4, InitLog, TypeInvariance, PTL DEF Spec

-----------------------------------------------------------------------------
(* The runs a cooldown is counted from. *)

\* The call has been accepted, and is or will be recorded as queued.
Behind(c) ==
  \/ stage[c] = "start"
  \/ stage[c] = "returned" /\ activity[c][1].result = "queued"

\* Once accepted, a call stays so.
LEMMA CallStepsBehind ==
  ASSUME TypeInv, LogInv, NEW x \in Call, Arrival(x) \/ CallSteps(x),
         NEW c \in Call, Behind(c)
  PROVE  Behind(c)' /\ via'[c] = via[c] /\ accepted \subseteq accepted'
<1>0. stage[c] \in {"start", "returned"}
  BY DEF Behind
<1>1. CASE x # c
  <2>1. /\ stage'[c] = stage[c] /\ via'[c] = via[c] /\ activity'[c] = activity[c]
        /\ accepted \subseteq accepted'
    BY <1>1 DEF Arrival, CallSteps, Enqueue, EnqueueControl, ReadQuiet, EnqueueQuietCheck,
                EnqueueCooldown, EnqueueStart, Add, history, TypeInv, TypeOK
  <2> QED BY <2>1 DEF Behind
<1>2. CASE x = c
  <2>1. EnqueueStart(c)
    BY <1>0, <1>2 DEF Arrival, CallSteps, Enqueue, EnqueueControl, ReadQuiet,
                      EnqueueQuietCheck, EnqueueCooldown
  <2>2. activity[c] = <<>>
    BY <2>1 DEF EnqueueStart, LogInv
  <2>3. activity'[c][1].result = "queued"
    BY <2>1, <2>2, FirstRecord DEF EnqueueStart, Result, TypeInv
  <2>4. stage'[c] = "returned" /\ UNCHANGED <<via, accepted>>
    BY <2>1 DEF EnqueueStart, history, TypeInv, TypeOK
  <2> QED BY <2>3, <2>4 DEF Behind
<1> QED BY <1>1, <1>2

LEMMA StillBehind ==
  ASSUME TypeInv, LogInv, [Next]_vars, NEW c \in Call, Behind(c)
  PROVE  Behind(c)' /\ via'[c] = via[c] /\ accepted \subseteq accepted'
<1>1. CASE Environment \/ StopCancel \/ StopDrained \/ StopAbandons \/ UNCHANGED vars
  BY <1>1 DEF Environment, Tick, SetQuietHours, Woken, StopCancel, StopDrained, StopAbandons,
              vars, calls, history, Behind
<1>2. ASSUME NEW x \in Call, Arrival(x) \/ CallSteps(x)
      PROVE  Behind(c)' /\ via'[c] = via[c] /\ accepted \subseteq accepted'
  BY <1>2, CallStepsBehind
<1>3. ASSUME NEW w \in Worker, WorkerStep(w)
      PROVE  Behind(c)' /\ via'[c] = via[c] /\ accepted \subseteq accepted'
  <2>1. UNCHANGED <<stage, via, accepted>>
    BY <1>3 DEF WorkerStep, TakeLock, Capture, CaptureFails, SendCommand, SleepCtx,
                SleepCanceled, SleepDeadline, RunEnds, VerifyFails, calls, history
  <2>2. UNCHANGED activity \/ \E r \in Result : Finish(w, r)
    BY <1>3 DEF WorkerStep, TakeLock, Capture, CaptureFails, SendCommand, SleepCtx,
                SleepCanceled, SleepDeadline, RunEnds, VerifyFails, Result
  <2>3. activity[c] # <<>> => activity'[c][1] = activity[c][1]
    BY <2>2, WorkerParts, FirstRecordStays DEF Finish
  <2> QED BY <2>1, <2>3 DEF Behind, LogInv
<1> QED BY <1>1, <1>2, <1>3 DEF Next

\* lastRun moves with an acceptance only.
LEMMA LastRunMoves ==
  ASSUME TypeInv, [Next]_vars
  PROVE  \/ UNCHANGED lastRun
         \/ \E c \in Call :
              /\ lastRun' = [lastRun EXCEPT ![via[c]] = now]
              /\ via' = via
              /\ stage'[c] = "start"
              /\ \E a \in accepted' : a.call = c /\ a.at = now
<1>1. CASE \E c \in Call : EnqueueCooldown(c)
  <2>1. PICK c \in Call : EnqueueCooldown(c)
    BY <1>1
  <2>2. CASE work[c].cooldown > 0 /\ ~CoolingDown(c)
    <3> DEFINE a == [call |-> c, mapping |-> via[c], at |-> now, cooldown |-> work[c].cooldown]
    <3>1. lastRun' = [lastRun EXCEPT ![via[c]] = now] /\ via' = via
      BY <2>1, <2>2 DEF EnqueueCooldown
    <3>2. stage'[c] = "start"
      BY <2>1, <2>2 DEF EnqueueCooldown, TypeInv, TypeOK
    <3>3. a \in accepted'
      BY <2>1, <2>2 DEF EnqueueCooldown
    <3>4. a.call = c /\ a.at = now
      OBVIOUS
    <3> QED BY <3>1, <3>2, <3>3, <3>4
  <2>3. CASE ~(work[c].cooldown > 0 /\ ~CoolingDown(c))
    BY <2>1, <2>3 DEF EnqueueCooldown
  <2> QED BY <2>2, <2>3
<1>2. CASE ~\E c \in Call : EnqueueCooldown(c)
  BY <1>2 DEF Next, Environment, Tick, SetQuietHours, Woken, StopCancel, StopDrained,
              StopAbandons, vars, Arrival, CallSteps, Enqueue, EnqueueControl,
              ReadQuiet, EnqueueQuietCheck, EnqueueStart, WorkerStep, TakeLock, Capture,
              CaptureFails, SendCommand, SleepCtx, SleepCanceled, SleepDeadline, RunEnds, VerifyFails
<1> QED BY <1>1, <1>2

LEMMA LastRunStep == TypeInv /\ LogInv /\ LastRunWasAccepted /\ [Next]_vars => LastRunWasAccepted'
<1> SUFFICES ASSUME TypeInv, LogInv, LastRunWasAccepted, [Next]_vars,
                    NEW m \in Mapping, lastRun'[m] # Never
             PROVE  \E c \in Call :
                      /\ via'[c] = m
                      /\ \E a \in accepted' : a.call = c /\ a.at = lastRun'[m]
                      /\ Behind(c)'
  BY DEF LastRunWasAccepted, Behind
<1>1. CASE lastRun'[m] = lastRun[m]
  <2>1. PICK c \in Call : /\ via[c] = m
                          /\ \E a \in accepted : a.call = c /\ a.at = lastRun[m]
                          /\ Behind(c)
    BY <1>1 DEF LastRunWasAccepted, Behind
  <2> QED BY <1>1, <2>1, StillBehind
<1>2. CASE lastRun'[m] # lastRun[m]
  <2>1. PICK c \in Call : /\ lastRun' = [lastRun EXCEPT ![via[c]] = now]
                          /\ via' = via
                          /\ stage'[c] = "start"
                          /\ \E a \in accepted' : a.call = c /\ a.at = now
    BY <1>2, LastRunMoves
  <2>2. via[c] = m /\ lastRun'[m] = now
    BY <1>2, <2>1 DEF TypeInv, TypeOK
  <2> QED BY <2>1, <2>2 DEF Behind
<1> QED BY <1>1, <1>2

(***************************************************************************)
(* A storm collapses to one effect and not to none: a cooldown is always    *)
(* counted from a call that Enqueue accepted and that it records as queued, *)
(* never from one it turned away.                                           *)
(***************************************************************************)
THEOREM CooldownsStartWithRuns == Spec => []LastRunWasAccepted
<1>1. Init => LastRunWasAccepted
  BY DEF Init, LastRunWasAccepted
<1>2. TypeInv /\ LogInv /\ LastRunWasAccepted /\ [Next]_vars => LastRunWasAccepted'
  BY LastRunStep
<1>3. TypeInv /\ LogInv /\ [Next]_vars => LogInv'
  BY LogStep
<1> QED BY <1>1, <1>2, <1>3, InitLog, TypeInvariance, PTL DEF Spec

-----------------------------------------------------------------------------
(* Where a plan leads.                                                      *)
(* The last command of a kind decides what becomes of it; a plan without    *)
(* one leaves it as it is.                                                  *)

\* The last command of s with an op in ops is op with v.
LastIs(s, ops, op, v) ==
  \E k \in 1 .. Len(s) :
    /\ s[k].op = op /\ s[k].v = v
    /\ \A i \in k + 1 .. Len(s) : s[i].op \notin ops

Without(s, ops) == \A i \in 1 .. Len(s) : s[i].op \notin ops

Looks == {"color", "scene"}

WillBePowered(s, l, p) ==
  LastIs(s, {"power"}, "power", p) \/ (Without(s, {"power"}) /\ l.power = p)

WillBeBright(s, l, b) ==
  LastIs(s, {"brightness"}, "brightness", b) \/ (Without(s, {"brightness"}) /\ l.brightness = b)

WillBeColored(s, l, c) ==
  LastIs(s, Looks, "color", c) \/ (Without(s, Looks) /\ l.color = c /\ l.scene = 0)

\* Unless the scene is swallowed on the way.
WillPlay(s, l, x) ==
  LastIs(s, Looks, "scene", x) \/ (Without(s, Looks) /\ l.scene = x)

\* The rest of a plan that ends with ApplyAfterScene.
WillSettleAndPlay(s, l, wakes, x) ==
  \/ /\ Len(s) >= 3
     /\ s[Len(s) - 2] = Do("power", 1) /\ s[Len(s) - 1] = Do("settle", 0)
     /\ s[Len(s)] = Do("scene", x)
  \/ s = <<Do("settle", 0), Do("scene", x)>> /\ l.power = 1
  \/ s = <<Do("scene", x)>> /\ l.power = 1 /\ ~wakes
  \/ s = <<>> /\ l.power = 1 /\ l.scene = x

LEMMA TailFacts ==
  ASSUME NEW s \in Seq(Command), s # <<>>
  PROVE  /\ Len(s) \in Nat \ {0} /\ Head(s) = s[1] /\ Head(s) \in Command
         /\ Tail(s) \in Seq(Command) /\ Len(Tail(s)) = Len(s) - 1
         /\ \A i \in 1 .. Len(s) - 1 : Tail(s)[i] = s[i + 1]
  OBVIOUS

LEMMA WithoutTail ==
  ASSUME NEW s \in Seq(Command), s # <<>>, NEW ops, Without(s, ops)
  PROVE  Without(Tail(s), ops) /\ Head(s).op \notin ops
  BY TailFacts DEF Without

LEMMA LastIsTail ==
  ASSUME NEW s \in Seq(Command), s # <<>>, NEW ops, NEW op, NEW v, LastIs(s, ops, op, v)
  PROVE  \/ LastIs(Tail(s), ops, op, v)
         \/ Head(s).op = op /\ Head(s).v = v /\ Without(Tail(s), ops)
<1>1. PICK k \in 1 .. Len(s) : /\ s[k].op = op /\ s[k].v = v
                              /\ \A i \in k + 1 .. Len(s) : s[i].op \notin ops
  BY DEF LastIs
<1>2. CASE k = 1
  BY <1>1, <1>2, TailFacts DEF Without
<1>3. CASE k > 1
  <2>1. /\ k - 1 \in 1 .. Len(Tail(s)) /\ Tail(s)[k - 1] = s[k]
    BY <1>3, TailFacts
  <2>2. ASSUME NEW i \in (k - 1) + 1 .. Len(Tail(s)) PROVE Tail(s)[i].op \notin ops
    <3>1. i + 1 \in k + 1 .. Len(s) /\ Tail(s)[i] = s[i + 1]
      BY <1>3, TailFacts
    <3> QED BY <1>1, <3>1
  <2> QED BY <1>1, <2>1, <2>2 DEF LastIs
<1> QED BY <1>1, <1>2, <1>3, TailFacts

LEMMA ApplyEffects ==
  ASSUME NEW cmd \in Command, NEW l \in Lamp, NEW wakes \in BOOLEAN
  PROVE  LET after == Apply(cmd, l, wakes) IN
         /\ after \in Lamp
         /\ after.power = IF cmd.op = "power" THEN (IF cmd.v = 1 THEN 1 ELSE 0) ELSE l.power
         /\ after.brightness = IF cmd.op = "brightness" THEN cmd.v ELSE l.brightness
         /\ after.color = IF cmd.op = "color" THEN cmd.v ELSE l.color
         /\ after.scene = IF cmd.op = "color" THEN 0
                          ELSE IF cmd.op = "scene" /\ ~Swallowed(cmd, l, wakes) THEN cmd.v
                          ELSE l.scene
  BY DEF Apply, Command, Lamp, Swallowed, WriteOps, SleepOps

\* A command that reaches the lamp keeps the plan on its way.
LEMMA OnItsWay ==
  ASSUME NEW s \in Seq(Command), s # <<>>, NEW l \in Lamp, NEW wakes \in BOOLEAN
  PROVE  LET after == Apply(Head(s), l, wakes) IN
         /\ \A p \in {0, 1} : WillBePowered(s, l, p) => WillBePowered(Tail(s), after, p)
         /\ \A b \in Nat : WillBeBright(s, l, b) => WillBeBright(Tail(s), after, b)
         /\ \A c \in Nat : WillBeColored(s, l, c) => WillBeColored(Tail(s), after, c)
         /\ ~Swallowed(Head(s), l, wakes) =>
              \A x \in Nat : WillPlay(s, l, x) => WillPlay(Tail(s), after, x)
<1> DEFINE cmd == Head(s)
<1> DEFINE after == Apply(cmd, l, wakes)
<1>1. cmd \in Command
  BY TailFacts
<1>2. /\ after.power = IF cmd.op = "power" THEN (IF cmd.v = 1 THEN 1 ELSE 0) ELSE l.power
      /\ after.brightness = IF cmd.op = "brightness" THEN cmd.v ELSE l.brightness
      /\ after.color = IF cmd.op = "color" THEN cmd.v ELSE l.color
      /\ after.scene = IF cmd.op = "color" THEN 0
                       ELSE IF cmd.op = "scene" /\ ~Swallowed(cmd, l, wakes) THEN cmd.v
                       ELSE l.scene
  BY <1>1, ApplyEffects
<1>3. ASSUME NEW ops, NEW op, NEW v, LastIs(s, ops, op, v)
      PROVE  LastIs(Tail(s), ops, op, v) \/ (cmd.op = op /\ cmd.v = v /\ Without(Tail(s), ops))
  BY <1>3, LastIsTail
<1>4. ASSUME NEW ops, Without(s, ops)
      PROVE  Without(Tail(s), ops) /\ cmd.op \notin ops
  BY <1>4, WithoutTail
<1> HIDE DEF after, cmd
<1>5. ASSUME NEW p \in {0, 1}, WillBePowered(s, l, p) PROVE WillBePowered(Tail(s), after, p)
  <2>1. CASE LastIs(s, {"power"}, "power", p)
    <3>1. CASE LastIs(Tail(s), {"power"}, "power", p)
      BY <3>1 DEF WillBePowered
    <3>2. CASE cmd.op = "power" /\ cmd.v = p /\ Without(Tail(s), {"power"})
      BY <1>2, <3>2 DEF WillBePowered
    <3> QED BY <1>3, <2>1, <3>1, <3>2
  <2>2. CASE Without(s, {"power"}) /\ l.power = p
    <3>1. Without(Tail(s), {"power"}) /\ cmd.op \notin {"power"}
      BY <1>4, <2>2
    <3> QED BY <1>2, <2>2, <3>1 DEF WillBePowered
  <2> QED BY <1>5, <2>1, <2>2 DEF WillBePowered
<1>6. ASSUME NEW b \in Nat, WillBeBright(s, l, b) PROVE WillBeBright(Tail(s), after, b)
  <2>1. CASE LastIs(s, {"brightness"}, "brightness", b)
    <3>1. CASE LastIs(Tail(s), {"brightness"}, "brightness", b)
      BY <3>1 DEF WillBeBright
    <3>2. CASE cmd.op = "brightness" /\ cmd.v = b /\ Without(Tail(s), {"brightness"})
      BY <1>2, <3>2 DEF WillBeBright
    <3> QED BY <1>3, <2>1, <3>1, <3>2
  <2>2. CASE Without(s, {"brightness"}) /\ l.brightness = b
    <3>1. Without(Tail(s), {"brightness"}) /\ cmd.op \notin {"brightness"}
      BY <1>4, <2>2
    <3> QED BY <1>2, <2>2, <3>1 DEF WillBeBright
  <2> QED BY <1>6, <2>1, <2>2 DEF WillBeBright
<1>7. ASSUME NEW c \in Nat, WillBeColored(s, l, c) PROVE WillBeColored(Tail(s), after, c)
  <2>1. CASE LastIs(s, Looks, "color", c)
    <3>1. CASE LastIs(Tail(s), Looks, "color", c)
      BY <3>1 DEF WillBeColored
    <3>2. CASE cmd.op = "color" /\ cmd.v = c /\ Without(Tail(s), Looks)
      BY <1>2, <3>2 DEF WillBeColored
    <3> QED BY <1>3, <2>1, <3>1, <3>2
  <2>2. CASE Without(s, Looks) /\ l.color = c /\ l.scene = 0
    <3>1. Without(Tail(s), Looks) /\ cmd.op \notin Looks
      BY <1>4, <2>2
    <3> QED BY <1>2, <2>2, <3>1 DEF WillBeColored, Looks
  <2> QED BY <1>7, <2>1, <2>2 DEF WillBeColored
<1>8. ASSUME ~Swallowed(cmd, l, wakes), NEW x \in Nat, WillPlay(s, l, x)
      PROVE  WillPlay(Tail(s), after, x)
  <2>1. CASE LastIs(s, Looks, "scene", x)
    <3>1. CASE LastIs(Tail(s), Looks, "scene", x)
      BY <3>1 DEF WillPlay
    <3>2. CASE cmd.op = "scene" /\ cmd.v = x /\ Without(Tail(s), Looks)
      BY <1>8, <1>2, <3>2 DEF WillPlay
    <3> QED BY <1>3, <2>1, <3>1, <3>2
  <2>2. CASE Without(s, Looks) /\ l.scene = x
    <3>1. Without(Tail(s), Looks) /\ cmd.op \notin Looks
      BY <1>4, <2>2
    <3> QED BY <1>2, <2>2, <3>1 DEF WillPlay, Looks
  <2> QED BY <1>8, <2>1, <2>2 DEF WillPlay
<1> QED BY <1>5, <1>6, <1>7, <1>8 DEF after, cmd

\* ... and so does the settle delay, which outlasts the waking.
LEMMA OnItsWayToTheScene ==
  ASSUME NEW s \in Seq(Command), s # <<>>, NEW l \in Lamp, NEW wakes \in BOOLEAN,
         NEW wakesNext \in BOOLEAN, NEW x \in Nat, WillSettleAndPlay(s, l, wakes, x),
         Head(s).op = "settle" => ~wakesNext
  PROVE  WillSettleAndPlay(Tail(s), Apply(Head(s), l, wakes), wakesNext, x)
<1> DEFINE after == Apply(Head(s), l, wakes)
<1>1. /\ after.power = IF Head(s).op = "power" THEN (IF Head(s).v = 1 THEN 1 ELSE 0) ELSE l.power
      /\ after.scene = IF Head(s).op = "color" THEN 0
                       ELSE IF Head(s).op = "scene" /\ ~Swallowed(Head(s), l, wakes) THEN Head(s).v
                       ELSE l.scene
  BY TailFacts, ApplyEffects
<1>2. /\ Len(s) \in Nat \ {0} /\ Head(s) = s[1]
      /\ Tail(s) \in Seq(Command) /\ Len(Tail(s)) = Len(s) - 1
      /\ \A i \in 1 .. Len(s) - 1 : Tail(s)[i] = s[i + 1]
  BY TailFacts
<1> HIDE DEF after
<1>3. ASSUME Len(s) >= 3, s[Len(s) - 2] = Do("power", 1), s[Len(s) - 1] = Do("settle", 0),
             s[Len(s)] = Do("scene", x)
      PROVE  WillSettleAndPlay(Tail(s), after, wakesNext, x)
  <2>1. CASE Len(s) > 3
    <3>1. /\ Tail(s)[Len(Tail(s)) - 2] = s[Len(s) - 2] /\ Tail(s)[Len(Tail(s)) - 1] = s[Len(s) - 1]
          /\ Tail(s)[Len(Tail(s))] = s[Len(s)] /\ Len(Tail(s)) >= 3
      BY <1>2, <2>1
    <3> QED BY <1>3, <3>1 DEF WillSettleAndPlay
  <2>2. CASE Len(s) = 3
    <3>1. Len(Tail(s)) = 2 /\ Tail(s)[1] = Do("settle", 0) /\ Tail(s)[2] = Do("scene", x)
      BY <1>2, <1>3, <2>2
    <3>2. Tail(s) = <<Tail(s)[1], Tail(s)[2]>>
      <4> DEFINE t == Tail(s)
      <4>1. t \in Seq(Command) /\ Len(t) = 2
        BY <1>2, <3>1
      <4> HIDE DEF t
      <4>2. t = <<t[1], t[2]>>
        BY <4>1
      <4> QED BY <4>2 DEF t
    <3>3. after.power = 1
      BY <1>1, <1>2, <1>3, <2>2 DEF Do
    <3> QED BY <3>1, <3>2, <3>3 DEF WillSettleAndPlay
  <2> QED BY <1>2, <1>3, <2>1, <2>2
<1>4. ASSUME s = <<Do("settle", 0), Do("scene", x)>>, l.power = 1
      PROVE  WillSettleAndPlay(Tail(s), after, wakesNext, x)
  <2>1. Head(s) = Do("settle", 0) /\ Tail(s) = <<Do("scene", x)>>
    BY <1>4
  <2>2. after.power = 1 /\ ~wakesNext
    BY <1>1, <1>4, <2>1 DEF Do
  <2> QED BY <2>1, <2>2 DEF WillSettleAndPlay
<1>5. ASSUME s = <<Do("scene", x)>>, l.power = 1, ~wakes
      PROVE  WillSettleAndPlay(Tail(s), after, wakesNext, x)
  <2>1. Head(s) = Do("scene", x) /\ Tail(s) = <<>>
    BY <1>5
  <2>2. after.power = 1 /\ after.scene = x
    BY <1>1, <1>5, <2>1 DEF Do, Swallowed
  <2> QED BY <2>1, <2>2 DEF WillSettleAndPlay
<1> QED BY <1>3, <1>4, <1>5 DEF WillSettleAndPlay, after

\* Every failure aborts the run ...
AllMust(s) == \A i \in 1 .. Len(s) : s[i].must
\* ... and no failed scene does.
ScenesAreTried(s) == \A i \in 1 .. Len(s) : s[i].op = "scene" => ~s[i].must

\* The lamp will look as the effect of j leaves it.
WillShow(j, s, l) ==
  CASE j.effect = "off" \/ (j.effect = Flash /\ j.endState = "off") -> WillBePowered(s, l, 0)
    [] j.effect = "on" -> WillBePowered(s, l, 1) /\ WillBeBright(s, l, j.brightness)
    [] OTHER -> /\ WillBePowered(s, l, 1) /\ WillBeBright(s, l, j.brightness)
                /\ WillBeColored(s, l, IF j.effect = Flash /\ j.endState = "holdB"
                                         THEN j.colorB ELSE j.colorA)

\* The lamp will look as it did in b.
WillBeBack(b, s, l) ==
  /\ WillBePowered(s, l, b.power)
  /\ b.power = 1 => /\ WillBeBright(s, l, b.brightness)
                    /\ b.scene # 0 => WillPlay(s, l, b.scene)
                    /\ b.scene = 0 => WillBeColored(s, l, b.color)

\* With s still to run, a lamp that was b before job j and is now l is on its way
\* to what an ok verdict promises.
HeadsFor(j, e, b, s, l, wakes) ==
  CASE Manual(j) ->
         \/ s = <<Do(j.op, j.v)>> /\ l = b
         \/ s = <<>> /\ l \in {Apply(Do(j.op, j.v), b, x) : x \in BOOLEAN}
    [] ~Manual(j) /\ j.scenes[e] # 0 -> WillSettleAndPlay(s, l, wakes, j.scenes[e])
    [] ~Manual(j) /\ j.scenes[e] = 0 /\ j.restore -> WillBeBack(b, s, l)
    [] OTHER -> WillShow(j, s, l)

\* What holds of worker w at each phase: nothing has slipped before it starts,
\* only a run that captures may slip other than by a write nobody heard, and one
\* that has not slipped is on its way.
Course(w) ==
  LET j == work[Caller(w)]
      e == Listed(w)
      d == Lit(w)
  IN /\ pc[w] \in {"none", "lock", "capture"} => slips[w] = {}
     /\ slips[w] \ {"unheard"} # {} => Captures(j, e)
     /\ pc[w] = "capture" => lamp[d] = before[d] /\ Captures(j, e)
     /\ pc[w] = "run" /\ slips[w] = {} =>
          HeadsFor(j, e, before[d], todo[w], lamp[d], waking[d])
     /\ pc[w] = "run" /\ ~Captures(j, e) => AllMust(todo[w])
     /\ pc[w] = "run" /\ Captures(j, e) => ScenesAreTried(todo[w])

CourseInv ==
  /\ \A c \in Call : stage[c] # "idle" => work[c] \in RunJobs
  /\ \A w \in Worker : Course(w)

-----------------------------------------------------------------------------
(* The plans of the engine lead where they should. *)

LEMMA ConcatFacts ==
  ASSUME NEW s \in Seq(Command), NEW t \in Seq(Command)
  PROVE  /\ s \o t \in Seq(Command) /\ Len(s) \in Nat /\ Len(t) \in Nat
         /\ Len(s \o t) = Len(s) + Len(t)
         /\ \A i \in 1 .. Len(s) : (s \o t)[i] = s[i]
         /\ \A i \in 1 .. Len(t) : (s \o t)[Len(s) + i] = t[i]
         /\ \A i \in 1 .. Len(s) + Len(t) :
              i \in 1 .. Len(s) \/ \E k \in 1 .. Len(t) : i = Len(s) + k
<1>1. /\ s \o t \in Seq(Command) /\ Len(s) \in Nat /\ Len(t) \in Nat
      /\ Len(s \o t) = Len(s) + Len(t)
      /\ \A i \in 1 .. Len(s) : (s \o t)[i] = s[i]
  OBVIOUS
<1>2. ASSUME NEW i \in 1 .. Len(t) PROVE (s \o t)[Len(s) + i] = t[i]
  OBVIOUS
<1>3. ASSUME NEW i \in 1 .. Len(s) + Len(t), i \notin 1 .. Len(s)
      PROVE  \E k \in 1 .. Len(t) : i = Len(s) + k
  <2>1. i - Len(s) \in 1 .. Len(t) /\ i = Len(s) + (i - Len(s))
    BY <1>1, <1>3
  <2> QED BY <2>1
<1> QED BY ONLY <1>1, <1>2, <1>3

LEMMA ConcatWithout ==
  ASSUME NEW s \in Seq(Command), NEW t \in Seq(Command), NEW ops,
         Without(s, ops), Without(t, ops)
  PROVE  Without(s \o t, ops)
<1> SUFFICES ASSUME NEW i \in 1 .. Len(s \o t) PROVE (s \o t)[i].op \notin ops
  BY DEF Without
<1>1. CASE i \in 1 .. Len(s)
  BY <1>1, ConcatFacts DEF Without
<1>2. ASSUME NEW k \in 1 .. Len(t), i = Len(s) + k PROVE (s \o t)[i].op \notin ops
  BY <1>2, ConcatFacts DEF Without
<1> QED BY <1>1, <1>2, ConcatFacts

LEMMA ConcatLast ==
  ASSUME NEW s \in Seq(Command), NEW t \in Seq(Command), NEW ops, NEW op, NEW v,
         LastIs(t, ops, op, v) \/ (LastIs(s, ops, op, v) /\ Without(t, ops))
  PROVE  LastIs(s \o t, ops, op, v)
<1>1. CASE LastIs(t, ops, op, v)
  <2>1. PICK k \in 1 .. Len(t) : /\ t[k].op = op /\ t[k].v = v
                                /\ \A i \in k + 1 .. Len(t) : t[i].op \notin ops
    BY <1>1 DEF LastIs
  <2>2. Len(s) + k \in 1 .. Len(s \o t) /\ (s \o t)[Len(s) + k] = t[k]
    BY ConcatFacts
  <2>3. ASSUME NEW i \in (Len(s) + k) + 1 .. Len(s \o t)
        PROVE  (s \o t)[i].op \notin ops
    <3>1. i - Len(s) \in k + 1 .. Len(t) /\ i - Len(s) \in 1 .. Len(t)
          /\ Len(s) + (i - Len(s)) = i
      BY ConcatFacts
    <3>2. (s \o t)[i] = t[i - Len(s)]
      BY <3>1, ConcatFacts
    <3> QED BY <2>1, <3>1, <3>2
  <2> QED BY <2>1, <2>2, <2>3 DEF LastIs
<1>2. CASE LastIs(s, ops, op, v) /\ Without(t, ops)
  <2>1. PICK k \in 1 .. Len(s) : /\ s[k].op = op /\ s[k].v = v
                                /\ \A i \in k + 1 .. Len(s) : s[i].op \notin ops
    BY <1>2 DEF LastIs
  <2>2. k \in 1 .. Len(s \o t) /\ (s \o t)[k] = s[k]
    BY ConcatFacts
  <2>3. ASSUME NEW i \in k + 1 .. Len(s \o t)
        PROVE  (s \o t)[i].op \notin ops
    <3>1. CASE i \in 1 .. Len(s)
      BY <2>1, <3>1, ConcatFacts
    <3>2. ASSUME NEW n \in 1 .. Len(t), i = Len(s) + n PROVE (s \o t)[i].op \notin ops
      BY <1>2, <3>2, ConcatFacts DEF Without
    <3>3. i \in 1 .. Len(s) + Len(t)
      BY ConcatFacts
    <3> QED BY <3>1, <3>2, <3>3, ConcatFacts
  <2> QED BY <2>1, <2>2, <2>3 DEF LastIs
<1> QED BY <1>1, <1>2

LEMMA ConcatMust ==
  ASSUME NEW s \in Seq(Command), NEW t \in Seq(Command)
  PROVE  /\ AllMust(s) /\ AllMust(t) => AllMust(s \o t)
         /\ ScenesAreTried(s) /\ ScenesAreTried(t) => ScenesAreTried(s \o t)
<1>1. ASSUME AllMust(s), AllMust(t), NEW i \in 1 .. Len(s \o t) PROVE (s \o t)[i].must
  <2>1. CASE i \in 1 .. Len(s)
    BY <1>1, <2>1, ConcatFacts DEF AllMust
  <2>2. ASSUME NEW k \in 1 .. Len(t), i = Len(s) + k PROVE (s \o t)[i].must
    BY <1>1, <2>2, ConcatFacts DEF AllMust
  <2> QED BY <2>1, <2>2, ConcatFacts
<1>2. ASSUME ScenesAreTried(s), ScenesAreTried(t), NEW i \in 1 .. Len(s \o t)
      PROVE  (s \o t)[i].op = "scene" => ~(s \o t)[i].must
  <2>1. CASE i \in 1 .. Len(s)
    BY <1>2, <2>1, ConcatFacts DEF ScenesAreTried
  <2>2. ASSUME NEW k \in 1 .. Len(t), i = Len(s) + k
        PROVE  (s \o t)[i].op = "scene" => ~(s \o t)[i].must
    BY <1>2, <2>2, ConcatFacts DEF ScenesAreTried
  <2> QED BY <2>1, <2>2, ConcatFacts
<1> QED BY <1>1, <1>2 DEF AllMust, ScenesAreTried

\* A single command.
LEMMA OneCommand ==
  ASSUME NEW cmd \in Command, NEW ops
  PROVE  /\ <<cmd>> \in Seq(Command)
         /\ LastIs(<<cmd>>, ops, cmd.op, cmd.v)
         /\ cmd.op \notin ops => Without(<<cmd>>, ops)
         /\ cmd.must => AllMust(<<cmd>>)
         /\ (cmd.op = "scene" => ~cmd.must) => ScenesAreTried(<<cmd>>)
<1>1. <<cmd>> \in Seq(Command) /\ Len(<<cmd>>) = 1 /\ <<cmd>>[1] = cmd
  OBVIOUS
<1>2. /\ 1 \in 1 .. Len(<<cmd>>)
      /\ \A i \in 1 .. Len(<<cmd>>) : i = 1
      /\ \A i \in 1 + 1 .. Len(<<cmd>>) : FALSE
  BY <1>1
<1> QED BY <1>1, <1>2 DEF LastIs, Without, AllMust, ScenesAreTried

LEMMA DoFacts ==
  ASSUME NEW op \in WriteOps \cup SleepOps, NEW v \in Nat
  PROVE  /\ Do(op, v) \in Command /\ Do(op, v).op = op /\ Do(op, v).v = v /\ Do(op, v).must
         /\ Try(op, v) \in Command /\ Try(op, v).op = op /\ Try(op, v).v = v
         /\ ~Try(op, v).must
  BY CommandType DEF Do, Try

LEMMA PairOfCommands ==
  ASSUME NEW p \in Command, NEW q \in Command
  PROVE  <<p, q>> = <<p>> \o <<q>>
<1> DEFINE s == <<p, q>>
<1> DEFINE t == <<p>> \o <<q>>
<1>1. s \in Seq(Command) /\ Len(s) = 2 /\ s[1] = p /\ s[2] = q
  OBVIOUS
<1>2. <<p>> \in Seq(Command) /\ Len(<<p>>) = 1 /\ <<p>>[1] = p
      /\ <<q>> \in Seq(Command) /\ Len(<<q>>) = 1 /\ <<q>>[1] = q
  OBVIOUS
<1>3. t \in Seq(Command) /\ Len(t) = 2 /\ t[1] = p /\ t[2] = q
  BY <1>2
<1> HIDE DEF s, t
<1>4. \A i \in 1 .. Len(s) : s[i] = t[i]
  BY <1>1, <1>3
<1>5. s = t
  BY <1>1, <1>3, <1>4, SeqEqual
<1> QED BY <1>5 DEF s, t

\* Switching on and setting the brightness, with which every lit effect starts.
LEMMA SwitchedOn ==
  ASSUME NEW b \in Nat
  PROVE  LET s == <<Do("power", 1), Do("brightness", b)>> IN
         /\ s \in Seq(Command)
         /\ LastIs(s, {"power"}, "power", 1)
         /\ LastIs(s, {"brightness"}, "brightness", b)
         /\ AllMust(s) /\ ScenesAreTried(s)
<1> DEFINE p == Do("power", 1)
<1> DEFINE q == Do("brightness", b)
<1>1. /\ p \in Command /\ p.op = "power" /\ p.v = 1 /\ p.must
      /\ q \in Command /\ q.op = "brightness" /\ q.v = b /\ q.must
  BY DoFacts DEF WriteOps
<1> HIDE DEF p, q
<1>2. <<p, q>> = <<p>> \o <<q>>
  BY <1>1, PairOfCommands
<1>3. LastIs(<<p>>, {"power"}, "power", 1) /\ Without(<<q>>, {"power"})
  BY <1>1, OneCommand
<1>4. LastIs(<<q>>, {"brightness"}, "brightness", b)
  BY <1>1, OneCommand
<1>5. AllMust(<<p>>) /\ AllMust(<<q>>) /\ ScenesAreTried(<<p>>) /\ ScenesAreTried(<<q>>)
  BY <1>1, OneCommand
<1>6. <<p>> \in Seq(Command) /\ <<q>> \in Seq(Command)
  BY <1>1
<1>7. /\ <<p>> \o <<q>> \in Seq(Command)
      /\ LastIs(<<p>> \o <<q>>, {"power"}, "power", 1)
      /\ LastIs(<<p>> \o <<q>>, {"brightness"}, "brightness", b)
      /\ AllMust(<<p>> \o <<q>>) /\ ScenesAreTried(<<p>> \o <<q>>)
  <2> DEFINE a == <<p>>
  <2> DEFINE z == <<q>>
  <2>1. a \in Seq(Command) /\ z \in Seq(Command)
    BY <1>6
  <2>2. /\ LastIs(a, {"power"}, "power", 1) /\ Without(z, {"power"})
        /\ LastIs(z, {"brightness"}, "brightness", b)
        /\ AllMust(a) /\ AllMust(z) /\ ScenesAreTried(a) /\ ScenesAreTried(z)
    BY <1>3, <1>4, <1>5
  <2> HIDE DEF a, z
  <2>3. a \o z \in Seq(Command) /\ AllMust(a \o z) /\ ScenesAreTried(a \o z)
    BY <2>1, <2>2, ConcatFacts, ConcatMust
  <2>4. /\ LastIs(a \o z, {"power"}, "power", 1)
        /\ LastIs(a \o z, {"brightness"}, "brightness", b)
    BY <2>1, <2>2, ConcatLast
  <2> QED BY <2>3, <2>4 DEF a, z
<1> QED BY <1>2, <1>7 DEF p, q

LEMMA BlinkFacts ==
  ASSUME NEW j \in EffectJob
  PROVE  /\ Blink(j) \in Seq(Command)
         /\ Without(Blink(j), {"power"}) /\ Without(Blink(j), {"brightness"})
         /\ AllMust(Blink(j)) /\ ScenesAreTried(Blink(j))
<1>1. Blink(j) \in Seq(Command) /\ Len(Blink(j)) = 4 * j.cycles
  <2>1. 4 * j.cycles \in Nat
    BY DEF EffectJob
  <2> QED BY <2>1, BlinkType DEF Blink
<1>2. ASSUME NEW i \in 1 .. Len(Blink(j))
      PROVE  Blink(j)[i].op \in {"sleep", "color"} /\ Blink(j)[i].must
  BY <1>1 DEF Blink, Do
<1> QED BY <1>1, <1>2 DEF Without, AllMust, ScenesAreTried

\* The plan of an effect ends in the look of the effect, from wherever it starts.
LEMMA EffectPlanShows ==
  ASSUME NEW j \in EffectJob, NEW l \in Lamp
  PROVE  /\ EffectPlan(j) \in Seq(Command)
         /\ WillShow(j, EffectPlan(j), l)
         /\ AllMust(EffectPlan(j)) /\ ScenesAreTried(EffectPlan(j))
<1> DEFINE lit == <<Do("power", 1), Do("brightness", j.brightness)>>
<1>1. j.brightness \in Nat /\ j.colorA \in Nat /\ j.colorB \in Nat
  BY DEF EffectJob
<1>2. /\ lit \in Seq(Command)
      /\ LastIs(lit, {"power"}, "power", 1)
      /\ LastIs(lit, {"brightness"}, "brightness", j.brightness)
      /\ AllMust(lit) /\ ScenesAreTried(lit)
  BY <1>1, SwitchedOn
<1>3. ASSUME NEW c \in Nat
      PROVE  /\ <<Do("color", c)>> \in Seq(Command)
             /\ LastIs(<<Do("color", c)>>, Looks, "color", c)
             /\ Without(<<Do("color", c)>>, {"power"})
             /\ Without(<<Do("color", c)>>, {"brightness"})
             /\ AllMust(<<Do("color", c)>>) /\ ScenesAreTried(<<Do("color", c)>>)
  <2> DEFINE cmd == Do("color", c)
  <2>1. cmd \in Command /\ cmd.op = "color" /\ cmd.v = c /\ cmd.must
    BY DoFacts DEF WriteOps
  <2> HIDE DEF cmd
  <2>2. /\ <<cmd>> \in Seq(Command) /\ LastIs(<<cmd>>, Looks, "color", c)
        /\ Without(<<cmd>>, {"power"}) /\ Without(<<cmd>>, {"brightness"})
        /\ AllMust(<<cmd>>) /\ ScenesAreTried(<<cmd>>)
    BY <2>1, OneCommand
  <2> QED BY <2>2 DEF cmd
<1>4. /\ <<Do("power", 0)>> \in Seq(Command)
      /\ LastIs(<<Do("power", 0)>>, {"power"}, "power", 0)
      /\ AllMust(<<Do("power", 0)>>) /\ ScenesAreTried(<<Do("power", 0)>>)
  BY DoFacts, OneCommand DEF WriteOps
<1> HIDE DEF lit
<1>5. CASE j.effect = Flash
  <2> DEFINE start == lit \o Blink(j)
  <2>1. EffectPlan(j) = start \o EndPlan(j)
    BY <1>5 DEF EffectPlan, RunFlash, Flash, lit
  <2>2. /\ start \in Seq(Command)
        /\ LastIs(start, {"power"}, "power", 1)
        /\ LastIs(start, {"brightness"}, "brightness", j.brightness)
        /\ AllMust(start) /\ ScenesAreTried(start)
    BY <1>2, BlinkFacts, ConcatLast, ConcatMust, ConcatFacts
  <2> HIDE DEF start
  <2>3. CASE j.endState = "off"
    <3>1. EndPlan(j) = <<Do("power", 0)>>
      BY <2>3 DEF EndPlan
    <3>2. WillBePowered(EffectPlan(j), l, 0)
      BY <1>4, <2>1, <2>2, <3>1, ConcatLast DEF WillBePowered
    <3>3. WillShow(j, EffectPlan(j), l)
      BY <1>5, <2>3, <3>2 DEF WillShow, Flash
    <3> QED BY <1>4, <2>1, <2>2, <3>1, <3>3, ConcatFacts, ConcatMust
  <2>4. ASSUME NEW c \in Nat, EndPlan(j) = <<Do("color", c)>>
        PROVE  /\ EffectPlan(j) \in Seq(Command)
               /\ WillBePowered(EffectPlan(j), l, 1) /\ WillBeBright(EffectPlan(j), l, j.brightness)
               /\ WillBeColored(EffectPlan(j), l, c)
               /\ AllMust(EffectPlan(j)) /\ ScenesAreTried(EffectPlan(j))
    <3> DEFINE e == EndPlan(j)
    <3>1. /\ e \in Seq(Command) /\ LastIs(e, Looks, "color", c)
          /\ Without(e, {"power"}) /\ Without(e, {"brightness"})
          /\ AllMust(e) /\ ScenesAreTried(e)
      BY <1>3, <2>4
    <3> HIDE DEF e
    <3>2. start \o e \in Seq(Command) /\ AllMust(start \o e) /\ ScenesAreTried(start \o e)
      BY <2>2, <3>1, ConcatFacts, ConcatMust
    <3>3. /\ LastIs(start \o e, {"power"}, "power", 1)
          /\ LastIs(start \o e, {"brightness"}, "brightness", j.brightness)
          /\ LastIs(start \o e, Looks, "color", c)
      BY <2>2, <3>1, ConcatLast
    <3> QED BY <2>1, <3>2, <3>3 DEF e, WillBePowered, WillBeBright, WillBeColored
  <2>5. CASE j.endState = "holdA"
    BY <1>1, <1>5, <2>4, <2>5 DEF EndPlan, WillShow, Flash
  <2>6. CASE j.endState = "holdB"
    BY <1>1, <1>5, <2>4, <2>6 DEF EndPlan, WillShow, Flash
  <2> QED BY <2>3, <2>5, <2>6 DEF EffectJob, EndStates
<1>6. CASE j.effect = "solid"
  <2>1. EffectPlan(j) = lit \o <<Do("color", j.colorA)>>
    BY <1>6 DEF EffectPlan, RunSolid, Flash, lit
  <2>2. /\ WillBePowered(EffectPlan(j), l, 1) /\ WillBeBright(EffectPlan(j), l, j.brightness)
        /\ WillBeColored(EffectPlan(j), l, j.colorA)
    BY <1>1, <1>2, <1>3, <2>1, ConcatLast DEF WillBePowered, WillBeBright, WillBeColored
  <2>3. WillShow(j, EffectPlan(j), l)
    BY <1>6, <2>2 DEF WillShow, Flash
  <2> QED BY <1>1, <1>2, <1>3, <2>1, <2>3, ConcatFacts, ConcatMust
<1>7. CASE j.effect = "on"
  <2>1. EffectPlan(j) = lit
    BY <1>7 DEF EffectPlan, RunOn, Flash, lit
  <2>2. WillShow(j, EffectPlan(j), l)
    BY <1>2, <1>7, <2>1 DEF WillShow, Flash, WillBePowered, WillBeBright
  <2> QED BY <1>2, <2>1, <2>2
<1>8. CASE j.effect = "off"
  <2>1. EffectPlan(j) = <<Do("power", 0)>>
    BY <1>8 DEF EffectPlan, Flash
  <2>2. WillShow(j, EffectPlan(j), l)
    BY <1>4, <1>8, <2>1 DEF WillShow, WillBePowered
  <2> QED BY <1>4, <2>1, <2>2
<1> QED BY <1>5, <1>6, <1>7, <1>8 DEF EffectJob

LEMMA TriedCommand ==
  ASSUME NEW op \in WriteOps, NEW v \in Nat
  PROVE  /\ TryReported(op, v) \in Seq(Command)
         /\ \A ops : LastIs(TryReported(op, v), ops, op, v)
         /\ \A ops : op \notin ops => Without(TryReported(op, v), ops)
         /\ ScenesAreTried(TryReported(op, v))
<1> DEFINE cmd == Try(op, v)
<1>1. cmd \in Command /\ cmd.op = op /\ cmd.v = v /\ ~cmd.must
  BY DoFacts
<1>2. v # Unreported
  BY DEF Unreported
<1>3. TryReported(op, v) = <<cmd>>
  BY <1>2 DEF TryReported
<1> HIDE DEF cmd
<1>4. \A ops : LastIs(<<cmd>>, ops, op, v)
  BY <1>1, OneCommand
<1>5. \A ops : op \notin ops => Without(<<cmd>>, ops)
  BY <1>1, OneCommand
<1>6. <<cmd>> \in Seq(Command) /\ ScenesAreTried(<<cmd>>)
  BY <1>1, OneCommand
<1> QED BY <1>3, <1>4, <1>5, <1>6

\* A restore of a report that says enough ends in the look it was captured from,
\* whatever ran before it.
LEMMA RestoreBringsBack ==
  ASSUME NEW l \in Lamp, NEW after, NEW r \in Report, NEW s \in Seq(Command),
         Restorable(r, l)
  PROVE  WillBeBack(l, s \o Restore(r), after)
<1> DEFINE t == Restore(r)
<1>1. t \in Seq(Command)
  BY RestoreType
<1>2. l.power \in {0, 1} /\ l.brightness \in Nat /\ l.color \in Nat /\ l.scene \in Nat
  BY DEF Lamp
<1>3. r.power = l.power
  BY DEF Restorable
<1>4. CASE l.power = 0
  <2>1. t = <<Try("power", 0)>>
    BY <1>3, <1>4 DEF Restore
  <2>2. LastIs(t, {"power"}, "power", 0)
    <3>1. /\ Try("power", 0) \in Command
          /\ Try("power", 0).op = "power" /\ Try("power", 0).v = 0
      BY DoFacts DEF WriteOps
    <3>2. LastIs(<<Try("power", 0)>>, {"power"}, "power", 0)
      BY <3>1, OneCommand
    <3> QED BY <2>1, <3>2
  <2>3. LastIs(s \o t, {"power"}, "power", 0)
    BY <1>1, <2>2, ConcatLast
  <2> QED BY <1>4, <2>3 DEF WillBeBack, WillBePowered
<1>5. CASE l.power = 1
  <2> DEFINE p == TryReported("power", 1)
  <2> DEFINE b == TryReported("brightness", l.brightness)
  <2> DEFINE look == IF l.scene # 0 THEN <<Try("scene", l.scene)>>
                     ELSE TryReported("color", l.color)
  <2>1. /\ r.brightness = l.brightness
        /\ IF l.scene # 0 THEN r.scene = l.scene ELSE r.color = l.color
        /\ r.scene # Unreported <=> l.scene # 0
    BY <1>2, <1>3, <1>5 DEF Restorable, Unreported
  <2>2. t = (p \o b) \o look
    <3>1. t = (TryReported("power", r.power) \o TryReported("brightness", r.brightness))
              \o (IF r.scene # Unreported THEN <<Try("scene", r.scene)>>
                  ELSE TryReported("color", r.color))
      BY <1>3, <1>5 DEF Restore
    <3>2. TryReported("power", r.power) = p /\ TryReported("brightness", r.brightness) = b
      BY <1>3, <1>5, <2>1
    <3>3. (IF r.scene # Unreported THEN <<Try("scene", r.scene)>>
           ELSE TryReported("color", r.color)) = look
      BY <2>1
    <3> HIDE DEF t, p, b, look
    <3> QED BY <3>1, <3>2, <3>3
  <2>3. look = TryReported(IF l.scene # 0 THEN "scene" ELSE "color",
                           IF l.scene # 0 THEN l.scene ELSE l.color)
    BY <1>2 DEF TryReported, Unreported
  <2>4. /\ p \in Seq(Command) /\ LastIs(p, {"power"}, "power", 1)
    BY TriedCommand DEF WriteOps
  <2>5. /\ b \in Seq(Command) /\ LastIs(b, {"brightness"}, "brightness", l.brightness)
        /\ Without(b, {"power"})
    BY <1>2, TriedCommand DEF WriteOps
  <2>6. /\ look \in Seq(Command) /\ Without(look, {"power"}) /\ Without(look, {"brightness"})
        /\ l.scene # 0 => LastIs(look, Looks, "scene", l.scene)
        /\ l.scene = 0 => LastIs(look, Looks, "color", l.color)
    <3>1. CASE l.scene # 0
      <4>1. look = TryReported("scene", l.scene)
        BY <2>3, <3>1
      <4> QED BY <1>2, <3>1, <4>1, TriedCommand DEF WriteOps
    <3>2. CASE l.scene = 0
      <4>1. look = TryReported("color", l.color)
        BY <2>3, <3>2
      <4> QED BY <1>2, <3>2, <4>1, TriedCommand DEF WriteOps
    <3> QED BY <3>1, <3>2
  <2> HIDE DEF p, b, look
  <2>7. /\ p \o b \in Seq(Command)
        /\ LastIs(p \o b, {"power"}, "power", 1)
        /\ LastIs(p \o b, {"brightness"}, "brightness", l.brightness)
    BY <2>4, <2>5, ConcatFacts, ConcatLast
  <2>8. /\ LastIs(t, {"power"}, "power", 1)
        /\ LastIs(t, {"brightness"}, "brightness", l.brightness)
        /\ l.scene # 0 => LastIs(t, Looks, "scene", l.scene)
        /\ l.scene = 0 => LastIs(t, Looks, "color", l.color)
    BY <2>2, <2>6, <2>7, ConcatLast
  <2> HIDE DEF t
  <2>9. /\ LastIs(s \o t, {"power"}, "power", 1)
        /\ LastIs(s \o t, {"brightness"}, "brightness", l.brightness)
        /\ l.scene # 0 => LastIs(s \o t, Looks, "scene", l.scene)
        /\ l.scene = 0 => LastIs(s \o t, Looks, "color", l.color)
    BY <1>1, <2>8, ConcatLast
  <2> QED BY <1>5, <2>9 DEF WillBeBack, WillBePowered, WillBeBright, WillPlay, WillBeColored, t
<1> QED BY <1>2, <1>4, <1>5

\* A restore tries and never insists.
LEMMA RestoreTries ==
  ASSUME NEW r \in Report
  PROVE  ScenesAreTried(Restore(r)) /\ Restore(NothingReported) = <<>>
<1>1. Restore(NothingReported) = <<>>
  BY DEF Restore, NothingReported, TryReported, Unreported
<1>2. ASSUME NEW op \in WriteOps, NEW v \in Field
      PROVE  TryReported(op, v) \in Seq(Command) /\ ScenesAreTried(TryReported(op, v))
  <2>1. CASE v = Unreported
    BY <2>1 DEF TryReported, ScenesAreTried
  <2>2. CASE v \in Nat
    BY <2>2, TriedCommand
  <2> QED BY <2>1, <2>2 DEF Field
<1>3. CASE r.power = 0
  <2>1. Restore(r) = <<Try("power", 0)>>
    BY <1>3 DEF Restore
  <2>2. Try("power", 0) \in Command /\ Try("power", 0).op = "power"
    BY DoFacts DEF WriteOps
  <2>3. ScenesAreTried(<<Try("power", 0)>>)
    BY <2>2, OneCommand
  <2> QED BY <1>1, <2>1, <2>3
<1>4. CASE r.power # 0
  <2> DEFINE p == TryReported("power", r.power)
  <2> DEFINE b == TryReported("brightness", r.brightness)
  <2> DEFINE look == IF r.scene # Unreported THEN <<Try("scene", r.scene)>>
                     ELSE TryReported("color", r.color)
  <2>1. p \in Seq(Command) /\ b \in Seq(Command) /\ ScenesAreTried(p) /\ ScenesAreTried(b)
    BY <1>2 DEF Report, Field, WriteOps
  <2>2. look \in Seq(Command) /\ ScenesAreTried(look)
    <3>1. look = TryReported(IF r.scene # Unreported THEN "scene" ELSE "color",
                             IF r.scene # Unreported THEN r.scene ELSE r.color)
      BY DEF TryReported
    <3>2. r.scene \in Field /\ r.color \in Field
      BY DEF Report
    <3> QED BY <1>2, <3>1, <3>2 DEF WriteOps
  <2>3. Restore(r) = (p \o b) \o look
    BY <1>4 DEF Restore
  <2> HIDE DEF p, b, look
  <2>4. p \o b \in Seq(Command) /\ ScenesAreTried(p \o b)
    BY <2>1, ConcatFacts, ConcatMust
  <2>5. ScenesAreTried((p \o b) \o look)
    BY <2>2, <2>4, ConcatMust
  <2> QED BY <1>1, <2>3, <2>5
<1> QED BY <1>3, <1>4

\* The after-effect scene is last, behind a power-on and a settle delay.
LEMMA SceneComesLast ==
  ASSUME NEW x \in Nat, NEW s \in Seq(Command), NEW l, NEW wakes
  PROVE  /\ WillSettleAndPlay(s \o ApplyAfterScene(x), l, wakes, x)
         /\ AllMust(ApplyAfterScene(x)) /\ ApplyAfterScene(x) \in Seq(Command)
<1> DEFINE t == ApplyAfterScene(x)
<1>1. /\ t \in Seq(Command) /\ Len(t) = 3
      /\ t[1] = Do("power", 1) /\ t[2] = Do("settle", 0) /\ t[3] = Do("scene", x)
  BY DoFacts DEF ApplyAfterScene, WriteOps, SleepOps
<1>2. AllMust(t)
  <2>1. Do("power", 1).must /\ Do("settle", 0).must /\ Do("scene", x).must
    BY DEF Do
  <2> QED BY <1>1, <2>1 DEF AllMust
<1> HIDE DEF t
<1>3. /\ Len(s \o t) = Len(s) + 3 /\ Len(s) \in Nat
      /\ (s \o t)[Len(s) + 1] = t[1] /\ (s \o t)[Len(s) + 2] = t[2] /\ (s \o t)[Len(s) + 3] = t[3]
  <2>1. 1 \in 1 .. Len(t) /\ 2 \in 1 .. Len(t) /\ 3 \in 1 .. Len(t)
    BY <1>1
  <2>2. \A i \in 1 .. Len(t) : (s \o t)[Len(s) + i] = t[i]
    BY <1>1, ConcatFacts
  <2>3. Len(s \o t) = Len(s) + Len(t) /\ Len(s) \in Nat
    BY <1>1, ConcatFacts
  <2> QED BY <1>1, <2>1, <2>2, <2>3
<1>4. Len(s \o t) - 2 = Len(s) + 1 /\ Len(s \o t) - 1 = Len(s) + 2 /\ Len(s \o t) >= 3
  BY <1>3
<1>5. WillSettleAndPlay(s \o t, l, wakes, x)
  BY <1>1, <1>3, <1>4 DEF WillSettleAndPlay
<1> QED BY <1>1, <1>2, <1>5 DEF t

LEMMA ReportNothing ==
  ASSUME NEW s \in Seq(Command)
  PROVE  s \o Restore(NothingReported) = s
  BY RestoreTries, NothingReportedType

LEMMA NoCapture ==
  ASSUME NEW j \in EffectJob \cup ManualJob, NEW e \in Entry
  PROVE  /\ Manual(j) => j \in ManualJob
         /\ ~Manual(j) => j \in EffectJob /\ j.scenes[e] \in Nat /\ j.restore \in BOOLEAN
         /\ Captures(j, e) => ~Manual(j)
  BY DEF Manual, EffectJob, ManualJob, Flash, Captures

\* A run sets out for what it promises: at once, unless it captures first ...
LEMMA SetsOut ==
  ASSUME NEW j \in EffectJob \cup ManualJob, NEW e \in Entry, NEW l \in Lamp,
         NEW wakes \in BOOLEAN, ~Captures(j, e)
  PROVE  /\ HeadsFor(j, e, l, Execute(j, e, NothingReported), l, wakes)
         /\ AllMust(Execute(j, e, NothingReported))
<1>1. CASE Manual(j)
  <2>1. Execute(j, e, NothingReported) = <<Do(j.op, j.v)>>
    BY <1>1 DEF Execute
  <2>2. Do(j.op, j.v) \in Command /\ Do(j.op, j.v).must
    BY <1>1, NoCapture, DoFacts DEF ManualJob
  <2>3. AllMust(<<Do(j.op, j.v)>>)
    BY <2>2, OneCommand
  <2>4. HeadsFor(j, e, l, <<Do(j.op, j.v)>>, l, wakes)
    BY <1>1 DEF HeadsFor
  <2> QED BY <2>1, <2>3, <2>4
<1>2. CASE ~Manual(j) /\ j.scenes[e] # 0
  <2>1. Execute(j, e, NothingReported) = EffectPlan(j) \o ApplyAfterScene(j.scenes[e])
    BY <1>2 DEF Execute
  <2>2. /\ EffectPlan(j) \in Seq(Command) /\ AllMust(EffectPlan(j))
        /\ j.scenes[e] \in Nat
    BY <1>2, NoCapture, EffectPlanShows
  <2>3. /\ WillSettleAndPlay(EffectPlan(j) \o ApplyAfterScene(j.scenes[e]), l, wakes, j.scenes[e])
        /\ AllMust(ApplyAfterScene(j.scenes[e])) /\ ApplyAfterScene(j.scenes[e]) \in Seq(Command)
    BY <2>2, SceneComesLast
  <2>4. AllMust(EffectPlan(j) \o ApplyAfterScene(j.scenes[e]))
    BY <2>2, <2>3, ConcatMust
  <2> QED BY <1>2, <2>1, <2>3, <2>4 DEF HeadsFor
<1>3. CASE ~Manual(j) /\ j.scenes[e] = 0
  <2>1. j \in EffectJob /\ ~j.restore
    BY <1>3, NoCapture DEF Captures
  <2>2. /\ EffectPlan(j) \in Seq(Command) /\ AllMust(EffectPlan(j))
        /\ WillShow(j, EffectPlan(j), l)
    BY <2>1, EffectPlanShows
  <2>3. Execute(j, e, NothingReported) = EffectPlan(j)
    BY <1>3, <2>2, ReportNothing DEF Execute
  <2> QED BY <1>3, <2>1, <2>2, <2>3 DEF HeadsFor
<1> QED BY <1>1, <1>2, <1>3

\* ... and a capture that says enough points it back to where it was.
LEMMA SetsOutAndReturns ==
  ASSUME NEW j \in EffectJob \cup ManualJob, NEW e \in Entry, NEW l \in Lamp,
         NEW wakes \in BOOLEAN, NEW r \in Report, Captures(j, e)
  PROVE  /\ ScenesAreTried(Execute(j, e, r))
         /\ Restorable(r, l) => HeadsFor(j, e, l, Execute(j, e, r), l, wakes)
<1>1. ~Manual(j) /\ j \in EffectJob /\ j.scenes[e] = 0 /\ j.restore
  BY NoCapture DEF Captures
<1>2. Execute(j, e, r) = EffectPlan(j) \o Restore(r)
  BY <1>1 DEF Execute
<1>3. EffectPlan(j) \in Seq(Command) /\ ScenesAreTried(EffectPlan(j))
  BY <1>1, EffectPlanShows
<1>4. Restore(r) \in Seq(Command) /\ ScenesAreTried(Restore(r))
  BY RestoreType, RestoreTries
<1>5. ScenesAreTried(EffectPlan(j) \o Restore(r))
  BY <1>3, <1>4, ConcatMust
<1>6. ASSUME Restorable(r, l)
      PROVE  HeadsFor(j, e, l, Execute(j, e, r), l, wakes)
  <2>1. WillBeBack(l, EffectPlan(j) \o Restore(r), l)
    BY <1>3, <1>6, RestoreBringsBack
  <2> QED BY <1>1, <1>2, <2>1 DEF HeadsFor
<1> QED BY <1>2, <1>5, <1>6

\* A command that was delivered, or a delay, keeps it on its way.
LEMMA StillHeadsFor ==
  ASSUME NEW j \in EffectJob \cup ManualJob, NEW e \in Entry, NEW b \in Lamp, NEW l \in Lamp,
         NEW s \in Seq(Command), s # <<>>, NEW wakes \in BOOLEAN, NEW wakesNext \in BOOLEAN,
         HeadsFor(j, e, b, s, l, wakes),
         Captures(j, e) => ~Swallowed(Head(s), l, wakes),
         Head(s).op = "settle" => ~wakesNext
  PROVE  HeadsFor(j, e, b, Tail(s), Apply(Head(s), l, wakes), wakesNext)
<1> DEFINE after == Apply(Head(s), l, wakes)
<1>1. CASE Manual(j)
  <2>1. s = <<Do(j.op, j.v)>> /\ l = b
    BY <1>1 DEF HeadsFor
  <2>2. Tail(s) = <<>> /\ Head(s) = Do(j.op, j.v)
    BY <2>1
  <2>3. after \in {Apply(Do(j.op, j.v), b, x) : x \in BOOLEAN}
    BY <2>1, <2>2
  <2> QED BY <1>1, <2>2, <2>3 DEF HeadsFor
<1>2. CASE ~Manual(j) /\ j.scenes[e] # 0
  <2>1. WillSettleAndPlay(s, l, wakes, j.scenes[e]) /\ j.scenes[e] \in Nat
    BY <1>2, NoCapture DEF HeadsFor
  <2>2. WillSettleAndPlay(Tail(s), after, wakesNext, j.scenes[e])
    BY <2>1, OnItsWayToTheScene
  <2> QED BY <1>2, <2>2 DEF HeadsFor
<1>3. CASE ~Manual(j) /\ j.scenes[e] = 0 /\ j.restore
  <2>1. WillBeBack(b, s, l) /\ ~Swallowed(Head(s), l, wakes)
    BY <1>3 DEF HeadsFor, Captures
  <2>2. b.power \in {0, 1} /\ b.brightness \in Nat /\ b.color \in Nat /\ b.scene \in Nat
    BY DEF Lamp
  <2>3. /\ \A p \in {0, 1} : WillBePowered(s, l, p) => WillBePowered(Tail(s), after, p)
        /\ \A x \in Nat : WillBeBright(s, l, x) => WillBeBright(Tail(s), after, x)
        /\ \A c \in Nat : WillBeColored(s, l, c) => WillBeColored(Tail(s), after, c)
        /\ \A x \in Nat : WillPlay(s, l, x) => WillPlay(Tail(s), after, x)
    BY <2>1, OnItsWay
  <2> HIDE DEF after
  <2>4. WillBeBack(b, Tail(s), after)
    BY <2>1, <2>2, <2>3 DEF WillBeBack
  <2> QED BY <1>3, <2>4 DEF HeadsFor, after
<1>4. CASE ~Manual(j) /\ j.scenes[e] = 0 /\ ~j.restore
  <2>1. WillShow(j, s, l)
    BY <1>4 DEF HeadsFor
  <2>2. j.brightness \in Nat /\ j.colorA \in Nat /\ j.colorB \in Nat
    BY <1>4, NoCapture DEF EffectJob
  <2>3. /\ \A p \in {0, 1} : WillBePowered(s, l, p) => WillBePowered(Tail(s), after, p)
        /\ \A x \in Nat : WillBeBright(s, l, x) => WillBeBright(Tail(s), after, x)
        /\ \A c \in Nat : WillBeColored(s, l, c) => WillBeColored(Tail(s), after, c)
    BY OnItsWay
  <2> HIDE DEF after
  <2>4. WillShow(j, Tail(s), after)
    BY <2>1, <2>2, <2>3 DEF WillShow, Flash
  <2> QED BY <1>4, <2>4 DEF HeadsFor, after
<1> QED BY <1>1, <1>2, <1>3, <1>4, NoCapture

\* A lamp that wakes up stays on its way.
LEMMA AwakeHeadsFor ==
  ASSUME NEW j, NEW e, NEW b, NEW s, NEW l, NEW wakes, NEW wakesNext, wakesNext => wakes,
         HeadsFor(j, e, b, s, l, wakes)
  PROVE  HeadsFor(j, e, b, s, l, wakesNext)
<1>1. \A x : WillSettleAndPlay(s, l, wakes, x) => WillSettleAndPlay(s, l, wakesNext, x)
  BY DEF WillSettleAndPlay
<1> QED BY <1>1 DEF HeadsFor

\* A plan that is done has delivered.
LEMMA ArrivesAt ==
  ASSUME NEW j \in EffectJob \cup ManualJob, NEW e \in Entry, NEW b \in Lamp, NEW l \in Lamp,
         NEW wakes, HeadsFor(j, e, b, <<>>, l, wakes)
  PROVE  Atomic!Delivered(j, e, b, l)
<1>1. /\ \A ops, op, v : ~LastIs(<<>>, ops, op, v)
      /\ \A p : WillBePowered(<<>>, l, p) => l.power = p
      /\ \A x : WillBeBright(<<>>, l, x) => l.brightness = x
      /\ \A c : WillBeColored(<<>>, l, c) => l.color = c /\ l.scene = 0
      /\ \A x : WillPlay(<<>>, l, x) => l.scene = x
  BY DEF LastIs, WillBePowered, WillBeBright, WillBeColored, WillPlay
<1>2. CASE Manual(j)
  <2>1. l \in {Apply(Do(j.op, j.v), b, x) : x \in BOOLEAN}
    <3>1. <<>> # <<Do(j.op, j.v)>>
      OBVIOUS
    <3> QED BY <1>2, <3>1 DEF HeadsFor
  <2>2. \A cmd, x : Atomic!Apply(cmd, b, x) = Apply(cmd, b, x)
    BY DEF Apply, Atomic!Apply, Swallowed, Atomic!Swallowed
  <2>3. l \in {Atomic!Apply(Atomic!Do(j.op, j.v), b, x) : x \in BOOLEAN}
    BY <2>1, <2>2 DEF Do, Atomic!Do
  <2>4. Atomic!Manual(j)
    BY <1>2 DEF Manual, Atomic!Manual
  <2> QED BY <2>3, <2>4 DEF Atomic!Delivered
<1>3. CASE ~Manual(j)
  <2>1. ~Atomic!Manual(j)
    BY <1>3 DEF Manual, Atomic!Manual
  <2>2. CASE j.scenes[e] # 0
    <3>1. WillSettleAndPlay(<<>>, l, wakes, j.scenes[e])
      BY <1>3, <2>2 DEF HeadsFor
    <3>2. Len(<<>>) = 0 /\ <<>> # <<Do("settle", 0), Do("scene", j.scenes[e])>>
          /\ <<>> # <<Do("scene", j.scenes[e])>>
      OBVIOUS
    <3>3. l.power = 1 /\ l.scene = j.scenes[e]
      BY <3>1, <3>2 DEF WillSettleAndPlay
    <3> QED BY <2>1, <2>2, <3>3 DEF Atomic!Delivered
  <2>3. CASE j.scenes[e] = 0 /\ j.restore
    <3>1. WillBeBack(b, <<>>, l)
      BY <1>3, <2>3 DEF HeadsFor
    <3>2. Atomic!SameLook(b, l)
      BY <1>1, <3>1 DEF WillBeBack, Atomic!SameLook
    <3> QED BY <2>1, <2>3, <3>2 DEF Atomic!Delivered
  <2>4. CASE j.scenes[e] = 0 /\ ~j.restore
    <3>1. WillShow(j, <<>>, l)
      BY <1>3, <2>4 DEF HeadsFor
    <3>2. \A c, x : l.power = 1 /\ l.brightness = x /\ l.color = c /\ l.scene = 0
                    => Atomic!Glows(l, c, x)
      BY DEF Lamp, Atomic!Glows
    <3>3. Atomic!EffectLook(j, l)
      <4>1. CASE j.effect = "off" \/ (j.effect = Flash /\ j.endState = "off")
        BY <1>1, <3>1, <4>1 DEF WillShow, Atomic!EffectLook, Flash, Atomic!Flash
      <4>2. CASE j.effect = "on"
        BY <1>1, <3>1, <4>2 DEF WillShow, Atomic!EffectLook, Flash, Atomic!Flash
      <4>3. CASE ~(j.effect = "off" \/ (j.effect = Flash /\ j.endState = "off")) /\ j.effect # "on"
        <5> DEFINE c == IF j.effect = Flash /\ j.endState = "holdB" THEN j.colorB ELSE j.colorA
        <5>1. l.power = 1 /\ l.brightness = j.brightness /\ l.color = c /\ l.scene = 0
          BY <1>1, <3>1, <4>3 DEF WillShow
        <5>2. Atomic!Glows(l, c, j.brightness)
          BY <3>2, <5>1
        <5> QED BY <4>3, <5>2 DEF Atomic!EffectLook, Flash, Atomic!Flash
      <4> QED BY <4>1, <4>2, <4>3
    <3> QED BY <2>1, <2>4, <3>3 DEF Atomic!Delivered
  <2> QED BY <1>3, <2>2, <2>3, <2>4, NoCapture
<1> QED BY <1>2, <1>3

-----------------------------------------------------------------------------
(* Every run holds its course. *)

\* The worker's own part of the state, and its lamp once it holds the mutex.
LEMMA CourseKept ==
  ASSUME TypeInv, NEW w \in Worker, Course(w), slips'[w] = slips[w],
         pc'[w] = pc[w] \/ (pc[w] = "none" /\ pc'[w] = "lock"),
         pc[w] # "none" => work'[Caller(w)] = work[Caller(w)],
         pc[w] \in {"capture", "run"} =>
           /\ todo'[w] = todo[w]
           /\ lamp'[Lit(w)] = lamp[Lit(w)] /\ before'[Lit(w)] = before[Lit(w)]
           /\ waking'[Lit(w)] => waking[Lit(w)]
  PROVE  Course(w)'
<1> DEFINE j == work[Caller(w)]
<1> DEFINE d == Lit(w)
<1>1. CASE pc[w] = "none"
  <2>1. slips'[w] = {} /\ pc'[w] \in {"none", "lock"}
    BY <1>1 DEF Course
  <2> QED BY <2>1 DEF Course
<1>2. CASE pc[w] = "run"
  <2>1. /\ pc'[w] = "run" /\ j' = j /\ todo'[w] = todo[w] /\ lamp'[d] = lamp[d]
        /\ before'[d] = before[d] /\ (waking'[d] => waking[d])
    BY <1>2
  <2>2. slips[w] = {} => HeadsFor(j, Listed(w), before[d], todo[w], lamp[d], waking'[d])
    BY <1>2, <2>1, AwakeHeadsFor DEF Course
  <2> QED BY <1>2, <2>1, <2>2 DEF Course
<1>3. CASE pc[w] \notin {"none", "run"}
  <2>1. pc'[w] = pc[w] /\ j' = j
    BY <1>3
  <2> QED BY <1>3, <2>1 DEF Course
<1> QED BY <1>1, <1>2, <1>3

LEMMA InitCourse == Init => CourseInv
  BY WorkerParts DEF Init, CourseInv, Course

\* A worker at its lamp is alone there.
LEMMA AloneAtTheLamp ==
  ASSUME TypeInv, SerialInv, NEW w \in Worker, NEW v \in Worker, v # w,
         pc[w] \in {"capture", "run"} \/ deviceLocks[Lit(w)] = NoWorker,
         pc[v] \in {"capture", "run"}
  PROVE  Lit(v) # Lit(w)
<1>1. deviceLocks[Lit(v)] = v
  BY DEF SerialInv
<1>2. v # NoWorker
  BY NoWorkerAssumption DEF Worker
<1> QED BY <1>1, <1>2 DEF SerialInv

LEMMA OthersKeepCourse ==
  ASSUME TypeInv, SerialInv, CourseInv, NEW w \in Worker,
         pc[w] \in {"capture", "run"} \/ deviceLocks[Lit(w)] = NoWorker,
         UNCHANGED <<stage, work>>,
         \A v \in Worker : v # w => pc'[v] = pc[v] /\ todo'[v] = todo[v] /\ slips'[v] = slips[v],
         \A d \in Device : d # Lit(w) =>
           lamp'[d] = lamp[d] /\ before'[d] = before[d] /\ waking'[d] = waking[d],
         Course(w)'
  PROVE  CourseInv'
<1>1. ASSUME NEW v \in Worker, v # w
      PROVE  Course(v)'
  <2>1. pc[v] \in {"capture", "run"} => Lit(v) # Lit(w)
    BY <1>1, AloneAtTheLamp
  <2>2. Course(v) /\ Lit(v) \in Device
    BY WorkerParts DEF CourseInv
  <2> QED BY <1>1, <2>1, <2>2, CourseKept
<1>2. \A c \in Call : stage'[c] # "idle" => work'[c] \in RunJobs
  BY DEF CourseInv
<1> QED BY <1>1, <1>2 DEF CourseInv

\* Steps that leave the lamps and the workers' plans alone.
LEMMA ElsewhereCourse ==
  ASSUME TypeInv, CourseInv, UNCHANGED <<todo, slips, lamp, before>>,
         \A d \in Device : waking'[d] => waking[d],
         \A w \in Worker : pc'[w] = pc[w] \/ (pc[w] = "none" /\ pc'[w] = "lock"),
         \A w \in Worker : pc[w] # "none" => work'[Caller(w)] = work[Caller(w)],
         \A c \in Call : stage'[c] # "idle" => work'[c] \in RunJobs
  PROVE  CourseInv'
<1>1. ASSUME NEW w \in Worker
      PROVE  Course(w)'
  <2>1. Course(w) /\ Lit(w) \in Device
    BY WorkerParts DEF CourseInv
  <2> QED BY <2>1, CourseKept
<1> QED BY <1>1 DEF CourseInv

LEMMA CallsKeepCourse ==
  ASSUME TypeInv, CourseInv,
         \/ Environment
         \/ \E c \in Call : Arrival(c) \/ CallSteps(c)
         \/ StopCancel \/ StopDrained \/ StopAbandons
         \/ UNCHANGED vars
  PROVE  CourseInv'
<1>1. \A c \in Call : stage[c] # "idle" => work[c] \in RunJobs
  BY DEF CourseInv
<1>2. ASSUME NEW w \in Worker, pc[w] # "none"
      PROVE  stage[Caller(w)] = "returned"
  BY <1>2 DEF TypeInv, JobInv
<1>3. CASE Tick \/ (\E q \in Settings : SetQuietHours(q)) \/ UNCHANGED vars
  BY <1>1, <1>3, ElsewhereCourse
     DEF Tick, SetQuietHours, vars, calls, workers, room, history
<1>4. ASSUME NEW d \in Device, Woken(d)
      PROVE  CourseInv'
  <2>1. \A x \in Device : waking'[x] => waking[x]
    BY <1>4 DEF Woken, TypeInv, TypeOK
  <2> QED BY <1>1, <1>4, <2>1, ElsewhereCourse DEF Woken, calls, workers, history
<1>5. ASSUME NEW c \in Call, NEW j, stage[c] = "idle", work' = [work EXCEPT ![c] = j],
             j \in RunJobs, \A x \in Call : x # c => stage'[x] = stage[x]
      PROVE  /\ \A x \in Call : stage'[x] # "idle" => work'[x] \in RunJobs
             /\ \A w \in Worker : pc[w] # "none" => work'[Caller(w)] = work[Caller(w)]
  <2>1. work'[c] = j /\ \A x \in Call : x # c => work'[x] = work[x]
    BY <1>5 DEF TypeInv, TypeOK
  <2>2. \A w \in Worker : pc[w] # "none" => Caller(w) # c /\ Caller(w) \in Call
    BY <1>2, <1>5, WorkerParts
  <2> QED BY <1>1, <1>5, <2>1, <2>2
<1>6. ASSUME NEW c \in Call, NEW e \in Jobs, Enqueue(c, e.job, e.mapping)
      PROVE  CourseInv'
  <2>1. e.job \in RunJobs
    BY DEF RunJobs
  <2>2. /\ \A x \in Call : stage'[x] # "idle" => work'[x] \in RunJobs
        /\ \A w \in Worker : pc[w] # "none" => work'[Caller(w)] = work[Caller(w)]
    BY <1>5, <1>6, <2>1 DEF Enqueue, TypeInv, TypeOK
  <2> QED BY <1>6, <2>2, ElsewhereCourse DEF Enqueue, workers, room, history
<1>7. ASSUME NEW c \in Call, NEW j \in ManualJobs, EnqueueControl(c, j)
      PROVE  CourseInv'
  <2>1. j \in RunJobs
    BY DEF RunJobs
  <2>2. /\ \A x \in Call : stage'[x] # "idle" => work'[x] \in RunJobs
        /\ \A w \in Worker : pc[w] # "none" => work'[Caller(w)] = work[Caller(w)]
    BY <1>5, <1>7, <2>1 DEF EnqueueControl, TypeInv, TypeOK
  <2>3. \A w \in Worker : pc'[w] = pc[w] \/ (pc[w] = "none" /\ pc'[w] = "lock")
    BY <1>7, StartSerial DEF EnqueueControl
  <2> QED BY <1>7, <2>2, <2>3, ElsewhereCourse DEF EnqueueControl, room, history
<1>8. ASSUME NEW c \in Call, CallSteps(c)
      PROVE  CourseInv'
  <2>1. \A x \in Call : stage'[x] # "idle" => stage[x] # "idle"
    BY <1>8 DEF CallSteps, ReadQuiet, EnqueueQuietCheck, EnqueueCooldown, EnqueueStart,
                TypeInv, TypeOK
  <2>2. CASE ReadQuiet(c) \/ EnqueueQuietCheck(c)
    BY <1>1, <2>1, <2>2, ElsewhereCourse
       DEF ReadQuiet, EnqueueQuietCheck, workers, room, history
  <2>3. CASE EnqueueCooldown(c)
    BY <1>1, <2>1, <2>3, ElsewhereCourse DEF EnqueueCooldown, workers, room
  <2>4. CASE EnqueueStart(c)
    <3>1. \A w \in Worker : pc'[w] = pc[w] \/ (pc[w] = "none" /\ pc'[w] = "lock")
      BY <2>4, StartSerial DEF EnqueueStart
    <3> QED BY <1>1, <2>1, <2>4, <3>1, ElsewhereCourse DEF EnqueueStart, room, history
  <2> QED BY <1>8, <2>2, <2>3, <2>4 DEF CallSteps
<1>9. CASE StopCancel \/ StopDrained \/ StopAbandons
  BY <1>1, <1>9, ElsewhereCourse
     DEF StopCancel, StopDrained, StopAbandons, calls, workers, room, history
<1> QED BY <1>3, <1>4, <1>6, <1>7, <1>8, <1>9 DEF Environment, Arrival

LEMMA WorkerFacts ==
  ASSUME TypeInv, NEW w \in Worker
  PROVE  /\ Caller(w) \in Call /\ Listed(w) \in Entry /\ Lit(w) \in Device
         /\ lamp[Lit(w)] \in Lamp /\ before[Lit(w)] \in Lamp /\ waking[Lit(w)] \in BOOLEAN
         /\ todo[w] \in Seq(Command)
         /\ pc[w] # "none" => work[Caller(w)] \in EffectJob \cup ManualJob
  BY WorkerParts DEF TypeInv, TypeOK, JobInv

LEMMA TakeLockCourse ==
  ASSUME TypeInv, SerialInv, CourseInv, NEW w \in Worker, TakeLock(w)
  PROVE  CourseInv'
<1> DEFINE j == work[Caller(w)]
<1> DEFINE e == Listed(w)
<1> DEFINE d == Lit(w)
<1>1. /\ pc[w] = "lock" /\ deviceLocks[d] = NoWorker
      /\ pc'[w] = IF Captures(j, e) THEN "capture" ELSE "run"
      /\ todo'[w] = Execute(j, e, NothingReported)
      /\ \A v \in Worker : v # w => pc'[v] = pc[v] /\ todo'[v] = todo[v]
      /\ before'[d] = lamp[d] /\ \A x \in Device : x # d => before'[x] = before[x]
      /\ UNCHANGED <<stage, work, lamp, waking, slips>>
  BY WorkerFacts DEF TakeLock, calls, room, TypeInv, TypeOK
<1>2. slips[w] = {} /\ Course(w)
  BY <1>1 DEF CourseInv, Course
<1>3. Course(w)'
  <2>1. CASE Captures(j, e)
    <3>1. pc'[w] = "capture"
      BY <1>1, <2>1
    <3> QED BY <1>1, <1>2, <2>1, <3>1 DEF Course
  <2>2. CASE ~Captures(j, e)
    <3>1. /\ HeadsFor(j, e, lamp[d], todo'[w], lamp[d], waking[d])
          /\ AllMust(todo'[w])
      BY <1>1, <2>2, WorkerFacts, SetsOut
    <3>2. pc'[w] = "run"
      BY <1>1, <2>2
    <3> QED BY <1>1, <1>2, <2>2, <3>1, <3>2 DEF Course
  <2> QED BY <2>1, <2>2
<1> QED BY <1>1, <1>3, OthersKeepCourse

LEMMA CaptureCourse ==
  ASSUME TypeInv, SerialInv, CourseInv, NEW w \in Worker,
         \/ CaptureFails(w)
         \/ \E look \in {lamp[Lit(w)]} \cup EarlierLooks, fields \in FieldSets :
              Capture(w, look, fields)
  PROVE  CourseInv'
<1> DEFINE j == work[Caller(w)]
<1> DEFINE e == Listed(w)
<1> DEFINE d == Lit(w)
<1>1. /\ pc[w] = "capture" /\ pc'[w] = "run"
      /\ \A v \in Worker : v # w => pc'[v] = pc[v] /\ todo'[v] = todo[v] /\ slips'[v] = slips[v]
      /\ UNCHANGED <<stage, work, lamp, before, waking>>
  BY DEF CaptureFails, Capture, Slips, calls, room, TypeInv, TypeOK
<1>2. lamp[d] = before[d] /\ Captures(j, e) /\ slips[w] = {}
  BY <1>1 DEF CourseInv, Course
<1>3. CASE CaptureFails(w)
  <2>1. slips'[w] = {"capture"} /\ todo'[w] = Execute(j, e, NothingReported)
    BY <1>2, <1>3 DEF CaptureFails, Slips, TypeInv, TypeOK
  <2>2. ScenesAreTried(todo'[w])
    BY <1>1, <1>2, <2>1, WorkerFacts, SetsOutAndReturns, NothingReportedType
  <2>3. Course(w)'
    BY <1>1, <1>2, <2>1, <2>2 DEF Course
  <2> QED BY <1>1, <2>3, OthersKeepCourse
<1>4. ASSUME NEW look \in {lamp[d]} \cup EarlierLooks, NEW fields, Capture(w, look, fields)
      PROVE  CourseInv'
  <2> DEFINE r == Reported(look, fields)
  <2>1. /\ slips'[w] = IF Restorable(r, lamp[d]) THEN {} ELSE {"report"}
        /\ todo'[w] = Execute(j, e, r)
    BY <1>2, <1>4 DEF Capture, Slips, TypeInv, TypeOK
  <2>2. r \in Report
    BY <1>4, WorkerFacts, ReportedType, EnvironmentAssumption
  <2>3. /\ ScenesAreTried(todo'[w])
        /\ Restorable(r, lamp[d]) => HeadsFor(j, e, lamp[d], todo'[w], lamp[d], waking[d])
    BY <1>1, <1>2, <2>1, <2>2, WorkerFacts, SetsOutAndReturns
  <2>4. slips'[w] = {} => Restorable(r, lamp[d])
    BY <2>1
  <2>5. Course(w)'
    BY <1>1, <1>2, <2>3, <2>4 DEF Course
  <2> QED BY <1>1, <2>5, OthersKeepCourse
<1> QED BY <1>3, <1>4

LEMMA TailKeeps ==
  ASSUME NEW s \in Seq(Command), s # <<>>
  PROVE  /\ AllMust(s) => AllMust(Tail(s)) /\ Head(s).must
         /\ ScenesAreTried(s) => ScenesAreTried(Tail(s)) /\ (Head(s).op = "scene" => ~Head(s).must)
<1>1. \A i \in 1 .. Len(Tail(s)) : i + 1 \in 1 .. Len(s) /\ Tail(s)[i] = s[i + 1]
  BY TailFacts
<1>2. 1 \in 1 .. Len(s) /\ Head(s) = s[1]
  BY TailFacts
<1> QED BY <1>1, <1>2 DEF AllMust, ScenesAreTried

\* A run that goes on after a write: the write was heard, or is taken as sent, or
\* was a restore's.
LEMMA GoesOnCourse ==
  ASSUME TypeInv, SerialInv, CourseInv, NEW w \in Worker, NEW ok \in BOOLEAN,
         NEW landed \in BOOLEAN, SendCommand(w, ok, landed), ok \/ ~Head(todo[w]).must
  PROVE  CourseInv'
<1> DEFINE j == work[Caller(w)]
<1> DEFINE e == Listed(w)
<1> DEFINE d == Lit(w)
<1> DEFINE cmd == Head(todo[w])
<1> DEFINE lost == cmd.op = "scene" /\ Swallowed(cmd, lamp[d], waking[d])
<1>1. /\ pc[w] = "run" /\ todo[w] # <<>> /\ cmd.op \in WriteOps
      /\ UNCHANGED <<pc, stage, work, before>>
      /\ todo'[w] = Tail(todo[w])
      /\ \A v \in Worker : v # w => todo'[v] = todo[v]
  BY DEF SendCommand, calls, TypeInv, TypeOK
<1>2. /\ landed => lamp'[d] = Apply(cmd, lamp[d], waking[d])
      /\ \A x \in Device : x # d => lamp'[x] = lamp[x] /\ waking'[x] = waking[x]
  BY WorkerFacts DEF SendCommand, room, TypeInv, TypeOK
<1>3. \E what : /\ Slips(w, what)
                /\ what = {} => landed /\ (~cmd.must => ~lost)
                /\ what \ {"unheard"} # {} => ~cmd.must
  <2>1. cmd.must \in BOOLEAN
    BY <1>1, WorkerFacts, TailFacts DEF Command
  <2>2. CASE ~ok
    <3>1. ~cmd.must /\ Slips(w, {"write"})
      BY <2>1, <2>2 DEF SendCommand
    <3> QED BY <3>1
  <2>3. CASE ok /\ ~landed
    <3>1. Slips(w, {"unheard"})
      BY <2>3 DEF SendCommand
    <3> QED BY <3>1
  <2>4. CASE ok /\ landed /\ lost /\ ~cmd.must
    <3>1. Slips(w, {"swallowed"})
      BY <2>4 DEF SendCommand
    <3> QED BY <2>4, <3>1
  <2>5. CASE ok /\ landed /\ ~(lost /\ ~cmd.must)
    <3>1. Slips(w, {})
      BY <2>5 DEF SendCommand
    <3> QED BY <2>5, <3>1
  <2> QED BY <2>2, <2>3, <2>4, <2>5
<1>4. PICK what : /\ Slips(w, what)
                  /\ what = {} => landed /\ (~cmd.must => ~lost)
                  /\ what \ {"unheard"} # {} => ~cmd.must
  BY <1>3
<1>5. /\ slips'[w] = slips[w] \cup what
      /\ \A v \in Worker : v # w => slips'[v] = slips[v]
  BY <1>4 DEF Slips, TypeInv, TypeOK
<1>6. Course(w)
  BY DEF CourseInv
<1>7. /\ ~Captures(j, e) => AllMust(todo'[w]) /\ cmd.must
      /\ Captures(j, e) => ScenesAreTried(todo'[w]) /\ (cmd.op = "scene" => ~cmd.must)
  BY <1>1, <1>6, WorkerFacts, TailKeeps DEF Course
<1>8. slips'[w] \ {"unheard"} # {} => Captures(j, e)
  BY <1>4, <1>5, <1>6, <1>7 DEF Course
<1>9. ASSUME slips'[w] = {}
      PROVE  HeadsFor(j, e, before[d], todo'[w], lamp'[d], waking'[d])
  <2>1. slips[w] = {} /\ landed /\ (~cmd.must => ~lost)
    BY <1>4, <1>5, <1>9
  <2>2. HeadsFor(j, e, before[d], todo[w], lamp[d], waking[d])
    BY <1>1, <1>6, <2>1 DEF Course
  <2>3. lamp'[d] = Apply(cmd, lamp[d], waking[d])
    BY <1>1, <1>2, <2>1
  <2>4. Captures(j, e) => ~Swallowed(cmd, lamp[d], waking[d])
    BY <1>7, <2>1 DEF Swallowed
  <2>5. cmd.op # "settle" /\ waking'[d] \in BOOLEAN
    <3>1. waking'[d] \in BOOLEAN
      BY TypeStep, WorkerFacts DEF TypeInv, TypeOK, Next, WorkerStep
    <3> QED BY <1>1, <3>1 DEF WriteOps
  <2>6. /\ j \in EffectJob \cup ManualJob /\ e \in Entry /\ before[d] \in Lamp
        /\ lamp[d] \in Lamp /\ todo[w] \in Seq(Command) /\ waking[d] \in BOOLEAN
    BY <1>1, WorkerFacts
  <2> HIDE DEF j, e, d, cmd, lost
  <2>7. HeadsFor(j, e, before[d], Tail(todo[w]), Apply(cmd, lamp[d], waking[d]), waking'[d])
    BY <1>1, <2>2, <2>4, <2>5, <2>6, StillHeadsFor DEF cmd
  <2> QED BY <1>1, <2>3, <2>7
<1>10. Course(w)'
  <2>1. pc'[w] = "run" /\ work'[Caller(w)] = j /\ before'[d] = before[d]
    BY <1>1
  <2> HIDE DEF cmd, lost
  <2> QED BY <1>7, <1>8, <1>9, <2>1 DEF Course
<1>11. \A v \in Worker : v # w => pc'[v] = pc[v] /\ todo'[v] = todo[v] /\ slips'[v] = slips[v]
  BY <1>1, <1>5
<1>12. \A x \in Device : x # d =>
         lamp'[x] = lamp[x] /\ before'[x] = before[x] /\ waking'[x] = waking[x]
  BY <1>1, <1>2
<1>13. UNCHANGED <<stage, work>>
  BY <1>1
<1> QED BY <1>1, <1>10, <1>11, <1>12, <1>13, OthersKeepCourse

LEMMA SleepCourse ==
  ASSUME TypeInv, SerialInv, CourseInv, NEW w \in Worker, SleepCtx(w)
  PROVE  CourseInv'
<1> DEFINE j == work[Caller(w)]
<1> DEFINE e == Listed(w)
<1> DEFINE d == Lit(w)
<1> DEFINE cmd == Head(todo[w])
<1>1. /\ pc[w] = "run" /\ todo[w] # <<>> /\ cmd.op \in SleepOps
      /\ UNCHANGED <<pc, stage, work, lamp, before, slips>>
      /\ todo'[w] = Tail(todo[w])
      /\ \A v \in Worker : v # w => todo'[v] = todo[v]
      /\ waking'[d] = (waking[d] /\ cmd.op # "settle")
      /\ \A x \in Device : x # d => waking'[x] = waking[x]
  BY WorkerFacts DEF SleepCtx, Sleeping, calls, history, TypeInv, TypeOK
<1>2. Apply(cmd, lamp[d], waking[d]) = lamp[d] /\ ~Swallowed(cmd, lamp[d], waking[d])
  BY <1>1 DEF Apply, Swallowed, SleepOps
<1>3. Course(w)
  BY DEF CourseInv
<1>4. /\ ~Captures(j, e) => AllMust(todo'[w])
      /\ Captures(j, e) => ScenesAreTried(todo'[w])
  BY <1>1, <1>3, WorkerFacts, TailKeeps DEF Course
<1>5. ASSUME slips[w] = {}
      PROVE  HeadsFor(j, e, before[d], todo'[w], lamp[d], waking'[d])
  <2>1. HeadsFor(j, e, before[d], todo[w], lamp[d], waking[d])
    BY <1>1, <1>3, <1>5 DEF Course
  <2>2. waking'[d] \in BOOLEAN /\ (cmd.op = "settle" => ~waking'[d])
    BY <1>1, WorkerFacts
  <2>3. /\ j \in EffectJob \cup ManualJob /\ e \in Entry /\ before[d] \in Lamp
        /\ lamp[d] \in Lamp /\ todo[w] \in Seq(Command) /\ waking[d] \in BOOLEAN
    BY <1>1, WorkerFacts
  <2> HIDE DEF j, e, d, cmd
  <2>4. HeadsFor(j, e, before[d], Tail(todo[w]), Apply(cmd, lamp[d], waking[d]), waking'[d])
    <3>1. ~Swallowed(cmd, lamp[d], waking[d]) /\ todo[w] # <<>>
      BY <1>1, <1>2
    <3> QED BY <2>1, <2>2, <2>3, <3>1, StillHeadsFor DEF cmd
  <2> QED BY <1>1, <1>2, <2>4
<1>6. Course(w)'
  <2> HIDE DEF cmd
  <2> QED BY <1>1, <1>3, <1>4, <1>5 DEF Course
<1> QED BY <1>1, <1>6, OthersKeepCourse

LEMMA FinishCourse ==
  ASSUME TypeInv, SerialInv, CourseInv, NEW w \in Worker, pc[w] = "run",
         NEW r, Finish(w, r), UNCHANGED <<stage, work, slips, before>>,
         \A d \in Device : d # Lit(w) => lamp'[d] = lamp[d] /\ waking'[d] = waking[d]
  PROVE  CourseInv'
<1>1. /\ pc'[w] \in {"ok", "failed"}
      /\ \A v \in Worker : v # w => pc'[v] = pc[v] /\ todo'[v] = todo[v]
  BY DEF Finish, TypeInv, TypeOK
<1>2. Course(w)'
  BY <1>1 DEF CourseInv, Course
<1> QED BY <1>1, <1>2, OthersKeepCourse

LEMMA WorkerStepCourse ==
  ASSUME TypeInv, SerialInv, CourseInv, NEW w \in Worker, WorkerStep(w)
  PROVE  CourseInv'
<1>1. CASE TakeLock(w)
  BY <1>1, TakeLockCourse
<1>2. CASE \/ CaptureFails(w)
           \/ \E look \in {lamp[Lit(w)]} \cup EarlierLooks, fields \in FieldSets :
                Capture(w, look, fields)
  BY <1>2, CaptureCourse
<1>3. ASSUME NEW ok \in BOOLEAN, NEW landed \in BOOLEAN, SendCommand(w, ok, landed)
      PROVE  CourseInv'
  <2>1. CASE ok \/ ~Head(todo[w]).must
    BY <1>3, <2>1, GoesOnCourse
  <2>2. CASE ~(ok \/ ~Head(todo[w]).must)
    <3>1. /\ Finish(w, "effect failed") /\ pc[w] = "run"
          /\ UNCHANGED <<stage, work, slips, before>>
      BY <1>3, <2>2 DEF SendCommand, calls
    <3>2. \A d \in Device : d # Lit(w) => lamp'[d] = lamp[d] /\ waking'[d] = waking[d]
      BY <1>3 DEF SendCommand, room, TypeInv, TypeOK
    <3> QED BY <3>1, <3>2, FinishCourse
  <2> QED BY <2>1, <2>2
<1>4. CASE SleepCtx(w)
  BY <1>4, SleepCourse
<1>5. CASE SleepCanceled(w)
  BY <1>5, FinishCourse DEF SleepCanceled, Sleeping, calls, room, history
<1>6. CASE SleepDeadline(w)
  BY <1>6, FinishCourse DEF SleepDeadline, Sleeping, calls, room, history
<1>7. CASE RunEnds(w)
  BY <1>7, FinishCourse DEF RunEnds, calls, room, history
<1>8. CASE VerifyFails(w)
  BY <1>8, FinishCourse DEF VerifyFails, calls, room, history
<1> QED BY <1>1, <1>2, <1>3, <1>4, <1>5, <1>6, <1>7, <1>8 DEF WorkerStep

LEMMA CourseStep ==
  ASSUME TypeInv, SerialInv, CourseInv, [Next]_vars
  PROVE  CourseInv'
  BY CallsKeepCourse, WorkerStepCourse DEF Next

-----------------------------------------------------------------------------
(* Each step of the engine is a step of AtomicRuns, or none. *)

\* A worker's verdict depends on its phase and, once it is over, on its slips.
LEMMA SameVerdict ==
  ASSUME NEW w \in Worker,
         \A phase \in {"ok", "failed"} : pc'[w] = phase <=> pc[w] = phase,
         pc[w] \in {"ok", "failed"} => slips'[w] = slips[w]
  PROVE  Verdict(w)' = Verdict(w)
<1>1. CASE pc[w] = "failed"
  BY <1>1 DEF Verdict
<1>2. CASE pc[w] = "ok"
  BY <1>2 DEF Verdict
<1>3. CASE pc[w] \notin {"ok", "failed"}
  <2>1. Verdict(w) = "none"
    BY <1>3 DEF Verdict
  <2>2. pc'[w] \notin {"ok", "failed"}
    BY <1>3
  <2>3. Verdict(w)' = "none"
    BY <2>2 DEF Verdict
  <2> QED BY <2>1, <2>3
<1> QED BY <1>1, <1>2, <1>3

LEMMA InitAtomic == Init => Atomic!AtomicInit
<1> SUFFICES ASSUME Init PROVE Atomic!AtomicInit
  OBVIOUS
<1>1. Shown = lamp
  BY DEF Init, Shown
<1>2. Given = [c \in Call |-> NoJob]
  BY EntryOfWorker DEF Init, Given
<1>3. Verdicts = [w \in Worker |-> "none"]
  BY DEF Init, Verdicts, Verdict
<1>4. Worker = Call \X Atomic!Entry
  BY DEF Worker, Entry, Atomic!Entry
<1> QED BY <1>1, <1>2, <1>3, <1>4 DEF Init, Atomic!AtomicInit, Atomic!NoJob, NoJob

\* No run starts or ends.
LEMMA NoRunStep ==
  ASSUME TypeInv, Shown' = Shown,
         \A w \in Worker, phase \in {"none", "ok", "failed"} : pc'[w] = phase <=> pc[w] = phase,
         \A w \in Worker : pc[w] # "none" => work'[Caller(w)] = work[Caller(w)],
         \A w \in Worker : pc[w] \in {"ok", "failed"} => slips'[w] = slips[w]
  PROVE  UNCHANGED Atomic!runVars
<1>1. ASSUME NEW w \in Worker
      PROVE  Verdict(w)' = Verdict(w)
  BY SameVerdict
<1>2. Verdicts' = Verdicts
  BY <1>1 DEF Verdicts
<1>3. ASSUME NEW c \in Call
      PROVE  Given'[c] = Given[c]
  <2>1. \A e \in Entry : <<c, e>> \in Worker /\ Caller(<<c, e>>) = c
    BY EntryOfWorker
  <2>2. (\E e \in Entry : pc'[<<c, e>>] # "none") <=> (\E e \in Entry : pc[<<c, e>>] # "none")
    BY <2>1
  <2>3. (\E e \in Entry : pc[<<c, e>>] # "none") => work'[c] = work[c]
    BY <2>1
  <2>4. Given[c] = IF \E e \in Entry : pc[<<c, e>>] # "none" THEN work[c] ELSE NoJob
    BY DEF Given
  <2>5. Given'[c] = IF \E e \in Entry : pc'[<<c, e>>] # "none" THEN work'[c] ELSE NoJob
    BY DEF Given
  <2> QED BY <2>2, <2>3, <2>4, <2>5
<1>4. Given' = Given
  BY <1>3 DEF Given
<1> QED BY <1>2, <1>4 DEF Atomic!runVars

\* A queued job is accepted; one that names no device starts nothing.
LEMMA StartStep ==
  ASSUME TypeInv, NEW c \in Call, NEW j \in RunJobs, stage[c] # "returned",
         work' = [work EXCEPT ![c] = j], Start(c, j.devices),
         UNCHANGED <<deviceLocks, lamp, before, slips>>
  PROVE  Atomic!AtomicNext \/ UNCHANGED Atomic!runVars
<1>1. \A w \in Worker : pc[w] # "none" => Caller(w) # c
  BY DEF TypeInv, JobInv
<1>2. /\ work'[c] = j /\ \A x \in Call : x # c => work'[x] = work[x]
      /\ \A w \in Worker :
           pc'[w] = IF Caller(w) = c /\ Listed(w) \in j.devices THEN "lock" ELSE pc[w]
  BY DEF TypeInv, TypeOK, Start
<1>3. Shown' = Shown
  BY DEF Shown
<1>4. ASSUME NEW w \in Worker
      PROVE  Verdict(w)' = Verdict(w)
  <2>1. \A phase \in {"ok", "failed"} : pc'[w] = phase <=> pc[w] = phase
    BY <1>1, <1>2
  <2> QED BY <2>1, SameVerdict
<1>5. Verdicts' = Verdicts
  BY <1>4 DEF Verdicts
<1>6. ASSUME NEW x \in Call, x # c
      PROVE  Given'[x] = Given[x]
  <2>1. \A e \in Entry : pc'[<<x, e>>] = pc[<<x, e>>]
    BY <1>2, <1>6, EntryOfWorker
  <2> QED BY <1>2, <1>6, <2>1 DEF Given
<1>7. \A e \in Entry : pc[<<c, e>>] = "none"
  BY <1>1, EntryOfWorker
<1>8. Given[c] = NoJob
  BY <1>7 DEF Given
<1>9. CASE \E e \in Entry : e \in j.devices
  <2>1. \E e \in Entry : pc'[<<c, e>>] # "none"
    BY <1>2, <1>9, EntryOfWorker
  <2>2. Given'[c] = j
    BY <1>2, <2>1 DEF Given
  <2>3. Given' = [Given EXCEPT ![c] = j]
    BY <1>6, <2>2 DEF Given
  <2>4. Atomic!Accept(c, j)
    BY <1>3, <1>5, <1>8, <2>3 DEF Atomic!Accept, NoJob, Atomic!NoJob
  <2> QED BY <2>4 DEF Atomic!AtomicNext
<1>10. CASE ~\E e \in Entry : e \in j.devices
  <2>1. \A e \in Entry : pc'[<<c, e>>] = "none"
    BY <1>2, <1>7, <1>10, EntryOfWorker
  <2>2. Given'[c] = NoJob
    BY <2>1 DEF Given
  <2>3. Given' = Given
    BY <1>6, <1>8, <2>2 DEF Given
  <2> QED BY <1>3, <1>5, <2>3 DEF Atomic!runVars
<1> QED BY <1>9, <1>10

\* A run that ends is one step of the room: its lamp now shows what it left.
LEMMA RunStep ==
  ASSUME TypeInv, SerialInv, LogInv, CourseInv, NEW w \in Worker, pc[w] = "run",
         NEW r, Finish(w, r), UNCHANGED <<work, slips, before>>,
         \A d \in Device : d # Lit(w) => lamp'[d] = lamp[d],
         r = "effect ok" => todo[w] = <<>> /\ lamp' = lamp
  PROVE  Atomic!AtomicNext
<1> DEFINE c == Caller(w)
<1> DEFINE e == Listed(w)
<1> DEFINE d == Lit(w)
<1>1. /\ c \in Call /\ e \in Entry /\ d \in Device /\ w = <<c, e>> /\ d = e[1]
      /\ work[c] \in EffectJob \cup ManualJob /\ lamp[d] \in Lamp /\ before[d] \in Lamp
  BY WorkerFacts, WorkerParts DEF Lit, Listed
<1>2. /\ pc'[w] = IF r = "effect ok" THEN "ok" ELSE "failed"
      /\ \A v \in Worker : v # w => pc'[v] = pc[v]
      /\ deviceLocks'[d] = NoWorker
      /\ \A x \in Device : x # d => deviceLocks'[x] = deviceLocks[x]
  BY <1>1 DEF Finish, TypeInv, TypeOK
<1>3. /\ deviceLocks[d] = w /\ w # NoWorker /\ e \in work[c].devices
  BY NoWorkerAssumption DEF SerialInv, LogInv, Worker
<1> HIDE DEF c, e, d
<1>4. ASSUME NEW v \in Worker, v # w
      PROVE  Verdict(v)' = Verdict(v)
  BY <1>2, <1>4, SameVerdict
<1> DEFINE verdict == Verdict(w)'
<1>5. /\ r # "effect ok" => verdict = "failed"
      /\ r = "effect ok" => verdict = IF "unheard" \in slips[w] THEN "ok, unheard"
                                      ELSE IF slips[w] = {} THEN "ok" ELSE "ok, best effort"
  <2>1. CASE r # "effect ok"
    BY <1>2, <2>1 DEF Verdict
  <2>2. CASE r = "effect ok"
    BY <1>2, <2>2 DEF Verdict
  <2> QED BY <2>1, <2>2
<1>6. Verdicts' = [Verdicts EXCEPT ![w] = verdict]
  BY <1>4 DEF Verdicts
<1> HIDE DEF verdict
<1>7. Given' = Given
  <2>1. \A x \in Worker : (pc'[x] = "none") <=> (pc[x] = "none")
    BY <1>2
  <2>2. \A x \in Call, y \in Entry : (pc'[<<x, y>>] = "none") <=> (pc[<<x, y>>] = "none")
    BY <2>1, EntryOfWorker
  <2> QED BY <2>2 DEF Given
<1>8. /\ Shown[d] = before[d] /\ Shown'[d] = lamp'[d]
      /\ \A x \in Device : x # d => Shown'[x] = Shown[x]
  BY <1>1, <1>2, <1>3 DEF Shown, d
<1>9. Shown' = [Shown EXCEPT ![d] = Shown'[d]]
  BY <1>8 DEF Shown
<1>10. Given[c] = work[c]
  BY <1>1 DEF Given
<1>11. Atomic!Pending(c, e)
  <2>1. work[c] # Atomic!NoJob
    <3>1. work[c].effect # "none"
      BY <1>1 DEF EffectJob, ManualJob, Flash
    <3>2. Atomic!NoJob.effect = "none"
      BY DEF Atomic!NoJob
    <3> QED BY <3>1, <3>2
  <2>2. Verdicts[<<c, e>>] = "none"
    BY <1>1 DEF Verdicts, Verdict
  <2> QED BY <1>3, <1>10, <2>1, <2>2 DEF Atomic!Pending
<1>12. Course(w)
  BY DEF CourseInv
<1>13. ASSUME verdict = "ok"
       PROVE  Atomic!Delivered(Given[c], e, Shown[d], Shown'[d])
  <2>1. r = "effect ok" /\ slips[w] = {}
    BY <1>5, <1>13
  <2>2. HeadsFor(work[c], e, before[d], <<>>, lamp[d], waking[d])
    BY <1>12, <2>1 DEF Course, c, d, e
  <2>3. Atomic!Delivered(work[c], e, before[d], lamp[d])
    BY <1>1, <2>2, ArrivesAt
  <2> QED BY <1>8, <1>10, <2>1, <2>3
<1>14. ASSUME verdict = "ok, best effort"
       PROVE  Atomic!Captures(Given[c], e)
  <2>1. slips[w] # {} /\ "unheard" \notin slips[w]
    BY <1>5, <1>14
  <2>2. slips[w] \ {"unheard"} # {}
    BY <2>1
  <2>3. Captures(work[c], e)
    BY <1>12, <2>2 DEF Course, c, e
  <2>4. Atomic!Captures(work[c], e)
    BY <2>3 DEF Captures, Atomic!Captures, Manual, Atomic!Manual
  <2> QED BY <1>10, <2>4
<1>15. verdict \in Atomic!Verdict \ {"none"}
  BY <1>5 DEF Atomic!Verdict
<1>16. Atomic!Run(c, e, Shown'[e[1]], verdict)
  BY <1>1, <1>6, <1>7, <1>9, <1>11, <1>13, <1>14 DEF Atomic!Run
<1>17. e \in Atomic!Entry
  BY <1>1 DEF Entry, Atomic!Entry
<1> QED BY <1>1, <1>15, <1>16, <1>17 DEF Atomic!AtomicNext

LEMMA CallsAreAtomic ==
  ASSUME TypeInv, CourseInv,
         \/ Environment
         \/ \E c \in Call : Arrival(c) \/ CallSteps(c)
         \/ StopCancel \/ StopDrained \/ StopAbandons
         \/ UNCHANGED vars
  PROVE  Atomic!AtomicNext \/ UNCHANGED Atomic!runVars
<1>1. \A w \in Worker : pc[w] # "none" => stage[Caller(w)] = "returned"
  BY DEF TypeInv, JobInv
<1>2. CASE Environment \/ StopCancel \/ StopDrained \/ StopAbandons \/ UNCHANGED vars
  <2>1. /\ UNCHANGED <<deviceLocks, lamp, before, pc, work, slips>>
    BY <1>2 DEF Environment, Tick, SetQuietHours, Woken, StopCancel, StopDrained, StopAbandons,
                vars, calls, workers, room, history
  <2>2. Shown' = Shown
    BY <2>1 DEF Shown
  <2> QED BY <2>1, <2>2, NoRunStep
<1>3. ASSUME NEW c \in Call, NEW e \in Jobs, Enqueue(c, e.job, e.mapping)
      PROVE  UNCHANGED Atomic!runVars
  <2>1. \A w \in Worker : pc[w] # "none" => work'[Caller(w)] = work[Caller(w)]
    BY <1>1, <1>3, WorkerParts DEF Enqueue, TypeInv, TypeOK
  <2>2. Shown' = Shown
    BY <1>3 DEF Shown, Enqueue, workers, room, history
  <2> QED BY <1>3, <2>1, <2>2, NoRunStep DEF Enqueue, workers, history
<1>4. ASSUME NEW c \in Call, NEW j \in ManualJobs, EnqueueControl(c, j)
      PROVE  Atomic!AtomicNext \/ UNCHANGED Atomic!runVars
  <2>1. j \in RunJobs /\ stage[c] # "returned"
    BY <1>4 DEF RunJobs, EnqueueControl
  <2> QED BY <1>4, <2>1, StartStep DEF EnqueueControl, room, history
<1>5. ASSUME NEW c \in Call, ReadQuiet(c) \/ EnqueueQuietCheck(c) \/ EnqueueCooldown(c)
      PROVE  UNCHANGED Atomic!runVars
  <2>1. UNCHANGED <<deviceLocks, lamp, before, pc, work, slips>>
    BY <1>5 DEF ReadQuiet, EnqueueQuietCheck, EnqueueCooldown, workers, room, history
  <2>2. Shown' = Shown
    BY <2>1 DEF Shown
  <2> QED BY <2>1, <2>2, NoRunStep
<1>6. ASSUME NEW c \in Call, EnqueueStart(c)
      PROVE  Atomic!AtomicNext \/ UNCHANGED Atomic!runVars
  <2> DEFINE j == work[c]
  <2>1. j \in RunJobs /\ stage[c] # "returned"
    BY <1>6 DEF EnqueueStart, CourseInv
  <2>2. work' = [work EXCEPT ![c] = j]
    BY <1>6 DEF EnqueueStart, TypeInv, TypeOK
  <2>3. Start(c, j.devices) /\ UNCHANGED <<deviceLocks, lamp, before, slips>>
    BY <1>6 DEF EnqueueStart, room, history
  <2> HIDE DEF j
  <2> QED BY <2>1, <2>2, <2>3, StartStep
<1> QED BY <1>2, <1>3, <1>4, <1>5, <1>6 DEF Arrival, CallSteps

LEMMA WorkersAreAtomic ==
  ASSUME TypeInv, SerialInv, LogInv, CourseInv, NEW w \in Worker, WorkerStep(w)
  PROVE  Atomic!AtomicNext \/ UNCHANGED Atomic!runVars
<1> DEFINE d == Lit(w)
<1>1. d \in Device /\ (pc[w] \in {"capture", "run"} => deviceLocks[d] = w /\ w # NoWorker)
  BY WorkerParts, NoWorkerAssumption DEF SerialInv, Worker
<1>2. CASE TakeLock(w)
  <2>1. /\ pc[w] = "lock" /\ pc'[w] \in {"capture", "run"}
        /\ \A v \in Worker : v # w => pc'[v] = pc[v]
        /\ UNCHANGED <<work, slips>>
    BY <1>2 DEF TakeLock, calls, TypeInv, TypeOK
  <2>2. Shown' = Shown
    <3>1. /\ deviceLocks[d] = NoWorker /\ deviceLocks'[d] = w /\ w # NoWorker
          /\ before'[d] = lamp[d]
          /\ \A x \in Device : x # d => deviceLocks'[x] = deviceLocks[x] /\ before'[x] = before[x]
          /\ lamp' = lamp
      BY <1>1, <1>2, NoWorkerAssumption DEF TakeLock, room, TypeInv, TypeOK, Worker
    <3> QED BY <3>1 DEF Shown
  <2> QED BY <2>1, <2>2, NoRunStep
<1>3. CASE CaptureFails(w) \/ \E look, fields : Capture(w, look, fields)
  <2>1. /\ pc[w] = "capture" /\ pc'[w] = "run"
        /\ \A v \in Worker : v # w => pc'[v] = pc[v] /\ slips'[v] = slips[v]
        /\ UNCHANGED <<work, deviceLocks, lamp, before>>
    BY <1>3 DEF CaptureFails, Capture, Slips, calls, room, TypeInv, TypeOK
  <2>2. Shown' = Shown
    BY <2>1 DEF Shown
  <2> QED BY <2>1, <2>2, NoRunStep
<1>4. ASSUME NEW ok \in BOOLEAN, NEW landed \in BOOLEAN, SendCommand(w, ok, landed)
      PROVE  Atomic!AtomicNext \/ UNCHANGED Atomic!runVars
  <2>1. /\ pc[w] = "run" /\ UNCHANGED <<work, before>>
        /\ \A x \in Device : x # d => lamp'[x] = lamp[x]
    BY <1>4 DEF SendCommand, calls, room, TypeInv, TypeOK
  <2>2. CASE ok \/ ~Head(todo[w]).must
    <3>1. UNCHANGED <<pc, deviceLocks>>
      BY <1>4, <2>2 DEF SendCommand
    <3>2. \A v \in Worker : v # w => slips'[v] = slips[v]
      <4>1. \E what : Slips(w, what)
        BY <1>4, <2>2 DEF SendCommand
      <4> QED BY <4>1 DEF Slips, TypeInv, TypeOK
    <3>3. Shown' = Shown
      BY <1>1, <2>1, <3>1 DEF Shown
    <3> QED BY <2>1, <3>1, <3>2, <3>3, NoRunStep
  <2>3. CASE ~(ok \/ ~Head(todo[w]).must)
    <3>1. Finish(w, "effect failed") /\ UNCHANGED slips
      BY <1>4, <2>3 DEF SendCommand
    <3> QED BY <2>1, <3>1, RunStep
  <2> QED BY <2>2, <2>3
<1>5. CASE SleepCtx(w)
  <2>1. UNCHANGED <<pc, deviceLocks, work, lamp, before, slips>>
    BY <1>5 DEF SleepCtx, calls, history
  <2>2. Shown' = Shown
    BY <2>1 DEF Shown
  <2> QED BY <2>1, <2>2, NoRunStep
<1>6. CASE SleepCanceled(w)
  BY <1>6, RunStep DEF SleepCanceled, Sleeping, calls, room, history
<1>7. CASE SleepDeadline(w)
  BY <1>7, RunStep DEF SleepDeadline, Sleeping, calls, room, history
<1>8. CASE RunEnds(w)
  BY <1>8, RunStep DEF RunEnds, calls, room, history
<1>9. CASE VerifyFails(w)
  BY <1>9, RunStep DEF VerifyFails, calls, room, history
<1> QED BY <1>2, <1>3, <1>4, <1>5, <1>6, <1>7, <1>8, <1>9 DEF WorkerStep

(***************************************************************************)
(* The engine implements AtomicRuns for any number of calls, devices, jobs  *)
(* and lamps: however the goroutines interleave, and whichever writes fail  *)
(* or land, a lamp passes from one run to the next in single steps.  A run  *)
(* recorded as "effect ok" has delivered its scene, put the lamp back, or   *)
(* left the effect's own look, if the lamp heard every write that was       *)
(* reported as sent and a restore met no failure and no late report.        *)
(***************************************************************************)
THEOREM EngineIsAtomic == Spec => RunsAreAtomic
<1> DEFINE Inv == TypeInv /\ SerialInv /\ LogInv /\ CourseInv
<1>1. Init => Inv /\ Atomic!AtomicInit
  BY InitType, InitSerial, InitLog, InitCourse, InitAtomic
<1>2. Inv /\ [Next]_vars => Inv'
  BY TypeStep, SerialStep, LogStep, CourseStep
<1>3. Inv /\ [Next]_vars => [Atomic!AtomicNext]_(Atomic!runVars)
  <2> SUFFICES ASSUME Inv, [Next]_vars
               PROVE  Atomic!AtomicNext \/ UNCHANGED Atomic!runVars
    OBVIOUS
  <2>1. CASE \E w \in Worker : WorkerStep(w)
    BY <2>1, WorkersAreAtomic
  <2>2. CASE ~\E w \in Worker : WorkerStep(w)
    BY <2>2, CallsAreAtomic DEF Next
  <2> QED BY <2>1, <2>2
<1> HIDE DEF Inv
<1> QED BY <1>1, <1>2, <1>3, PTL DEF Spec, RunsAreAtomic, Atomic!AtomicSpec
=============================================================================
