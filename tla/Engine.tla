------------------------------- MODULE Engine -------------------------------
(***************************************************************************)
(* The effects engine, internal/effects/engine.go.                          *)
(*                                                                          *)
(* A call is one goroutine in Enqueue or EnqueueControl.  Enqueue is four   *)
(* steps: it copies the window under quietMu, looks at the clock, holds mu  *)
(* for the cooldown, and records the job before the workers start.  A       *)
(* worker <<c, e>> is the goroutine of call c for entry e of its job's      *)
(* list: it waits for the device's mutex, runs its plan one controller call *)
(* at a time, and records its verdict before the mutex is released.         *)
(*                                                                          *)
(* The Controller is an interface: each of its calls may succeed or fail,   *)
(* and a write may have reached the lamp or not either way: over LAN "ok"   *)
(* says that the packet has left the host.  A state report may be late, of  *)
(* an earlier look.  A lamp is changed by nobody else (no wall switch, no   *)
(* Govee app).  Time is a count of minutes, enough to order acceptances and *)
(* to place them in the window.                                             *)
(***************************************************************************)
EXTENDS LampEffects, QuietHours, FiniteSets

CONSTANTS Call,          \* calls of Enqueue and EnqueueControl
          Mapping,       \* mapping IDs, and the "device-test-" IDs of the UI
          Jobs,          \* jobs the hooks and the UI enqueue, with a mapping
          ManualJobs,    \* jobs EnqueueControl builds
          Settings,      \* quiet-hours settings the operator may save
          StartLamps,    \* what the lamps may show at start
          FieldSets,     \* which fields a state read may report
          EarlierLooks,  \* looks that a late report may still tell of
          NoWorker,      \* nobody holds the mutex
          MaxTime        \* bound on the clock

MappedJob == [job : EffectJob, mapping : Mapping]

ASSUME JobAssumption ==
  /\ Jobs \subseteq MappedJob
  /\ ManualJobs \subseteq ManualJob
ASSUME EnvironmentAssumption ==
  /\ Settings \subseteq QuietSetting
  /\ StartLamps \subseteq Lamp /\ EarlierLooks \subseteq Lamp
  /\ MaxTime \in Nat
ASSUME NoWorkerAssumption == NoWorker \notin Call \X Entry

VARIABLES
  now, quiet, lastRun,         \* the clock, e.quiet, e.lastRun
  stage, work, via, copy,      \* per call: where it is, its job, its mapping, its
                               \* copy of e.quiet
  stop,                        \* Stop: "up", "waiting", "drained", "abandoned"
  deviceLocks, pc, todo,       \* per device: the mutex; per worker: its plan
  activity,                    \* per call: the records it has added, in order
  lamp, waking,                \* the physical lamps
  \* history, read by no guard
  accepted,                    \* acceptances that passed a cooldown check
  decided,                     \* per call: was it quiet, by the clock, when tested
  turns,                       \* per device: workers in the order they wrote to it
  before,                      \* per device: the lamp when its mutex was taken
  slips                        \* per worker: what an ok of it cannot vouch for

time    == <<now, quiet>>
calls   == <<stage, work, via, copy>>
workers == <<deviceLocks, pc, todo>>
room    == <<lamp, waking>>
history == <<accepted, decided, turns, before, slips>>
vars == <<time, lastRun, calls, stop, workers, activity, room, history>>

-----------------------------------------------------------------------------
(* Types. *)

Worker == Call \X Entry
Caller(w) == w[1]
Listed(w) == w[2]
Lit(w) == w[2][1]

NoJob == [effect |-> "none"]
NoMapping == "none"
Never == -1
JobLevel == "job"     \* a record without a device

ASSUME JobLevelAssumption == JobLevel \notin Device

Stage == {"idle", "quiet", "clock", "cooldown", "start", "returned"}
Phase == {"none", "lock", "capture", "run", "ok", "failed"}
Result == {"queued", "quiet hours", "cooldown", "effect ok", "effect failed",
           "effect failed: canceled", "effect failed: deadline",
           "effect failed: device did not respond"}
Failure == Result \ {"queued", "quiet hours", "cooldown", "effect ok"}
Record == [device : Device \cup {JobLevel}, result : Result]
Slip == {"capture", "report", "write", "swallowed", "unheard"}

TypeOK ==
  /\ now \in 0 .. MaxTime
  /\ quiet \in QuietSetting
  /\ lastRun \in [Mapping -> Nat \cup {Never}]
  /\ stage \in [Call -> Stage]
  /\ work \in [Call -> EffectJob \cup ManualJob \cup {NoJob}]
  /\ via \in [Call -> Mapping \cup {NoMapping}]
  /\ copy \in [Call -> QuietSetting]
  /\ stop \in {"up", "waiting", "drained", "abandoned"}
  /\ deviceLocks \in [Device -> Worker \cup {NoWorker}]
  /\ pc \in [Worker -> Phase]
  /\ todo \in [Worker -> Seq(Command)]
  /\ activity \in [Call -> Seq(Record)]
  /\ lamp \in [Device -> Lamp]
  /\ waking \in [Device -> BOOLEAN]
  /\ accepted \subseteq [call : Call, mapping : Mapping, at : Nat, cooldown : Nat]
  /\ decided \in [Call -> BOOLEAN]
  /\ turns \in [Device -> Seq(Worker)]
  /\ before \in [Device -> Lamp]
  /\ slips \in [Worker -> SUBSET Slip]

Init ==
  /\ now = 0
  /\ quiet = NotConfigured
  /\ lastRun = [m \in Mapping |-> Never]
  /\ stage = [c \in Call |-> "idle"]
  /\ work = [c \in Call |-> NoJob]
  /\ via = [c \in Call |-> NoMapping]
  /\ copy = [c \in Call |-> NotConfigured]
  /\ stop = "up"
  /\ deviceLocks = [d \in Device |-> NoWorker]
  /\ pc = [w \in Worker |-> "none"]
  /\ todo = [w \in Worker |-> <<>>]
  /\ activity = [c \in Call |-> <<>>]
  /\ lamp \in [Device -> StartLamps]
  /\ waking = [d \in Device |-> FALSE]
  /\ accepted = {}
  /\ decided = [c \in Call |-> FALSE]
  /\ turns = [d \in Device |-> <<>>]
  /\ before = lamp
  /\ slips = [w \in Worker |-> {}]

-----------------------------------------------------------------------------
(* Environment: the clock, the operator saving settings, a lamp waking up. *)

Tick ==
  /\ now < MaxTime
  /\ now' = now + 1
  /\ UNCHANGED <<quiet, lastRun, calls, stop, workers, activity, room, history>>

SetQuietHours(q) ==
  /\ quiet # q
  /\ quiet' = q
  /\ UNCHANGED <<now, lastRun, calls, stop, workers, activity, room, history>>

Woken(d) ==
  /\ waking[d]
  /\ waking' = [waking EXCEPT ![d] = FALSE]
  /\ UNCHANGED <<time, lastRun, calls, stop, workers, activity, lamp, history>>

-----------------------------------------------------------------------------
(* Enqueue. *)

Add(c, device, result) ==
  activity' = [activity EXCEPT ![c] = Append(@, [device |-> device, result |-> result])]

\* go e.runOnDevice(job, dev) for every entry of the job's list.
Start(c, devices) ==
  pc' = [w \in Worker |-> IF Caller(w) = c /\ Listed(w) \in devices THEN "lock" ELSE pc[w]]

\* A webhook or a UI test calls Enqueue(job, cooldown).
Enqueue(c, j, m) ==
  /\ stage[c] = "idle"
  /\ stage' = [stage EXCEPT ![c] = "quiet"]
  /\ work' = [work EXCEPT ![c] = j]
  /\ via' = [via EXCEPT ![c] = m]
  /\ UNCHANGED <<time, lastRun, copy, stop, workers, activity, room, history>>

\* inQuietHours copies e.quiet under quietMu.
ReadQuiet(c) ==
  /\ stage[c] = "quiet"
  /\ stage' = [stage EXCEPT ![c] = "clock"]
  /\ copy' = [copy EXCEPT ![c] = quiet]
  /\ UNCHANGED <<time, lastRun, work, via, stop, workers, activity, room, history>>

\* inQuietHours looks at the clock: a suppressed job is recorded and goes no
\* further; in particular it leaves lastRun alone.
EnqueueQuietCheck(c) ==
  /\ stage[c] = "clock"
  /\ copy' = [copy EXCEPT ![c] = NotConfigured]
  /\ decided' = [decided EXCEPT ![c] = QuietByTheClock(copy[c], now)]
  /\ IF InQuietHours(copy[c], now)
       THEN /\ stage' = [stage EXCEPT ![c] = "returned"]
            /\ Add(c, JobLevel, "quiet hours")
       ELSE /\ stage' = [stage EXCEPT ![c] = "cooldown"]
            /\ UNCHANGED activity
  /\ UNCHANGED <<time, lastRun, work, via, stop, workers, room, accepted, turns,
                 before, slips>>

\* Mutant of CoolingDown: an off-by-one at the end of the cooldown.
CoolingDownTooShort(c) ==
  /\ lastRun[via[c]] # Never
  /\ now - lastRun[via[c]] < work[c].cooldown - 1

\* The mapping ran too recently for this job's cooldown.
CoolingDown(c) ==
  /\ lastRun[via[c]] # Never
  /\ now - lastRun[via[c]] < work[c].cooldown

\* Mutant of EnqueueCooldown: every call restarts the cooldown, so a steady
\* storm never fires again.
EnqueueCooldownRestarts(c) ==
  /\ stage[c] = "cooldown"
  /\ IF work[c].cooldown > 0
       THEN lastRun' = [lastRun EXCEPT ![via[c]] = now]
       ELSE UNCHANGED lastRun
  /\ IF work[c].cooldown > 0 /\ CoolingDown(c)
       THEN stage' = [stage EXCEPT ![c] = "returned"] /\ Add(c, JobLevel, "cooldown")
       ELSE stage' = [stage EXCEPT ![c] = "start"] /\ UNCHANGED activity
  /\ accepted' = IF stage'[c] = "start" /\ work[c].cooldown > 0
                   THEN accepted \cup {[call |-> c, mapping |-> via[c], at |-> now,
                                       cooldown |-> work[c].cooldown]}
                   ELSE accepted
  /\ UNCHANGED <<time, work, via, copy, stop, workers, room, decided, turns, before,
                 slips>>

\* Test and set of lastRun under mu; a job with no cooldown takes no part.
EnqueueCooldown(c) ==
  /\ stage[c] = "cooldown"
  /\ IF work[c].cooldown > 0 /\ CoolingDown(c)
       THEN /\ stage' = [stage EXCEPT ![c] = "returned"]
            /\ Add(c, JobLevel, "cooldown")
            /\ UNCHANGED <<lastRun, accepted>>
       ELSE /\ stage' = [stage EXCEPT ![c] = "start"]
            /\ IF work[c].cooldown > 0
                 THEN /\ lastRun' = [lastRun EXCEPT ![via[c]] = now]
                      /\ accepted' = accepted \cup
                           {[call |-> c, mapping |-> via[c], at |-> now,
                             cooldown |-> work[c].cooldown]}
                 ELSE UNCHANGED <<lastRun, accepted>>
            /\ UNCHANGED activity
  /\ UNCHANGED <<time, work, via, copy, stop, workers, room, decided, turns, before,
                 slips>>

\* record(job, "", "queued"), then one goroutine per entry.
EnqueueStart(c) ==
  /\ stage[c] = "start"
  /\ stage' = [stage EXCEPT ![c] = "returned"]
  /\ Add(c, JobLevel, "queued")
  /\ Start(c, work[c].devices)
  /\ UNCHANGED <<time, lastRun, work, via, copy, stop, deviceLocks, todo, room, history>>

\* No quiet hours and no cooldown: the operator is explicitly acting.
EnqueueControl(c, j) ==
  /\ stage[c] = "idle"
  /\ stage' = [stage EXCEPT ![c] = "returned"]
  /\ work' = [work EXCEPT ![c] = j]
  /\ Add(c, JobLevel, "queued")
  /\ Start(c, j.devices)
  /\ UNCHANGED <<time, lastRun, via, copy, stop, deviceLocks, todo, room, history>>

-----------------------------------------------------------------------------
(* runOnDevice, and the goroutine of EnqueueControl. *)

\* Mutant of Finish: the mutex is not released on a failure path.
FinishHoldingLock(w, result) ==
  /\ Add(Caller(w), Lit(w), result)
  /\ pc' = [pc EXCEPT ![w] = IF result = "effect ok" THEN "ok" ELSE "failed"]
  /\ todo' = [todo EXCEPT ![w] = <<>>]
  /\ IF result = "effect ok"
       THEN deviceLocks' = [deviceLocks EXCEPT ![Lit(w)] = NoWorker]
       ELSE UNCHANGED deviceLocks

\* recordVia(...) and the deferred Unlock.
Finish(w, result) ==
  /\ Add(Caller(w), Lit(w), result)
  /\ pc' = [pc EXCEPT ![w] = IF result = "effect ok" THEN "ok" ELSE "failed"]
  /\ todo' = [todo EXCEPT ![w] = <<>>]
  /\ deviceLocks' = [deviceLocks EXCEPT ![Lit(w)] = NoWorker]

Slips(w, what) == slips' = [slips EXCEPT ![w] = @ \cup what]

\* Mutant of TakeLock: a manual write does not wait for the device's mutex.
TakeLockUnlessManual(w) ==
  LET j == work[Caller(w)]
      d == Lit(w)
  IN /\ pc[w] = "lock"
     /\ Manual(j) \/ deviceLocks[d] = NoWorker
     /\ deviceLocks' = [deviceLocks EXCEPT ![d] = w]
     /\ before' = [before EXCEPT ![d] = lamp[d]]
     /\ pc' = [pc EXCEPT ![w] = IF Captures(j, Listed(w)) THEN "capture" ELSE "run"]
     /\ todo' = [todo EXCEPT ![w] = Execute(j, Listed(w), NothingReported)]
     /\ UNCHANGED <<time, lastRun, calls, stop, activity, room, accepted, decided,
                    turns, slips>>

\* lock.Lock().  Go gives the mutex to any waiter, not to the oldest.
TakeLock(w) ==
  LET j == work[Caller(w)]
      d == Lit(w)
  IN /\ pc[w] = "lock"
     /\ deviceLocks[d] = NoWorker
     /\ deviceLocks' = [deviceLocks EXCEPT ![d] = w]
     /\ before' = [before EXCEPT ![d] = lamp[d]]
     /\ pc' = [pc EXCEPT ![w] = IF Captures(j, Listed(w)) THEN "capture" ELSE "run"]
     /\ todo' = [todo EXCEPT ![w] = Execute(j, Listed(w), NothingReported)]
     /\ UNCHANGED <<time, lastRun, calls, stop, activity, room, accepted, decided,
                    turns, slips>>

\* The report says enough to put the lamp back as it looks.
Restorable(r, l) ==
  /\ r.power = l.power
  /\ r.power = 1 => /\ r.brightness = l.brightness
                    /\ IF l.scene # 0 THEN r.scene = l.scene
                                      ELSE r.scene = Unreported /\ r.color = l.color

\* controller.State answered with these fields of a look: the lamp's own, or an
\* earlier one from a devStatus that came late or a cloud that lags behind.
Capture(w, look, fields) ==
  LET d == Lit(w)
      r == Reported(look, fields)
  IN /\ pc[w] = "capture"
     /\ pc' = [pc EXCEPT ![w] = "run"]
     /\ todo' = [todo EXCEPT ![w] = Execute(work[Caller(w)], Listed(w), r)]
     /\ Slips(w, IF Restorable(r, lamp[d]) THEN {} ELSE {"report"})
     /\ UNCHANGED <<time, lastRun, calls, stop, deviceLocks, activity, room, accepted,
                    decided, turns, before>>

\* controller.State failed: the effect runs anyway, with nothing to restore.
CaptureFails(w) ==
  /\ pc[w] = "capture"
  /\ pc' = [pc EXCEPT ![w] = "run"]
  /\ todo' = [todo EXCEPT ![w] = Execute(work[Caller(w)], Listed(w), NothingReported)]
  /\ Slips(w, {"capture"})
  /\ UNCHANGED <<time, lastRun, calls, stop, deviceLocks, activity, room, accepted,
                 decided, turns, before>>

\* One controller write.  It may have reached the lamp or not, whether it returned
\* an error or nil.  A failure ends the run at once - nothing is restored - unless
\* the command belongs to restore.
SendCommand(w, ok, landed) ==
  LET d == Lit(w)
      cmd == Head(todo[w])
      lost == cmd.op = "scene" /\ Swallowed(cmd, lamp[d], waking[d])
  IN /\ pc[w] = "run"
     /\ todo[w] # <<>>
     /\ cmd.op \in WriteOps
     /\ IF landed
          THEN /\ lamp' = [lamp EXCEPT ![d] = Apply(cmd, @, waking[d])]
               /\ waking' = [waking EXCEPT ![d] =
                    IF cmd.op = "power" THEN cmd.v = 1 /\ (@ \/ Wakes(cmd, lamp[d])) ELSE @]
          ELSE UNCHANGED room
     /\ turns' = [turns EXCEPT ![d] =
          IF @ # <<>> /\ @[Len(@)] = w THEN @ ELSE Append(@, w)]
     /\ IF ok \/ ~cmd.must
          THEN /\ todo' = [todo EXCEPT ![w] = Tail(@)]
               /\ Slips(w, CASE ~ok -> {"write"}
                             [] ok /\ ~landed -> {"unheard"}
                             [] OTHER -> IF lost /\ ~cmd.must THEN {"swallowed"} ELSE {})
               /\ UNCHANGED <<pc, deviceLocks, activity>>
          ELSE Finish(w, "effect failed") /\ UNCHANGED slips
     /\ UNCHANGED <<time, lastRun, calls, stop, accepted, decided, before>>

Sleeping(w) == pc[w] = "run" /\ todo[w] # <<>> /\ Head(todo[w]).op \in SleepOps

\* sleepCtx returned nil: the timer fired.  The settle delay is chosen to
\* outlast the lamp's waking.
SleepCtx(w) ==
  /\ Sleeping(w)
  /\ stop = "up"
  /\ todo' = [todo EXCEPT ![w] = Tail(@)]
  /\ waking' = [waking EXCEPT ![Lit(w)] = @ /\ Head(todo[w]).op # "settle"]
  /\ UNCHANGED <<time, lastRun, calls, stop, deviceLocks, pc, activity, lamp, history>>

\* sleepCtx returned ctx.Err(): Stop cancelled the engine's context.
SleepCanceled(w) ==
  /\ Sleeping(w)
  /\ stop # "up"
  /\ Finish(w, "effect failed: canceled")
  /\ UNCHANGED <<time, lastRun, calls, stop, room, history>>

\* sleepCtx returned ctx.Err(): slow controller calls used up perDeviceTimeout.
SleepDeadline(w) ==
  /\ Sleeping(w)
  /\ Finish(w, "effect failed: deadline")
  /\ UNCHANGED <<time, lastRun, calls, stop, room, history>>

\* The plan is done and the transport confirms the device.  A manual write is
\* not verified.
RunEnds(w) ==
  /\ pc[w] = "run"
  /\ todo[w] = <<>>
  /\ Finish(w, "effect ok")
  /\ UNCHANGED <<time, lastRun, calls, stop, room, history>>

\* Mutant of VerifyFails: the failure is recorded but the run does not return.
VerifyFailsAndGoesOn(w) ==
  /\ pc[w] = "run"
  /\ todo[w] = <<>>
  /\ ~Manual(work[Caller(w)])
  /\ Len(activity[Caller(w)]) < 3
  /\ Add(Caller(w), Lit(w), "effect failed: device did not respond")
  /\ UNCHANGED <<time, lastRun, calls, stop, workers, room, history>>

\* verify failed: the plan was sent, the device never answered.
VerifyFails(w) ==
  /\ pc[w] = "run"
  /\ todo[w] = <<>>
  /\ ~Manual(work[Caller(w)])
  /\ Finish(w, "effect failed: device did not respond")
  /\ UNCHANGED <<time, lastRun, calls, stop, room, history>>

-----------------------------------------------------------------------------
(* Stop. *)

\* A started worker counts in e.wg until its goroutine returns.
Live == {w \in Worker : pc[w] \notin {"none", "ok", "failed"}}

StopCancel ==
  /\ stop = "up"
  /\ stop' = "waiting"
  /\ UNCHANGED <<time, lastRun, calls, workers, activity, room, history>>

StopDrained ==
  /\ stop = "waiting"
  /\ Live = {}
  /\ stop' = "drained"
  /\ UNCHANGED <<time, lastRun, calls, workers, activity, room, history>>

\* Ten seconds passed first.
StopAbandons ==
  /\ stop = "waiting"
  /\ Live # {}
  /\ stop' = "abandoned"
  /\ UNCHANGED <<time, lastRun, calls, workers, activity, room, history>>

-----------------------------------------------------------------------------
Environment == Tick \/ (\E q \in Settings : SetQuietHours(q)) \/ \E d \in Device : Woken(d)

CallSteps(c) ==
  ReadQuiet(c) \/ EnqueueQuietCheck(c) \/ EnqueueCooldown(c) \/ EnqueueStart(c)

Arrival(c) ==
  \/ \E e \in Jobs : Enqueue(c, e.job, e.mapping)
  \/ \E j \in ManualJobs : EnqueueControl(c, j)

WorkerStep(w) ==
  \/ TakeLock(w)
  \/ \E look \in {lamp[Lit(w)]} \cup EarlierLooks, fields \in FieldSets :
       Capture(w, look, fields)
  \/ CaptureFails(w)
  \/ \E ok, landed \in BOOLEAN : SendCommand(w, ok, landed)
  \/ SleepCtx(w)
  \/ SleepCanceled(w)
  \/ SleepDeadline(w)
  \/ RunEnds(w)
  \/ VerifyFails(w)

Next ==
  \/ Environment
  \/ \E c \in Call : Arrival(c) \/ CallSteps(c)
  \/ \E w \in Worker : WorkerStep(w)
  \/ StopCancel
  \/ StopDrained
  \/ StopAbandons

Spec == Init /\ [][Next]_vars

(***************************************************************************)
(* Fairness.  A goroutine that can run does; every controller call and      *)
(* every sleep ends (HTTP client timeout, LAN reply timeout, timers); a     *)
(* sync.Mutex hands itself to a starved waiter after a millisecond, so a    *)
(* waiter is not passed over for ever.  Arrivals, the clock, the operator   *)
(* and Stop owe nothing, and Stop's own timeout is not relied on.           *)
(***************************************************************************)
Fairness ==
  /\ \A c \in Call : WF_vars(CallSteps(c))
  /\ \A w \in Worker : WF_vars(WorkerStep(w)) /\ SF_vars(TakeLock(w))
  /\ WF_vars(StopDrained)

FairSpec == Spec /\ Fairness

-----------------------------------------------------------------------------
(* Safety. *)

(***************************************************************************)
(* Concurrent effects cannot interleave commands on one lamp (execution     *)
(* rule 2 of effects.go): once another worker has written to a lamp, a      *)
(* worker that wrote before it never writes again.                          *)
(***************************************************************************)
NoInterleaving ==
  \A d \in Device : \A i, k \in 1 .. Len(turns[d]) :
    turns[d][i] = turns[d][k] => i = k

(***************************************************************************)
(* A webhook storm collapses to one effect (execution rule 3): of any two   *)
(* accepted runs of a mapping, the later came at least its own cooldown     *)
(* after the earlier, however the calls interleave in Enqueue.              *)
(***************************************************************************)
CooldownCollapses ==
  \A a, b \in accepted :
    (a # b /\ a.mapping = b.mapping) =>
      \/ b.at - a.at >= b.cooldown
      \/ a.at - b.at >= a.cooldown

(***************************************************************************)
(* The storm collapses to one effect, not to none: the cooldown is counted  *)
(* from a run that was accepted and that the engine records as queued, not  *)
(* from a call it turned away for cooldown or quiet hours.                  *)
(***************************************************************************)
LastRunWasAccepted ==
  \A m \in Mapping : lastRun[m] # Never =>
    \E c \in Call :
      /\ via[c] = m
      /\ \E a \in accepted : a.call = c /\ a.at = lastRun[m]
      /\ \/ stage[c] = "start"
         \/ stage[c] = "returned" /\ activity[c][1].result = "queued"

(***************************************************************************)
(* Quiet hours (execution rule 4): a call is suppressed exactly when the    *)
(* minute it looks at the clock, in the timezone of the setting it copied   *)
(* before, is one the clock passes between start and end - windows that     *)
(* wrap midnight included - and never by a disabled or malformed setting.   *)
(***************************************************************************)
Suppressed(c) == activity[c] # <<>> /\ activity[c][1].result = "quiet hours"

QuietHoursHonoured ==
  \A c \in Call :
    (stage[c] \notin {"idle", "quiet", "clock"} /\ ~Manual(work[c])) =>
      (Suppressed(c) <=> decided[c])

(***************************************************************************)
(* The activity log tells one consistent story per call: the job-level      *)
(* record comes first and is the only one, device outcomes appear only for  *)
(* a queued job and the lamps it lists, and a lamp has as many ok and as    *)
(* many failed ones as runs of the job on it have ended so: never more than *)
(* the job lists it, though a mapping may list it twice.                    *)
(***************************************************************************)
Outcomes(c, d, results) ==
  {i \in 1 .. Len(activity[c]) : activity[c][i].device = d /\ activity[c][i].result \in results}
Runs(c, d, phase) == {e \in work[c].devices : e[1] = d /\ pc[<<c, e>>] = phase}

OneVerdictPerRun ==
  \A c \in Call :
    /\ \A i \in 1 .. Len(activity[c]) :
         /\ (activity[c][i].device = JobLevel) <=> (i = 1)
         /\ i > 1 => /\ activity[c][1].result = "queued"
                     /\ activity[c][i].result \in Failure \cup {"effect ok"}
    /\ stage[c] # "idle" => \A d \in Device :
         /\ Cardinality(Outcomes(c, d, {"effect ok"})) = Cardinality(Runs(c, d, "ok"))
         /\ Cardinality(Outcomes(c, d, Failure)) = Cardinality(Runs(c, d, "failed"))

-----------------------------------------------------------------------------
(* Refinement. *)

Verdict(w) ==
  CASE pc[w] = "failed" -> "failed"
    [] pc[w] = "ok" /\ "unheard" \in slips[w] -> "ok, unheard"
    [] pc[w] = "ok" /\ "unheard" \notin slips[w] ->
         IF slips[w] = {} THEN "ok" ELSE "ok, best effort"
    [] OTHER -> "none"

\* The refinement mapping: a lamp shows what it showed when its mutex was taken,
\* until the mutex is free again; a call has a job once its workers exist.
Shown == [d \in Device |-> IF deviceLocks[d] = NoWorker THEN lamp[d] ELSE before[d]]
Given == [c \in Call |-> IF \E e \in Entry : pc[<<c, e>>] # "none" THEN work[c] ELSE NoJob]
Verdicts == [w \in Worker |-> Verdict(w)]
RunJobs == {e.job : e \in Jobs} \cup ManualJobs

Atomic == INSTANCE AtomicRuns WITH shown <- Shown, work <- Given, verdict <- Verdicts

(***************************************************************************)
(* The engine implements AtomicRuns: between runs a lamp shows what the     *)
(* last run left, each run changes it in one step, and an "effect ok" has   *)
(* delivered what the job asked for if the lamp heard every write that was  *)
(* reported as sent and the restore, if there is one, met no failure.       *)
(***************************************************************************)
RunsAreAtomic == Atomic!AtomicSpec

-----------------------------------------------------------------------------
(* Liveness. *)

Settled(c) ==
  /\ stage[c] = "returned"
  /\ activity[c][1].result = "queued" => Len(activity[c]) = 1 + Cardinality(work[c].devices)

\* Every call is answered and every queued device gets its verdict, also when
\* runs fail half-way or Stop cancels them: no path keeps a device's mutex.
EveryRunIsReported == \A c \in Call : stage[c] # "idle" ~> Settled(c)

\* Stop comes back because the workers drain, without needing its timeout.
StopReturns == stop = "waiting" ~> stop # "waiting"
=============================================================================
