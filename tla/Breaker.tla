------------------------------- MODULE Breaker -------------------------------
(***************************************************************************)
(* The circuit breaker around every call to the Govee cloud,                *)
(* internal/govee/breaker.go, with the request path it wraps: do, spend and *)
(* doRequest of internal/govee/client.go.                                   *)
(*                                                                          *)
(* A caller is a goroutine inside do: a page load, an effect, a manual      *)
(* write, or RefreshDevices, which clears the breaker first.  A prober is   *)
(* a goroutine of probeRecovery.  c.mu is taken once in breakerCheck, once  *)
(* in spend and once in recordOutcome, so each of those is one step, and    *)
(* the request itself lies between them.  Only elapsed time matters: the    *)
(* ticks left until breakerUntil, and each probe's age.                     *)
(***************************************************************************)
EXTENDS Integers, Sequences

CONSTANTS Caller, Prober,
          BreakerThreshold,  \* breakerThreshold
          BreakerCooldown,   \* breakerCooldown, in ticks
          RequestTime,       \* the longest a probe takes: its wait in spend and clientTimeout
          DailyCallLimit     \* dailyCallLimit

ASSUME BreakerAssumption ==
  /\ Caller \cap Prober = {}
  /\ BreakerThreshold \in Nat \ {0}
  /\ BreakerCooldown \in Nat
  /\ RequestTime \in Nat
  /\ RequestTime < BreakerCooldown
  /\ DailyCallLimit \in Nat

VARIABLES
  cloud,                       \* is Govee answering
  outageStreak, breakerUntil, breakerProbing,
  callsToday, newDay,          \* the budget; has midnight passed since it was rolled
  at, outcome,                 \* per goroutine: its step, what doRequest returned
  age,                         \* per prober: ticks since it started
  recent                       \* history: the last outcomes since clearBreaker, at most a threshold

breaker == <<outageStreak, breakerUntil, breakerProbing>>
budget  == <<callsToday, newDay>>
vars    == <<cloud, breaker, budget, at, outcome, age, recent>>

Requester == Caller \cup Prober

\* What doRequest returns, by what it says of the cloud: an answer, a rejection
\* (4xx, an error code), no answer (timeout, 5xx, "request error:"), a request
\* its caller gave up on, and an error before anything was sent.
Outcome == {"ok", "rejected", "outage", "canceled", "unasked"}
\* Mutant: any error opens the breaker.
IsAnyError(o) == o # "ok"
IsOutage(o) == o \in {"outage", "canceled"}

Zero == -1                     \* the zero time: the breaker is closed
Open == breakerUntil # Zero
Lapsed == breakerUntil = 0     \* time.Now().After(c.breakerUntil)

TypeOK ==
  /\ cloud \in {"up", "down"}
  /\ outageStreak \in 0 .. BreakerThreshold
  /\ breakerUntil \in Zero .. BreakerCooldown
  /\ breakerProbing \in BOOLEAN
  /\ callsToday \in 0 .. DailyCallLimit
  /\ newDay \in BOOLEAN
  /\ at \in [Requester -> {"idle", "check", "spend", "request", "record"}]
  /\ outcome \in [Requester -> Outcome]
  /\ age \in [Prober -> Nat]
  /\ recent \in Seq(Outcome)

Init ==
  /\ cloud \in {"up", "down"}
  /\ outageStreak = 0
  /\ breakerUntil = Zero
  /\ breakerProbing = FALSE
  /\ callsToday = 0
  /\ newDay = FALSE
  /\ at = [r \in Requester |-> "idle"]
  /\ outcome = [r \in Requester |-> "unasked"]
  /\ age = [p \in Prober |-> 0]
  /\ recent = <<>>

-----------------------------------------------------------------------------
(* The breaker.                                                            *)

\* RefreshDevices starts with clearBreaker; its do comes after.
Refresh(c) ==
  /\ at[c] = "idle"
  /\ at' = [at EXCEPT ![c] = "check"]
  /\ outageStreak' = 0
  /\ breakerUntil' = Zero
  /\ breakerProbing' = FALSE
  /\ recent' = <<>>
  /\ UNCHANGED <<cloud, budget, outcome, age>>

\* breakerCheck lets the call through while the breaker is closed.
CheckPasses(c) ==
  /\ at[c] \in {"idle", "check"}
  /\ ~Open
  /\ at' = [at EXCEPT ![c] = "spend"]
  /\ UNCHANGED <<cloud, breaker, budget, outcome, age, recent>>

\* breakerCheck rejects the call at once.
CheckRejects(c) ==
  /\ at[c] \in {"idle", "check"}
  /\ Open
  /\ breakerProbing \/ ~Lapsed
  /\ at' = [at EXCEPT ![c] = "idle"]
  /\ UNCHANGED <<cloud, breaker, budget, outcome, age, recent>>

\* Mutant: the bookkeeping of a probe is left to the probe.
ProbesUnmarked(c, p) ==
  /\ at[c] \in {"idle", "check"}
  /\ at[p] = "idle"
  /\ Lapsed
  /\ at' = [at EXCEPT ![c] = "idle", ![p] = "spend"]
  /\ age' = [age EXCEPT ![p] = 0]
  /\ UNCHANGED <<cloud, breaker, budget, outcome, recent>>

\* breakerCheck rejects the call, and starts the recovery probe.
CheckProbes(c, p) ==
  /\ at[c] \in {"idle", "check"}
  /\ at[p] = "idle"
  /\ Lapsed
  /\ ~breakerProbing
  /\ breakerProbing' = TRUE
  /\ breakerUntil' = BreakerCooldown
  /\ at' = [at EXCEPT ![c] = "idle", ![p] = "spend"]
  /\ age' = [age EXCEPT ![p] = 0]
  /\ UNCHANGED <<cloud, outageStreak, budget, outcome, recent>>

Remember(o) ==
  recent' = IF Len(recent) < BreakerThreshold
              THEN Append(recent, o)
              ELSE Append(Tail(recent), o)

\* outageStreak + 1, kept at the threshold: no test tells a longer streak apart.
Longer == IF outageStreak < BreakerThreshold THEN outageStreak + 1 ELSE BreakerThreshold

\* The goroutine returns from do, or ends; its locals are gone.
Leave(r) ==
  /\ at' = [at EXCEPT ![r] = "idle"]
  /\ outcome' = [outcome EXCEPT ![r] = "unasked"]
  /\ age' = [p \in Prober |-> IF p = r THEN 0 ELSE age[p]]

\* Mutant: the probing flag is cleared on success only.
RecordKeepsProbing(r) ==
  /\ at[r] = "record"
  /\ breakerProbing' = (breakerProbing /\ IsOutage(outcome[r]))
  /\ IF IsOutage(outcome[r])
       THEN /\ outageStreak' = Longer
            /\ breakerUntil' = IF Longer = BreakerThreshold
                                 THEN BreakerCooldown ELSE breakerUntil
       ELSE /\ outageStreak' = 0
            /\ breakerUntil' = Zero
  /\ Remember(outcome[r])
  /\ Leave(r)
  /\ UNCHANGED <<cloud, budget>>

RecordOutcome(r) ==
  /\ at[r] = "record"
  /\ breakerProbing' = FALSE
  /\ IF IsOutage(outcome[r])
       THEN /\ outageStreak' = Longer
            /\ breakerUntil' = IF Longer = BreakerThreshold
                                 THEN BreakerCooldown ELSE breakerUntil
       ELSE /\ outageStreak' = 0
            /\ breakerUntil' = Zero
  /\ Remember(outcome[r])
  /\ Leave(r)
  /\ UNCHANGED <<cloud, budget>>

-----------------------------------------------------------------------------
(* The request.                                                            *)

\* rollBudgetDayLocked, inside spend.
Rolled == IF newDay THEN 0 ELSE callsToday

Spend(r) ==
  /\ at[r] = "spend"
  /\ newDay' = FALSE
  /\ IF Rolled >= DailyCallLimit
       THEN /\ callsToday' = Rolled
            /\ at' = [at EXCEPT ![r] = "record"]
            /\ outcome' = [outcome EXCEPT ![r] = "unasked"]
       ELSE /\ callsToday' = Rolled + 1
            /\ at' = [at EXCEPT ![r] = "request"]
            /\ UNCHANGED outcome
  /\ UNCHANGED <<cloud, breaker, age, recent>>

\* doRequest after spend.  A request without an API key is never sent; only a
\* caller's context can be cancelled, a probe has its own.
Answers(r) ==
  (IF cloud = "up" THEN {"ok", "rejected"} ELSE {"outage"})
    \cup {"unasked"} \cup (IF r \in Caller THEN {"canceled"} ELSE {})

DoRequest(r) ==
  /\ at[r] = "request"
  /\ at' = [at EXCEPT ![r] = "record"]
  /\ \E o \in Answers(r) : outcome' = [outcome EXCEPT ![r] = o]
  /\ UNCHANGED <<cloud, breaker, budget, age, recent>>

-----------------------------------------------------------------------------
(* The environment.                                                        *)

CloudGoesDown ==
  /\ cloud = "up"
  /\ cloud' = "down"
  /\ UNCHANGED <<breaker, budget, at, outcome, age, recent>>

CloudComesBack ==
  /\ cloud = "down"
  /\ cloud' = "up"
  /\ UNCHANGED <<breaker, budget, at, outcome, age, recent>>

Midnight ==
  /\ newDay' = TRUE
  /\ UNCHANGED <<cloud, breaker, callsToday, at, outcome, age, recent>>

InFlight(p) == at[p] # "idle"

\* Time passes; no probe outlives RequestTime.
Tick ==
  /\ \A p \in Prober : InFlight(p) => age[p] < RequestTime
  /\ breakerUntil' = IF breakerUntil > 0 THEN breakerUntil - 1 ELSE breakerUntil
  /\ age' = [p \in Prober |-> IF InFlight(p) THEN age[p] + 1 ELSE age[p]]
  /\ UNCHANGED <<cloud, outageStreak, breakerProbing, budget, at, outcome, recent>>

BreakerCheck(c) ==
  \/ CheckPasses(c)
  \/ CheckRejects(c)
  \/ \E p \in Prober : CheckProbes(c, p)

Step(r) == Spend(r) \/ DoRequest(r) \/ RecordOutcome(r)

Next ==
  \/ \E c \in Caller : Refresh(c) \/ BreakerCheck(c)
  \/ \E r \in Requester : Step(r)
  \/ CloudGoesDown
  \/ CloudComesBack
  \/ Midnight
  \/ Tick

Spec == Init /\ [][Next]_vars

\* Goroutines are scheduled, requests end (clientTimeout), time passes, and
\* somebody keeps using the program.
FairSpec ==
  /\ Spec
  /\ WF_vars(Tick)
  /\ WF_vars(\E c \in Caller : BreakerCheck(c))
  /\ \A r \in Requester : WF_vars(Step(r))

-----------------------------------------------------------------------------
(* Properties.                                                             *)

Unanswered == {"outage", "canceled"}

\* The breaker is open only when as many outcomes as its threshold, with nothing
\* else between them and no Refresh since, were failures to get an answer: an
\* answer that was under way before the outage and lands late starts the count
\* again, and one malformed control call never stops the traffic.
OpenOnlyAfterOutages ==
  Open => /\ Len(recent) = BreakerThreshold
          /\ \A i \in 1 .. BreakerThreshold : recent[i] \in Unanswered

\* There is never a second recovery probe beside the first, although any call
\* that ends clears breakerProbing while the probe is still out.
OneProbeAtATime ==
  \A p, q \in Prober : InFlight(p) /\ InFlight(q) => p = q

\* Once Govee answers again for good, an open breaker closes, as long as calls
\* keep coming: no order of late outcomes leaves the probing flag set for ever.
RecoveryIsNoticed ==
  <>[](cloud = "up") => []<>~Open
=============================================================================
