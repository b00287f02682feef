--------------------------- MODULE CloudCallProofs ---------------------------
(***************************************************************************)
(* Theorems about a call to the cloud: the circuit breaker around it, for   *)
(* every set of callers and probers, every threshold, cooldown, request     *)
(* time and budget, and the spacing of requests, for any number of lanes,   *)
(* callers and requests, every gap and every lateness of the scheduler.     *)
(***************************************************************************)
EXTENDS Breaker, SendSlots, FiniteSetTheorems, TLAPS

-----------------------------------------------------------------------------
(* The breaker: type correctness. *)

LEMMA InitType == Init => TypeOK
<1> SUFFICES ASSUME Init PROVE TypeOK
  OBVIOUS
<1>1. outageStreak \in 0 .. BreakerThreshold /\ breakerUntil \in Zero .. BreakerCooldown
  BY BreakerAssumption DEF Init, Zero
<1>2. callsToday \in 0 .. DailyCallLimit
  BY BreakerAssumption DEF Init
<1>3. recent \in Seq(Outcome)
  BY DEF Init
<1> QED BY <1>1, <1>2, <1>3 DEF Init, TypeOK, Outcome

LEMMA RememberType ==
  ASSUME TypeOK, NEW o \in Outcome, Remember(o)
  PROVE  recent' \in Seq(Outcome)
<1>1. CASE Len(recent) < BreakerThreshold
  BY <1>1 DEF Remember, TypeOK
<1>2. CASE ~(Len(recent) < BreakerThreshold)
  <2>1. recent # <<>>
    BY <1>2, BreakerAssumption
  <2>2. Tail(recent) \in Seq(Outcome)
    BY <2>1 DEF TypeOK
  <2> QED BY <1>2, <2>2 DEF Remember
<1> QED BY <1>1, <1>2

LEMMA CheckType ==
  ASSUME TypeOK, NEW c \in Caller, Refresh(c) \/ BreakerCheck(c)
  PROVE  TypeOK'
<1>1. CASE Refresh(c)
  <2>1. outageStreak' \in 0 .. BreakerThreshold /\ breakerUntil' \in Zero .. BreakerCooldown
    BY <1>1, BreakerAssumption DEF Refresh, Zero
  <2>2. recent' \in Seq(Outcome)
    BY <1>1 DEF Refresh
  <2> QED BY <1>1, <2>1, <2>2 DEF TypeOK, Refresh, Requester, budget
<1>2. CASE CheckPasses(c)
  BY <1>2 DEF TypeOK, CheckPasses, Requester, budget, breaker
<1>3. CASE CheckRejects(c)
  BY <1>3 DEF TypeOK, CheckRejects, Requester, budget, breaker
<1>4. ASSUME NEW p \in Prober, CheckProbes(c, p)
      PROVE  TypeOK'
  BY <1>4, BreakerAssumption DEF TypeOK, CheckProbes, Requester, budget, Zero
<1> QED BY <1>1, <1>2, <1>3, <1>4 DEF BreakerCheck

LEMMA RecordType ==
  ASSUME TypeOK, NEW r \in Requester, RecordOutcome(r)
  PROVE  TypeOK'
<1>1. recent' \in Seq(Outcome)
  BY RememberType DEF TypeOK, RecordOutcome
<1>2. outageStreak' \in 0 .. BreakerThreshold /\ breakerUntil' \in Zero .. BreakerCooldown
  BY BreakerAssumption DEF TypeOK, RecordOutcome, Longer, Zero
<1>3. age' \in [Prober -> Nat]
  BY DEF TypeOK, RecordOutcome, Leave
<1> QED BY <1>1, <1>2, <1>3 DEF TypeOK, RecordOutcome, Leave, Outcome, budget

LEMMA RequestType ==
  ASSUME TypeOK, NEW r \in Requester, Spend(r) \/ DoRequest(r)
  PROVE  TypeOK'
<1>1. CASE Spend(r)
  <2>1. Rolled \in 0 .. DailyCallLimit
    BY BreakerAssumption DEF TypeOK, Rolled
  <2>2. callsToday' \in 0 .. DailyCallLimit
    BY <1>1, <2>1, BreakerAssumption DEF Spend
  <2> QED BY <1>1, <2>2 DEF TypeOK, Spend, Outcome, breaker
<1>2. CASE DoRequest(r)
  <2>1. Answers(r) \subseteq Outcome
    BY DEF Answers, Outcome
  <2> QED BY <1>2, <2>1 DEF TypeOK, DoRequest, breaker, budget
<1> QED BY <1>1, <1>2

LEMMA EnvironmentType ==
  ASSUME TypeOK, CloudGoesDown \/ CloudComesBack \/ Midnight \/ Tick
  PROVE  TypeOK'
<1>1. CASE CloudGoesDown \/ CloudComesBack \/ Midnight
  BY <1>1 DEF TypeOK, CloudGoesDown, CloudComesBack, Midnight, breaker, budget
<1>2. CASE Tick
  <2>1. breakerUntil' \in Zero .. BreakerCooldown
    BY <1>2, BreakerAssumption DEF TypeOK, Tick, Zero
  <2>2. age' \in [Prober -> Nat]
    BY <1>2 DEF TypeOK, Tick
  <2> QED BY <1>2, <2>1, <2>2 DEF TypeOK, Tick, budget
<1> QED BY <1>1, <1>2

LEMMA StepType == TypeOK /\ [Next]_vars => TypeOK'
<1> SUFFICES ASSUME TypeOK, [Next]_vars PROVE TypeOK'
  OBVIOUS
<1>1. CASE UNCHANGED vars
  BY <1>1 DEF vars, breaker, budget, TypeOK
<1> QED BY <1>1, CheckType, RecordType, RequestType, EnvironmentType DEF Next, Step

\* The breaker's counters stay in their ranges; above all the calls of a day never
\* exceed the daily limit, whoever spends them and whenever midnight passes.
THEOREM BreakerTypeCorrect == Spec => []TypeOK
<1> QED BY InitType, StepType, PTL DEF Spec

-----------------------------------------------------------------------------
(* The breaker opens on outages only. *)

\* The last outageStreak outcomes were unanswered, and an open breaker has a
\* full streak.
StreakInv ==
  /\ outageStreak <= Len(recent)
  /\ Len(recent) <= BreakerThreshold
  /\ \A i \in 1 .. Len(recent) : i > Len(recent) - outageStreak => recent[i] \in Unanswered
  /\ Open => outageStreak = BreakerThreshold

LEMMA InitStreak == Init => StreakInv
  BY BreakerAssumption DEF Init, StreakInv, Open

\* What Remember makes of the remembered outcomes, by whether they are full.
LEMMA Remembered ==
  ASSUME TypeOK, StreakInv, NEW o \in Outcome, Remember(o)
  PROVE  LET kept == IF Len(recent) < BreakerThreshold THEN 0 ELSE 1 IN
           /\ Len(recent') = Len(recent) + 1 - kept
           /\ recent'[Len(recent')] = o
           /\ \A i \in 1 .. Len(recent') : i < Len(recent') => recent'[i] = recent[i + kept]
<1>0. recent \in Seq(Outcome) /\ Len(recent) \in Nat
  BY DEF TypeOK
<1>1. CASE Len(recent) < BreakerThreshold
  BY <1>0, <1>1 DEF Remember
<1>2. CASE ~(Len(recent) < BreakerThreshold)
  <2>1. recent # <<>>
    BY <1>2, BreakerAssumption
  <2> DEFINE rest == Tail(recent)
  <2>2. /\ rest \in Seq(Outcome)
        /\ Len(rest) = Len(recent) - 1
        /\ \A i \in 1 .. Len(recent) - 1 : rest[i] = recent[i + 1]
    BY <1>0, <2>1
  <2>3. recent' = Append(rest, o)
    BY <1>2 DEF Remember
  <2> HIDE DEF rest
  <2>4. /\ Len(recent') = Len(recent)
        /\ recent'[Len(recent')] = o
        /\ \A i \in 1 .. Len(recent') : i < Len(recent') => recent'[i] = rest[i]
    BY <1>0, <2>2, <2>3
  <2> QED BY <1>0, <1>2, <2>2, <2>4
<1> QED BY <1>1, <1>2

LEMMA RecordStreak ==
  ASSUME TypeOK, StreakInv, NEW r \in Requester, RecordOutcome(r)
  PROVE  StreakInv'
<1> DEFINE kept == IF Len(recent) < BreakerThreshold THEN 0 ELSE 1
<1>0. /\ Len(recent) \in Nat
      /\ outageStreak \in 0 .. BreakerThreshold
      /\ BreakerThreshold \in Nat \ {0}
      /\ outcome[r] \in Outcome
  BY BreakerAssumption DEF TypeOK
<1>1. /\ Len(recent') = Len(recent) + 1 - kept
      /\ recent'[Len(recent')] = outcome[r]
      /\ \A i \in 1 .. Len(recent') : i < Len(recent') => recent'[i] = recent[i + kept]
  BY <1>0, Remembered DEF RecordOutcome
<1>2. Len(recent') <= BreakerThreshold
  BY <1>0, <1>1 DEF StreakInv
<1>3. CASE IsOutage(outcome[r])
  <2>1. outageStreak' = Longer
    BY <1>3 DEF RecordOutcome
  <2>2. outageStreak' <= Len(recent')
    BY <1>0, <1>1, <2>1 DEF StreakInv, Longer
  <2>3. ASSUME NEW i \in 1 .. Len(recent'), i > Len(recent') - outageStreak'
        PROVE  recent'[i] \in Unanswered
    <3>1. CASE i = Len(recent')
      BY <1>1, <1>3, <3>1 DEF IsOutage, Unanswered
    <3>2. CASE i # Len(recent')
      <4>1. /\ i + kept \in 1 .. Len(recent)
            /\ i + kept > Len(recent) - outageStreak
        BY <1>0, <1>1, <2>1, <2>3, <3>2 DEF StreakInv, Longer
      <4>2. recent'[i] = recent[i + kept]
        BY <1>0, <1>1, <3>2
      <4> QED BY <4>1, <4>2 DEF StreakInv
    <3> QED BY <3>1, <3>2
  <2>4. Open' => outageStreak' = BreakerThreshold
    BY <1>0, <1>3 DEF RecordOutcome, StreakInv, Longer, Open
  <2> QED BY <1>2, <2>2, <2>3, <2>4 DEF StreakInv
<1>4. CASE ~IsOutage(outcome[r])
  BY <1>0, <1>1, <1>2, <1>4 DEF RecordOutcome, StreakInv, Open
<1> QED BY <1>3, <1>4

LEMMA StepStreak == TypeOK /\ StreakInv /\ [Next]_vars => StreakInv'
<1> SUFFICES ASSUME TypeOK, StreakInv, [Next]_vars PROVE StreakInv'
  OBVIOUS
<1>0. BreakerThreshold \in Nat \ {0} /\ recent \in Seq(Outcome)
  BY BreakerAssumption DEF TypeOK
<1>1. ASSUME NEW c \in Caller, Refresh(c)
      PROVE  StreakInv'
  BY <1>0, <1>1 DEF StreakInv, Refresh, Open
<1>2. ASSUME NEW c \in Caller, CheckPasses(c) \/ CheckRejects(c)
      PROVE  StreakInv'
  BY <1>2 DEF StreakInv, CheckPasses, CheckRejects, breaker, Open
<1>3. ASSUME NEW c \in Caller, NEW p \in Prober, CheckProbes(c, p)
      PROVE  StreakInv'
  BY <1>3 DEF StreakInv, CheckProbes, Open, Lapsed, Zero
<1>4. ASSUME NEW r \in Requester, Spend(r) \/ DoRequest(r)
      PROVE  StreakInv'
  BY <1>4 DEF StreakInv, Spend, DoRequest, breaker, Open
<1>5. CASE CloudGoesDown \/ CloudComesBack \/ Midnight
  BY <1>5 DEF StreakInv, CloudGoesDown, CloudComesBack, Midnight, breaker, Open
<1>6. CASE Tick
  BY <1>6 DEF StreakInv, Tick, Open, Zero
<1>7. CASE UNCHANGED vars
  BY <1>7 DEF StreakInv, vars, breaker, Open
<1> QED BY <1>1, <1>2, <1>3, <1>4, <1>5, <1>6, <1>7, RecordStreak
     DEF Next, Step, BreakerCheck

LEMMA StreakMeansOutages ==
  ASSUME TypeOK, StreakInv
  PROVE  OpenOnlyAfterOutages
<1> SUFFICES ASSUME Open PROVE /\ Len(recent) = BreakerThreshold
                               /\ \A i \in 1 .. BreakerThreshold : recent[i] \in Unanswered
  BY DEF OpenOnlyAfterOutages
<1>1. Len(recent) = BreakerThreshold /\ outageStreak = BreakerThreshold
  BY BreakerAssumption DEF StreakInv, TypeOK
<1> QED BY <1>1, BreakerAssumption DEF StreakInv

\* Whatever order the outcomes of overlapping calls land in, the breaker is open
\* only after a full threshold of consecutive unanswered calls since the last Refresh.
THEOREM OpensOnOutagesOnly == Spec => []OpenOnlyAfterOutages
<1>1. TypeOK /\ StreakInv /\ [Next]_vars => (TypeOK /\ StreakInv)'
  BY StepType, StepStreak
<1>2. Init => TypeOK /\ StreakInv
  BY InitType, InitStreak
<1> QED BY <1>1, <1>2, StreakMeansOutages, PTL DEF Spec

-----------------------------------------------------------------------------
(* One probe at a time. *)

\* A probe that is out is younger than RequestTime, and if the breaker is open it
\* stays so at least until the probe's own cooldown ends.
ProbeInv ==
  \A p \in Prober : InFlight(p) =>
    /\ age[p] <= RequestTime
    /\ Open => breakerUntil >= BreakerCooldown - age[p]

IInv == ProbeInv /\ OneProbeAtATime

LEMMA InitProbe == Init => IInv
  BY DEF Init, IInv, ProbeInv, OneProbeAtATime, InFlight, Requester

\* While a probe is out the cooldown cannot have lapsed.
LEMMA NoProbeWhenLapsed ==
  ASSUME TypeOK, ProbeInv, Lapsed, NEW p \in Prober
  PROVE  ~InFlight(p)
<1> SUFFICES ASSUME InFlight(p) PROVE FALSE
  OBVIOUS
<1>1. age[p] <= RequestTime /\ 0 >= BreakerCooldown - age[p]
  BY DEF ProbeInv, Lapsed, Open, Zero
<1> QED BY <1>1, BreakerAssumption DEF TypeOK

LEMMA CallerIsNoProber ==
  ASSUME NEW c \in Caller, NEW p \in Prober
  PROVE  c # p
  BY BreakerAssumption

\* A step of callers' checks, or of the environment, that touches no prober.
LEMMA UntouchedProbes ==
  ASSUME IInv, UNCHANGED age, ~Open' \/ breakerUntil' = breakerUntil,
         \A p \in Prober : at'[p] = at[p]
  PROVE  IInv'
  BY DEF IInv, ProbeInv, OneProbeAtATime, InFlight, Open

\* A prober's step towards its end, with the breaker closed, unchanged, or open
\* for a whole cooldown.
LEMMA ProbesMoveOn ==
  ASSUME TypeOK, IInv,
         ~Open' \/ breakerUntil' = breakerUntil \/ breakerUntil' = BreakerCooldown,
         \A p \in Prober : InFlight(p)' => InFlight(p) /\ age'[p] = age[p]
  PROVE  IInv'
<1>1. ASSUME NEW p \in Prober, InFlight(p)'
      PROVE  age'[p] <= RequestTime /\ (Open' => breakerUntil' >= BreakerCooldown - age'[p])
  <2>1. InFlight(p) /\ age'[p] = age[p] /\ age[p] \in Nat
    BY <1>1 DEF TypeOK
  <2>2. age[p] <= RequestTime /\ (Open => breakerUntil >= BreakerCooldown - age[p])
    BY <2>1 DEF IInv, ProbeInv
  <2> QED BY <2>1, <2>2, BreakerAssumption DEF Open
<1>2. OneProbeAtATime'
  BY DEF IInv, OneProbeAtATime
<1> QED BY <1>1, <1>2 DEF IInv, ProbeInv

LEMMA StepProbe == TypeOK /\ IInv /\ [Next]_vars => IInv'
<1> SUFFICES ASSUME TypeOK, IInv, [Next]_vars PROVE IInv'
  OBVIOUS
<1>1. ASSUME NEW c \in Caller, Refresh(c)
      PROVE  IInv'
  BY <1>1, CallerIsNoProber, UntouchedProbes DEF Refresh, Open, TypeOK, Requester
<1>2. ASSUME NEW c \in Caller, CheckPasses(c) \/ CheckRejects(c)
      PROVE  IInv'
  BY <1>2, CallerIsNoProber, UntouchedProbes
     DEF CheckPasses, CheckRejects, breaker, TypeOK, Requester
<1>3. ASSUME NEW c \in Caller, NEW p \in Prober, CheckProbes(c, p)
      PROVE  IInv'
  <2>1. \A q \in Prober : ~InFlight(q)
    BY <1>3, NoProbeWhenLapsed DEF CheckProbes, IInv
  <2>2. \A q \in Prober : InFlight(q)' => q = p
    BY <1>3, <2>1, CallerIsNoProber DEF CheckProbes, InFlight, TypeOK, Requester
  <2>3. age'[p] = 0 /\ breakerUntil' = BreakerCooldown
    BY <1>3 DEF CheckProbes, TypeOK
  <2> QED BY <2>2, <2>3, BreakerAssumption DEF IInv, ProbeInv, OneProbeAtATime
<1>4. ASSUME NEW r \in Requester, Spend(r) \/ DoRequest(r)
      PROVE  IInv'
  <2>1. \A p \in Prober : InFlight(p)' => InFlight(p) /\ age'[p] = age[p]
    BY <1>4 DEF Spend, DoRequest, InFlight, TypeOK, Requester
  <2> QED BY <1>4, <2>1, ProbesMoveOn DEF Spend, DoRequest, breaker
<1>5. ASSUME NEW r \in Requester, RecordOutcome(r)
      PROVE  IInv'
  <2>1. \A p \in Prober : InFlight(p)' => InFlight(p) /\ age'[p] = age[p]
    BY <1>5 DEF RecordOutcome, Leave, InFlight, TypeOK, Requester
  <2> QED BY <1>5, <2>1, ProbesMoveOn DEF RecordOutcome, Open
<1>6. CASE CloudGoesDown \/ CloudComesBack \/ Midnight
  BY <1>6, UntouchedProbes DEF CloudGoesDown, CloudComesBack, Midnight, breaker
<1>7. CASE Tick
  <2>1. ASSUME NEW p \in Prober, InFlight(p)'
        PROVE  age'[p] <= RequestTime /\ (Open' => breakerUntil' >= BreakerCooldown - age'[p])
    <3>1. InFlight(p) /\ age'[p] = age[p] + 1 /\ age[p] < RequestTime /\ age[p] \in Nat
      BY <1>7, <2>1 DEF Tick, InFlight, TypeOK
    <3>2. Open => breakerUntil >= BreakerCooldown - age[p]
      BY <3>1 DEF IInv, ProbeInv
    <3>3. ~Lapsed
      BY <3>1, NoProbeWhenLapsed DEF IInv
    <3>4. breakerUntil \in Zero .. BreakerCooldown
      BY DEF TypeOK
    <3> QED BY <1>7, <3>1, <3>2, <3>3, <3>4, BreakerAssumption DEF Tick, Open, Lapsed, Zero
  <2>2. OneProbeAtATime'
    BY <1>7 DEF IInv, OneProbeAtATime, Tick, InFlight
  <2> QED BY <2>1, <2>2 DEF IInv, ProbeInv
<1>8. CASE UNCHANGED vars
  BY <1>8, UntouchedProbes DEF vars, breaker
<1> QED BY <1>1, <1>2, <1>3, <1>4, <1>5, <1>6, <1>7, <1>8 DEF Next, Step, BreakerCheck

\* No second recovery probe starts beside the first, although the flag that is
\* meant to prevent it is cleared by every call that ends: the cooldown is
\* longer than any request.
THEOREM ProbesNeverOverlap == Spec => []OneProbeAtATime
<1>1. TypeOK /\ IInv /\ [Next]_vars => (TypeOK /\ IInv)'
  BY StepType, StepProbe
<1>2. Init => TypeOK /\ IInv
  BY InitType, InitProbe
<1>3. IInv => OneProbeAtATime
  BY DEF IInv
<1> QED BY <1>1, <1>2, <1>3, PTL DEF Spec

-----------------------------------------------------------------------------
(* What a reservation does to the slots. *)

LEMMA Products ==
  ASSUME NEW a \in Int, NEW b \in Int
  PROVE  a * b \in Int
  OBVIOUS

LEMMA Slot ==
  ASSUME NEW q \in Seq(Nat), NEW i \in 1 .. Len(q)
  PROVE  q[i] \in Nat
  OBVIOUS

LEMMA Later ==
  ASSUME NEW first \in Nat, NEW last \in Nat, NEW next \in Nat, NEW gap \in Nat, NEW w \in Int,
         last >= first + w, next >= last + gap
  PROVE  next >= first + (w + gap)
  OBVIOUS

LEMMA LateAtMost ==
  ASSUME NEW x \in Nat, NEW y \in Nat, NEW s \in Nat, NEW t \in Nat, NEW m \in Nat, NEW w \in Int,
         y >= x + w, y <= t, s <= x + m
  PROVE  t + m >= s + w
  OBVIOUS

LEMMA NextSlotType ==
  ASSUME SlotsOK, NEW l \in Lane
  PROVE  /\ NextSlot(l) \in Nat
         /\ slots[l] # <<>> => Last(l) \in Nat /\ NextSlot(l) >= Last(l) + Gap[l]
<1>1. slots[l] \in Seq(Nat) /\ Gap[l] \in Nat /\ now \in Nat
  BY SlotsAssumption DEF SlotsOK
<1>2. CASE slots[l] = <<>>
  BY <1>1, <1>2 DEF NextSlot
<1>3. CASE slots[l] # <<>>
  <2>1. Last(l) \in Nat
    BY <1>1, <1>3 DEF Last
  <2> QED BY <1>1, <1>3, <2>1 DEF NextSlot
<1> QED BY <1>2, <1>3

LEMMA ReserveAppends ==
  ASSUME SlotsOK, NEW l \in Lane, Reserve(l)
  PROVE  /\ slots' \in [Lane -> Seq(Nat)]
         /\ \A k \in Lane : k # l => slots'[k] = slots[k]
         /\ Len(slots'[l]) = Len(slots[l]) + 1
         /\ \A i \in 1 .. Len(slots[l]) : slots'[l][i] = slots[l][i]
         /\ slots'[l][Len(slots[l]) + 1] = NextSlot(l)
<1>1. slots[l] \in Seq(Nat) /\ NextSlot(l) \in Nat
  BY NextSlotType DEF SlotsOK
<1>2. slots' = [slots EXCEPT ![l] = Append(slots[l], NextSlot(l))]
  BY DEF Reserve
<1>3. slots'[l] = Append(slots[l], NextSlot(l))
  BY <1>2 DEF SlotsOK
<1> QED BY <1>1, <1>2, <1>3 DEF SlotsOK

-----------------------------------------------------------------------------
(* Type correctness. *)

LEMMA SlotsTypeStep == SlotsOK /\ [SlotsNext]_slotVars => SlotsOK'
<1> SUFFICES ASSUME SlotsOK, [SlotsNext]_slotVars PROVE SlotsOK'
  OBVIOUS
<1>1. ASSUME NEW l \in Lane, Reserve(l) PROVE SlotsOK'
  <2>1. /\ slots' \in [Lane -> Seq(Nat)]
        /\ \A k \in Lane : 1 .. Len(slots[k]) \subseteq 1 .. Len(slots'[k])
    <3>1. /\ slots' \in [Lane -> Seq(Nat)]
          /\ \A k \in Lane : k # l => slots'[k] = slots[k]
          /\ Len(slots'[l]) = Len(slots[l]) + 1
      BY <1>1, ReserveAppends
    <3>2. Len(slots[l]) \in Nat
      BY DEF SlotsOK
    <3>3. 1 .. Len(slots[l]) \subseteq 1 .. Len(slots'[l])
      BY <3>1, <3>2
    <3> QED BY <3>1, <3>3
  <2>2. asleep' \subseteq Lane \X Nat /\ \A r \in asleep' : r[2] \in 1 .. Len(slots'[r[1]])
    <3>1. Len(slots[l]) + 1 \in 1 .. Len(slots'[l])
      BY <1>1, ReserveAppends DEF SlotsOK
    <3>2. asleep' = asleep \cup {<<l, Len(slots[l]) + 1>>}
      BY <1>1 DEF Reserve
    <3> QED BY <2>1, <3>1, <3>2 DEF SlotsOK
  <2>3. \A s \in sends' : s[2] \in 1 .. Len(slots'[s[1]])
    BY <1>1, <2>1 DEF Reserve, SlotsOK
  <2> QED BY <1>1, <2>1, <2>2, <2>3 DEF Reserve, SlotsOK
<1>2. ASSUME NEW l \in Lane, NEW n \in 1 .. MaxSends, Send(l, n) PROVE SlotsOK'
  <2>1. n \in 1 .. Len(slots[l])
    BY <1>2 DEF Send, SlotsOK
  <2> QED BY <1>2, <2>1 DEF Send, SlotsOK
<1>3. CASE SlotsTick
  BY <1>3 DEF SlotsTick, SlotsOK
<1>4. CASE UNCHANGED slotVars
  BY <1>4 DEF slotVars, SlotsOK
<1> QED BY <1>1, <1>2, <1>3, <1>4 DEF SlotsNext

LEMMA SlotsInitType == SlotsInit => SlotsOK
BY DEF SlotsInit, SlotsOK

\* Every variable keeps its type; who sleeps and what was sent had a slot.
THEOREM SlotsTypeCorrect == SlotsSpec => []SlotsOK
<1>1. SlotsInit => SlotsOK
  BY SlotsInitType
<1>2. SlotsOK /\ [SlotsNext]_slotVars => SlotsOK'
  BY SlotsTypeStep
<1> QED BY <1>1, <1>2, PTL DEF SlotsSpec

-----------------------------------------------------------------------------
(* Spacing. *)

LEMMA SpacedStep == SlotsOK /\ SlotsAreSpaced /\ [SlotsNext]_slotVars => SlotsAreSpaced'
<1> SUFFICES ASSUME SlotsOK, SlotsAreSpaced, [SlotsNext]_slotVars PROVE SlotsAreSpaced'
  OBVIOUS
<1>1. ASSUME NEW l \in Lane, Reserve(l) PROVE SlotsAreSpaced'
  <2> SUFFICES ASSUME NEW k \in Lane, NEW i \in 1 .. Len(slots'[k]), NEW j \in 1 .. Len(slots'[k]),
                      i <= j
               PROVE  slots'[k][j] >= slots'[k][i] + (j - i) * Gap[k]
    BY DEF SlotsAreSpaced
  <2>1. CASE k # l
    BY <1>1, <2>1, ReserveAppends DEF SlotsAreSpaced
  <2>2. CASE k = l /\ j <= Len(slots[l])
    <3>1. i \in 1 .. Len(slots[l]) /\ j \in 1 .. Len(slots[l])
      BY <1>1, <2>2, ReserveAppends DEF SlotsOK
    <3> QED BY <1>1, <2>2, <3>1, ReserveAppends DEF SlotsAreSpaced
  <2>3. CASE k = l /\ j > Len(slots[l])
    <3> DEFINE n == Len(slots[l])
    <3>1. n \in Nat /\ j = n + 1 /\ Gap[l] \in Nat
      BY <1>1, <2>3, ReserveAppends, SlotsAssumption DEF SlotsOK
    <3>2. slots'[l][j] = NextSlot(l) /\ NextSlot(l) \in Nat
      BY <1>1, <3>1, ReserveAppends, NextSlotType
    <3>3. CASE i = j
      <4>1. (j - i) * Gap[l] = 0
        BY <3>1, <3>3
      <4> QED BY <2>3, <3>2, <3>3, <4>1
    <3>4. CASE i # j
      <4>1. i \in 1 .. n /\ n \in 1 .. n /\ slots[l] # <<>>
        BY <2>3, <3>1, <3>4 DEF SlotsOK
      <4>2. slots'[l][i] = slots[l][i] /\ slots[l][i] \in Nat
        <5>1. slots'[l][i] = slots[l][i]
          BY <1>1, <4>1, ReserveAppends
        <5>2. slots[l] \in Seq(Nat)
          BY DEF SlotsOK
        <5> QED BY <4>1, <5>1, <5>2
      <4>3. Last(l) >= slots[l][i] + (n - i) * Gap[l]
        <5>1. i <= n
          BY <3>1, <4>1
        <5>2. slots[l][n] >= slots[l][i] + (n - i) * Gap[l]
          BY <4>1, <5>1 DEF SlotsAreSpaced
        <5> QED BY <5>2 DEF Last
      <4>4. NextSlot(l) >= Last(l) + Gap[l] /\ Last(l) \in Nat
        BY <4>1, NextSlotType
      <4>5. (j - i) * Gap[l] = (n - i) * Gap[l] + Gap[l] /\ (n - i) * Gap[l] \in Int
        BY <3>1, <4>1
      <4> DEFINE w == (n - i) * Gap[l]
      <4>6. w \in Int /\ Last(l) >= slots[l][i] + w /\ (j - i) * Gap[l] = w + Gap[l]
        BY <4>3, <4>5
      <4> HIDE DEF w
      <4>7. NextSlot(l) >= slots[l][i] + (w + Gap[l])
        BY <3>1, <3>2, <4>2, <4>4, <4>6, Later
      <4> QED BY <2>3, <3>2, <4>2, <4>6, <4>7
    <3> QED BY <3>3, <3>4
  <2> QED BY <1>1, <2>1, <2>2, <2>3, ReserveAppends DEF SlotsOK
<1>2. ASSUME NEW l \in Lane, NEW n \in 1 .. MaxSends, Send(l, n) PROVE SlotsAreSpaced'
  BY <1>2 DEF Send, SlotsAreSpaced
<1>3. CASE SlotsTick \/ UNCHANGED slotVars
  BY <1>3 DEF SlotsTick, slotVars, SlotsAreSpaced
<1> QED BY <1>1, <1>2, <1>3 DEF SlotsNext

LEMMA InitSpaced == SlotsInit => SlotsAreSpaced
BY DEF SlotsInit, SlotsAreSpaced

\* The slots of a lane are a gap apart for every request between them, however
\* many callers reserve and wherever the clock stands.
THEOREM SlotsStaySpaced == SlotsSpec => []SlotsAreSpaced
<1>1. SlotsInit => SlotsOK /\ SlotsAreSpaced
  BY SlotsInitType, InitSpaced
<1>2. SlotsOK /\ SlotsAreSpaced /\ [SlotsNext]_slotVars => (SlotsOK /\ SlotsAreSpaced)'
  BY SlotsTypeStep, SpacedStep
<1> QED BY <1>1, <1>2, PTL DEF SlotsSpec

-----------------------------------------------------------------------------
(* Bursts.  A request leaves in its slot or up to MaxLate after it.         *)

Punctual ==
  /\ \A r \in asleep : now <= slots[r[1]][r[2]] + MaxLate
  /\ \A s \in sends : slots[s[1]][s[2]] <= s[3] /\ s[3] <= slots[s[1]][s[2]] + MaxLate

LEMMA PunctualStep == SlotsOK /\ Punctual /\ [SlotsNext]_slotVars => Punctual'
<1> SUFFICES ASSUME SlotsOK, Punctual, [SlotsNext]_slotVars PROVE Punctual'
  OBVIOUS
<1>0. MaxLate \in Nat /\ now \in Nat
  BY SlotsAssumption DEF SlotsOK
<1>1. ASSUME NEW l \in Lane, Reserve(l) PROVE Punctual'
  <2>1. \A k \in Lane : \A i \in 1 .. Len(slots[k]) : slots'[k][i] = slots[k][i]
    BY <1>1, ReserveAppends
  <2>2. now <= NextSlot(l) + MaxLate
    <3>1. NextSlot(l) >= now
      <4>1. CASE slots[l] = <<>>
        BY <1>0, <4>1 DEF NextSlot
      <4>2. CASE slots[l] # <<>>
        <5>1. Last(l) \in Nat /\ Gap[l] \in Nat
          BY <4>2, NextSlotType, SlotsAssumption
        <5> QED BY <1>0, <4>2, <5>1 DEF NextSlot
      <4> QED BY <4>1, <4>2
    <3> QED BY <1>0, <3>1, NextSlotType
  <2>3. slots'[l][Len(slots[l]) + 1] = NextSlot(l)
    BY <1>1, ReserveAppends
  <2>4. \A r \in asleep' : now' <= slots'[r[1]][r[2]] + MaxLate
    <3> SUFFICES ASSUME NEW r \in asleep' PROVE now' <= slots'[r[1]][r[2]] + MaxLate
      OBVIOUS
    <3>1. CASE r \in asleep
      BY <1>1, <2>1, <3>1 DEF Reserve, Punctual, SlotsOK
    <3>2. CASE r = <<l, Len(slots[l]) + 1>>
      BY <1>1, <2>2, <2>3, <3>2 DEF Reserve
    <3> QED BY <1>1, <3>1, <3>2 DEF Reserve
  <2>5. \A s \in sends' : /\ slots'[s[1]][s[2]] <= s[3]
                          /\ s[3] <= slots'[s[1]][s[2]] + MaxLate
    BY <1>1, <2>1 DEF Reserve, Punctual, SlotsOK
  <2> QED BY <2>4, <2>5 DEF Punctual
<1>2. ASSUME NEW l \in Lane, NEW n \in 1 .. MaxSends, Send(l, n) PROVE Punctual'
  <2>1. slots[l][n] <= now /\ now <= slots[l][n] + MaxLate
    <3>1. n \in 1 .. Len(slots[l]) /\ slots[l] \in Seq(Nat)
      BY <1>2 DEF Send, SlotsOK
    <3>2. slots[l][n] \in Nat
      BY <3>1
    <3> QED BY <1>0, <1>2, <3>2 DEF Send, Due, Punctual
  <2> QED BY <1>2, <2>1 DEF Send, Punctual
<1>3. CASE SlotsTick
  <2>1. ASSUME NEW r \in asleep PROVE now + 1 <= slots[r[1]][r[2]] + MaxLate
    <3>1. slots[r[1]][r[2]] \in Nat
      BY DEF SlotsOK
    <3> QED BY <1>0, <1>3, <3>1 DEF SlotsTick
  <2> QED BY <1>3, <2>1 DEF SlotsTick, Punctual
<1>4. CASE UNCHANGED slotVars
  BY <1>4 DEF slotVars, Punctual
<1> QED BY <1>1, <1>2, <1>3, <1>4 DEF SlotsNext

LEMMA SpacedPunctualSends == SlotsOK /\ SlotsAreSpaced /\ Punctual => NoBurst
<1> SUFFICES ASSUME SlotsOK, SlotsAreSpaced, Punctual, NEW s \in sends, NEW r \in sends,
                    s[1] = r[1], s[2] <= r[2]
             PROVE  r[3] + MaxLate >= s[3] + (r[2] - s[2]) * Gap[s[1]]
  BY DEF NoBurst
<1> DEFINE l == s[1]
<1>1. /\ l \in Lane /\ s[2] \in 1 .. Len(slots[l]) /\ r[2] \in 1 .. Len(slots[l])
      /\ s[3] \in Nat /\ r[3] \in Nat /\ slots[l] \in Seq(Nat)
  BY DEF SlotsOK
<1>2. slots[l][r[2]] >= slots[l][s[2]] + (r[2] - s[2]) * Gap[l]
  BY <1>1 DEF SlotsAreSpaced
<1>3. slots[l][r[2]] <= r[3] /\ s[3] <= slots[l][s[2]] + MaxLate
  BY DEF Punctual
<1> DEFINE x == slots[l][s[2]]
           y == slots[l][r[2]]
           w == (r[2] - s[2]) * Gap[l]
<1>4. x \in Nat /\ y \in Nat
  BY <1>1, Slot
<1>5. w \in Int
  <2>1. r[2] \in Int /\ s[2] \in Int
    BY <1>1
  <2>2. Gap[l] \in Int
    BY <1>1, SlotsAssumption
  <2> QED BY <2>1, <2>2, Products
<1>6. y >= x + w /\ y <= r[3] /\ s[3] <= x + MaxLate
  BY <1>2, <1>3
<1>7. r[3] \in Nat /\ s[3] \in Nat /\ MaxLate \in Nat
  BY <1>1, SlotsAssumption
<1>8. r[3] + MaxLate >= s[3] + w
  <2> HIDE DEF w, x, y
  <2> QED BY <1>4, <1>5, <1>6, <1>7, LateAtMost
<1> QED BY <1>8

\* However callers are interleaved and woken, a run of requests takes as long as
\* its gaps but for the lateness of its first.
THEOREM RequestsNeverBurst == SlotsSpec => []NoBurst
<1>1. SlotsInit => SlotsOK /\ SlotsAreSpaced /\ Punctual
  BY SlotsInitType, InitSpaced DEF SlotsInit, Punctual
<1>2. SlotsOK /\ SlotsAreSpaced /\ Punctual /\ [SlotsNext]_slotVars
        => (SlotsOK /\ SlotsAreSpaced /\ Punctual)'
  BY SlotsTypeStep, SpacedStep, PunctualStep
<1>3. SlotsOK /\ SlotsAreSpaced /\ Punctual => NoBurst
  BY SpacedPunctualSends
<1> QED BY <1>1, <1>2, <1>3, PTL DEF SlotsSpec

-----------------------------------------------------------------------------
(* The backlog.  The slots that are not due form the end of a lane, a gap    *)
(* from each to the next, and a caller sleeps for each of them.             *)

LEMMA OneMore ==
  ASSUME NEW a \in Int, NEW g \in Int
  PROVE  (a + 1) * g = a * g + g
  OBVIOUS

LEMMA Growing ==
  ASSUME NEW a \in Nat \ {0}, NEW g \in Nat \ {0}
  PROVE  a * g \in Nat /\ a * g >= g
  OBVIOUS

\* The m-th slot of lane l is the last that is due.
LastDue(l, m) ==
  /\ m \in 1 .. Len(slots[l])
  /\ \A i \in 1 .. Len(slots[l]) : slots[l][i] > now <=> i > m
  /\ \A i \in m .. Len(slots[l]) : slots[l][i] = slots[l][m] + (i - m) * Gap[l]

Queue == \A l \in Lane : slots[l] # <<>> => \E m \in Nat : LastDue(l, m)

Sleeping ==
  \A l \in Lane : \A i \in 1 .. Len(slots[l]) : slots[l][i] > now => <<l, i>> \in asleep

LEMMA SleepingStep == SlotsOK /\ Sleeping /\ [SlotsNext]_slotVars => Sleeping'
<1> SUFFICES ASSUME SlotsOK, Sleeping, [SlotsNext]_slotVars, NEW l \in Lane, NEW i \in 1 .. Len(slots'[l]),
                    slots'[l][i] > now'
             PROVE  <<l, i>> \in asleep'
  BY DEF Sleeping
<1>1. ASSUME NEW k \in Lane, Reserve(k) PROVE <<l, i>> \in asleep'
  <2>1. now' = now /\ asleep' = asleep \cup {<<k, Len(slots[k]) + 1>>}
    BY <1>1 DEF Reserve
  <2>2. CASE i \in 1 .. Len(slots[l])
    BY <1>1, <2>1, <2>2, ReserveAppends DEF Sleeping
  <2>3. CASE i \notin 1 .. Len(slots[l])
    <3>1. Len(slots[k]) \in Nat /\ Len(slots'[k]) = Len(slots[k]) + 1
      BY <1>1, ReserveAppends DEF SlotsOK
    <3>2. l = k
      BY <1>1, <2>3, ReserveAppends
    <3>3. l = k /\ i = Len(slots[k]) + 1
      BY <2>3, <3>1, <3>2
    <3> QED BY <2>1, <3>3
  <2> QED BY <2>2, <2>3
<1>2. ASSUME NEW k \in Lane, NEW n \in 1 .. MaxSends, Send(k, n) PROVE <<l, i>> \in asleep'
  <2>1. slots' = slots /\ now' = now /\ asleep' = asleep \ {<<k, n>>} /\ now >= slots[k][n]
    BY <1>2 DEF Send, Due
  <2>2. slots[l][i] \in Nat /\ now \in Nat
    BY <2>1, Slot DEF SlotsOK
  <2> QED BY <2>1, <2>2 DEF Sleeping
<1>3. CASE SlotsTick
  <2>1. slots' = slots /\ now' = now + 1 /\ asleep' = asleep
    BY <1>3 DEF SlotsTick
  <2>2. slots[l][i] \in Nat /\ now \in Nat
    BY <2>1, Slot DEF SlotsOK
  <2> QED BY <2>1, <2>2 DEF Sleeping
<1>4. CASE UNCHANGED slotVars
  BY <1>4 DEF slotVars, Sleeping
<1> QED BY <1>1, <1>2, <1>3, <1>4 DEF SlotsNext

LEMMA ReserveQueue ==
  ASSUME SlotsOK, Queue, NEW l \in Lane, Reserve(l)
  PROVE  Queue'
<1> DEFINE n == Len(slots[l])
<1>1. /\ n \in Nat /\ Len(slots'[l]) = n + 1 /\ slots'[l][n + 1] = NextSlot(l) /\ now' = now
      /\ now \in Nat /\ NextSlot(l) \in Nat /\ Gap[l] \in Nat \ {0}
  <2>1. Len(slots'[l]) = n + 1 /\ slots'[l][n + 1] = NextSlot(l)
    BY ReserveAppends
  <2>2. n \in Nat /\ now \in Nat /\ NextSlot(l) \in Nat
    BY NextSlotType DEF SlotsOK
  <2> QED BY <2>1, <2>2, SlotsAssumption DEF Reserve
<1>2. \A i \in 1 .. n : slots'[l][i] = slots[l][i] /\ slots[l][i] \in Nat
  BY ReserveAppends, Slot DEF SlotsOK
<1>3. ASSUME NEW k \in Lane, k # l, slots'[k] # <<>> PROVE \E m \in Nat : LastDue(k, m)'
  <2>1. slots'[k] = slots[k]
    BY <1>3, ReserveAppends
  <2> QED BY <1>1, <1>3, <2>1 DEF Queue, LastDue
<1>4. CASE slots[l] = <<>>
  <2>1. n = 0 /\ slots'[l][1] = now /\ Len(slots'[l]) = 1
    BY <1>1, <1>4 DEF NextSlot
  <2>2. LastDue(l, 1)'
    BY <1>1, <2>1 DEF LastDue
  <2> QED BY <1>3, <2>2 DEF Queue
<1>5. CASE slots[l] # <<>>
  <2>1. PICK m \in Nat : LastDue(l, m)
    BY <1>5 DEF Queue
  <2>2. Last(l) = slots[l][n] /\ n \in 1 .. n /\ m \in 1 .. n /\ Last(l) \in Nat
    BY <1>1, <1>2, <2>1 DEF Last, LastDue
  <2>3. CASE now >= Last(l) + Gap[l]
    <3>1. m = n /\ NextSlot(l) = now
      <4>1. ~(slots[l][n] > now)
        BY <1>1, <2>2, <2>3
      <4>2. slots[l][n] > now <=> n > m
        BY <2>1, <2>2 DEF LastDue
      <4>3. m = n
        BY <1>1, <2>2, <4>1, <4>2
      <4>4. NextSlot(l) = now
        BY <2>3 DEF NextSlot
      <4> QED BY <4>3, <4>4
    <3>2. \A i \in 1 .. n : slots'[l][i] <= now
      BY <1>1, <1>2, <2>1, <3>1 DEF LastDue
    <3>3. \A i \in 1 .. n + 1 : i \in 1 .. n \/ i = n + 1
      BY <1>1
    <3>4. \A i \in 1 .. n + 1 : ~(slots'[l][i] > now) /\ ~(i > n + 1)
      BY <1>1, <3>1, <3>2, <3>3, <1>2
    <3>5. \A i \in n + 1 .. n + 1 : i = n + 1 /\ (i - (n + 1)) * Gap[l] = 0
      BY <1>1
    <3>6. slots'[l][n + 1] \in Nat /\ n + 1 \in 1 .. n + 1
      BY <1>1
    <3>7. \A i \in n + 1 .. n + 1 :
            slots'[l][i] = slots'[l][n + 1] + (i - (n + 1)) * Gap[l]
      BY <3>5, <3>6
    <3>8. PICK q \in Nat : q = n + 1
      BY <1>1
    <3>9. LastDue(l, q)'
      <4>1. Len(slots'[l]) = q /\ now' = now
        BY <1>1, <3>8
      <4>2. \A i \in 1 .. q : slots'[l][i] > now' <=> i > q
        BY <3>4, <3>8, <4>1
      <4>3. \A i \in q .. q : slots'[l][i] = slots'[l][q] + (i - q) * Gap[l]
        BY <3>7, <3>8
      <4>4. q \in 1 .. q
        BY <3>6, <3>8
      <4> QED BY <4>1, <4>2, <4>3, <4>4 DEF LastDue
    <3> QED BY <1>1, <1>3, <3>9 DEF Queue
  <2>4. CASE now < Last(l) + Gap[l]
    <3>1. NextSlot(l) = Last(l) + Gap[l]
      BY <1>1, <1>5, <2>2, <2>4 DEF NextSlot
    <3>2. Last(l) = slots[l][m] + (n - m) * Gap[l]
      <4>1. n \in m .. n
        BY <1>1, <2>2
      <4> QED BY <2>1, <2>2, <4>1 DEF LastDue
    <3>3. (n + 1 - m) * Gap[l] = (n - m) * Gap[l] + Gap[l]
      <4>1. n - m \in Int /\ n + 1 - m = (n - m) + 1 /\ Gap[l] \in Int
        BY <1>1
      <4> QED BY <4>1, OneMore
    <3>4. NextSlot(l) = slots[l][m] + (n + 1 - m) * Gap[l]
      <4> DEFINE w == (n - m) * Gap[l]
                 v == (n + 1 - m) * Gap[l]
      <4>1. w \in Int /\ slots[l][m] \in Nat /\ Gap[l] \in Int
        <5>1. n - m \in Int /\ Gap[l] \in Int
          BY <1>1
        <5> QED BY <1>2, <2>2, <5>1, Products
      <4>2. v = w + Gap[l] /\ Last(l) = slots[l][m] + w
        BY <3>2, <3>3
      <4> HIDE DEF w, v
      <4>3. NextSlot(l) = slots[l][m] + v
        BY <2>2, <3>1, <4>1, <4>2
      <4> QED BY <4>3 DEF v
    <3>5. m \in 1 .. Len(slots'[l]) /\ slots'[l][m] = slots[l][m]
      BY <1>1, <1>2, <2>2
    <3>6. ASSUME NEW i \in 1 .. n + 1 PROVE slots'[l][i] > now <=> i > m
      <4>1. CASE i \in 1 .. n
        BY <1>2, <2>1, <4>1 DEF LastDue
      <4>2. CASE i = n + 1
        BY <1>1, <2>2, <2>4, <3>1, <4>2
      <4> QED BY <1>1, <4>1, <4>2
    <3>7. ASSUME NEW i \in m .. n + 1 PROVE slots'[l][i] = slots'[l][m] + (i - m) * Gap[l]
      <4>1. CASE i \in m .. n
        <5>1. i \in 1 .. n
          BY <1>1, <2>2, <4>1
        <5> QED BY <1>2, <2>1, <3>5, <4>1, <5>1 DEF LastDue
      <4>2. CASE i = n + 1
        BY <1>1, <3>4, <3>5, <4>2
      <4> QED BY <1>1, <2>2, <4>1, <4>2
    <3>8. LastDue(l, m)'
      <4>1. Len(slots'[l]) = n + 1 /\ now' = now
        BY <1>1
      <4>2. \A i \in 1 .. Len(slots'[l]) : slots'[l][i] > now' <=> i > m
        BY <3>6, <4>1
      <4>3. \A i \in m .. Len(slots'[l]) :
              slots'[l][i] = slots'[l][m] + (i - m) * Gap[l]
        BY <3>7, <4>1
      <4> QED BY <3>5, <4>2, <4>3 DEF LastDue
    <3> QED BY <1>3, <3>8 DEF Queue
  <2> QED BY <1>1, <2>2, <2>3, <2>4
<1> QED BY <1>4, <1>5

LEMMA TickQueue ==
  ASSUME SlotsOK, Queue, SlotsTick
  PROVE  Queue'
<1> SUFFICES ASSUME NEW l \in Lane, slots'[l] # <<>> PROVE \E m \in Nat : LastDue(l, m)'
  BY DEF Queue
<1> DEFINE n == Len(slots[l])
<1>1. slots' = slots /\ now' = now + 1 /\ now \in Nat /\ n \in Nat /\ Gap[l] \in Nat \ {0}
  BY SlotsAssumption DEF SlotsTick, SlotsOK
<1>2. PICK m \in Nat : LastDue(l, m)
  BY <1>1 DEF Queue
<1>3. /\ m \in 1 .. n
      /\ \A i \in 1 .. n : slots[l][i] \in Nat /\ (slots[l][i] > now <=> i > m)
      /\ \A i \in m .. n : slots[l][i] = slots[l][m] + (i - m) * Gap[l]
  BY <1>1, <1>2, Slot DEF LastDue, SlotsOK
<1> HIDE DEF n
<1>4. CASE m = n \/ slots[l][m + 1] > now + 1
  <2>1. ASSUME NEW i \in 1 .. n PROVE slots[l][i] > now + 1 <=> i > m
    <3>1. CASE i <= m
      BY <1>1, <1>3, <3>1
    <3>2. CASE i = m + 1
      BY <1>1, <1>3, <1>4, <3>2
    <3>3. CASE i > m + 1
      <4>1. m + 1 \in m .. n /\ i \in m .. n /\ m + 1 \in 1 .. n
        BY <1>1, <1>3, <3>3
      <4>2. (i - m) * Gap[l] >= Gap[l] /\ (i - m) * Gap[l] \in Nat
        <5>1. i - m \in Nat \ {0}
          BY <1>1, <1>3, <3>3
        <5> QED BY <1>1, <5>1, Growing
      <4>3. slots[l][m + 1] = slots[l][m] + Gap[l]
        <5>1. (m + 1 - m) * Gap[l] = Gap[l]
          BY <1>1
        <5> QED BY <1>3, <4>1, <5>1
      <4>4. slots[l][i] >= slots[l][m + 1]
        <5> DEFINE w == (i - m) * Gap[l]
        <5>1. slots[l][i] = slots[l][m] + w /\ w \in Nat /\ w >= Gap[l]
          BY <1>3, <4>1, <4>2
        <5> HIDE DEF w
        <5> QED BY <1>1, <1>3, <4>3, <5>1
      <4> QED BY <1>1, <1>3, <1>4, <3>3, <4>1, <4>4
    <3> QED BY <1>3, <3>1, <3>2, <3>3
  <2>2. LastDue(l, m)'
    <3>1. Len(slots'[l]) = n
      BY <1>1 DEF n
    <3>2. m \in 1 .. Len(slots'[l])
      BY <1>3, <3>1
    <3>3. \A i \in 1 .. Len(slots'[l]) : slots'[l][i] > now' <=> i > m
      BY <1>1, <2>1, <3>1
    <3>4. \A i \in m .. Len(slots'[l]) :
            slots'[l][i] = slots'[l][m] + (i - m) * Gap[l]
      BY <1>1, <1>3, <3>1
    <3> QED BY <3>2, <3>3, <3>4 DEF LastDue
  <2> QED BY <2>2
<1>5. CASE m < n /\ slots[l][m + 1] <= now + 1
  <2>1. m + 1 \in 1 .. n /\ m + 1 \in m .. n /\ slots[l][m + 1] = now + 1
    BY <1>1, <1>3, <1>5
  <2>2. slots[l][m + 1] = slots[l][m] + Gap[l]
    <3>1. (m + 1 - m) * Gap[l] = Gap[l]
      BY <1>1
    <3> QED BY <1>3, <2>1, <3>1
  <2>3. ASSUME NEW i \in m + 1 .. n
        PROVE  slots[l][i] = slots[l][m + 1] + (i - (m + 1)) * Gap[l]
    <3> DEFINE w == (i - (m + 1)) * Gap[l]
               v == (i - m) * Gap[l]
    <3>1. w \in Int /\ v = w + Gap[l]
      <4>1. i - (m + 1) \in Int /\ i - m = (i - (m + 1)) + 1 /\ Gap[l] \in Int
        BY <1>1
      <4> QED BY <4>1, Products, OneMore
    <3>2. slots[l][i] = slots[l][m] + v
      BY <1>1, <1>3
    <3> HIDE DEF w, v
    <3>3. slots[l][i] = slots[l][m + 1] + w
      BY <1>1, <1>3, <2>2, <3>1, <3>2
    <3> QED BY <3>3 DEF w
  <2>4. ASSUME NEW i \in 1 .. n PROVE slots[l][i] > now + 1 <=> i > m + 1
    <3>1. CASE i <= m
      BY <1>1, <1>3, <3>1
    <3>2. CASE i = m + 1
      BY <1>1, <2>1, <3>2
    <3>3. CASE i > m + 1
      <4>1. (i - (m + 1)) * Gap[l] >= Gap[l] /\ (i - (m + 1)) * Gap[l] \in Nat
        <5>1. i - (m + 1) \in Nat \ {0}
          BY <1>1, <3>3
        <5> QED BY <1>1, <5>1, Growing
      <4> DEFINE w == (i - (m + 1)) * Gap[l]
      <4>2. slots[l][i] = slots[l][m + 1] + w /\ w \in Nat /\ w >= Gap[l]
        BY <1>1, <2>3, <3>3, <4>1
      <4> HIDE DEF w
      <4> QED BY <1>1, <2>1, <3>3, <4>2
    <3> QED BY <3>1, <3>2, <3>3
  <2>5. LastDue(l, m + 1)'
    <3>1. Len(slots'[l]) = n
      BY <1>1 DEF n
    <3>2. m + 1 \in 1 .. Len(slots'[l])
      BY <2>1, <3>1
    <3>3. \A i \in 1 .. Len(slots'[l]) : slots'[l][i] > now' <=> i > m + 1
      BY <1>1, <2>4, <3>1
    <3>4. \A i \in m + 1 .. Len(slots'[l]) :
            slots'[l][i] = slots'[l][m + 1] + (i - (m + 1)) * Gap[l]
      BY <1>1, <2>3, <3>1
    <3> QED BY <3>2, <3>3, <3>4 DEF LastDue
  <2> QED BY <2>5
<1>6. m = n \/ (m < n /\ m + 1 \in 1 .. n)
  BY <1>1, <1>3
<1>7. m < n => slots[l][m + 1] \in Nat
  BY <1>3, <1>6
<1>8. m < n => (slots[l][m + 1] > now + 1 \/ slots[l][m + 1] <= now + 1)
  BY <1>1, <1>7
<1> QED BY <1>4, <1>5, <1>6, <1>8

LEMMA QueueStep == SlotsOK /\ Queue /\ [SlotsNext]_slotVars => Queue'
<1> SUFFICES ASSUME SlotsOK, Queue, [SlotsNext]_slotVars PROVE Queue'
  OBVIOUS
<1>1. ASSUME NEW l \in Lane, NEW k \in 1 .. MaxSends, Send(l, k) PROVE Queue'
  BY <1>1 DEF Send, Queue, LastDue
<1>2. CASE UNCHANGED slotVars
  BY <1>2 DEF slotVars, Queue, LastDue
<1> QED BY <1>1, <1>2, ReserveQueue, TickQueue DEF SlotsNext

\* Those who wait are as many as the slots after the last that is due.
LEMMA WaitersOfQueue ==
  ASSUME SlotsOK, Sleeping, NEW l \in Lane, NEW m \in Nat, LastDue(l, m)
  PROVE  Cardinality({r \in asleep : r[1] = l /\ ~Due(l, r[2])}) = Len(slots[l]) - m
<1> DEFINE n == Len(slots[l])
           W == {r \in asleep : r[1] = l /\ ~Due(l, r[2])}
           f == [i \in m + 1 .. n |-> <<l, i>>]
<1>1. now \in Nat /\ n \in Nat /\ m \in 1 .. n
  BY DEF SlotsOK, LastDue
<1>2. \A i \in 1 .. n : slots[l][i] \in Nat /\ (slots[l][i] > now <=> i > m)
  BY Slot DEF SlotsOK, LastDue
<1>3. W = {<<l, i>> : i \in m + 1 .. n}
  <2>1. ASSUME NEW r \in W PROVE r \in {<<l, i>> : i \in m + 1 .. n}
    <3>1. r = <<l, r[2]>> /\ r[2] \in 1 .. n /\ ~(now >= slots[l][r[2]])
      BY <2>1 DEF SlotsOK, Due
    <3>2. r[2] \in m + 1 .. n
      BY <1>1, <1>2, <3>1
    <3> QED BY <3>1, <3>2
  <2>2. ASSUME NEW i \in m + 1 .. n PROVE <<l, i>> \in W
    <3>1. i \in 1 .. n /\ slots[l][i] > now /\ slots[l][i] \in Nat
      BY <1>1, <1>2
    <3>2. <<l, i>> \in asleep /\ ~Due(l, i)
      BY <1>1, <3>1 DEF Sleeping, Due
    <3> QED BY <3>2
  <2> QED BY <2>1, <2>2
<1>4. f \in Bijection(m + 1 .. n, W)
  <2>1. f \in Injection(m + 1 .. n, W)
    BY <1>3 DEF Injection, IsInjective
  <2>2. f \in Surjection(m + 1 .. n, W)
    BY <1>3 DEF Surjection
  <2> QED BY <2>1, <2>2 DEF Bijection
<1>5. IsFiniteSet(m + 1 .. n) /\ Cardinality(m + 1 .. n) = n - m
  <2>1. m + 1 \in Int /\ n \in Int /\ m <= n
    BY <1>1
  <2>2. /\ IsFiniteSet(m + 1 .. n)
        /\ Cardinality(m + 1 .. n) = IF m + 1 > n THEN 0 ELSE n - (m + 1) + 1
    BY <2>1, FS_Interval
  <2> QED BY <1>1, <2>2
<1>6. ExistsBijection(m + 1 .. n, W)
  BY <1>4 DEF ExistsBijection
<1> QED BY <1>5, <1>6, FS_Bijection

LEMMA QueuedBacklog == SlotsOK /\ Sleeping /\ Queue => BacklogIsCallers
<1> SUFFICES ASSUME SlotsOK, Sleeping, Queue, NEW l \in Lane, slots[l] # <<>>
             PROVE  Last(l) <= now + Gap[l] * Cardinality({r \in asleep : r[1] = l /\ ~Due(l, r[2])})
  BY DEF BacklogIsCallers
<1> DEFINE n == Len(slots[l])
<1>1. PICK m \in Nat : LastDue(l, m)
  BY DEF Queue
<1>2. n \in Nat /\ m \in 1 .. n /\ now \in Nat /\ Gap[l] \in Int
  BY <1>1, SlotsAssumption DEF LastDue, SlotsOK
<1>3. slots[l][m] \in Nat /\ slots[l][m] <= now
  BY <1>1, <1>2, Slot DEF LastDue, SlotsOK
<1>4. Last(l) = slots[l][m] + (n - m) * Gap[l]
  <2>1. n \in m .. n
    BY <1>2
  <2> QED BY <1>1, <2>1 DEF LastDue, Last
<1> DEFINE w == (n - m) * Gap[l]
<1>5. w \in Int /\ Gap[l] * (n - m) = w
  BY <1>2, Products
<1>6. Last(l) <= now + w
  <2> HIDE DEF w
  <2> QED BY <1>2, <1>3, <1>4, <1>5 DEF w
<1> QED BY <1>1, <1>5, <1>6, WaitersOfQueue

\* The queue of a lane is its waiting callers: a caller waits a gap for each of
\* them, and never for slots nobody uses.
THEOREM TheBacklogIsCallers == SlotsSpec => []BacklogIsCallers
<1>1. SlotsInit => SlotsOK /\ Sleeping /\ Queue
  BY SlotsInitType DEF SlotsInit, Sleeping, Queue
<1>2. SlotsOK /\ Sleeping /\ Queue /\ [SlotsNext]_slotVars => (SlotsOK /\ Sleeping /\ Queue)'
  BY SlotsTypeStep, SleepingStep, QueueStep
<1>3. SlotsOK /\ Sleeping /\ Queue => BacklogIsCallers
  BY QueuedBacklog
<1> QED BY <1>1, <1>2, <1>3, PTL DEF SlotsSpec
=============================================================================
