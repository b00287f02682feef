---------------------------- MODULE ProcessProofs ----------------------------
(***************************************************************************)
(* Theorems about the shutdown for every set of requests of either door.    *)
(***************************************************************************)
EXTENDS Process, TLAPS

\* The end of the process leaves no run and no request, and keeps the rest.
LEMMA DiesType ==
  ASSUME TypeOK, NEW how \in {"ended", "forced", "failed", "crashed"}, Dies(how)
  PROVE  /\ main' = how /\ expired' = expired /\ wait' = wait /\ canceled' = canceled
         /\ socket' = socket /\ late' = late /\ reused' = reused
         /\ handler' \in [Request -> {"outside", "answered", "dropped"}]
         /\ run' \in [Request -> {"none", "ok", "failed", "killed"}]
         /\ \A r \in Request : run'[r] = "killed" => r \in Live \/ run[r] = "killed"
<1>1. handler' \in [Request -> {"outside", "answered", "dropped"}]
  BY DEF Dies, TypeOK, Served
<1>2. run' \in [Request -> {"none", "ok", "failed", "killed"}]
  BY DEF Dies, TypeOK, Live
<1> QED BY <1>1, <1>2 DEF Dies, TypeOK, Live

-----------------------------------------------------------------------------
(* Type correctness. *)

LEMMA TypeStep == TypeOK /\ [Next]_vars => TypeOK'
<1> SUFFICES ASSUME TypeOK, [Next]_vars PROVE TypeOK'
  OBVIOUS
<1>1. ASSUME NEW r \in Request, Accept(r) PROVE TypeOK'
  BY <1>1 DEF Accept, HooksOpen, PagesOpen, TypeOK
<1>2. ASSUME NEW r \in Request, HandOver(r) PROVE TypeOK'
  BY <1>2 DEF HandOver, Gone, TypeOK
<1>3. ASSUME NEW r \in Request, Return(r) PROVE TypeOK'
  BY <1>3 DEF Return, Gone, TypeOK
<1>4. ASSUME NEW r \in Request, RunEnds(r) PROVE TypeOK'
  BY <1>4 DEF RunEnds, Gone, TypeOK
<1>5. CASE ServerFails
  BY <1>5, DiesType DEF ServerFails, TypeOK
<1>6. CASE Signal \/ Expire \/ HooksStopped
  BY <1>6 DEF Signal, Expire, HooksStopped, TypeOK
<1>7. CASE WaitReturns
  <2>1. CASE Live = {}
    BY <1>7, <2>1 DEF WaitReturns, TypeOK
  <2>2. CASE Live # {}
    BY <1>7, <2>2, DiesType DEF WaitReturns, TypeOK
  <2> QED BY <2>1, <2>2
<1>8. CASE EngineStopped \/ EngineAbandoned \/ LanStopped
  BY <1>8 DEF EngineStopped, EngineAbandoned, LanStopped, TypeOK
<1>9. CASE WebStopped
  BY <1>9, DiesType DEF WebStopped, TypeOK
<1>10. CASE UNCHANGED vars
  BY <1>10 DEF vars, TypeOK
<1> QED BY <1>1, <1>2, <1>3, <1>4, <1>5, <1>6, <1>7, <1>8, <1>9, <1>10 DEF Next, MainStep

LEMMA InitType == Init => TypeOK
BY DEF Init, TypeOK

\* Every variable keeps its type; once the process is gone nothing is under way.
THEOREM ProcessTypeCorrect == Spec => []TypeOK
<1>1. Init => TypeOK
  BY InitType
<1>2. TypeOK /\ [Next]_vars => TypeOK'
  BY TypeStep
<1> QED BY <1>1, <1>2, PTL DEF Spec

-----------------------------------------------------------------------------
(* Webhooks.  Past the first stop no webhook is served any more, unless the *)
(* 30 s cut it off; and the engine is not waited for before.                *)

HooksInv ==
  /\ main \in {"engine", "lan", "web"} => Served(Hook) = {} \/ "hooks" \in early
  /\ wait # "no" => main \notin {"up", "hooks"}
  /\ NoLateWebhookRuns
  /\ reused \cap Hook # {} => "hooks" \in early

LEMMA HooksStep == TypeOK /\ HooksInv /\ [Next]_vars => HooksInv'
<1> SUFFICES ASSUME TypeOK, HooksInv, [Next]_vars PROVE HooksInv'
  OBVIOUS
<1>1. ASSUME NEW r \in Request, Accept(r) PROVE HooksInv'
  <2>1. main \in {"engine", "lan", "web"} => r \notin Hook
    BY <1>1 DEF Accept, HooksOpen
  <2>2. main \in {"engine", "lan", "web"} => Served(Hook)' = Served(Hook)
    BY <1>1, <2>1 DEF Accept, Served, TypeOK, Request
  <2> QED BY <1>1, <2>2 DEF Accept, HooksInv, NoLateWebhookRuns
<1>2. ASSUME NEW r \in Request, HandOver(r) PROVE HooksInv'
  <2>1. Served(Hook)' = Served(Hook)
    BY <1>2 DEF HandOver, Served, TypeOK, Request
  <2>2. wait # "no" /\ r \in Hook => "hooks" \in early
    BY <1>2 DEF HandOver, HooksInv, Served, Gone, TypeOK
  <2>3. main \in {"lan", "web"} /\ r \in Hook => "hooks" \in early
    BY <1>2 DEF HandOver, HooksInv, Served
  <2> QED BY <1>2, <2>1, <2>2, <2>3 DEF HandOver, HooksInv, NoLateWebhookRuns
<1>3. ASSUME NEW r \in Request, Return(r) PROVE HooksInv'
  <2>1. Served(Hook)' \subseteq Served(Hook)
    BY <1>3 DEF Return, Served, TypeOK, Request
  <2> QED BY <1>3, <2>1 DEF Return, HooksInv, NoLateWebhookRuns
<1>4. ASSUME NEW r \in Request, RunEnds(r) PROVE HooksInv'
  BY <1>4 DEF RunEnds, HooksInv, NoLateWebhookRuns, Served
<1>5. CASE Signal \/ Expire \/ HooksStopped
  BY <1>5 DEF Signal, Expire, HooksStopped, HooksInv, NoLateWebhookRuns, Served
<1>6. CASE ServerFails \/ WaitReturns
  BY <1>6 DEF ServerFails, WaitReturns, Dies, HooksInv, NoLateWebhookRuns, Served
<1>7. CASE EngineStopped \/ EngineAbandoned \/ LanStopped
  BY <1>7 DEF EngineStopped, EngineAbandoned, LanStopped, HooksInv, NoLateWebhookRuns, Served
<1>8. CASE WebStopped
  BY <1>8 DEF WebStopped, Dies, HooksInv, NoLateWebhookRuns
<1>9. CASE UNCHANGED vars
  BY <1>9 DEF vars, HooksInv, NoLateWebhookRuns, Served
<1> QED BY <1>1, <1>2, <1>3, <1>4, <1>5, <1>6, <1>7, <1>8, <1>9 DEF Next, MainStep

\* No webhook hands over a run once the engine has been waited for, unless the
\* 30 s cut its handler off.
THEOREM WebhooksStopFirst == Spec => []NoLateWebhookRuns
<1>1. Init => TypeOK /\ HooksInv
  BY InitType DEF Init, HooksInv, NoLateWebhookRuns
<1>2. TypeOK /\ HooksInv /\ [Next]_vars => (TypeOK /\ HooksInv)'
  BY TypeStep, HooksStep
<1>3. HooksInv => NoLateWebhookRuns
  BY DEF HooksInv
<1> QED BY <1>1, <1>2, <1>3, PTL DEF Spec

-----------------------------------------------------------------------------
(* Runs.  Once Wait has been woken, what lives was handed over since; once  *)
(* it has returned, what lives is late.                                     *)

RunsInv ==
  /\ wait = "woken" => Live \subseteq reused
  /\ wait = "returned" => Live \subseteq late
  /\ main \in {"lan", "web"} => wait = "returned" \/ "engine" \in early
  /\ ~socket => main = "web" \/ Gone
  /\ \A r \in Request : run[r] = "killed" => Gone
  /\ KilledRunsWereLate
  /\ main = "crashed" => reused # {}

LEMMA RunsStep == TypeOK /\ RunsInv /\ [Next]_vars => RunsInv'
<1> SUFFICES ASSUME TypeOK, RunsInv, [Next]_vars PROVE RunsInv'
  OBVIOUS
<1> USE DEF RunsInv, KilledRunsWereLate, Gone
<1>1. ASSUME NEW r \in Request, Accept(r) PROVE RunsInv'
  BY <1>1 DEF Accept, Live
<1>2. ASSUME NEW r \in Request, HandOver(r) PROVE RunsInv'
  <2>1. Live' = Live \cup {r}
    BY <1>2 DEF HandOver, Live, TypeOK
  <2>2. \A q \in Request : run'[q] = "killed" => run[q] = "killed"
    BY <1>2 DEF HandOver, TypeOK
  <2> QED BY <1>2, <2>1, <2>2 DEF HandOver, TypeOK
<1>3. ASSUME NEW r \in Request, Return(r) PROVE RunsInv'
  BY <1>3 DEF Return, Live
<1>4. ASSUME NEW r \in Request, RunEnds(r) PROVE RunsInv'
  <2>1. Live' = Live \ {r}
    BY <1>4 DEF RunEnds, Live, TypeOK
  <2>2. \A q \in Request : run'[q] = "killed" => run[q] = "killed"
    BY <1>4 DEF RunEnds, TypeOK
  <2> QED BY <1>4, <2>1, <2>2 DEF RunEnds, TypeOK
<1>5. CASE ServerFails
  BY <1>5, DiesType DEF ServerFails, Live
<1>6. CASE Signal \/ Expire
  BY <1>6 DEF Signal, Expire, Live
<1>7. CASE HooksStopped
  BY <1>7 DEF HooksStopped, Live
<1>8. CASE WaitReturns
  <2>1. CASE Live = {}
    BY <1>8, <2>1 DEF WaitReturns, Live
  <2>2. CASE Live # {}
    BY <1>8, <2>2, DiesType DEF WaitReturns, Live
  <2> QED BY <2>1, <2>2
<1>9. CASE EngineStopped \/ EngineAbandoned \/ LanStopped
  BY <1>9 DEF EngineStopped, EngineAbandoned, LanStopped, Live, TypeOK
<1>10. CASE WebStopped
  <2>1. Live \subseteq late \/ "engine" \in early
    BY <1>10 DEF WebStopped
  <2>2. "engine" \in early => "engine" \in early'
    BY <1>10 DEF WebStopped
  <2>3. main' \in {"ended", "forced"} /\ Live' = {} /\ late' = late /\ wait' = wait /\ reused' = reused
    BY <1>10, DiesType DEF WebStopped, Live
  <2>4. \A r \in Request : run'[r] = "killed" => r \in Live
    BY <1>10, DiesType DEF WebStopped
  <2> QED BY <2>1, <2>2, <2>3, <2>4
<1>11. CASE UNCHANGED vars
  BY <1>11 DEF vars, Live
<1> QED BY <1>1, <1>2, <1>3, <1>4, <1>5, <1>6, <1>7, <1>8, <1>9, <1>10, <1>11 DEF Next, MainStep

LEMMA InitRuns == Init => RunsInv
BY DEF Init, RunsInv, Live, KilledRunsWereLate, Gone

\* A run that finds the LAN socket closed was abandoned by engine.Stop, or came
\* too late for it to wait.
THEOREM SocketIsClosedLast == Spec => []SocketOutlivesRuns
<1>1. Init => TypeOK /\ RunsInv
  BY InitType, InitRuns
<1>2. TypeOK /\ RunsInv /\ [Next]_vars => (TypeOK /\ RunsInv)'
  BY TypeStep, RunsStep
<1>3. TypeOK /\ RunsInv => SocketOutlivesRuns
  BY DEF TypeOK, RunsInv, SocketOutlivesRuns, Gone, Live
<1> QED BY <1>1, <1>2, <1>3, PTL DEF Spec

\* A stop loses a run only if engine.Stop gave up on it or never knew of it.
THEOREM OnlyLateRunsAreKilled == Spec => []KilledRunsWereLate
<1>1. Init => TypeOK /\ RunsInv
  BY InitType, InitRuns
<1>2. TypeOK /\ RunsInv /\ [Next]_vars => (TypeOK /\ RunsInv)'
  BY TypeStep, RunsStep
<1>3. RunsInv => KilledRunsWereLate
  BY DEF RunsInv
<1> QED BY <1>1, <1>2, <1>3, PTL DEF Spec

\* A stop crashes in wg.Wait only through a run handed over between the last
\* wg.Done and the return of Wait, which no webhook does that was waited for.
THEOREM CrashesComeFromLateAdds == Spec => []CrashNeedsALateAdd
<1>1. Init => TypeOK /\ HooksInv /\ RunsInv
  BY InitType, InitRuns DEF Init, HooksInv, NoLateWebhookRuns
<1>2. TypeOK /\ HooksInv /\ RunsInv /\ [Next]_vars => (TypeOK /\ HooksInv /\ RunsInv)'
  BY TypeStep, HooksStep, RunsStep
<1>3. HooksInv /\ RunsInv => CrashNeedsALateAdd
  BY DEF HooksInv, RunsInv, CrashNeedsALateAdd
<1> QED BY <1>1, <1>2, <1>3, PTL DEF Spec
=============================================================================
