------------------------------- MODULE Process -------------------------------
(***************************************************************************)
(* How the program stops: runServer in cmd/mmfp-govee/main.go after the     *)
(* signal, against the requests and the runs that are under way.            *)
(*                                                                          *)
(* A request comes through one of two doors, the webhook listener or the    *)
(* web app, and may hand the engine a run.  The timers, main's 30 s for     *)
(* both doors together and engine.Stop's 10 s, may fire at any time while   *)
(* somebody waits for them.  The engine and the LAN service are reduced to  *)
(* what main can tell of them: Engine and LanRoutes have the rest.          *)
(***************************************************************************)
EXTENDS FiniteSets, Naturals

CONSTANTS Hook, Page     \* requests of the webhook listener and of the web app

Request == Hook \cup Page

ASSUME DoorsAssumption == Hook \cap Page = {} /\ IsFiniteSet(Request)

VARIABLES
  main,                \* where runServer is
  expired,             \* the 30 s are over
  handler,             \* per request
  run,                 \* per request: the run it handed to the engine
  canceled,            \* the engine's context
  wait,                \* the goroutine in wg.Wait
  socket,              \* the LAN socket is open
  \* history
  late,                \* requests whose run was handed over after Wait, or engine.Stop, returned
  early,               \* what main did not wait for: "hooks", "engine", "web"
  reused               \* requests whose wg.Add came between the wake-up of Wait and its return

vars == <<main, expired, handler, run, canceled, wait, socket, late, early, reused>>

TypeOK ==
  /\ main \in {"up", "hooks", "engine", "lan", "web", "ended", "forced", "failed", "crashed"}
  /\ expired \in BOOLEAN
  /\ handler \in [Request -> {"outside", "accepted", "handed", "answered", "dropped"}]
  /\ run \in [Request -> {"none", "running", "ok", "failed", "killed"}]
  /\ canceled \in BOOLEAN
  /\ wait \in {"no", "waits", "woken", "returned"}
  /\ socket \in BOOLEAN
  /\ late \subseteq Request
  /\ early \subseteq {"hooks", "engine", "web"}
  /\ reused \subseteq Request
  /\ main \in {"ended", "forced", "failed", "crashed"} =>
       \A r \in Request : run[r] # "running" /\ handler[r] \notin {"accepted", "handed"}

Init ==
  /\ main = "up"
  /\ expired = FALSE
  /\ handler = [r \in Request |-> "outside"]
  /\ run = [r \in Request |-> "none"]
  /\ canceled = FALSE
  /\ wait = "no"
  /\ socket = TRUE
  /\ late = {}
  /\ early = {}
  /\ reused = {}

Gone == main \in {"ended", "forced", "failed", "crashed"}
Served(requests) == {r \in requests : handler[r] \in {"accepted", "handed"}}
Live == {r \in Request : run[r] = "running"}

\* http.Server.Shutdown closes the listener first, then waits for its requests.
HooksOpen == main = "up"
PagesOpen == main \in {"up", "hooks", "engine", "lan"}

-----------------------------------------------------------------------------
(* Requests and runs.                                                      *)

Accept(r) ==
  /\ handler[r] = "outside"
  /\ IF r \in Hook THEN HooksOpen ELSE PagesOpen
  /\ handler' = [handler EXCEPT ![r] = "accepted"]
  /\ UNCHANGED <<main, expired, run, canceled, wait, socket, late, early, reused>>

\* Enqueue, EnqueueControl: wg.Add(1) and the worker, whatever Stop has done.
HandOver(r) ==
  /\ ~Gone /\ handler[r] = "accepted"
  /\ handler' = [handler EXCEPT ![r] = "handed"]
  /\ run' = [run EXCEPT ![r] = "running"]
  /\ late' = IF wait = "returned" \/ main \in {"lan", "web"} THEN late \cup {r} ELSE late
  /\ reused' = IF wait = "woken" THEN reused \cup {r} ELSE reused
  /\ UNCHANGED <<main, expired, canceled, wait, socket, early>>

\* The answer; a request need not hand over a run.
Return(r) ==
  /\ ~Gone /\ r \in Served(Request)
  /\ handler' = [handler EXCEPT ![r] = "answered"]
  /\ UNCHANGED <<main, expired, run, canceled, wait, socket, late, early, reused>>

\* A run ends with its verdict, which may still be ok after the socket is closed:
\* a verification that finds no route confirms it.  The last wg.Done wakes Wait up.
RunEnds(r) ==
  /\ ~Gone /\ r \in Live
  /\ \E verdict \in {"ok", "failed"} :
       run' = [run EXCEPT ![r] = verdict]
  /\ wait' = IF wait = "waits" /\ Live = {r} THEN "woken" ELSE wait
  /\ UNCHANGED <<main, expired, handler, canceled, socket, late, early, reused>>

-----------------------------------------------------------------------------
(* runServer.                                                              *)

\* The process is gone and with it what was under way.
Dies(how) ==
  /\ main' = how
  /\ handler' = [r \in Request |-> IF r \in Served(Request) THEN "dropped" ELSE handler[r]]
  /\ run' = [r \in Request |-> IF r \in Live THEN "killed" ELSE run[r]]
  /\ UNCHANGED <<expired, canceled, wait, socket, late, reused>>

\* The web app cannot listen, or no longer: runServer returns.
ServerFails ==
  /\ main = "up"
  /\ Dies("failed")
  /\ UNCHANGED early

\* hookServer.Stop closes the listener.
Signal ==
  /\ main = "up"
  /\ main' = "hooks"
  /\ UNCHANGED <<expired, handler, run, canceled, wait, socket, late, early, reused>>

\* The 30 s of main's context, for hookServer.Stop and server.Shutdown.
Expire ==
  /\ main \in {"hooks", "engine", "lan", "web"}
  /\ expired' = TRUE
  /\ UNCHANGED <<main, handler, run, canceled, wait, socket, late, early, reused>>

\* Mutant of HooksStopped: the listener is not waited for.
HooksStoppedAtOnce ==
  /\ main = "hooks"
  /\ main' = "engine"
  /\ canceled' = TRUE
  /\ wait' = IF Live = {} THEN "returned" ELSE "waits"
  /\ UNCHANGED <<expired, handler, run, socket, late, early, reused>>

\* hookServer.Stop returns; engine.Stop cancels the runs and starts to wait.
HooksStopped ==
  /\ main = "hooks"
  /\ Served(Hook) = {} \/ expired
  /\ early' = IF Served(Hook) = {} THEN early ELSE early \cup {"hooks"}
  /\ main' = "engine"
  /\ canceled' = TRUE
  /\ wait' = IF Live = {} THEN "returned" ELSE "waits"
  /\ UNCHANGED <<expired, handler, run, socket, late, reused>>

\* Wait has been woken: it panics when the group has members again.
WaitReturns ==
  /\ ~Gone /\ wait = "woken"
  /\ IF Live = {}
     THEN wait' = "returned" /\ UNCHANGED <<main, expired, handler, run, canceled, socket, late, reused>>
     ELSE Dies("crashed")
  /\ UNCHANGED early

\* Mutant of EngineStopped: the workers are not waited for.
EngineStoppedAtOnce ==
  /\ main = "engine"
  /\ main' = "lan"
  /\ UNCHANGED <<expired, handler, run, canceled, wait, socket, late, early, reused>>

EngineStopped ==
  /\ main = "engine" /\ wait = "returned"
  /\ main' = "lan"
  /\ UNCHANGED <<expired, handler, run, canceled, wait, socket, late, early, reused>>

\* engine.Stop's 10 s: the workers are abandoned.
EngineAbandoned ==
  /\ main = "engine" /\ wait # "returned"
  /\ main' = "lan"
  /\ early' = early \cup {"engine"}
  /\ UNCHANGED <<expired, handler, run, canceled, wait, socket, late, reused>>

\* StopLAN and StopRotation; server.Shutdown closes the web listener.
LanStopped ==
  /\ main = "lan"
  /\ main' = "web"
  /\ socket' = FALSE
  /\ UNCHANGED <<expired, handler, run, canceled, wait, late, early, reused>>

\* Mutant of WebStopped: the context is not looked at.
WebStoppedPatiently ==
  /\ main = "web" /\ Served(Page) = {}
  /\ Dies("ended")
  /\ UNCHANGED early

\* server.Shutdown returns, with an error once the 30 s are over, and runServer.
WebStopped ==
  /\ main = "web"
  /\ \/ Served(Page) = {} /\ Dies("ended") /\ UNCHANGED early
     \/ Served(Page) # {} /\ expired /\ Dies("forced") /\ early' = early \cup {"web"}

MainStep == HooksStopped \/ EngineStopped \/ EngineAbandoned \/ LanStopped \/ WebStopped

Next ==
  \/ \E r \in Request : Accept(r) \/ HandOver(r) \/ Return(r) \/ RunEnds(r)
  \/ ServerFails \/ Signal \/ Expire \/ WaitReturns \/ MainStep

Spec == Init /\ [][Next]_vars

\* main and its timers go on; nothing is assumed of requests and runs.
FairSpec == Spec /\ WF_vars(MainStep) /\ WF_vars(Expire)

-----------------------------------------------------------------------------
(* Properties.                                                             *)

\* main.go:215, "stop accepting webhooks first": no webhook hands over a run once
\* the engine has been waited for, unless the 30 s cut its handler off.  Pages may: the
\* web app is the last to stop.
NoLateWebhookRuns == late \cap Hook # {} => "hooks" \in early

\* main.go:216, "effects may still be using it": a run that finds the LAN socket
\* closed was abandoned by engine.Stop, or came too late for it to wait.
SocketOutlivesRuns == ~socket /\ "engine" \notin early => Live \subseteq late

\* A stop after the signal, forced or not, loses a run only if engine.Stop gave up on
\* it or never knew of it; "failed" is a web server that never got or lost its port.
KilledRunsWereLate ==
  \A r \in Request : run[r] = "killed" /\ main # "failed" =>
    r \in late \cup reused \/ "engine" \in early \/ main = "crashed"

\* A stop crashes in wg.Wait only when a request hands over a run between the last
\* wg.Done and the return of Wait, which no webhook does that was waited for.
CrashNeedsALateAdd ==
  /\ main = "crashed" => reused # {}
  /\ reused \cap Hook # {} => "hooks" \in early

\* Whatever requests and runs do, the program ends after the signal.
ProcessEnds == main # "up" ~> Gone
=============================================================================
