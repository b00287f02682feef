------------------------------ MODULE LanRoutes ------------------------------
(***************************************************************************)
(* The LAN service, internal/govee/lan.go, and the code of transport.go and *)
(* client.go that chooses between it and the cloud.                         *)
(*                                                                          *)
(* A reader is a goroutine that reads a device's state over LAN: a sweep is *)
(* fetchState for the UI, a run is an effect, which captures the state, then*)
(* writes, then calls VerifyReachable.  Route reads, the registration of a  *)
(* waiter, the send, the cleanup and dropRoute take different locks, so     *)
(* each is a step.  The lamps and the network are external: datagrams may   *)
(* be late, arrive twice or never, a lamp may lose power and come back at   *)
(* another address.                                                         *)
(***************************************************************************)
EXTENDS Naturals

CONSTANTS Device, Addr,
          Run, Sweep,         \* goroutines that read a state
          Target,             \* the device each of them is about: the engine runs one
                              \* effect per device at a time, so runs have their own
          Statics,            \* s.statics, a device's configured address or NoRoute
          NoRoute,
          StartupRetries,     \* len(lanStartupRetries)
          MaxCuts             \* bound on power cuts

Reader == Run \cup Sweep

ASSUME LanAssumption ==
  /\ Run \cap Sweep = {}
  /\ Target \in [Reader -> Device]
  /\ \A r, q \in Run : Target[r] = Target[q] => r = q
  /\ NoRoute \notin Addr
  /\ Statics \in [Device -> Addr \cup {NoRoute}]
  /\ StartupRetries \in Nat
  /\ MaxCuts \in Nat

VARIABLES
  open,                        \* the :4002 socket, until Stop
  routes, static,              \* s.routes: an address, and is it a configured one
  retries, window,             \* startup scans left; is a ScanAndWait in its window
  waiters, answered,           \* readers by address; readers whose channel holds a reply
  phase, pc, asked,            \* per reader: what it does, its step in Status, the address
  scanning, found,             \* scans on their way to lamps, their replies <<d, a>>
  queries, replies,            \* devStatus on its way to an address, and back from one
  alive, home, cuts,           \* the lamps: powered, their address, power cuts so far
  \* history, read by no guard
  wrote, heard,                \* per run: the address of its last LAN write, a reply from it since
  missed                       \* devices for which a scan or its reply was lost since the last drop

service == <<open, routes, static, retries, window>>
readers == <<waiters, answered, phase, pc, asked>>
network == <<scanning, found, queries, replies>>
lamps   == <<alive, home, cuts>>
history == <<wrote, heard, missed>>
vars    == <<service, readers, network, lamps, history>>

TypeOK ==
  /\ open \in BOOLEAN
  /\ routes \in [Device -> Addr \cup {NoRoute}]
  /\ static \in [Device -> BOOLEAN]
  /\ retries \in 0 .. StartupRetries
  /\ window \in BOOLEAN
  /\ waiters \in [Addr -> SUBSET Reader]
  /\ answered \subseteq Reader
  /\ phase \in [Reader -> {"sweep", "capture", "write", "verify", "ok", "failed"}]
  /\ pc \in [Reader -> {"idle", "found", "registered", "waiting", "silent"}]
  /\ asked \in [Reader -> Addr \cup {NoRoute}]
  /\ scanning \subseteq Device
  /\ found \subseteq Device \X Addr
  /\ queries \subseteq Addr
  /\ replies \subseteq Addr
  /\ alive \in [Device -> BOOLEAN]
  /\ home \in [Device -> Addr]
  /\ cuts \in 0 .. MaxCuts
  /\ wrote \in [Run -> Addr \cup {NoRoute}]
  /\ heard \in [Run -> BOOLEAN]
  /\ missed \subseteq Device

HasRoute(d) == routes[d] # NoRoute

-----------------------------------------------------------------------------
(* Routes.                                                                 *)

\* seedStatics: a discovered route beats a configured one.
SeedStatics ==
  LET seeded == {d \in Device : ~HasRoute(d) /\ Statics[d] # NoRoute} IN
  /\ routes' = [d \in Device |-> IF d \in seeded THEN Statics[d] ELSE routes[d]]
  /\ static' = [d \in Device |-> d \in seeded \/ static[d]]

\* Scan: one multicast packet, on its way to the lamps that have power now.
Scan == scanning' = scanning \cup {d \in Device : open /\ alive[d]}

\* Start: seedStatics and the first scan, by the time anything reads a route.
Init ==
  /\ open = TRUE
  /\ routes = Statics
  /\ static = [d \in Device |-> Statics[d] # NoRoute]
  /\ retries = StartupRetries
  /\ window = FALSE
  /\ waiters = [a \in Addr |-> {}]
  /\ answered = {}
  /\ phase \in [Reader -> {"sweep", "capture", "write"}]
  /\ \A r \in Reader : phase[r] = "sweep" <=> r \in Sweep
  /\ pc = [r \in Reader |-> "idle"]
  /\ asked = [r \in Reader |-> NoRoute]
  /\ alive \in [Device -> BOOLEAN]
  /\ home \in [Device -> Addr]
  /\ \A d, e \in Device : alive[d] /\ alive[e] /\ home[d] = home[e] => d = e
  /\ scanning = {d \in Device : alive[d]}
  /\ found = {}
  /\ queries = {}
  /\ replies = {}
  /\ cuts = 0
  /\ wrote = [r \in Run |-> NoRoute]
  /\ heard = [r \in Run |-> FALSE]
  /\ missed = {}

\* The bounded re-scans after startup.
StartupScan ==
  /\ open
  /\ retries > 0
  /\ retries' = retries - 1
  /\ Scan
  /\ UNCHANGED <<open, routes, static, window, readers, found, queries, replies, lamps, history>>

\* ScanAndWait: the operator's re-scan, and the end of its window.
Rescan ==
  /\ ~window
  /\ window' = TRUE
  /\ Scan
  /\ UNCHANGED <<open, routes, static, retries, readers, found, queries, replies, lamps, history>>

RescanEnds ==
  /\ window
  /\ window' = FALSE
  /\ SeedStatics
  /\ UNCHANGED <<open, retries, readers, network, lamps, history>>

HandleScanReply(d, a) ==
  /\ open
  /\ <<d, a>> \in found
  /\ routes' = [routes EXCEPT ![d] = a]
  /\ static' = [static EXCEPT ![d] = FALSE]
  /\ found' \in {found, found \ {<<d, a>>}}
  /\ UNCHANGED <<open, retries, window, readers, scanning, queries, replies, lamps, history>>

Stop ==
  /\ open
  /\ open' = FALSE
  /\ UNCHANGED <<routes, static, retries, window, readers, network, lamps, history>>

-----------------------------------------------------------------------------
(* Status, from lanState and from VerifyReachable.                         *)

\* Mutant: a verification that failed falls back to the cloud.
OnwardAnyway(r, answers) ==
  CASE phase[r] = "capture" -> "write"
    [] phase[r] = "verify"  -> "ok"
    [] OTHER                -> phase[r]

\* What a reader does when its LAN read has not happened or has failed: the
\* state comes from the cloud; only a verification that failed fails the run.
Onward(r, answers) ==
  CASE phase[r] = "capture" -> "write"
    [] phase[r] = "verify"  -> IF answers THEN "ok" ELSE "failed"
    [] OTHER                -> phase[r]

Reads(r) == phase[r] \in {"sweep", "capture", "verify"}

\* lanRouteFor finds no route.  For VerifyReachable that is the cloud path.
NoRouteFound(r) ==
  /\ pc[r] = "idle"
  /\ Reads(r)
  /\ ~HasRoute(Target[r])
  /\ phase' = [phase EXCEPT ![r] = Onward(r, TRUE)]
  /\ UNCHANGED <<service, waiters, answered, pc, asked, network, lamps, history>>

RouteFound(r) ==
  /\ pc[r] = "idle"
  /\ Reads(r)
  /\ HasRoute(Target[r])
  /\ pc' = [pc EXCEPT ![r] = "found"]
  /\ asked' = [asked EXCEPT ![r] = routes[Target[r]]]
  /\ UNCHANGED <<service, waiters, answered, phase, network, lamps, history>>

Register(r) ==
  /\ pc[r] = "found"
  /\ pc' = [pc EXCEPT ![r] = "registered"]
  /\ waiters' = [waiters EXCEPT ![asked[r]] = @ \cup {r}]
  /\ UNCHANGED <<service, answered, phase, asked, network, lamps, history>>

SendQuery(r) ==
  /\ open
  /\ pc[r] = "registered"
  /\ pc' = [pc EXCEPT ![r] = "waiting"]
  /\ queries' = queries \cup {asked[r]}
  /\ UNCHANGED <<service, waiters, answered, phase, asked, scanning, found, replies, lamps, history>>

HandleStatusReply(a) ==
  /\ open
  /\ a \in replies
  /\ answered' = answered \cup waiters[a]
  /\ waiters' = [waiters EXCEPT ![a] = {}]
  /\ replies' \in {replies, replies \ {a}}
  /\ heard' = [r \in Run |-> heard[r] \/ wrote[r] = a]
  /\ UNCHANGED <<service, phase, pc, asked, scanning, found, queries, lamps, wrote, missed>>

\* The channel delivers the reply.
Answered(r) ==
  /\ pc[r] = "waiting"
  /\ r \in answered
  /\ answered' = answered \ {r}
  /\ pc' = [pc EXCEPT ![r] = "idle"]
  /\ asked' = [asked EXCEPT ![r] = NoRoute]
  /\ phase' = [phase EXCEPT ![r] = Onward(r, TRUE)]
  /\ UNCHANGED <<service, waiters, network, lamps, history>>

\* Mutant: cleanup deletes the address's entry.
GiveUpForAll(r) ==
  /\ pc[r] \in {"registered", "waiting"}
  /\ pc' = [pc EXCEPT ![r] = "silent"]
  /\ waiters' = [waiters EXCEPT ![asked[r]] = {}]
  /\ answered' = answered \ {r}
  /\ UNCHANGED <<service, phase, asked, network, lamps, history>>

\* Status gives up, with cleanup: the send failed, lanReplyTimeout passed, or
\* the caller's context ended, perhaps with a reply in the channel already.
GiveUp(r) ==
  /\ pc[r] \in {"registered", "waiting"}
  /\ pc' = [pc EXCEPT ![r] = "silent"]
  /\ waiters' = [waiters EXCEPT ![asked[r]] = @ \ {r}]
  /\ answered' = answered \ {r}
  /\ UNCHANGED <<service, phase, asked, network, lamps, history>>

\* Mutant: no re-scan.
DropRouteQuietly(r) ==
  LET d == Target[r] IN
  /\ pc[r] = "silent"
  /\ pc' = [pc EXCEPT ![r] = "idle"]
  /\ asked' = [asked EXCEPT ![r] = NoRoute]
  /\ phase' = [phase EXCEPT ![r] = Onward(r, FALSE)]
  /\ routes' = [routes EXCEPT ![d] = NoRoute]
  /\ static' = [static EXCEPT ![d] = FALSE]
  /\ missed' = missed \ {d}
  /\ UNCHANGED <<open, retries, window, waiters, answered, scanning, found, queries, replies,
                 lamps, wrote, heard>>

\* Mutant: the configured route comes back at once.
DropRouteReseeds(r) ==
  LET d == Target[r] IN
  /\ pc[r] = "silent"
  /\ pc' = [pc EXCEPT ![r] = "idle"]
  /\ asked' = [asked EXCEPT ![r] = NoRoute]
  /\ phase' = [phase EXCEPT ![r] = Onward(r, FALSE)]
  /\ routes' = [routes EXCEPT ![d] = Statics[d]]
  /\ static' = [static EXCEPT ![d] = Statics[d] # NoRoute]
  /\ IF HasRoute(d) THEN Scan /\ missed' = missed \ {d} ELSE UNCHANGED <<scanning, missed>>
  /\ UNCHANGED <<open, retries, window, waiters, answered, found, queries, replies,
                 lamps, wrote, heard>>

\* dropRoute, whatever the route is by now, and its re-scan.
DropRoute(r) ==
  LET d == Target[r] IN
  /\ pc[r] = "silent"
  /\ pc' = [pc EXCEPT ![r] = "idle"]
  /\ asked' = [asked EXCEPT ![r] = NoRoute]
  /\ phase' = [phase EXCEPT ![r] = Onward(r, FALSE)]
  /\ routes' = [routes EXCEPT ![d] = NoRoute]
  /\ static' = [static EXCEPT ![d] = FALSE]
  /\ IF HasRoute(d) THEN Scan /\ missed' = missed \ {d} ELSE UNCHANGED <<scanning, missed>>
  /\ UNCHANGED <<open, retries, window, waiters, answered, found, queries, replies,
                 lamps, wrote, heard>>

-----------------------------------------------------------------------------
(* The writes of a run.                                                    *)

\* Power, Color, Brightness: over LAN the packet left the host, no more; over the
\* cloud the write was acknowledged.  A write that fails ends the run.
Write(r) ==
  /\ phase[r] = "write"
  /\ wrote' = [wrote EXCEPT ![r] = IF HasRoute(Target[r]) THEN routes[Target[r]] ELSE @]
  /\ heard' = [heard EXCEPT ![r] = IF HasRoute(Target[r]) THEN FALSE ELSE @]
  /\ open \/ ~HasRoute(Target[r])
  /\ UNCHANGED <<service, readers, network, lamps, missed>>

WriteFails(r) ==
  /\ phase[r] = "write"
  /\ phase' = [phase EXCEPT ![r] = "failed"]
  /\ UNCHANGED <<service, waiters, answered, pc, asked, network, lamps, history>>

WritesDone(r) ==
  /\ phase[r] = "write"
  /\ phase' = [phase EXCEPT ![r] = "verify"]
  /\ UNCHANGED <<service, waiters, answered, pc, asked, network, lamps, history>>

\* The next effect for the device.
NextRun(r) ==
  /\ phase[r] \in {"ok", "failed"}
  /\ phase' \in {[phase EXCEPT ![r] = "capture"], [phase EXCEPT ![r] = "write"]}
  /\ wrote' = [wrote EXCEPT ![r] = NoRoute]
  /\ heard' = [heard EXCEPT ![r] = FALSE]
  /\ UNCHANGED <<service, waiters, answered, pc, asked, network, lamps, missed>>

-----------------------------------------------------------------------------
(* Lamps and network.                                                      *)

PowerCut(d) ==
  /\ alive[d]
  /\ cuts < MaxCuts
  /\ cuts' = cuts + 1
  /\ alive' = [alive EXCEPT ![d] = FALSE]
  /\ scanning' = scanning \ {d}
  /\ UNCHANGED <<service, readers, found, queries, replies, home, history>>

\* The lamp rejoins, at any address no other lamp has.
PowerBack(d, a) ==
  /\ ~alive[d]
  /\ \A e \in Device : alive[e] => home[e] # a
  /\ alive' = [alive EXCEPT ![d] = TRUE]
  /\ home' = [home EXCEPT ![d] = a]
  /\ UNCHANGED <<service, readers, network, cuts, history>>

AnswersScan(d) ==
  /\ d \in scanning
  /\ alive[d]
  /\ scanning' = scanning \ {d}
  /\ found' = found \cup {<<d, home[d]>>}
  /\ UNCHANGED <<service, readers, queries, replies, lamps, history>>

\* The scan does not get to the lamp (a busy Wi-Fi, a host that cannot multicast),
\* or the reply does not get back: nothing is repeated.
LoseScan(d) ==
  /\ d \in scanning
  /\ scanning' = scanning \ {d}
  /\ missed' = missed \cup {d}
  /\ UNCHANGED <<service, readers, found, queries, replies, lamps, wrote, heard>>

LoseScanReply(d, a) ==
  /\ <<d, a>> \in found
  /\ found' = found \ {<<d, a>>}
  /\ missed' = missed \cup {d}
  /\ UNCHANGED <<service, readers, scanning, queries, replies, lamps, wrote, heard>>

AnswersQuery(d) ==
  /\ alive[d]
  /\ home[d] \in queries
  /\ replies' = replies \cup {home[d]}
  /\ queries' \in {queries, queries \ {home[d]}}
  /\ UNCHANGED <<service, readers, scanning, found, lamps, history>>

ReaderStep(r) ==
  \/ NoRouteFound(r)
  \/ RouteFound(r)
  \/ Register(r)
  \/ SendQuery(r)
  \/ Answered(r)
  \/ GiveUp(r)
  \/ DropRoute(r)

RunStep(r) == Write(r) \/ WriteFails(r) \/ WritesDone(r) \/ NextRun(r)

Next ==
  \/ StartupScan
  \/ Rescan
  \/ RescanEnds
  \/ Stop
  \/ \E d \in Device, a \in Addr : HandleScanReply(d, a) \/ LoseScanReply(d, a) \/ PowerBack(d, a)
  \/ \E a \in Addr : HandleStatusReply(a)
  \/ \E r \in Reader : ReaderStep(r)
  \/ \E r \in Run : RunStep(r)
  \/ \E d \in Device : PowerCut(d) \/ AnswersScan(d) \/ LoseScan(d) \/ AnswersQuery(d)

Spec == Init /\ [][Next]_vars

\* A datagram of a scan arrives or is lost, and a lamp answers one that arrives.
\* Nothing is assumed of the readers or of the operator.
FairSpec ==
  /\ Spec
  /\ \A d \in Device : WF_vars(AnswersScan(d) \/ LoseScan(d))
  /\ \A d \in Device, a \in Addr : WF_vars(HandleScanReply(d, a) \/ LoseScanReply(d, a))

-----------------------------------------------------------------------------
(* Properties.                                                             *)

\* A reader is in the table of waiters exactly while it waits for a reply that has
\* not come, at the address it asked: a reply racing a timeout or another reader's
\* cleanup neither loses a waiter, which would then call a good route stale, nor
\* leaves one behind for ever.
WaitersAreWaiting ==
  \A r \in Reader, a \in Addr :
    r \in waiters[a] <=> /\ pc[r] \in {"registered", "waiting"}
                         /\ asked[r] = a
                         /\ r \notin answered

\* A configured route that stopped answering stays dropped: only a re-scan by the
\* operator arms it again, never the self-healing scan, and a configured route
\* never replaces a discovered one.
StaticsStayDropped ==
  [][\A d \in Device : static'[d] /\ ~static[d] => window /\ ~HasRoute(d)]_vars

\* A read-back that failed never confirms a run: an effect whose LAN write went
\* unanswered is ok only when verification found the device without a route, or
\* asked it at another address than the one written to.
UnansweredRunsFail ==
  [][\A r \in Run :
       /\ phase[r] = "verify" /\ phase'[r] = "ok"
       /\ wrote[r] # NoRoute /\ ~heard[r]
       => ~HasRoute(Target[r]) \/ asked[r] # wrote[r]]_vars

\* A dropped route "can come back on its own" (dropRoute): while a lamp keeps its
\* power its route returns after every drop, however many read-backs time out or are
\* cancelled, but for one cause, a datagram of the scan that was lost since.  Every
\* drop asks anew, whatever was lost before it.
RouteReturns ==
  \A d \in Device :
    [](HasRoute(d) /\ [](alive[d] /\ open) => []<>(HasRoute(d) \/ d \in missed))

-----------------------------------------------------------------------------
(* What a comment says and the code does not keep.                         *)

\* VerifyReachable: no cloud fallback, "because falling back would let us report
\* 'effect ok' for writes that vanished": an effect that wrote over LAN is ok only
\* if the address it wrote to has answered since.
OkMeansAnswered ==
  \A r \in Run : phase[r] = "ok" /\ wrote[r] # NoRoute => heard[r]
=============================================================================
