--------------------------- MODULE LanRoutesProofs ---------------------------
(***************************************************************************)
(* Theorems about the LAN service for every set of devices, addresses and   *)
(* readers, every configured route and any behaviour of the network.        *)
(***************************************************************************)
EXTENDS LanRoutes, TLAPS

-----------------------------------------------------------------------------
(* Type correctness. *)

\* A reader remembers an address from the moment it has read a route to the end
\* of its read-back.
AskedInv == \A r \in Reader : pc[r] # "idle" => asked[r] \in Addr

TypeInv == TypeOK /\ AskedInv

LEMMA OnwardType ==
  ASSUME TypeOK, NEW r \in Reader, NEW b \in BOOLEAN
  PROVE  Onward(r, b) \in {"sweep", "capture", "write", "verify", "ok", "failed"}
  BY DEF TypeOK, Onward

LEMMA InitType == Init => TypeInv
<1> SUFFICES ASSUME Init PROVE TypeInv
  OBVIOUS
<1>1. /\ routes \in [Device -> Addr \cup {NoRoute}]
      /\ retries \in 0 .. StartupRetries
      /\ cuts \in 0 .. MaxCuts
  BY LanAssumption DEF Init
<1>2. phase \in [Reader -> {"sweep", "capture", "write", "verify", "ok", "failed"}]
  BY DEF Init
<1>3. TypeOK
  BY <1>1, <1>2 DEF Init, TypeOK
<1> QED BY <1>3 DEF TypeInv, AskedInv, Init

LEMMA SeedType ==
  ASSUME TypeOK, SeedStatics
  PROVE  routes' \in [Device -> Addr \cup {NoRoute}] /\ static' \in [Device -> BOOLEAN]
  BY LanAssumption DEF SeedStatics, TypeOK

LEMMA ScanType ==
  ASSUME TypeOK, Scan
  PROVE  scanning' \subseteq Device
  BY DEF Scan, TypeOK

\* The routes change, the readers do not.
LEMMA ServiceType ==
  ASSUME TypeInv, StartupScan \/ Rescan \/ RescanEnds \/ Stop
  PROVE  TypeInv'
<1>1. CASE StartupScan
  <2>1. retries' \in 0 .. StartupRetries
    BY <1>1, LanAssumption DEF StartupScan, TypeInv, TypeOK
  <2> QED BY <1>1, <2>1, ScanType
       DEF StartupScan, TypeInv, TypeOK, AskedInv, readers, lamps, history
<1>2. CASE Rescan
  BY <1>2, ScanType DEF Rescan, TypeInv, TypeOK, AskedInv, readers, lamps, history
<1>3. CASE RescanEnds
  BY <1>3, SeedType DEF RescanEnds, TypeInv, TypeOK, AskedInv, readers, network, lamps, history
<1>4. CASE Stop
  BY <1>4 DEF Stop, TypeInv, TypeOK, AskedInv, readers, network, lamps, history
<1> QED BY <1>1, <1>2, <1>3, <1>4

LEMMA ReplyType ==
  ASSUME TypeInv,
         \/ \E d \in Device, a \in Addr : HandleScanReply(d, a) \/ LoseScanReply(d, a)
         \/ \E a \in Addr : HandleStatusReply(a)
  PROVE  TypeInv'
<1>1. ASSUME NEW d \in Device, NEW a \in Addr, HandleScanReply(d, a) \/ LoseScanReply(d, a)
      PROVE  TypeInv'
  BY <1>1 DEF HandleScanReply, LoseScanReply, TypeInv, TypeOK, AskedInv, service, readers,
              lamps, history
<1>2. ASSUME NEW a \in Addr, HandleStatusReply(a)
      PROVE  TypeInv'
  BY <1>2 DEF HandleStatusReply, TypeInv, TypeOK, AskedInv, service, lamps
<1> QED BY <1>1, <1>2

LEMMA ReaderType ==
  ASSUME TypeInv, NEW r \in Reader, ReaderStep(r)
  PROVE  TypeInv'
<1>0. Target[r] \in Device
  BY LanAssumption
<1>1. CASE NoRouteFound(r)
  BY <1>1, OnwardType
     DEF NoRouteFound, TypeInv, TypeOK, AskedInv, service, network, lamps, history
<1>2. CASE RouteFound(r)
  BY <1>0, <1>2 DEF RouteFound, HasRoute, TypeInv, TypeOK, AskedInv, service, network, lamps, history
<1>3. CASE Register(r)
  BY <1>3 DEF Register, TypeInv, TypeOK, AskedInv, service, network, lamps, history
<1>4. CASE SendQuery(r)
  BY <1>4 DEF SendQuery, TypeInv, TypeOK, AskedInv, service, lamps, history
<1>5. CASE Answered(r)
  BY <1>5, OnwardType
     DEF Answered, TypeInv, TypeOK, AskedInv, service, network, lamps, history
<1>6. CASE GiveUp(r)
  BY <1>6 DEF GiveUp, TypeInv, TypeOK, AskedInv, service, network, lamps, history
<1>7. CASE DropRoute(r)
  <2>1. scanning' \subseteq Device
    BY <1>7, ScanType DEF DropRoute, TypeInv, TypeOK
  <2> QED BY <1>7, <2>1, OnwardType DEF DropRoute, TypeInv, TypeOK, AskedInv, lamps, history
<1> QED BY <1>1, <1>2, <1>3, <1>4, <1>5, <1>6, <1>7 DEF ReaderStep

LEMMA RunType ==
  ASSUME TypeInv, NEW r \in Run, RunStep(r)
  PROVE  TypeInv'
<1>0. r \in Reader /\ Target[r] \in Device
  BY LanAssumption DEF Reader
<1>1. CASE Write(r)
  BY <1>0, <1>1 DEF Write, TypeInv, TypeOK, AskedInv, service, readers, network, lamps
<1>2. CASE WriteFails(r) \/ WritesDone(r)
  BY <1>0, <1>2
     DEF WriteFails, WritesDone, TypeInv, TypeOK, AskedInv, service, network, lamps, history
<1>3. CASE NextRun(r)
  BY <1>0, <1>3 DEF NextRun, TypeInv, TypeOK, AskedInv, service, network, lamps
<1> QED BY <1>1, <1>2, <1>3 DEF RunStep

LEMMA LampType ==
  ASSUME TypeInv, NEW d \in Device,
         \/ PowerCut(d) \/ AnswersScan(d) \/ LoseScan(d) \/ AnswersQuery(d)
         \/ \E a \in Addr : PowerBack(d, a)
  PROVE  TypeInv'
<1>1. CASE PowerCut(d)
  <2>1. cuts' \in 0 .. MaxCuts
    BY <1>1, LanAssumption DEF PowerCut, TypeInv, TypeOK
  <2> QED BY <1>1, <2>1 DEF PowerCut, TypeInv, TypeOK, AskedInv, service, readers, history
<1>2. CASE AnswersScan(d) \/ LoseScan(d)
  BY <1>2 DEF AnswersScan, LoseScan, TypeInv, TypeOK, AskedInv, service, readers, lamps, history
<1>3. CASE AnswersQuery(d)
  BY <1>3 DEF AnswersQuery, TypeInv, TypeOK, AskedInv, service, readers, lamps, history
<1>4. ASSUME NEW a \in Addr, PowerBack(d, a)
      PROVE  TypeInv'
  BY <1>4 DEF PowerBack, TypeInv, TypeOK, AskedInv, service, readers, network, history
<1> QED BY <1>1, <1>2, <1>3, <1>4

LEMMA StepType == TypeInv /\ [Next]_vars => TypeInv'
<1> SUFFICES ASSUME TypeInv, [Next]_vars PROVE TypeInv'
  OBVIOUS
<1>1. CASE UNCHANGED vars
  BY <1>1 DEF vars, service, readers, network, lamps, history, TypeInv, TypeOK, AskedInv
<1>2. CASE Next
  BY <1>2, ServiceType, ReplyType, ReaderType, RunType, LampType DEF Next
<1> QED BY <1>1, <1>2

\* Every variable of the LAN service keeps its type, however often routes are found
\* and dropped; above all a query only ever goes to an address.
THEOREM LanTypeCorrect == Spec => []TypeOK
<1>1. TypeInv => TypeOK
  BY DEF TypeInv
<1> QED BY <1>1, InitType, StepType, PTL DEF Spec

-----------------------------------------------------------------------------
(* The table of waiters. *)

\* A reply is in the channel of a waiting reader only.
WaitInv ==
  /\ WaitersAreWaiting
  /\ \A r \in Reader : r \in answered => pc[r] \in {"registered", "waiting"}

LEMMA InitWait == Init => WaitInv
  BY DEF Init, WaitInv, WaitersAreWaiting

\* Steps that neither move a reader inside Status nor touch the table.
LEMMA OthersWait ==
  ASSUME WaitInv, UNCHANGED <<waiters, answered, pc, asked>>
  PROVE  WaitInv'
  BY DEF WaitInv, WaitersAreWaiting

LEMMA ReaderWait ==
  ASSUME TypeInv, WaitInv, NEW r \in Reader, ReaderStep(r)
  PROVE  WaitInv'
<1>1. CASE NoRouteFound(r)
  BY <1>1, OthersWait DEF NoRouteFound
<1>2. CASE RouteFound(r)
  BY <1>2 DEF RouteFound, WaitInv, WaitersAreWaiting, TypeInv, TypeOK
<1>3. CASE Register(r)
  BY <1>3 DEF Register, WaitInv, WaitersAreWaiting, TypeInv, TypeOK, AskedInv
<1>4. CASE SendQuery(r)
  BY <1>4 DEF SendQuery, WaitInv, WaitersAreWaiting, TypeInv, TypeOK
<1>5. CASE Answered(r)
  BY <1>5 DEF Answered, WaitInv, WaitersAreWaiting, TypeInv, TypeOK
<1>6. CASE GiveUp(r)
  BY <1>6 DEF GiveUp, WaitInv, WaitersAreWaiting, TypeInv, TypeOK, AskedInv
<1>7. CASE DropRoute(r)
  BY <1>7 DEF DropRoute, WaitInv, WaitersAreWaiting, TypeInv, TypeOK
<1> QED BY <1>1, <1>2, <1>3, <1>4, <1>5, <1>6, <1>7 DEF ReaderStep

LEMMA StepWait == TypeInv /\ WaitInv /\ [Next]_vars => WaitInv'
<1> SUFFICES ASSUME TypeInv, WaitInv, [Next]_vars PROVE WaitInv'
  OBVIOUS
<1>1. CASE StartupScan \/ Rescan \/ RescanEnds \/ Stop \/ UNCHANGED vars
  BY <1>1, OthersWait DEF StartupScan, Rescan, RescanEnds, Stop, vars, readers
<1>2. ASSUME NEW d \in Device, NEW a \in Addr,
             HandleScanReply(d, a) \/ LoseScanReply(d, a) \/ PowerBack(d, a)
      PROVE  WaitInv'
  BY <1>2, OthersWait DEF HandleScanReply, LoseScanReply, PowerBack, readers
<1>3. ASSUME NEW a \in Addr, HandleStatusReply(a)
      PROVE  WaitInv'
  BY <1>3 DEF HandleStatusReply, WaitInv, WaitersAreWaiting, TypeInv, TypeOK
<1>4. ASSUME NEW r \in Run, RunStep(r)
      PROVE  WaitInv'
  BY <1>4, OthersWait DEF RunStep, Write, WriteFails, WritesDone, NextRun, readers
<1>5. ASSUME NEW d \in Device, PowerCut(d) \/ AnswersScan(d) \/ LoseScan(d) \/ AnswersQuery(d)
      PROVE  WaitInv'
  BY <1>5, OthersWait DEF PowerCut, AnswersScan, LoseScan, AnswersQuery, readers
<1> QED BY <1>1, <1>2, <1>3, <1>4, <1>5, ReaderWait DEF Next

\* No reply, time-out or clean-up, in whatever order, loses a waiter or leaves one
\* behind.
THEOREM NoWaiterIsLost == Spec => []WaitersAreWaiting
<1>1. TypeInv /\ WaitInv /\ [Next]_vars => (TypeInv /\ WaitInv)'
  BY StepType, StepWait
<1>2. Init => TypeInv /\ WaitInv
  BY InitType, InitWait
<1>3. WaitInv => WaitersAreWaiting
  BY DEF WaitInv
<1> QED BY <1>1, <1>2, <1>3, PTL DEF Spec

-----------------------------------------------------------------------------
(* Configured routes. *)

StaticStep == \A d \in Device : static'[d] /\ ~static[d] => window /\ ~HasRoute(d)

LEMMA StepStatic == TypeInv /\ [Next]_vars => StaticStep
<1> SUFFICES ASSUME TypeInv, [Next]_vars, NEW d \in Device, static'[d], ~static[d]
             PROVE  window /\ ~HasRoute(d)
  BY DEF StaticStep
<1>1. CASE RescanEnds
  BY <1>1 DEF RescanEnds, SeedStatics
<1>2. CASE StartupScan \/ Rescan \/ Stop \/ UNCHANGED vars
  BY <1>2 DEF StartupScan, Rescan, Stop, vars, service
<1>3. ASSUME NEW e \in Device, NEW a \in Addr,
             HandleScanReply(e, a) \/ LoseScanReply(e, a) \/ PowerBack(e, a)
      PROVE  FALSE
  BY <1>3 DEF HandleScanReply, LoseScanReply, PowerBack, service, TypeInv, TypeOK
<1>4. ASSUME NEW a \in Addr, HandleStatusReply(a)
      PROVE  FALSE
  BY <1>4 DEF HandleStatusReply, service
<1>5. ASSUME NEW r \in Reader, ReaderStep(r)
      PROVE  FALSE
  BY <1>5 DEF ReaderStep, NoRouteFound, RouteFound, Register, SendQuery, Answered, GiveUp,
              DropRoute, service, TypeInv, TypeOK
<1>6. ASSUME NEW r \in Run, RunStep(r)
      PROVE  FALSE
  BY <1>6 DEF RunStep, Write, WriteFails, WritesDone, NextRun, service
<1>7. ASSUME NEW e \in Device, PowerCut(e) \/ AnswersScan(e) \/ LoseScan(e) \/ AnswersQuery(e)
      PROVE  FALSE
  BY <1>7 DEF PowerCut, AnswersScan, LoseScan, AnswersQuery, service
<1> QED BY <1>1, <1>2, <1>3, <1>4, <1>5, <1>6, <1>7 DEF Next

\* Only the operator's re-scan arms a configured route, and only where there is no
\* route.
THEOREM ConfiguredRoutesStayDropped == Spec => StaticsStayDropped
<1>1. TypeInv /\ [Next]_vars => [StaticStep]_vars
  BY StepStatic
<1>2. Spec => []TypeInv
  BY InitType, StepType, PTL DEF Spec
<1>3. Spec => [][StaticStep]_vars
  BY <1>1, <1>2, PTL DEF Spec
<1> QED BY <1>3 DEF StaticsStayDropped, StaticStep

-----------------------------------------------------------------------------
(* Read-backs. *)

\* A reader inside Status is reading.  A run that is being verified has a reply
\* from the address it wrote to only if that address has answered since.
HeardInv ==
  /\ \A r \in Reader : pc[r] # "idle" => Reads(r)
  /\ \A r \in Run :
       r \in answered /\ phase[r] = "verify" /\ wrote[r] # NoRoute /\ asked[r] = wrote[r]
         => heard[r]

LEMMA InitHeard == Init => HeardInv
  BY DEF Init, HeardInv

\* Steps outside the readers, and Write, which no reader inside Status takes.
LEMMA OthersHeard ==
  ASSUME HeardInv, UNCHANGED <<answered, phase, pc, asked, wrote, heard>>
  PROVE  HeardInv'
  BY DEF HeardInv, Reads

LEMMA ReaderHeard ==
  ASSUME TypeInv, WaitInv, HeardInv, NEW r \in Reader, ReaderStep(r)
  PROVE  HeardInv'
<1>0. /\ \A q \in Reader : q \in answered => pc[q] \in {"registered", "waiting"}
      /\ Run \subseteq Reader
  BY DEF WaitInv, Reader
<1>1. CASE NoRouteFound(r)
  BY <1>0, <1>1 DEF NoRouteFound, HeardInv, Reads, history, TypeInv, TypeOK
<1>2. CASE RouteFound(r)
  BY <1>0, <1>2 DEF RouteFound, HeardInv, Reads, history, TypeInv, TypeOK
<1>3. CASE Register(r)
  BY <1>0, <1>3 DEF Register, HeardInv, Reads, history, TypeInv, TypeOK
<1>4. CASE SendQuery(r)
  BY <1>0, <1>4 DEF SendQuery, HeardInv, Reads, history, TypeInv, TypeOK
<1>5. CASE Answered(r)
  BY <1>0, <1>5 DEF Answered, HeardInv, Reads, history, TypeInv, TypeOK
<1>6. CASE GiveUp(r)
  BY <1>0, <1>6 DEF GiveUp, HeardInv, Reads, history, TypeInv, TypeOK
<1>7. CASE DropRoute(r)
  BY <1>0, <1>7 DEF DropRoute, HeardInv, Reads, history, TypeInv, TypeOK
<1> QED BY <1>1, <1>2, <1>3, <1>4, <1>5, <1>6, <1>7 DEF ReaderStep

LEMMA RunHeard ==
  ASSUME TypeInv, WaitInv, HeardInv, NEW r \in Run, RunStep(r)
  PROVE  HeardInv'
<1>1. r \in Reader /\ Run \subseteq Reader
  BY DEF Reader
<1>2. pc[r] = "idle" /\ r \notin answered
  BY <1>1 DEF RunStep, Write, WriteFails, WritesDone, NextRun, HeardInv, Reads, WaitInv
<1>3. UNCHANGED <<answered, pc, asked>>
  BY DEF RunStep, Write, WriteFails, WritesDone, NextRun, readers
<1>4. \A q \in Reader : q # r => phase'[q] = phase[q]
  BY <1>1 DEF RunStep, Write, WriteFails, WritesDone, NextRun, readers, TypeInv, TypeOK
<1>5. \A q \in Run : q # r => wrote'[q] = wrote[q] /\ heard'[q] = heard[q]
  BY DEF RunStep, Write, WriteFails, WritesDone, NextRun, history, TypeInv, TypeOK
<1> QED BY <1>1, <1>2, <1>3, <1>4, <1>5 DEF HeardInv, Reads

LEMMA StepHeard == TypeInv /\ WaitInv /\ HeardInv /\ [Next]_vars => HeardInv'
<1> SUFFICES ASSUME TypeInv, WaitInv, HeardInv, [Next]_vars PROVE HeardInv'
  OBVIOUS
<1>1. CASE StartupScan \/ Rescan \/ RescanEnds \/ Stop \/ UNCHANGED vars
  BY <1>1, OthersHeard DEF StartupScan, Rescan, RescanEnds, Stop, vars, readers, history
<1>2. ASSUME NEW d \in Device, NEW a \in Addr,
             HandleScanReply(d, a) \/ LoseScanReply(d, a) \/ PowerBack(d, a)
      PROVE  HeardInv'
  BY <1>2, OthersHeard DEF HandleScanReply, LoseScanReply, PowerBack, readers, history
<1>3. ASSUME NEW a \in Addr, HandleStatusReply(a)
      PROVE  HeardInv'
  <2>1. \A r \in Run : r \in waiters[a] => asked[r] = a
    BY DEF WaitInv, WaitersAreWaiting, Reader
  <2>2. /\ answered' = answered \cup waiters[a]
        /\ UNCHANGED <<phase, pc, asked, wrote>>
        /\ \A r \in Run : heard'[r] = (heard[r] \/ wrote[r] = a)
    BY <1>3 DEF HandleStatusReply
  <2> QED BY <2>1, <2>2 DEF HeardInv, Reads
<1>4. ASSUME NEW d \in Device, PowerCut(d) \/ AnswersScan(d) \/ LoseScan(d) \/ AnswersQuery(d)
      PROVE  HeardInv'
  BY <1>4, OthersHeard DEF PowerCut, AnswersScan, LoseScan, AnswersQuery, readers, history
<1> QED BY <1>1, <1>2, <1>3, <1>4, ReaderHeard, RunHeard DEF Next

Unanswered(r) == phase[r] = "verify" /\ wrote[r] # NoRoute /\ ~heard[r]

\* Only a read-back, or its absence, ends a verification.
LEMMA StepUnanswered ==
  ASSUME TypeInv, HeardInv, [Next]_vars, NEW r \in Run, Unanswered(r), phase'[r] = "ok"
  PROVE  ~HasRoute(Target[r]) \/ asked[r] # wrote[r]
<1>0. r \in Reader /\ phase[r] = "verify"
  BY DEF Reader, Unanswered
<1>1. CASE StartupScan \/ Rescan \/ RescanEnds \/ Stop \/ UNCHANGED vars
  BY <1>0, <1>1 DEF StartupScan, Rescan, RescanEnds, Stop, vars, readers
<1>2. ASSUME NEW d \in Device, NEW a \in Addr,
             HandleScanReply(d, a) \/ LoseScanReply(d, a) \/ PowerBack(d, a)
      PROVE  FALSE
  BY <1>0, <1>2 DEF HandleScanReply, LoseScanReply, PowerBack, readers
<1>3. ASSUME NEW a \in Addr, HandleStatusReply(a)
      PROVE  FALSE
  BY <1>0, <1>3 DEF HandleStatusReply
<1>4. ASSUME NEW d \in Device, PowerCut(d) \/ AnswersScan(d) \/ LoseScan(d) \/ AnswersQuery(d)
      PROVE  FALSE
  BY <1>0, <1>4 DEF PowerCut, AnswersScan, LoseScan, AnswersQuery, readers
<1>5. ASSUME NEW q \in Run, RunStep(q)
      PROVE  FALSE
  BY <1>0, <1>5 DEF RunStep, Write, WriteFails, WritesDone, NextRun, readers, Reader,
                    TypeInv, TypeOK
<1>6. ASSUME NEW q \in Reader, ReaderStep(q)
      PROVE  ~HasRoute(Target[r]) \/ asked[r] # wrote[r]
  <2>1. CASE q # r
    BY <1>0, <1>6, <2>1 DEF ReaderStep, NoRouteFound, RouteFound, Register, SendQuery, Answered,
                            GiveUp, DropRoute, TypeInv, TypeOK
  <2>2. CASE q = r /\ NoRouteFound(r)
    BY <2>2 DEF NoRouteFound
  <2>3. CASE q = r /\ Answered(r)
    BY <1>0, <2>3 DEF Answered, HeardInv, Unanswered
  <2>4. CASE q = r /\ DropRoute(r)
    BY <1>0, <2>4 DEF DropRoute, Onward, TypeInv, TypeOK
  <2>5. CASE q = r /\ (RouteFound(r) \/ Register(r) \/ SendQuery(r) \/ GiveUp(r))
    BY <1>0, <2>5 DEF RouteFound, Register, SendQuery, GiveUp
  <2> QED BY <1>6, <2>1, <2>2, <2>3, <2>4, <2>5 DEF ReaderStep
<1> QED BY <1>1, <1>2, <1>3, <1>4, <1>5, <1>6 DEF Next

\* A read-back that failed never confirms an effect, for any number of readers,
\* devices and addresses (VerifyReachable, transport.go 153).
THEOREM UnansweredRunsAreReported == Spec => UnansweredRunsFail
<1>1. TypeInv /\ HeardInv /\ [Next]_vars =>
        [\A r \in Run :
           /\ phase[r] = "verify" /\ phase'[r] = "ok"
           /\ wrote[r] # NoRoute /\ ~heard[r]
           => ~HasRoute(Target[r]) \/ asked[r] # wrote[r]]_vars
  BY StepUnanswered DEF Unanswered
<1>2. Init => TypeInv /\ WaitInv /\ HeardInv
  BY InitType, InitWait, InitHeard
<1>3. TypeInv /\ WaitInv /\ HeardInv /\ [Next]_vars => (TypeInv /\ WaitInv /\ HeardInv)'
  BY StepType, StepWait, StepHeard
<1> QED BY <1>1, <1>2, <1>3, PTL DEF Spec, UnansweredRunsFail
=============================================================================
