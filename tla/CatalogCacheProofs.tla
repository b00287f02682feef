-------------------------- MODULE CatalogCacheProofs --------------------------
(***************************************************************************)
(* Theorems about the catalogs for any number of handlers and lamps, and    *)
(* any bound on answers and restarts.                                       *)
(***************************************************************************)
EXTENDS CatalogCache, TLAPS

-----------------------------------------------------------------------------
(* Constants, entries and bodies. *)

LEMMA TimeFacts == 0 \in Time /\ Time \subseteq Nat
  BY CatalogAssumption DEF Time

LEMMA EntryFacts ==
  /\ NoEntry \notin Entry
  /\ NoEntry.answer = 0 /\ NoEntry.at = 0 /\ NoEntry.part = None
  /\ NoBody \in Body
  /\ Missing \notin Body /\ Blank \notin Body /\ Torn \notin Body
<1>1. NoEntry.part = None
  BY DEF NoEntry
<1>2. NoEntry \notin Entry
  BY <1>1, CatalogAssumption DEF Entry
<1> QED BY <1>1, <1>2, CatalogAssumption DEF NoEntry, NoBody, Body

LEMMA Parts ==
  /\ Account \in Part /\ Lamp \subseteq Part
  /\ \A p \in Part : KindOf(p) \in Kind /\ p \in PartsOf(KindOf(p))
  /\ \A p \in Part : p # Account => p \in Lamp
  /\ \A k \in Kind : PartsOf(k) \subseteq Part
  /\ Boot \in Client /\ Handler \subseteq Client
  BY CatalogAssumption DEF Part, KindOf, PartsOf, Kind, Client

\* Without an entry there is nothing to prime.
LEMMA PrimedType ==
  ASSUME TypeOK, NEW p \in Part
  PROVE  Primed(p) \in Entry \cup {NoEntry} /\ Primed(p).answer \in Time
<1>1. Primed(p) \in Entry \cup {NoEntry}
  BY Parts DEF Primed, Usable, TypeOK, Body
<1> QED BY <1>1, EntryFacts, TimeFacts DEF Entry

-----------------------------------------------------------------------------
(* Types. *)

Steps == {"idle", "ask", "diy", "only diy", "answered", "stamped", "snapshot", "open",
          "write", "rename", "load", "fallback", "gaps", "warm", "done"}

LEMMA FinishType ==
  ASSUME TypeOK, NEW c \in Client, NEW ok \in BOOLEAN, Finish(c, ok)
  PROVE  /\ pc' \in [Client -> Steps]
         /\ op' = op /\ part' = part /\ todo' = todo
         /\ got' \in [Client -> Entry \cup {NoEntry}]
         /\ body' \in [Client -> Body]
  BY EntryFacts DEF Finish, TypeOK, Steps

LEMMA InitType == Init => TypeOK
  BY EntryFacts, TimeFacts, Parts, CatalogAssumption DEF Init, TypeOK, Body

\* A call begins, or goes on, at the cloud.
LEMMA BeginType ==
  ASSUME TypeOK, NEW c \in Client, NEW o \in {"list", "refresh", "scenes"}, NEW p \in Part,
         Begin(c, o, p)
  PROVE  /\ pc' \in [Client -> Steps]
         /\ op' \in [Client -> {"list", "refresh", "scenes"}]
         /\ part' \in [Client -> Part]
  BY DEF Begin, TypeOK, Steps

LEMMA RequestType ==
  ASSUME TypeOK, NEW c \in Handler,
         List(c) \/ Refresh(c) \/ \E l \in Lamp, r \in BOOLEAN : ListScenes(c, l, r)
  PROVE  TypeOK'
<1>1. PICK o \in {"list", "refresh", "scenes"}, p \in Part :
        /\ Begin(c, o, p)
        /\ UNCHANGED <<now, catalog, disk, got, body, fd, todo, restarts, history>>
  BY Parts DEF List, Refresh, ListScenes
<1>2. c \in Client
  BY Parts
<1>3. /\ pc' \in [Client -> Steps]
      /\ op' \in [Client -> {"list", "refresh", "scenes"}]
      /\ part' \in [Client -> Part]
  BY <1>1, <1>2, BeginType
<1> QED BY <1>1, <1>3 DEF TypeOK, disk, history, Steps

LEMMA AnswerType ==
  ASSUME TypeOK, NEW c \in Client, Answer(c)
  PROVE  TypeOK'
<1>1. now' \in Time
  <2>1. now < MaxAnswers /\ now' = now + 1
    BY DEF Answer
  <2>2. now \in 0 .. MaxAnswers
    BY DEF TypeOK, Time
  <2> QED BY <2>1, <2>2, CatalogAssumption DEF Time
<1>2. PICK next \in {"answered", "diy", "only diy"}, empty \in BOOLEAN :
        /\ pc' = [pc EXCEPT ![c] = next]
        /\ got' = [got EXCEPT ![c] = [part |-> part[c], answer |-> now', at |-> 0,
                                      empty |-> empty]]
  BY DEF Answer
<1>3. [part |-> part[c], answer |-> now', at |-> 0, empty |-> empty] \in Entry
  BY <1>1, TimeFacts DEF TypeOK, Entry
<1>4. got' \in [Client -> Entry \cup {NoEntry}] /\ pc' \in [Client -> Steps]
  BY <1>2, <1>3 DEF TypeOK, Steps
<1>5. UNCHANGED <<catalog, disk, op, part, body, fd, todo, restarts, history>>
  BY DEF Answer
<1> QED BY <1>1, <1>4, <1>5 DEF TypeOK, disk, history, Steps

LEMMA CloudType ==
  ASSUME TypeOK, NEW c \in Client, Diy(c) \/ NoDiy(c) \/ NoAnswer(c)
  PROVE  TypeOK'
<1>1. CASE Finish(c, FALSE) /\ UNCHANGED <<now, catalog, disk, fd, restarts, history>>
  BY <1>1, FinishType DEF TypeOK, disk, history, Steps
<1>2. CASE ~Finish(c, FALSE)
  BY <1>2 DEF Diy, NoDiy, NoAnswer, TypeOK, disk, history
<1>3. CASE Diy(c)
  BY <1>3 DEF Diy, TypeOK, disk, history
<1>4. Finish(c, FALSE) /\ ~Diy(c) => UNCHANGED <<now, catalog, disk, fd, restarts, history>>
  BY DEF NoDiy, NoAnswer
<1> QED BY <1>1, <1>2, <1>3, <1>4

LEMMA StampType ==
  ASSUME TypeOK, NEW c \in Client, pc[c] = "answered" => got[c] \in Entry, Stamp(c)
  PROVE  TypeOK'
<1>1. [got[c] EXCEPT !.at = now] \in Entry
  BY DEF Stamp, TypeOK, Entry
<1> QED BY <1>1 DEF Stamp, TypeOK, disk, history

\* A save that is over, for whatever reason: the files keep their types.
LEMMA PutType ==
  ASSUME TypeOK, NEW c \in Client, NEW text \in Body \cup {Torn}, Put(c, text)
  PROVE  /\ file' \in [Kind -> Body \cup {Missing, Blank, Torn}]
         /\ tmp' \in [Kind -> Body \cup {Missing, Blank, Torn}]
  BY DEF Put, FileKind, TypeOK

LEMMA KindType ==
  ASSUME TypeOK, NEW c \in Client
  PROVE  FileKind(c) \in Kind
  BY Parts DEF FileKind, TypeOK

LEMMA CrossType ==
  ASSUME TypeOK, NEW k \in Kind, Cross(k)
  PROVE  crossed' \subseteq Kind
  BY DEF Cross, TypeOK

LEMMA StoreDevicesType ==
  ASSUME TypeOK, NEW c \in Client, pc[c] = "stamped" => got[c] \in Entry, StoreDevices(c)
  PROVE  TypeOK'
<1>1. got[c] \in Entry /\ "devices" \in Kind
  BY DEF StoreDevices, Kind
<1>2. catalog' \in Body /\ fetched' \subseteq Entry
  BY <1>1, Parts DEF StoreDevices, TypeOK, Body
<1>3. crossed' \subseteq Kind /\ unsaved' \subseteq Kind
  BY <1>1, CrossType DEF StoreDevices, TypeOK
<1>4. UNCHANGED <<now, disk, fd, restarts, saved, overlapped, floor>>
  BY DEF StoreDevices
<1>5. /\ pc' \in [Client -> Steps] /\ op' = op /\ part' = part /\ todo' = todo
      /\ got' \in [Client -> Entry \cup {NoEntry}] /\ body' \in [Client -> Body]
  <2>1. CASE KeptOut(got[c])
    BY <2>1, FinishType DEF StoreDevices
  <2>2. CASE ~KeptOut(got[c])
    <3>1. [body[c] EXCEPT ![Account] = got[c]] \in Body
      BY <1>1, Parts DEF TypeOK, Body
    <3> QED BY <2>2, <3>1 DEF StoreDevices, TypeOK, Steps
  <2> QED BY <2>1, <2>2
<1> QED BY <1>2, <1>3, <1>4, <1>5 DEF TypeOK, disk, Steps

LEMMA StoreScenesType ==
  ASSUME TypeOK, NEW c \in Client, pc[c] = "stamped" => got[c] \in Entry, StoreScenes(c)
  PROVE  TypeOK'
<1> DEFINE entry == [got[c] EXCEPT !.at = now]
<1>1. entry \in Entry
  BY DEF StoreScenes, TypeOK, Entry
<1>2. catalog' = [catalog EXCEPT ![part[c]] = entry] /\ fetched' = fetched \cup {entry}
  BY DEF StoreScenes
<1> HIDE DEF entry
<1>3. catalog' \in Body /\ fetched' \subseteq Entry
  BY <1>1, <1>2 DEF TypeOK, Body
<1> QED BY <1>3 DEF StoreScenes, TypeOK, disk

LEMMA SnapshotType ==
  ASSUME TypeOK, NEW c \in Client, Snapshot(c)
  PROVE  TypeOK'
<1>1. SceneMap(part[c]) \in Body
  BY Parts DEF SceneMap, TypeOK, Body
<1>2. crossed' \subseteq Kind
  BY CrossType DEF Snapshot, Kind
<1> QED BY <1>1, <1>2 DEF Snapshot, TypeOK, disk

LEMMA OpenType ==
  ASSUME TypeOK, NEW c \in Client, OpenTmp(c)
  PROVE  TypeOK'
<1>1. tmp' \in [Kind -> Body \cup {Missing, Blank, Torn}] /\ file' = file
  BY DEF OpenTmp, Truncate, TypeOK
<1>2. overlapped' \subseteq Kind
  BY KindType DEF OpenTmp, TypeOK
<1>3. fd' \in [Client -> {"none", "tmp", "file", "gone"}]
  BY DEF OpenTmp, Truncate, TypeOK
<1> QED BY <1>1, <1>2, <1>3 DEF OpenTmp, TypeOK

LEMMA WriteType ==
  ASSUME TypeOK, NEW c \in Client, Write(c) \/ WriteFails(c)
  PROVE  TypeOK'
<1>1. PICK text \in Body \cup {Torn} : Put(c, text)
  BY DEF Write, WriteFails, TypeOK
<1>2. /\ file' \in [Kind -> Body \cup {Missing, Blank, Torn}]
      /\ tmp' \in [Kind -> Body \cup {Missing, Blank, Torn}]
  BY <1>1, PutType
<1>3. CASE Write(c)
  BY <1>2, <1>3 DEF Write, TypeOK, history
<1>4. CASE WriteFails(c)
  <2>1. Finish(c, TRUE)
    BY <1>4 DEF WriteFails
  <2>2. unsaved' \subseteq Kind
    BY <1>4, KindType DEF WriteFails, TypeOK
  <2> QED BY <1>2, <1>4, <2>1, <2>2, FinishType DEF WriteFails, TypeOK, Steps
<1> QED BY <1>3, <1>4

LEMMA RenameType ==
  ASSUME TypeOK, NEW c \in Client, Rename(c) \/ RenameFails(c) \/ CannotOpen(c)
  PROVE  TypeOK'
<1>1. Finish(c, TRUE)
  BY DEF Rename, RenameFails, CannotOpen
<1>2. /\ pc' \in [Client -> Steps] /\ op' = op /\ part' = part /\ todo' = todo
      /\ got' \in [Client -> Entry \cup {NoEntry}] /\ body' \in [Client -> Body]
  BY <1>1, FinishType
<1>3. CASE Rename(c)
  <2>1. saved' \subseteq Part
    BY <1>3, KindType, Parts DEF Rename, TypeOK
  <2>2. fd' \in [Client -> {"none", "tmp", "file", "gone"}]
    BY <1>3 DEF Rename, FdRenamed, TypeOK
  <2>3. file' \in [Kind -> Body \cup {Missing, Blank, Torn}]
        /\ tmp' \in [Kind -> Body \cup {Missing, Blank, Torn}]
    BY <1>3, KindType DEF Rename, TypeOK
  <2> QED BY <1>2, <1>3, <2>1, <2>2, <2>3 DEF Rename, TypeOK, Steps
<1>4. CASE RenameFails(c)
  <2>1. unsaved' \subseteq Kind
    BY <1>4, KindType DEF RenameFails, TypeOK
  <2>2. fd' \in [Client -> {"none", "tmp", "file", "gone"}]
    BY <1>4 DEF RenameFails, FdRemoved, TypeOK
  <2>3. tmp' \in [Kind -> Body \cup {Missing, Blank, Torn}]
    BY <1>4 DEF RenameFails, TypeOK
  <2> QED BY <1>2, <1>4, <2>1, <2>2, <2>3 DEF RenameFails, TypeOK, Steps
<1>5. CASE CannotOpen(c)
  BY <1>2, <1>5, KindType DEF CannotOpen, TypeOK, disk, Steps
<1> QED BY <1>3, <1>4, <1>5

\* What the fallback takes from the file is a list with devices.
LEMMA LoadType ==
  ASSUME TypeOK, NEW c \in Client, Load(c)
  PROVE  TypeOK'
<1>1. CASE Usable("devices", file["devices"])
  <2>1. file["devices"][Account] \in Entry \cup {NoEntry}
    BY <1>1, Parts DEF Usable, Body
  <2>2. crossed' \subseteq Kind
    BY <1>1, CrossType DEF Load, Kind
  <2> QED BY <1>1, <2>1, <2>2 DEF Load, TypeOK, disk
<1>2. CASE ~Usable("devices", file["devices"])
  BY <1>2, FinishType DEF Load, TypeOK, disk, Steps
<1> QED BY <1>1, <1>2

LEMMA FallbackType ==
  ASSUME TypeOK, NEW c \in Client, Fallback(c)
  PROVE  TypeOK'
<1>1. catalog' \in Body
  BY Parts DEF Fallback, TypeOK, Body
<1> QED BY <1>1, FinishType DEF Fallback, TypeOK, disk, history, Steps

LEMMA WarmType ==
  ASSUME TypeOK, NEW c \in Client, Gaps(c) \/ WarmNext(c)
  PROVE  TypeOK'
<1>1. CASE Gaps(c)
  BY <1>1 DEF Gaps, TypeOK, disk, history
<1>2. CASE WarmNext(c)
  <2>1. CASE todo[c] = {}
    BY <1>2, <2>1 DEF WarmNext, TypeOK, disk, history
  <2>2. CASE todo[c] # {}
    <3>1. PICK l \in todo[c] :
            /\ todo' = [todo EXCEPT ![c] = @ \ {l}]
            /\ Begin(c, "scenes", l) \/ UNCHANGED <<pc, op, part>>
      BY <1>2, <2>2 DEF WarmNext
    <3>2. l \in Part /\ todo' \in [Client -> SUBSET Lamp]
      BY <3>1, Parts DEF TypeOK
    <3>3. /\ pc' \in [Client -> Steps] /\ part' \in [Client -> Part]
          /\ op' \in [Client -> {"list", "refresh", "scenes"}]
      BY <3>1, <3>2, BeginType DEF TypeOK, Steps
    <3> QED BY <1>2, <3>2, <3>3 DEF WarmNext, TypeOK, disk, history, Steps
  <2> QED BY <2>1, <2>2
<1> QED BY <1>1, <1>2

LEMMA RestartType == TypeOK /\ Restart => TypeOK'
<1> SUFFICES ASSUME TypeOK, Restart PROVE TypeOK'
  OBVIOUS
<1>1. catalog' \in Body /\ floor' \in [Part -> Time]
  BY PrimedType DEF Restart, Body
<1>2. restarts' \in 0 .. MaxRestarts
  <2>1. restarts < MaxRestarts /\ restarts' = restarts + 1
    BY DEF Restart
  <2>2. restarts \in 0 .. MaxRestarts
    BY DEF TypeOK
  <2> QED BY <2>1, <2>2, CatalogAssumption
<1>3. /\ pc' \in [Client -> Steps] /\ op' \in [Client -> {"list", "refresh", "scenes"}]
      /\ part' \in [Client -> Part] /\ got' \in [Client -> Entry \cup {NoEntry}]
      /\ body' \in [Client -> Body]
      /\ fd' \in [Client -> {"none", "tmp", "file", "gone"}]
      /\ todo' \in [Client -> SUBSET Lamp]
  BY Parts, EntryFacts DEF Restart, Steps
<1> QED BY <1>1, <1>2, <1>3 DEF Restart, TypeOK, disk, Steps

-----------------------------------------------------------------------------
(* What a client holds. *)

Fetching == {"answered", "diy", "only diy", "stamped"}

\* From the cloud's answer to the store a client holds the entry it asked for.
Asked == \A c \in Client : pc[c] \in Fetching => got[c] \in Entry /\ got[c].part = part[c]

\* A client that ends its call, or begins one, holds no answer.
LEMMA FinishAsked ==
  ASSUME TypeOK, Asked, NEW c \in Client, NEW ok \in BOOLEAN, Finish(c, ok)
  PROVE  Asked'
<1>1. pc'[c] \notin Fetching
  BY DEF Finish, Fetching, TypeOK
<1>2. \A d \in Client \ {c} : pc'[d] = pc[d] /\ got'[d] = got[d]
  BY DEF Finish, TypeOK
<1>3. part' = part
  BY DEF Finish
<1> QED BY <1>1, <1>2, <1>3 DEF Asked

LEMMA AskedInvariant ==
  ASSUME TypeOK, Asked, [Next]_vars
  PROVE  Asked'
<1>1. ASSUME NEW c \in Client, Answer(c) PROVE Asked'
  <2>1. PICK next \in Steps, empty \in BOOLEAN :
          /\ pc' = [pc EXCEPT ![c] = next]
          /\ got' = [got EXCEPT ![c] = [part |-> part[c], answer |-> now', at |-> 0,
                                        empty |-> empty]]
    BY <1>1 DEF Answer, Steps
  <2>2. now' \in Time /\ 0 \in Time
    BY <1>1, AnswerType, TimeFacts DEF TypeOK
  <2>3. [part |-> part[c], answer |-> now', at |-> 0, empty |-> empty] \in Entry
    BY <2>2 DEF TypeOK, Entry
  <2>4. part' = part
    BY <1>1 DEF Answer
  <2> QED BY <2>1, <2>3, <2>4 DEF Asked, TypeOK
<1>2. ASSUME NEW c \in Client, Diy(c) PROVE Asked'
  BY <1>2 DEF Diy, Asked, Fetching, TypeOK
<1>3. ASSUME NEW c \in Client, Stamp(c) PROVE Asked'
  <2>1. got[c] \in Entry /\ got[c].part = part[c]
    BY <1>3 DEF Stamp, Asked, Fetching
  <2>2. [got[c] EXCEPT !.at = now] \in Entry /\ [got[c] EXCEPT !.at = now].part = part[c]
    BY <2>1 DEF TypeOK, Entry
  <2> QED BY <1>3, <2>2 DEF Stamp, Asked, TypeOK
<1>4. ASSUME NEW c \in Client, NEW ok \in BOOLEAN, Finish(c, ok) PROVE Asked'
  BY <1>4, FinishAsked
<1>5. ASSUME NEW c \in Client, NEW o, NEW p, Begin(c, o, p), got' = got PROVE Asked'
  <2>1. pc'[c] \notin Fetching
    BY <1>5 DEF Begin, Fetching, TypeOK
  <2>2. \A d \in Client \ {c} : pc'[d] = pc[d] /\ got'[d] = got[d] /\ part'[d] = part[d]
    BY <1>5 DEF Begin, TypeOK
  <2> QED BY <2>1, <2>2 DEF Asked
\* A step that is about something else moves at most one client, not to an answer.
<1>6. ASSUME NEW c \in Client, NEW s \in Steps \ Fetching, pc' = [pc EXCEPT ![c] = s],
             part' = part, \A d \in Client \ {c} : got'[d] = got[d]
      PROVE  Asked'
  BY <1>6 DEF Asked, TypeOK
<1>7. ASSUME NEW c \in Client, NoDiy(c) \/ NoAnswer(c) \/ Load(c) \/ StoreDevices(c) PROVE Asked'
  <2>1. CASE Finish(c, FALSE) \/ Finish(c, TRUE)
    BY <2>1, <1>4
  <2>2. CASE ~(Finish(c, FALSE) \/ Finish(c, TRUE))
    <3>1. PICK s \in Steps \ Fetching : pc' = [pc EXCEPT ![c] = s]
      BY <1>7, <2>2 DEF NoDiy, NoAnswer, Load, StoreDevices, Steps, Fetching
    <3>2. part' = part /\ \A d \in Client \ {c} : got'[d] = got[d]
      BY <1>7, <2>2 DEF NoDiy, NoAnswer, Load, StoreDevices, TypeOK
    <3> QED BY <3>1, <3>2, <1>6
  <2> QED BY <2>1, <2>2
<1>8. ASSUME NEW c \in Client, StoreScenes(c) \/ Snapshot(c) \/ OpenTmp(c) \/ Write(c) \/ Gaps(c)
      PROVE Asked'
  <2>1. PICK s \in Steps \ Fetching : pc' = [pc EXCEPT ![c] = s]
    BY <1>8 DEF StoreScenes, Snapshot, OpenTmp, Write, Gaps, Steps, Fetching
  <2>2. part' = part /\ \A d \in Client \ {c} : got'[d] = got[d]
    BY <1>8 DEF StoreScenes, Snapshot, OpenTmp, Write, Gaps, TypeOK
  <2> QED BY <2>1, <2>2, <1>6
<1>9. ASSUME NEW c \in Client,
             CannotOpen(c) \/ WriteFails(c) \/ Rename(c) \/ RenameFails(c) \/ Fallback(c)
      PROVE Asked'
  BY <1>9, <1>4 DEF CannotOpen, WriteFails, Rename, RenameFails, Fallback
<1>10. ASSUME NEW c \in Client, WarmNext(c) PROVE Asked'
  <2>1. CASE \E l \in todo[c] : Begin(c, "scenes", l)
    BY <1>10, <2>1, <1>5 DEF WarmNext
  <2>2. CASE pc' = [pc EXCEPT ![c] = "done"] /\ part' = part
    BY <1>10, <2>2, <1>6 DEF WarmNext, Steps, Fetching
  <2>3. CASE UNCHANGED <<pc, part>>
    BY <1>10, <2>3 DEF WarmNext, Asked
  <2> QED BY <1>10, <2>1, <2>2, <2>3 DEF WarmNext
<1>11. ASSUME NEW c \in Handler,
              List(c) \/ Refresh(c) \/ \E l \in Lamp, r \in BOOLEAN : ListScenes(c, l, r)
       PROVE Asked'
  BY <1>11, <1>5, Parts DEF List, Refresh, ListScenes
<1>12. CASE Restart
  BY <1>12 DEF Restart, Asked, Fetching
<1>13. CASE UNCHANGED vars
  BY <1>13 DEF vars, locals, Asked
<1> QED
  BY <1>1, <1>2, <1>3, <1>7, <1>8, <1>9, <1>10, <1>11, <1>12, <1>13 DEF Next

LEMMA TypeInvariant ==
  ASSUME TypeOK, Asked, [Next]_vars
  PROVE  TypeOK'
<1>1. \A c \in Client : pc[c] \in Fetching => got[c] \in Entry
  BY DEF Asked
<1>2. ASSUME NEW c \in Client, StoreDevices(c) \/ StoreScenes(c) \/ Stamp(c) PROVE TypeOK'
  BY <1>1, <1>2, StoreDevicesType, StoreScenesType, StampType DEF Fetching
<1>3. CASE UNCHANGED vars
  BY <1>3 DEF vars, disk, locals, history, TypeOK
<1> QED
  BY <1>2, <1>3, RequestType, AnswerType, CloudType, SnapshotType, OpenType, WriteType,
     RenameType, LoadType, FallbackType, WarmType, RestartType DEF Next

\* Every variable of the catalogs keeps its type.
THEOREM Typed == Spec => []TypeOK
<1>1. Init => TypeOK /\ Asked
  BY InitType DEF Init, Asked, Fetching
<1>2. TypeOK /\ Asked /\ [Next]_vars => (TypeOK /\ Asked)'
  BY AskedInvariant, TypeInvariant
<1> QED BY <1>1, <1>2, PTL DEF Spec

-----------------------------------------------------------------------------
(* Everything held came from the cloud. *)

Came(p) == {NoEntry} \cup {e \in fetched : e.part = p}
Traced == {b \in Body : \A p \in Part : b[p] \in Came(p)}
Unread == {Missing, Blank, Torn}

Sourced ==
  /\ catalog \in Traced
  /\ \A k \in Kind : file[k] \in Traced \cup Unread /\ tmp[k] \in Traced \cup Unread
  /\ \A c \in Client : body[c] \in Traced
  /\ \A c \in Client : pc[c] = "fallback" => got[c] \in Came(Account)

\* What was fetched stays fetched.
LEMMA TracedGrows ==
  ASSUME fetched \subseteq fetched'
  PROVE  (\A p \in Part : Came(p) \subseteq Came(p)') /\ Traced \subseteq Traced'
<1>1. \A p \in Part : Came(p) \subseteq Came(p)'
  BY DEF Came
<1> QED BY <1>1 DEF Traced

LEMMA NoBodyTraced == NoBody \in Traced
  BY EntryFacts DEF NoBody, Traced, Came, Body

\* An entry of the part it is put under.
LEMMA TracedPut ==
  ASSUME NEW b \in Traced', NEW p \in Part, NEW e \in Entry, e \in Came(p)'
  PROVE  [b EXCEPT ![p] = e] \in Traced'
<1>1. b \in Body /\ \A r \in Part : b[r] \in Came(r)'
  BY DEF Traced
<1>2. [b EXCEPT ![p] = e] \in Body
  BY <1>1 DEF Body
<1>3. \A r \in Part : [b EXCEPT ![p] = e][r] \in Came(r)'
  BY <1>1 DEF Body
<1> QED BY <1>2, <1>3 DEF Traced

\* A step that fetches nothing and leaves memory and the files alone.
LEMMA SourcedKept ==
  ASSUME TypeOK, Sourced, UNCHANGED <<fetched, catalog, file, tmp>>,
         \A c \in Client : body'[c] \in {body[c], NoBody},
         \A c \in Client : pc'[c] = "fallback" => pc[c] = "fallback" /\ got'[c] = got[c]
  PROVE  Sourced'
<1>1. Traced' = Traced /\ \A p \in Part : Came(p)' = Came(p)
  BY DEF Traced, Came
<1>2. \A c \in Client : body'[c] \in Traced
  BY NoBodyTraced DEF Sourced
<1>3. \A c \in Client : pc'[c] = "fallback" => got'[c] \in Came(Account)
  BY DEF Sourced
<1> QED BY <1>1, <1>2, <1>3, Parts DEF Sourced

\* The same for a step in which c alone moves, not to the fallback.
LEMMA SourcedStep ==
  ASSUME TypeOK, Sourced, NEW c \in Client, UNCHANGED <<fetched, catalog, file, tmp>>,
         pc'[c] # "fallback", body'[c] \in {body[c], NoBody},
         \A d \in Client \ {c} : pc'[d] = pc[d] /\ got'[d] = got[d] /\ body'[d] = body[d]
  PROVE  Sourced'
  BY SourcedKept

\* Who a step may move.
Only(c) == \A d \in Client \ {c} : pc'[d] = pc[d] /\ got'[d] = got[d] /\ body'[d] = body[d]
                                   /\ part'[d] = part[d]

LEMMA FinishMoves ==
  ASSUME TypeOK, NEW c \in Client, NEW ok \in BOOLEAN, Finish(c, ok)
  PROVE  /\ Only(c) /\ part' = part
         /\ pc'[c] \in {"idle", "warm", "gaps", "done"}
         /\ body'[c] = NoBody
  BY DEF Finish, Only, TypeOK

\* Every step of a client c leaves the others where they are.
LEMMA OneMoves ==
  ASSUME TypeOK, NEW c \in Client,
         \/ Answer(c) \/ NoAnswer(c) \/ Diy(c) \/ NoDiy(c) \/ Stamp(c)
         \/ StoreDevices(c) \/ StoreScenes(c) \/ Snapshot(c) \/ CannotOpen(c)
         \/ OpenTmp(c) \/ Write(c) \/ WriteFails(c) \/ Rename(c) \/ RenameFails(c)
         \/ Load(c) \/ Fallback(c) \/ Gaps(c) \/ WarmNext(c)
  PROVE  Only(c)
<1>1. ASSUME NEW ok \in BOOLEAN, Finish(c, ok) PROVE Only(c)
  BY <1>1, FinishMoves
<1>2. CASE Answer(c) \/ Diy(c) \/ Stamp(c) \/ StoreScenes(c) \/ Snapshot(c) \/ OpenTmp(c)
           \/ Write(c) \/ Gaps(c)
  BY <1>2 DEF Answer, Diy, Stamp, StoreScenes, Snapshot, OpenTmp, Write, Gaps, Only, TypeOK
<1>3. CASE NoDiy(c) \/ CannotOpen(c) \/ WriteFails(c) \/ Rename(c) \/ RenameFails(c)
           \/ Fallback(c)
  BY <1>3, <1>1 DEF NoDiy, CannotOpen, WriteFails, Rename, RenameFails, Fallback
<1>4. CASE NoAnswer(c)
  BY <1>4, <1>1 DEF NoAnswer, Only, TypeOK
<1>5. CASE StoreDevices(c)
  BY <1>5, <1>1 DEF StoreDevices, Only, TypeOK
<1>6. CASE Load(c)
  BY <1>6, <1>1 DEF Load, Only, TypeOK
<1>7. CASE WarmNext(c)
  BY <1>7 DEF WarmNext, Begin, Only, TypeOK
<1> QED BY <1>2, <1>3, <1>4, <1>5, <1>6, <1>7

\* The text of a save, or what tears it, is all that reaches a file.
LEMMA PutSourced ==
  ASSUME TypeOK, Sourced, NEW c \in Client, NEW text \in Traced \cup {Torn}, Put(c, text)
  PROVE  \A k \in Kind : file'[k] \in Traced \cup Unread /\ tmp'[k] \in Traced \cup Unread
  BY DEF Put, Sourced, Unread, TypeOK

LEMMA StoreSourced ==
  ASSUME TypeOK, Asked, Sourced, NEW c \in Client, StoreDevices(c) \/ StoreScenes(c)
  PROVE  Sourced'
<1>1. got[c] \in Entry /\ got[c].part = part[c]
  BY DEF StoreDevices, StoreScenes, Asked, Fetching
<1>2. PICK e \in Entry : /\ e.part = part[c]
                         /\ fetched' = fetched \cup {e}
                         /\ catalog' = [catalog EXCEPT ![part[c]] = e]
                         /\ StoreDevices(c) => e = got[c]
  <2>1. CASE StoreDevices(c)
    BY <1>1, <2>1 DEF StoreDevices
  <2>2. CASE StoreScenes(c)
    <3>1. [got[c] EXCEPT !.at = now] \in Entry /\ [got[c] EXCEPT !.at = now].part = part[c]
      BY <1>1 DEF TypeOK, Entry
    <3> QED BY <2>2, <3>1 DEF StoreScenes, StoreDevices
  <2> QED BY <2>1, <2>2
<1>3. PICK q \in Part : q = part[c] /\ e \in Came(q)'
  <2>1. part[c] \in Part
    BY DEF TypeOK
  <2>2. PICK q \in Part : q = part[c]
    BY <2>1
  <2>3. e \in Came(q)'
    BY <1>2, <2>2 DEF Came
  <2> QED BY <2>2, <2>3
<1>4. Traced \subseteq Traced' /\ \A p \in Part : Came(p) \subseteq Came(p)'
  BY <1>2, TracedGrows
<1>5. catalog' \in Traced'
  <2>1. catalog \in Traced' /\ catalog' = [catalog EXCEPT ![q] = e]
    BY <1>2, <1>3, <1>4 DEF Sourced
  <2> QED BY <1>3, <2>1, TracedPut
<1>6. body'[c] \in Traced'
  <2>1. body[c] \in Traced' /\ NoBody \in Traced'
    BY <1>4, NoBodyTraced DEF Sourced
  <2>2. CASE StoreScenes(c) \/ Finish(c, TRUE)
    BY <2>1, <2>2, FinishMoves DEF StoreScenes
  <2>3. CASE StoreDevices(c) /\ ~Finish(c, TRUE)
    <3>1. part[c] = Account /\ e = got[c]
      BY <1>2, <2>3 DEF StoreDevices
    <3>2. body' = [body EXCEPT ![c][Account] = got[c]]
      BY <2>3 DEF StoreDevices
    <3>3. body'[c] = [body[c] EXCEPT ![q] = e]
      BY <1>3, <3>1, <3>2 DEF TypeOK
    <3> QED BY <1>3, <2>1, <3>3, TracedPut
  <2> QED BY <2>2, <2>3
<1>7. pc'[c] # "fallback"
  <2>1. CASE StoreScenes(c)
    BY <2>1 DEF StoreScenes, TypeOK
  <2>2. CASE Finish(c, TRUE)
    BY <2>2, FinishMoves
  <2>3. CASE StoreDevices(c) /\ ~Finish(c, TRUE)
    BY <2>3 DEF StoreDevices, TypeOK
  <2> QED BY <2>1, <2>2, <2>3
<1>8. Only(c) /\ UNCHANGED <<file, tmp>>
  BY OneMoves DEF StoreDevices, StoreScenes, disk
<1>9. \A d \in Client : body'[d] \in Traced' /\ (pc'[d] = "fallback" => got'[d] \in Came(Account)')
  BY <1>4, <1>6, <1>7, <1>8, Parts DEF Only, Sourced
<1> QED BY <1>4, <1>5, <1>8, <1>9 DEF Sourced, Unread

\* A save touches the files alone, and its own client.
LEMMA SaveSourced ==
  ASSUME TypeOK, Sourced, NEW c \in Client,
         OpenTmp(c) \/ Write(c) \/ WriteFails(c) \/ Rename(c) \/ RenameFails(c)
  PROVE  Sourced'
<1>1. catalog' = catalog /\ fetched' = fetched /\ Only(c)
  BY OneMoves DEF OpenTmp, Write, WriteFails, Rename, RenameFails, history
<1>2. pc'[c] # "fallback" /\ body'[c] \in {body[c], NoBody}
  <2>1. CASE OpenTmp(c) \/ Write(c)
    BY <2>1 DEF OpenTmp, Write, TypeOK
  <2>2. CASE WriteFails(c) \/ Rename(c) \/ RenameFails(c)
    BY <2>2, FinishMoves DEF WriteFails, Rename, RenameFails
  <2> QED BY <2>1, <2>2
<1>3. \A k \in Kind : file'[k] \in Traced \cup Unread /\ tmp'[k] \in Traced \cup Unread
  <2>1. CASE OpenTmp(c)
    BY <2>1, KindType DEF OpenTmp, Truncate, Sourced, Unread, TypeOK
  <2>2. CASE Write(c) \/ WriteFails(c)
    <3>1. PICK text \in Traced \cup {Torn} : Put(c, text)
      BY <2>2 DEF Write, WriteFails, Sourced
    <3> QED BY <3>1, PutSourced
  <2>3. CASE Rename(c) \/ RenameFails(c)
    BY <2>3, KindType DEF Rename, RenameFails, Sourced, Unread, TypeOK
  <2> QED BY <2>1, <2>2, <2>3
<1>4. Traced' = Traced /\ \A p \in Part : Came(p)' = Came(p)
  BY <1>1 DEF Traced, Came
<1>5. \A d \in Client : body'[d] \in Traced
  BY <1>1, <1>2, NoBodyTraced DEF Only, Sourced
<1>6. \A d \in Client : pc'[d] = "fallback" => got'[d] \in Came(Account)'
  BY <1>1, <1>2, <1>4, Parts DEF Only, Sourced
<1> QED BY <1>1, <1>3, <1>4, <1>5, <1>6 DEF Sourced, Unread

LEMMA ReadSourced ==
  ASSUME TypeOK, Sourced, NEW c \in Client, Snapshot(c) \/ Load(c) \/ Fallback(c)
  PROVE  Sourced'
<1>1. UNCHANGED <<file, tmp, fetched>> /\ Only(c)
  BY OneMoves DEF Snapshot, Load, Fallback, disk, history
<1>2. Traced' = Traced /\ \A p \in Part : Came(p)' = Came(p)
  BY <1>1 DEF Traced, Came
<1>3. catalog' \in Traced
  <2>1. CASE Fallback(c)
    <3>1. catalog' = [catalog EXCEPT ![Account] = got[c]] /\ got[c] \in Came(Account)
      BY <2>1 DEF Fallback, Sourced
    <3> QED BY <3>1, Parts DEF Sourced, Traced, Body, TypeOK
  <2> QED BY <2>1 DEF Snapshot, Load, Sourced
<1>4. body'[c] \in Traced
  <2>1. CASE Snapshot(c)
    <3>1. body'[c] = [catalog EXCEPT ![Account] = NoEntry]
      BY <2>1 DEF Snapshot, SceneMap, TypeOK
    <3> QED BY <3>1, Parts DEF Sourced, Traced, Body, Came
  <2>2. CASE Load(c) \/ Fallback(c)
    BY <2>2, FinishMoves, NoBodyTraced DEF Load, Fallback, Sourced
  <2> QED BY <2>1, <2>2
<1>5. pc'[c] = "fallback" => got'[c] \in Came(Account)
  <2>1. CASE Snapshot(c) \/ Finish(c, FALSE) \/ Finish(c, TRUE)
    BY <2>1, FinishMoves DEF Snapshot, TypeOK
  <2>2. CASE Load(c) /\ ~Finish(c, FALSE)
    <3>1. Usable("devices", file["devices"]) /\ got'[c] = file["devices"][Account]
      BY <2>2 DEF Load, TypeOK
    <3>2. file["devices"] \in Traced
      BY <3>1, EntryFacts DEF Usable, Sourced, Kind, Unread
    <3> QED BY <3>1, <3>2, Parts DEF Traced
  <2> QED BY <2>1, <2>2 DEF Fallback
<1> QED BY <1>1, <1>2, <1>3, <1>4, <1>5, Parts DEF Sourced, Only, Unread

\* A start primes memory with what the files hold.
LEMMA PrimedSourced ==
  ASSUME TypeOK, Sourced, NEW p \in Part
  PROVE  Primed(p) \in Came(p)
<1>1. CASE Usable(KindOf(p), file[KindOf(p)])
  <2>1. file[KindOf(p)] \in Traced
    BY <1>1, EntryFacts, Parts DEF Usable, Sourced, Unread
  <2> QED BY <1>1, <2>1 DEF Primed, Traced
<1>2. CASE ~Usable(KindOf(p), file[KindOf(p)])
  BY <1>2 DEF Primed, Came
<1> QED BY <1>1, <1>2

LEMMA RestartSourced == TypeOK /\ Sourced /\ Restart => Sourced'
<1> SUFFICES ASSUME TypeOK, Sourced, Restart PROVE Sourced'
  OBVIOUS
<1>1. UNCHANGED <<file, tmp, fetched>>
  BY DEF Restart, disk
<1>2. Traced' = Traced /\ \A p \in Part : Came(p)' = Came(p)
  BY <1>1 DEF Traced, Came
<1>3. catalog' \in Traced
  BY PrimedSourced, PrimedType DEF Restart, Traced, Body
<1>4. \A c \in Client : body'[c] \in Traced /\ pc'[c] # "fallback"
  BY NoBodyTraced DEF Restart
<1> QED BY <1>1, <1>2, <1>3, <1>4 DEF Sourced, Unread

LEMMA SourcedInvariant ==
  ASSUME TypeOK, Asked, Sourced, [Next]_vars
  PROVE  Sourced'
<1>1. ASSUME NEW c \in Client,
             Answer(c) \/ NoAnswer(c) \/ Diy(c) \/ NoDiy(c) \/ Stamp(c) \/ CannotOpen(c)
             \/ Gaps(c) \/ WarmNext(c)
      PROVE Sourced'
  <2>1. UNCHANGED <<fetched, catalog, file, tmp>> /\ Only(c)
    BY <1>1, OneMoves
       DEF Answer, NoAnswer, Diy, NoDiy, Stamp, CannotOpen, Gaps, WarmNext, disk, history
  <2>2. CASE Finish(c, TRUE) \/ Finish(c, FALSE)
    BY <2>1, <2>2, FinishMoves, SourcedStep DEF Only
  <2>3. CASE ~(Finish(c, TRUE) \/ Finish(c, FALSE))
    <3>1. pc'[c] # "fallback"
      <4>1. CASE WarmNext(c)
        BY <4>1 DEF WarmNext, Begin, TypeOK
      <4> QED
        BY <1>1, <2>3, <4>1 DEF Answer, NoAnswer, Diy, NoDiy, Stamp, CannotOpen, Gaps, TypeOK
    <3>2. body' = body
      BY <1>1, <2>3 DEF Answer, NoAnswer, Diy, NoDiy, Stamp, CannotOpen, Gaps, WarmNext
    <3> QED BY <2>1, <3>1, <3>2, SourcedStep DEF Only
  <2> QED BY <2>2, <2>3
<1>2. ASSUME NEW c \in Handler,
             List(c) \/ Refresh(c) \/ \E l \in Lamp, r \in BOOLEAN : ListScenes(c, l, r)
      PROVE Sourced'
  <2>1. c \in Client /\ UNCHANGED <<fetched, catalog, file, tmp, body, got>>
    BY <1>2, Parts DEF List, Refresh, ListScenes, disk, history
  <2>2. pc' = [pc EXCEPT ![c] = "ask"]
    BY <1>2 DEF List, Refresh, ListScenes, Begin
  <2> QED BY <2>1, <2>2, SourcedStep DEF TypeOK
<1>3. CASE UNCHANGED vars
  <2>1. UNCHANGED <<fetched, catalog, file, tmp, body, got, pc>>
    BY <1>3 DEF vars, disk, locals, history
  <2> QED BY <2>1, SourcedKept
<1> QED
  BY <1>1, <1>2, <1>3, StoreSourced, SaveSourced, ReadSourced, RestartSourced DEF Next

LEMMA SourcedInit == Init => Sourced
<1> SUFFICES ASSUME Init PROVE Sourced
  OBVIOUS
<1>1. /\ catalog = NoBody /\ \A c \in Client : body[c] = NoBody /\ pc[c] # "fallback"
      /\ \A k \in Kind : file[k] = Missing /\ tmp[k] = Missing
  BY DEF Init
<1> QED BY <1>1, NoBodyTraced DEF Sourced, Unread

LEMMA SourcedFetched == TypeOK /\ Sourced => CatalogsAreFetched
<1> SUFFICES ASSUME TypeOK, Sourced, NEW p \in Part,
                    NEW b \in {catalog} \cup {file[k] : k \in {j \in Kind : file[j] \in Body}},
                    b[p] # NoEntry
             PROVE  b[p] \in fetched /\ b[p].part = p
  BY DEF CatalogsAreFetched
<1>1. b \in Traced
  BY EntryFacts DEF Sourced, Unread
<1> QED BY <1>1 DEF Traced, Came

\* Memory and the cache files hold what the cloud sent, under its own part: no
\* tear of the .tmp, fallback or restart makes an entry up or moves it.
THEOREM CatalogsFetched == Spec => []CatalogsAreFetched
<1>1. Init => TypeOK /\ Asked /\ Sourced
  BY InitType, SourcedInit DEF Init, Asked, Fetching
<1>2. TypeOK /\ Asked /\ Sourced /\ [Next]_vars => (TypeOK /\ Asked /\ Sourced)'
  BY AskedInvariant, TypeInvariant, SourcedInvariant
<1>3. TypeOK /\ Asked /\ Sourced => CatalogsAreFetched
  BY SourcedFetched
<1> QED BY <1>1, <1>2, <1>3, PTL DEF Spec

-----------------------------------------------------------------------------
(* A save writes a whole catalog, unless it shares the .tmp.                *)

\* What is on its way into a file is a catalog a start can use.
Savable ==
  /\ \A c \in Client : pc[c] = "snapshot" => part[c] # Account /\ catalog[part[c]] # NoEntry
  /\ \A c \in Client : pc[c] \in {"open", "write", "rename"} => Usable(FileKind(c), body[c])

\* One client at a time writes the .tmp of kind k: what it renames is its text.
Alone(k) ==
  /\ \A c, d \in Client : Writing(c, k) /\ Writing(d, k) => c = d
  /\ \A c \in Client : Writing(c, k) /\ pc[c] = "write" => fd[c] = "tmp" /\ tmp[k] = Blank
  /\ \A c \in Client : Writing(c, k) /\ pc[c] = "rename" => tmp[k] = body[c]
  /\ file[k] \in Body \cup {Missing}
  /\ saved \cap PartsOf(k) # {} => Usable(k, file[k])

\* A step of c that takes it away from a save, and forgets no lamp's scenes.
LEMMA SavableStep ==
  ASSUME TypeOK, Savable, NEW c \in Client, Only(c),
         pc'[c] \notin {"snapshot", "open", "write", "rename"},
         \A p \in Part \ {Account} : catalog[p] # NoEntry => catalog'[p] # NoEntry
  PROVE  Savable'
<1>1. \A d \in Client : pc'[d] = "snapshot" => part'[d] # Account /\ catalog'[part'[d]] # NoEntry
  BY DEF Only, Savable, TypeOK
<1>2. \A d \in Client : pc'[d] \in {"open", "write", "rename"} =>
        Usable(KindOf(part'[d]), body'[d])
  BY DEF Only, Savable, FileKind
<1> QED BY <1>1, <1>2 DEF Savable, FileKind

LEMMA KindsOfParts ==
  /\ PartsOf("devices") = {Account} /\ KindOf(Account) = "devices"
  /\ PartsOf("scenes") = Lamp /\ \A p \in Part \ {Account} : KindOf(p) = "scenes"
  BY CatalogAssumption DEF PartsOf, KindOf, Part

LEMMA StoreDevicesSavable ==
  ASSUME TypeOK, Asked, Savable, NEW c \in Client, StoreDevices(c)
  PROVE  Savable'
<1>1. Only(c) /\ got[c] \in Entry /\ part[c] = Account
  BY OneMoves DEF StoreDevices, Asked, Fetching
<1>2. \A p \in Part \ {Account} : catalog'[p] = catalog[p]
  BY DEF StoreDevices, TypeOK, Body
<1>3. CASE KeptOut(got[c])
  BY <1>1, <1>2, <1>3, FinishMoves, SavableStep DEF StoreDevices
<1>4. CASE ~KeptOut(got[c])
  <2>1. pc'[c] = "open" /\ part' = part /\ body' = [body EXCEPT ![c][Account] = got[c]]
    BY <1>4 DEF StoreDevices, TypeOK
  <2>2. body'[c] \in Body /\ body'[c][Account] = got[c]
    BY <1>1, <2>1, Parts DEF TypeOK, Body
  <2>3. got[c] # NoEntry /\ ~got[c].empty
    BY <1>1, <1>4, EntryFacts DEF KeptOut
  <2>4. Usable("devices", body'[c])
    BY <2>2, <2>3, KindsOfParts DEF Usable
  <2>5. \A d \in Client : pc'[d] = "snapshot" => part'[d] # Account /\ catalog'[part'[d]] # NoEntry
    BY <1>1, <1>2, <2>1 DEF Only, Savable, TypeOK
  <2>6. \A d \in Client : pc'[d] \in {"open", "write", "rename"} =>
          Usable(KindOf(part'[d]), body'[d])
    BY <1>1, <2>1, <2>4, KindsOfParts DEF Only, Savable, FileKind
  <2> QED BY <2>5, <2>6 DEF Savable, FileKind
<1> QED BY <1>3, <1>4

LEMMA ScenesSavable ==
  ASSUME TypeOK, Asked, Savable, NEW c \in Client, StoreScenes(c) \/ Snapshot(c)
  PROVE  Savable'
<1>1. Only(c) /\ part' = part
  BY OneMoves DEF StoreScenes, Snapshot
<1>2. CASE StoreScenes(c)
  <2>1. got[c] \in Entry
    BY <1>2 DEF StoreScenes, Asked, Fetching
  <2>2. [got[c] EXCEPT !.at = now] # NoEntry
    BY <2>1, EntryFacts DEF TypeOK, Entry
  <2>3. pc'[c] = "snapshot" /\ part[c] # Account /\ body' = body
        /\ catalog' = [catalog EXCEPT ![part[c]] = [got[c] EXCEPT !.at = now]]
    BY <1>2 DEF StoreScenes, TypeOK
  <2>4. \A p \in Part : catalog[p] # NoEntry => catalog'[p] # NoEntry
    BY <2>2, <2>3 DEF TypeOK, Body
  <2>5. catalog'[part[c]] # NoEntry
    BY <2>2, <2>3 DEF TypeOK, Body
  <2>6. \A d \in Client : pc'[d] = "snapshot" => part'[d] # Account /\ catalog'[part'[d]] # NoEntry
    BY <1>1, <2>3, <2>4, <2>5 DEF Only, Savable, TypeOK
  <2>7. \A d \in Client : pc'[d] \in {"open", "write", "rename"} =>
          Usable(KindOf(part'[d]), body'[d])
    BY <1>1, <2>3 DEF Only, Savable, FileKind
  <2> QED BY <2>6, <2>7 DEF Savable, FileKind
<1>3. CASE Snapshot(c)
  <2>1. /\ pc[c] = "snapshot" /\ pc'[c] = "open" /\ catalog' = catalog
        /\ body'[c] = [catalog EXCEPT ![Account] = NoEntry]
    BY <1>3 DEF Snapshot, SceneMap, TypeOK
  <2>2. part[c] \in Part \ {Account} /\ catalog[part[c]] # NoEntry
    BY <2>1 DEF Savable, TypeOK
  <2>3. body'[c] \in Body /\ body'[c][part[c]] # NoEntry
    BY <2>1, <2>2, Parts DEF TypeOK, Body
  <2>4. Usable("scenes", body'[c])
    BY <2>2, <2>3, Parts, KindsOfParts DEF Usable
  <2>5. \A d \in Client : pc'[d] = "snapshot" => part'[d] # Account /\ catalog'[part'[d]] # NoEntry
    BY <1>1, <2>1 DEF Only, Savable
  <2>6. \A d \in Client : pc'[d] \in {"open", "write", "rename"} =>
          Usable(KindOf(part'[d]), body'[d])
    BY <1>1, <2>2, <2>4, KindsOfParts DEF Only, Savable, FileKind
  <2> QED BY <2>5, <2>6 DEF Savable, FileKind
<1> QED BY <1>2, <1>3

LEMMA SavableInvariant ==
  ASSUME TypeOK, Asked, Savable, [Next]_vars
  PROVE  Savable'
<1>1. ASSUME NEW c \in Client,
             Answer(c) \/ NoAnswer(c) \/ Diy(c) \/ NoDiy(c) \/ Stamp(c) \/ CannotOpen(c)
             \/ WriteFails(c) \/ Rename(c) \/ RenameFails(c)
             \/ Load(c) \/ Fallback(c) \/ Gaps(c) \/ WarmNext(c)
      PROVE Savable'
  <2>1. Only(c)
    BY <1>1, OneMoves
  <2>2. \A p \in Part \ {Account} : catalog'[p] = catalog[p]
    BY <1>1 DEF Answer, NoAnswer, Diy, NoDiy, Stamp, CannotOpen, WriteFails, Rename,
       RenameFails, Load, Fallback, Gaps, WarmNext, TypeOK, Body
  <2>3. pc'[c] \notin {"snapshot", "open", "write", "rename"}
    <3>1. CASE Finish(c, TRUE) \/ Finish(c, FALSE)
      BY <3>1, FinishMoves
    <3>2. CASE WarmNext(c)
      BY <3>2 DEF WarmNext, Begin, TypeOK
    <3> QED
      BY <1>1, <3>1, <3>2 DEF Answer, NoAnswer, Diy, NoDiy, Stamp, CannotOpen, WriteFails,
         Rename, RenameFails, Load, Fallback, Gaps, TypeOK
  <2> QED BY <2>1, <2>2, <2>3, SavableStep
<1>2. ASSUME NEW c \in Client, OpenTmp(c) \/ Write(c) PROVE Savable'
  <2>1. UNCHANGED <<catalog, part, body>> /\ Only(c)
    BY <1>2, OneMoves DEF OpenTmp, Write
  <2>2. pc[c] \in {"open", "write"} /\ pc'[c] \in {"write", "rename"}
    BY <1>2 DEF OpenTmp, Write, TypeOK
  <2> QED BY <2>1, <2>2 DEF Savable, Only, FileKind
<1>3. ASSUME NEW c \in Handler,
             List(c) \/ Refresh(c) \/ \E l \in Lamp, r \in BOOLEAN : ListScenes(c, l, r)
      PROVE Savable'
  <2>1. c \in Client /\ catalog' = catalog
    BY <1>3, Parts DEF List, Refresh, ListScenes
  <2>2. pc'[c] = "ask" /\ Only(c)
    BY <1>3, <2>1 DEF List, Refresh, ListScenes, Begin, Only, TypeOK
  <2> QED BY <2>1, <2>2, SavableStep
<1>4. CASE Restart
  BY <1>4 DEF Restart, Savable
<1>5. CASE UNCHANGED vars
  BY <1>5 DEF vars, locals, Savable, FileKind
<1> QED
  BY <1>1, <1>2, <1>3, <1>4, <1>5, StoreDevicesSavable, ScenesSavable DEF Next

\* A step that starts no write and leaves the disk alone.
LEMMA AloneKept ==
  ASSUME NEW k \in Kind, Alone(k), UNCHANGED <<file, tmp, fd, saved>>,
         \A c \in Client : pc'[c] \in {"write", "rename"} =>
           pc'[c] = pc[c] /\ part'[c] = part[c] /\ body'[c] = body[c]
  PROVE  Alone(k)'
<1>1. \A c \in Client : Writing(c, k)' => Writing(c, k) /\ pc'[c] = pc[c] /\ body'[c] = body[c]
  BY DEF Writing
<1> QED BY <1>1 DEF Alone

\* Nobody has the .tmp of k open but c, whose step it is.
LEMMA OpenAlone ==
  ASSUME TypeOK, NEW c \in Client, OpenTmp(c), NEW k \in Kind, k \notin overlapped', Alone(k)
  PROVE  Alone(k)'
<1>1. /\ pc' = [pc EXCEPT ![c] = "write"] /\ fd' = [fd EXCEPT ![c] = "tmp"]
      /\ tmp' = [tmp EXCEPT ![FileKind(c)] = Blank]
      /\ UNCHANGED <<part, body, file, saved>>
  BY DEF OpenTmp, Truncate
<1>2. CASE FileKind(c) = k
  <2>1. \A d \in Client : ~Writing(d, k)
    BY <1>2 DEF OpenTmp
  <2>2. \A d \in Client : Writing(d, k)' => d = c
    BY <1>1, <2>1 DEF Writing, TypeOK
  <2>3. pc'[c] = "write" /\ fd'[c] = "tmp" /\ tmp'[k] = Blank
    BY <1>1, <1>2 DEF TypeOK
  <2> QED BY <1>1, <2>2, <2>3 DEF Alone
<1>3. CASE FileKind(c) # k
  <2>1. \A d \in Client : Writing(d, k)' <=> Writing(d, k)
    BY <1>1, <1>3 DEF Writing, FileKind, TypeOK
  <2>2. \A d \in Client : Writing(d, k) => d # c
    BY <1>3 DEF Writing, FileKind
  <2>3. tmp'[k] = tmp[k] /\ \A d \in Client \ {c} : pc'[d] = pc[d] /\ fd'[d] = fd[d]
    BY <1>1, <1>3 DEF TypeOK
  <2> QED BY <1>1, <2>1, <2>2, <2>3 DEF Alone
<1> QED BY <1>2, <1>3

\* Another kind's save.
LEMMA OtherKind ==
  ASSUME TypeOK, NEW c \in Client, NEW k \in Kind, FileKind(c) # k, Alone(k), Only(c), part' = part,
         file'[k] = file[k], tmp'[k] = tmp[k], saved' \cap PartsOf(k) = saved \cap PartsOf(k),
         \A d \in Client \ {c} : KindOf(part[d]) = k => fd'[d] = fd[d]
  PROVE  Alone(k)'
<1>1. \A d \in Client : Writing(d, k)' => Writing(d, k) /\ d # c
  BY DEF Writing, FileKind, Only
<1>2. \A d \in Client : Writing(d, k)' => pc'[d] = pc[d] /\ body'[d] = body[d] /\ fd'[d] = fd[d]
  BY <1>1 DEF Only, Writing
<1> QED BY <1>1, <1>2 DEF Alone

LEMMA WriteAlone ==
  ASSUME TypeOK, NEW c \in Client, Write(c) \/ WriteFails(c), NEW k \in Kind, Alone(k)
  PROVE  Alone(k)'
<1>1. /\ pc[c] = "write" /\ part' = part /\ saved' = saved /\ Only(c)
      /\ fd' = [fd EXCEPT ![c] = "none"]
  BY OneMoves, FinishMoves DEF Write, WriteFails, history
<1>2. PICK text : Put(c, text)
  BY DEF Write, WriteFails
<1>3. CASE FileKind(c) # k
  <2>1. file'[k] = file[k] /\ tmp'[k] = tmp[k]
    BY <1>2, <1>3 DEF Put, TypeOK
  <2>2. \A d \in Client \ {c} : fd'[d] = fd[d]
    BY <1>1 DEF TypeOK
  <2> QED BY <1>1, <1>3, <2>1, <2>2, OtherKind
<1>4. CASE FileKind(c) = k
  <2>1. Writing(c, k) /\ fd[c] = "tmp" /\ tmp[k] = Blank /\ \A d \in Client : Writing(d, k) => d = c
    BY <1>1, <1>4 DEF Alone, Writing, FileKind
  <2>2. \A d \in Client : Writing(d, k)' => d = c
    BY <1>1, <2>1 DEF Writing, Only
  <2>3. file' = file
    BY <1>2, <2>1 DEF Put
  <2>4. CASE Write(c)
    <3>1. Put(c, body[c]) /\ pc'[c] = "rename" /\ body' = body
      BY <1>4, <2>1, <2>4 DEF Write, TypeOK
    <3>2. tmp'[k] = body[c]
      BY <1>4, <2>1, <3>1 DEF Put, TypeOK
    <3> QED BY <1>1, <2>2, <2>3, <3>1, <3>2 DEF Alone
  <2>5. CASE WriteFails(c)
    <3>1. pc'[c] \notin {"write", "rename"}
      BY <2>5, FinishMoves DEF WriteFails
    <3>2. \A d \in Client : ~Writing(d, k)'
      BY <2>2, <3>1 DEF Writing
    <3> QED BY <1>1, <2>3, <3>2 DEF Alone
  <2> QED BY <2>4, <2>5
<1> QED BY <1>3, <1>4

LEMMA RenameAlone ==
  ASSUME TypeOK, Savable, NEW c \in Client, Rename(c) \/ RenameFails(c), NEW k \in Kind, Alone(k)
  PROVE  Alone(k)'
<1>1. /\ pc[c] = "rename" /\ part' = part /\ Only(c)
      /\ pc'[c] \notin {"write", "rename"}
  BY OneMoves, FinishMoves DEF Rename, RenameFails
<1>2. CASE FileKind(c) # k
  <2>1. file'[k] = file[k] /\ tmp'[k] = tmp[k]
    BY <1>2 DEF Rename, RenameFails, TypeOK
  <2>2. \A d \in Client \ {c} : KindOf(part[d]) = k => fd'[d] = fd[d]
    BY <1>2 DEF Rename, RenameFails, FileKind
  <2>3. saved' \cap PartsOf(k) = saved \cap PartsOf(k)
    BY <1>2 DEF Rename, RenameFails, PartsOf
  <2> QED BY <1>1, <1>2, <2>1, <2>2, <2>3, OtherKind
<1>3. CASE FileKind(c) = k
  <2>1. Writing(c, k) /\ tmp[k] = body[c] /\ \A d \in Client : Writing(d, k) => d = c
    BY <1>1, <1>3 DEF Alone, Writing, FileKind
  <2>2. \A d \in Client : ~Writing(d, k)'
    BY <1>1, <2>1 DEF Writing, Only
  <2>3. Usable(k, body[c])
    BY <1>1, <1>3 DEF Savable
  <2>4. CASE Rename(c)
    <3>1. file'[k] = body[c]
      BY <1>3, <2>1, <2>4 DEF Rename, TypeOK
    <3>2. file'[k] \in Body /\ Usable(k, file'[k])
      BY <2>3, <3>1 DEF Usable
    <3> QED BY <2>2, <3>2 DEF Alone
  <2>5. CASE RenameFails(c)
    <3>1. UNCHANGED <<file, saved>>
      BY <2>5 DEF RenameFails
    <3> QED BY <2>2, <3>1 DEF Alone
  <2> QED BY <2>4, <2>5
<1> QED BY <1>2, <1>3

AllAlone == \A k \in Kind \ overlapped : Alone(k)

LEMMA AloneInvariant ==
  ASSUME TypeOK, Savable, AllAlone, [Next]_vars
  PROVE  AllAlone'
<1> SUFFICES ASSUME NEW k \in Kind, k \notin overlapped' PROVE Alone(k)'
  BY DEF AllAlone
<1>1. overlapped \subseteq overlapped'
  BY DEF Next, Answer, NoAnswer, Diy, NoDiy, Stamp, StoreDevices, StoreScenes, Snapshot,
     CannotOpen, OpenTmp, Write, WriteFails, Rename, RenameFails, Load, Fallback, Gaps, WarmNext,
     List, Refresh, ListScenes, Restart, vars, history
<1>2. Alone(k)
  BY <1>1 DEF AllAlone
<1>3. ASSUME NEW c \in Client,
             Answer(c) \/ NoAnswer(c) \/ Diy(c) \/ NoDiy(c) \/ Stamp(c) \/ StoreDevices(c)
             \/ StoreScenes(c) \/ Snapshot(c) \/ CannotOpen(c) \/ Load(c) \/ Fallback(c)
             \/ Gaps(c) \/ WarmNext(c)
      PROVE Alone(k)'
  <2>1. UNCHANGED <<file, tmp, fd, saved>> /\ Only(c)
    BY <1>3, OneMoves DEF Answer, NoAnswer, Diy, NoDiy, Stamp, StoreDevices, StoreScenes,
       Snapshot, CannotOpen, Load, Fallback, Gaps, WarmNext, disk, history
  <2>2. pc'[c] \notin {"write", "rename"}
    <3>1. CASE Finish(c, TRUE) \/ Finish(c, FALSE)
      BY <3>1, FinishMoves
    <3>2. CASE WarmNext(c)
      BY <3>2 DEF WarmNext, Begin, TypeOK
    <3> QED
      BY <1>3, <3>1, <3>2 DEF Answer, NoAnswer, Diy, NoDiy, Stamp, StoreDevices, StoreScenes,
         Snapshot, CannotOpen, Load, Fallback, Gaps, TypeOK
  <2> QED BY <1>2, <2>1, <2>2, AloneKept DEF Only
<1>4. ASSUME NEW c \in Handler,
             List(c) \/ Refresh(c) \/ \E l \in Lamp, r \in BOOLEAN : ListScenes(c, l, r)
      PROVE Alone(k)'
  <2>1. UNCHANGED <<file, tmp, fd, saved, body>> /\ c \in Client
    BY <1>4, Parts DEF List, Refresh, ListScenes, disk, history
  <2>2. \A d \in Client : pc'[d] \in {"write", "rename"} => pc'[d] = pc[d] /\ part'[d] = part[d]
    BY <1>4, <2>1 DEF List, Refresh, ListScenes, Begin, TypeOK
  <2> QED BY <1>2, <2>1, <2>2, AloneKept
<1>5. CASE Restart
  <2>1. \A c \in Client : pc'[c] \notin {"write", "rename"}
    BY <1>5 DEF Restart
  <2>2. UNCHANGED <<file, saved>>
    BY <1>5 DEF Restart, disk
  <2> QED BY <1>2, <2>1, <2>2 DEF Alone, Writing
<1>6. CASE UNCHANGED vars
  BY <1>2, <1>6, AloneKept DEF vars, disk, locals, history
<1> QED
  BY <1>2, <1>3, <1>4, <1>5, <1>6, OpenAlone, WriteAlone, RenameAlone DEF Next

\* A catalog that was saved once is there, whole, at every later start, unless
\* two saves wrote the one .tmp together: a save that fails or a process that
\* dies in the middle of it leaves the file of the save before.
THEOREM SavedSurvives == Spec => []SavedCatalogSurvives
<1>1. Init => TypeOK /\ Asked /\ Savable /\ AllAlone
  <2> SUFFICES ASSUME Init PROVE TypeOK /\ Asked /\ Savable /\ AllAlone
    OBVIOUS
  <2>1. \A c \in Client : pc[c] \in {"idle", "ask"}
    BY DEF Init
  <2>2. \A k \in Kind : file[k] = Missing /\ saved = {}
    BY DEF Init
  <2> QED BY <2>1, <2>2, InitType DEF Asked, Fetching, Savable, AllAlone, Alone, Writing
<1>2. TypeOK /\ Asked /\ Savable /\ AllAlone /\ [Next]_vars
        => (TypeOK /\ Asked /\ Savable /\ AllAlone)'
  BY AskedInvariant, TypeInvariant, SavableInvariant, AloneInvariant
<1>3. AllAlone => SavedCatalogSurvives
  BY DEF AllAlone, Alone, SavedCatalogSurvives
<1> QED BY <1>1, <1>2, <1>3, PTL DEF Spec

-----------------------------------------------------------------------------
(* Nothing falls behind what the process started with.                      *)

\* No entry is newer than the clock.
Clocked ==
  /\ \A e \in fetched : e.answer <= now
  /\ \A c \in Client : pc[c] \in Fetching => got[c].answer <= now
  /\ \A p \in Part : floor[p] <= now

\* No older entry than f says for any part of kind k.
Newer(b, k, f) == \A p \in PartsOf(k) : b[p].answer >= f[p]

Saving == {"open", "write", "rename"}

Fresh ==
  /\ \A c \in Client : pc[c] \in Fetching => got[c].answer >= floor[part[c]]
  /\ \A c \in Client : pc[c] = "fallback" => got[c].answer >= floor[Account]
  /\ \A p \in Part : catalog[p].answer >= floor[p]
  /\ \A k \in Kind : file[k] \in Body => Newer(file[k], k, floor)
  /\ \A c \in Client : pc[c] \in Saving => Newer(body[c], FileKind(c), floor)
  /\ \A k \in Kind : (\E c \in Client : Writing(c, k)) /\ tmp[k] \in Body => Newer(tmp[k], k, floor)

LEMMA AnswerClocked ==
  ASSUME TypeOK, Asked, Clocked, NEW c \in Client, Answer(c)
  PROVE  Clocked' /\ got'[c].answer = now' /\ got'[c].answer >= floor[part[c]]
<1>1. now \in Nat /\ now' = now + 1 /\ fetched' = fetched /\ floor' = floor /\ Only(c)
  BY OneMoves, TimeFacts DEF Answer, TypeOK, history
<1>2. got'[c].answer = now'
  <2>1. PICK empty \in BOOLEAN :
          got' = [got EXCEPT ![c] = [part |-> part[c], answer |-> now', at |-> 0,
                                     empty |-> empty]]
    BY DEF Answer
  <2> QED BY <2>1 DEF TypeOK
<1>3. \A e \in fetched : e.answer \in Nat
  BY TimeFacts DEF TypeOK, Entry
<1>4. \A p \in Part : floor[p] \in Nat
  BY TimeFacts DEF TypeOK
<1>5. \A d \in Client : pc[d] \in Fetching => got[d].answer \in Nat
  BY TimeFacts DEF Asked, Entry
<1>6. \A e \in fetched' : e.answer <= now'
  BY <1>1, <1>3 DEF Clocked
<1>7. \A p \in Part : floor'[p] <= now'
  BY <1>1, <1>4 DEF Clocked
<1>8. \A d \in Client : pc'[d] \in Fetching => got'[d].answer <= now'
  BY <1>1, <1>2, <1>5 DEF Clocked, Only
<1>9. part[c] \in Part
  BY DEF TypeOK
<1> QED BY <1>1, <1>2, <1>4, <1>6, <1>7, <1>8, <1>9 DEF Clocked

\* Stored and stamped entries keep the answer they came with.
LEMMA ClockedInvariant ==
  ASSUME TypeOK, Asked, Sourced, Clocked, [Next]_vars
  PROVE  Clocked'
<1>1. ASSUME NEW c \in Client, Answer(c) PROVE Clocked'
  BY <1>1, AnswerClocked
<1>2. ASSUME NEW c \in Client,
             NoAnswer(c) \/ Diy(c) \/ NoDiy(c) \/ Snapshot(c)
             \/ CannotOpen(c) \/ OpenTmp(c) \/ Write(c) \/ WriteFails(c) \/ Rename(c)
             \/ RenameFails(c) \/ Load(c) \/ Fallback(c) \/ Gaps(c) \/ WarmNext(c)
      PROVE Clocked'
  <2>1. UNCHANGED <<now, fetched, floor>> /\ Only(c)
    BY <1>2, OneMoves DEF NoAnswer, Diy, NoDiy, Snapshot, CannotOpen, OpenTmp, Write,
       WriteFails, Rename, RenameFails, Load, Fallback, Gaps, WarmNext, history
  <2>2. pc'[c] \in Fetching => pc[c] \in Fetching /\ got'[c] = got[c]
    <3>1. CASE Finish(c, TRUE) \/ Finish(c, FALSE)
      BY <3>1, FinishMoves DEF Fetching
    <3>2. CASE WarmNext(c)
      BY <3>2 DEF WarmNext, Begin, TypeOK, Fetching
    <3> QED
      BY <1>2, <3>1, <3>2 DEF NoAnswer, Diy, NoDiy, Snapshot, CannotOpen, OpenTmp, Write,
         WriteFails, Rename, RenameFails, Load, Fallback, Gaps, TypeOK, Fetching
  <2> QED BY <2>1, <2>2 DEF Clocked, Only
<1>3. ASSUME NEW c \in Client, Stamp(c) PROVE Clocked'
  <2>1. UNCHANGED <<now, fetched, floor>> /\ Only(c)
    BY <1>3, OneMoves DEF Stamp, history
  <2>2. pc[c] \in Fetching /\ got[c] \in Entry
    BY <1>3 DEF Stamp, Asked, Fetching
  <2>3. got'[c].answer = got[c].answer
    BY <1>3, <2>2 DEF Stamp, TypeOK, Entry
  <2> QED BY <2>1, <2>2, <2>3 DEF Clocked, Only
<1>4. ASSUME NEW c \in Client, StoreDevices(c) \/ StoreScenes(c) PROVE Clocked'
  <2>1. UNCHANGED <<now, floor>> /\ Only(c) /\ pc[c] \in Fetching /\ got[c] \in Entry
    BY <1>4, OneMoves DEF StoreDevices, StoreScenes, Asked, Fetching
  <2>2. PICK e : fetched' = fetched \cup {e} /\ e.answer = got[c].answer
    <3>1. CASE StoreDevices(c)
      BY <3>1 DEF StoreDevices
    <3>2. CASE StoreScenes(c)
      <4>1. [got[c] EXCEPT !.at = now].answer = got[c].answer
        BY <2>1 DEF Entry
      <4> QED BY <3>2, <4>1 DEF StoreScenes
    <3> QED BY <1>4, <3>1, <3>2
  <2>3. pc'[c] \notin Fetching
    <3>1. CASE Finish(c, TRUE)
      BY <3>1, FinishMoves DEF Fetching
    <3> QED BY <1>4, <3>1 DEF StoreDevices, StoreScenes, TypeOK, Fetching
  <2> QED BY <2>1, <2>2, <2>3 DEF Clocked, Only
<1>5. ASSUME NEW c \in Handler,
             List(c) \/ Refresh(c) \/ \E l \in Lamp, r \in BOOLEAN : ListScenes(c, l, r)
      PROVE Clocked'
  <2>1. UNCHANGED <<now, fetched, floor, got>> /\ c \in Client
    BY <1>5, Parts DEF List, Refresh, ListScenes, history
  <2>2. pc' = [pc EXCEPT ![c] = "ask"]
    BY <1>5 DEF List, Refresh, ListScenes, Begin
  <2> QED BY <2>1, <2>2 DEF Clocked, TypeOK, Fetching
<1>6. CASE Restart
  <2>1. UNCHANGED <<now, fetched>> /\ \A c \in Client : pc'[c] \notin Fetching
    BY <1>6 DEF Restart, Fetching
  <2>2. \A p \in Part : floor'[p] = Primed(p).answer
    BY <1>6 DEF Restart
  <2>3. \A p \in Part : Primed(p) = NoEntry \/ Primed(p) \in fetched
    BY PrimedSourced DEF Came
  <2>4. now \in Nat
    BY TimeFacts DEF TypeOK
  <2>5. \A p \in Part : Primed(p).answer <= now
    BY <2>3, <2>4, EntryFacts DEF Clocked
  <2> QED BY <2>1, <2>2, <2>5 DEF Clocked
<1>7. CASE UNCHANGED vars
  BY <1>7 DEF vars, locals, history, Clocked
<1> QED
  BY <1>1, <1>2, <1>3, <1>4, <1>5, <1>6, <1>7 DEF Next

\* Without the floor or the disk, a step of c that begins no save.
LEMMA FreshStep ==
  ASSUME TypeOK, Fresh, NEW c \in Client, Only(c), UNCHANGED <<file, tmp, floor>>,
         pc'[c] \notin Saving,
         pc'[c] \in Fetching => got'[c].answer >= floor[part'[c]],
         pc'[c] = "fallback" => got'[c].answer >= floor[Account],
         \A p \in Part : catalog'[p].answer >= floor[p]
  PROVE  Fresh'
<1>1. \A d \in Client : pc'[d] \in Fetching => got'[d].answer >= floor'[part'[d]]
  BY DEF Only, Fresh
<1>2. \A d \in Client : pc'[d] = "fallback" => got'[d].answer >= floor'[Account]
  BY DEF Only, Fresh
<1>3. \A k \in Kind : file'[k] \in Body => Newer(file'[k], k, floor')
  BY DEF Fresh, Newer
<1>4. \A d \in Client : pc'[d] \in Saving => Newer(body'[d], KindOf(part'[d]), floor')
  BY DEF Only, Fresh, Newer, FileKind
<1>5. \A k \in Kind, d \in Client : Writing(d, k)' => Writing(d, k)
  BY DEF Writing, Only, Saving
<1>6. \A k \in Kind : (\E d \in Client : Writing(d, k)') /\ tmp'[k] \in Body => Newer(tmp'[k], k, floor')
  BY <1>5 DEF Fresh, Newer
<1> QED BY <1>1, <1>2, <1>3, <1>4, <1>6 DEF Fresh, FileKind, Newer

LEMMA CloudFresh ==
  ASSUME TypeOK, Asked, Clocked, Fresh, NEW c \in Client,
         \/ Answer(c) \/ NoAnswer(c) \/ Diy(c) \/ NoDiy(c) \/ Stamp(c)
         \/ CannotOpen(c) \/ Gaps(c) \/ WarmNext(c)
  PROVE  Fresh'
<1>1. UNCHANGED <<file, tmp, floor, catalog>> /\ Only(c)
  BY OneMoves
     DEF Answer, NoAnswer, Diy, NoDiy, Stamp, CannotOpen, Gaps, WarmNext, disk, history
<1>2. CASE Finish(c, TRUE) \/ Finish(c, FALSE)
  BY <1>1, <1>2, FinishMoves, FreshStep DEF Fetching, Saving, Fresh
<1>3. CASE Answer(c)
  <2>1. got'[c].answer >= floor[part[c]] /\ part' = part
    BY <1>3, AnswerClocked DEF Answer
  <2>2. pc'[c] \notin Saving /\ pc'[c] # "fallback"
    BY <1>3 DEF Answer, TypeOK, Saving
  <2> QED BY <1>1, <2>1, <2>2, FreshStep DEF Fresh
<1>4. CASE Diy(c) \/ Stamp(c)
  <2>1. got[c].answer >= floor[part[c]] /\ part' = part
    BY <1>4 DEF Diy, Stamp, Fresh, Fetching
  <2>2. got'[c].answer = got[c].answer
    <3>1. CASE Diy(c)
      BY <3>1 DEF Diy
    <3>2. CASE Stamp(c)
      <4>1. got[c] \in Entry
        BY <3>2 DEF Stamp, Asked, Fetching
      <4> QED BY <3>2, <4>1 DEF Stamp, TypeOK, Entry
    <3> QED BY <1>4, <3>1, <3>2
  <2>3. pc'[c] \notin Saving /\ pc'[c] # "fallback"
    BY <1>4 DEF Diy, Stamp, TypeOK, Saving
  <2> QED BY <1>1, <2>1, <2>2, <2>3, FreshStep DEF Fresh
<1>5. CASE WarmNext(c)
  <2>1. pc'[c] \notin Saving \cup Fetching /\ pc'[c] # "fallback"
    BY <1>5 DEF WarmNext, Begin, TypeOK, Saving, Fetching
  <2> QED BY <1>1, <2>1, FreshStep DEF Fresh
<1>6. CASE Gaps(c) \/ (NoAnswer(c) /\ ~Finish(c, FALSE))
  <2>1. pc'[c] \notin Saving \cup Fetching /\ pc'[c] # "fallback"
    BY <1>6 DEF Gaps, NoAnswer, TypeOK, Saving, Fetching
  <2> QED BY <1>1, <2>1, FreshStep DEF Fresh
<1> QED BY <1>2, <1>3, <1>4, <1>5, <1>6 DEF NoDiy, CannotOpen

LEMMA StoreFresh ==
  ASSUME TypeOK, Asked, Fresh, NEW c \in Client, StoreDevices(c) \/ StoreScenes(c)
  PROVE  Fresh'
<1>1. UNCHANGED <<file, tmp, floor, part>> /\ Only(c)
  BY OneMoves DEF StoreDevices, StoreScenes, Finish, disk
<1>2. got[c] \in Entry /\ got[c].answer >= floor[part[c]]
  BY DEF StoreDevices, StoreScenes, Asked, Fresh, Fetching
<1>3. PICK e \in Entry : catalog' = [catalog EXCEPT ![part[c]] = e] /\ e.answer = got[c].answer
  <2>1. CASE StoreDevices(c)
    BY <1>2, <2>1 DEF StoreDevices
  <2>2. CASE StoreScenes(c)
    <3>1. [got[c] EXCEPT !.at = now] \in Entry
          /\ [got[c] EXCEPT !.at = now].answer = got[c].answer
      BY <1>2 DEF TypeOK, Entry
    <3> QED BY <2>2, <3>1 DEF StoreScenes
  <2> QED BY <2>1, <2>2
<1>4. \A p \in Part : catalog'[p].answer >= floor[p]
  BY <1>2, <1>3 DEF Fresh, TypeOK, Body
<1>5. CASE StoreScenes(c) \/ Finish(c, TRUE)
  <2>1. pc'[c] \notin Saving \cup Fetching /\ pc'[c] # "fallback"
    <3>1. CASE Finish(c, TRUE)
      BY <3>1, FinishMoves DEF Saving, Fetching
    <3> QED BY <1>5, <3>1 DEF StoreScenes, TypeOK, Saving, Fetching
  <2> QED BY <1>1, <1>4, <2>1, FreshStep
<1>6. CASE StoreDevices(c) /\ ~Finish(c, TRUE)
  <2>1. pc'[c] = "open" /\ part[c] = Account /\ body'[c] = [body[c] EXCEPT ![Account] = got[c]]
    BY <1>6 DEF StoreDevices, TypeOK
  <2>2. body'[c][Account] = got[c]
    BY <2>1, Parts DEF TypeOK, Body
  <2>3. Newer(body'[c], "devices", floor)
    BY <1>2, <2>1, <2>2, KindsOfParts DEF Newer
  <2>4. \A d \in Client : pc'[d] \in Saving => Newer(body'[d], KindOf(part'[d]), floor')
    BY <1>1, <2>1, <2>3, KindsOfParts DEF Only, Fresh, FileKind
  <2>5. \A d \in Client : (pc'[d] \in Fetching => got'[d].answer >= floor[part'[d]])
                          /\ (pc'[d] = "fallback" => got'[d].answer >= floor[Account])
    BY <1>1, <2>1 DEF Only, Fresh, Fetching
  <2>6. \A k \in Kind, d \in Client : Writing(d, k)' => Writing(d, k)
    BY <1>1, <2>1 DEF Writing, Only
  <2> QED BY <1>1, <1>4, <2>4, <2>5, <2>6 DEF Fresh, Newer, FileKind
<1> QED BY <1>5, <1>6

LEMMA ReadFresh ==
  ASSUME TypeOK, Savable, Fresh, NEW c \in Client, Snapshot(c) \/ Load(c) \/ Fallback(c)
  PROVE  Fresh'
<1>1. UNCHANGED <<file, tmp, floor>> /\ Only(c)
  BY OneMoves DEF Snapshot, Load, Fallback, disk, history
<1>2. CASE Finish(c, FALSE) /\ catalog' = catalog
  BY <1>1, <1>2, FinishMoves, FreshStep DEF Fetching, Saving, Fresh
<1>3. CASE Fallback(c)
  <2>1. \A p \in Part : catalog'[p].answer >= floor[p]
    BY <1>3 DEF Fallback, Fresh, TypeOK, Body
  <2>2. pc'[c] \notin Saving \cup Fetching /\ pc'[c] # "fallback"
    BY <1>3, FinishMoves DEF Fallback, Saving, Fetching
  <2> QED BY <1>1, <2>1, <2>2, FreshStep
<1>4. CASE Load(c) /\ ~Finish(c, FALSE)
  <2>1. /\ pc'[c] = "fallback" /\ got'[c] = file["devices"][Account] /\ catalog' = catalog
        /\ Usable("devices", file["devices"])
    BY <1>4 DEF Load, TypeOK
  <2>2. Newer(file["devices"], "devices", floor)
    BY <2>1 DEF Usable, Fresh, Kind
  <2>3. got'[c].answer >= floor[Account]
    BY <2>1, <2>2, KindsOfParts DEF Newer
  <2> QED BY <1>1, <2>1, <2>3, FreshStep DEF Saving, Fetching, Fresh
<1>5. CASE Snapshot(c)
  <2>1. /\ pc[c] = "snapshot" /\ pc'[c] = "open" /\ UNCHANGED <<catalog, part>>
        /\ body'[c] = [catalog EXCEPT ![Account] = NoEntry]
    BY <1>5 DEF Snapshot, SceneMap, TypeOK
  <2>2. Newer(body'[c], "scenes", floor)
    <3>1. \A p \in Part \ {Account} : body'[c][p] = catalog[p]
      BY <2>1 DEF TypeOK, Body
    <3>2. PartsOf("scenes") \subseteq Part \ {Account}
      BY KindsOfParts, CatalogAssumption DEF Part
    <3> QED BY <3>1, <3>2 DEF Newer, Fresh
  <2>3. KindOf(part[c]) = "scenes"
    BY <2>1, KindsOfParts DEF Savable, TypeOK
  <2>4. \A d \in Client : pc'[d] \in Saving => Newer(body'[d], KindOf(part'[d]), floor')
    BY <1>1, <2>1, <2>2, <2>3 DEF Only, Fresh, FileKind
  <2>5. \A d \in Client : (pc'[d] \in Fetching => got'[d].answer >= floor[part'[d]])
                          /\ (pc'[d] = "fallback" => got'[d].answer >= floor[Account])
    BY <1>1, <2>1 DEF Only, Fresh, Fetching
  <2>6. \A k \in Kind, d \in Client : Writing(d, k)' => Writing(d, k)
    BY <1>1, <2>1 DEF Writing, Only
  <2> QED BY <1>1, <2>1, <2>4, <2>5, <2>6 DEF Fresh, Newer, FileKind
<1> QED BY <1>2, <1>3, <1>4, <1>5 DEF Load

\* A save moves no entry of memory: what it leaves in the files is as new as the
\* texts the clients took since the start.
LEMMA SaveFresh ==
  ASSUME TypeOK, Fresh, NEW c \in Client,
         OpenTmp(c) \/ Write(c) \/ WriteFails(c) \/ Rename(c) \/ RenameFails(c)
  PROVE  Fresh'
<1>1. UNCHANGED <<catalog, floor, part>> /\ Only(c)
  BY OneMoves DEF OpenTmp, Write, WriteFails, Rename, RenameFails, Finish, history
<1>2. pc[c] \in Saving /\ Newer(body[c], FileKind(c), floor)
  BY DEF OpenTmp, Write, WriteFails, Rename, RenameFails, Fresh, Saving
<1>3. /\ pc'[c] \notin Fetching /\ pc'[c] # "fallback"
      /\ pc'[c] \in Saving => body'[c] = body[c]
  <2>1. CASE Finish(c, TRUE)
    BY <2>1, FinishMoves DEF Fetching, Saving
  <2> QED
    BY <2>1 DEF OpenTmp, Write, WriteFails, Rename, RenameFails, Fetching, Saving, TypeOK
<1>4. \A d \in Client : pc'[d] \in Saving => Newer(body'[d], KindOf(part'[d]), floor')
  BY <1>1, <1>2, <1>3 DEF Only, Fresh, FileKind
<1>5. \A d \in Client : (pc'[d] \in Fetching => got'[d].answer >= floor[part'[d]])
                        /\ (pc'[d] = "fallback" => got'[d].answer >= floor[Account])
  BY <1>1, <1>3 DEF Only, Fresh
<1>6. ASSUME NEW k \in Kind
      PROVE  /\ file'[k] \in Body => Newer(file'[k], k, floor)
             /\ (\E d \in Client : Writing(d, k)') /\ tmp'[k] \in Body => Newer(tmp'[k], k, floor)
  <2>1. CASE FileKind(c) # k
    <3>1. file'[k] = file[k] /\ tmp'[k] = tmp[k]
      BY <2>1 DEF OpenTmp, Truncate, Write, WriteFails, Put, Rename, RenameFails, TypeOK
    <3>2. \A d \in Client : Writing(d, k)' => Writing(d, k)
      BY <1>1, <2>1 DEF Writing, Only, FileKind
    <3> QED BY <3>1, <3>2 DEF Fresh
  <2>2. CASE FileKind(c) = k /\ OpenTmp(c)
    <3>1. file' = file /\ tmp'[k] = Blank
      BY <2>2 DEF OpenTmp, Truncate, TypeOK
    <3> QED BY <3>1, EntryFacts DEF Fresh
  <2>3. CASE FileKind(c) = k /\ (Write(c) \/ WriteFails(c))
    <3>1. PICK text \in {body[c], Torn} : Put(c, text)
      BY <2>3 DEF Write, WriteFails
    <3>2. file'[k] \in {file[k], text} /\ tmp'[k] \in {tmp[k], text}
      BY <2>3, <3>1 DEF Put, TypeOK
    <3>3. Writing(c, k)
      BY <2>3 DEF Write, WriteFails, Writing, FileKind
    <3> QED BY <1>2, <2>3, <3>1, <3>2, <3>3, EntryFacts DEF Fresh
  <2>4. CASE FileKind(c) = k /\ (Rename(c) \/ RenameFails(c))
    <3>1. file'[k] \in {file[k], tmp[k]} /\ tmp'[k] = Missing
      BY <2>4 DEF Rename, RenameFails, TypeOK
    <3>2. Writing(c, k)
      BY <2>4 DEF Rename, RenameFails, Writing, FileKind
    <3> QED BY <3>1, <3>2, EntryFacts DEF Fresh
  <2> QED BY <2>1, <2>2, <2>3, <2>4
<1> QED BY <1>1, <1>4, <1>5, <1>6 DEF Fresh, FileKind, Newer

LEMMA RestartFresh == TypeOK /\ Restart => Fresh'
<1> SUFFICES ASSUME TypeOK, Restart PROVE Fresh'
  OBVIOUS
<1>1. /\ file' = file /\ catalog' = [p \in Part |-> Primed(p)]
      /\ floor' = [p \in Part |-> Primed(p).answer]
      /\ \A c \in Client : pc'[c] \in {"idle", "ask"}
  BY DEF Restart, disk
<1>2. \A p \in Part : Primed(p).answer \in Nat
  BY PrimedType, TimeFacts
<1>3. \A p \in Part : catalog'[p].answer >= floor'[p]
  BY <1>1, <1>2
<1>4. ASSUME NEW k \in Kind, file[k] \in Body PROVE Newer(file[k], k, floor')
  <2>1. ASSUME NEW p \in PartsOf(k) PROVE file[k][p].answer >= floor'[p]
    <3>1. p \in Part /\ KindOf(p) = k
      BY Parts DEF PartsOf
    <3>2. floor'[p] = Primed(p).answer
      BY <1>1, <3>1
    <3>3. file[k][p].answer \in Nat
      BY <1>4, <3>1, EntryFacts, TimeFacts DEF Body, Entry
    <3>4. CASE Usable(k, file[k])
      BY <1>2, <3>1, <3>2, <3>4 DEF Primed
    <3>5. CASE ~Usable(k, file[k])
      BY <3>1, <3>2, <3>3, <3>5, EntryFacts DEF Primed
    <3> QED BY <3>4, <3>5
  <2> QED BY <2>1 DEF Newer
<1>5. \A c \in Client : pc'[c] \notin Fetching \cup Saving /\ pc'[c] # "fallback"
  BY <1>1 DEF Fetching, Saving
<1>6. \A c \in Client, k \in Kind : ~Writing(c, k)'
  BY <1>1 DEF Writing
<1> QED BY <1>1, <1>3, <1>4, <1>5, <1>6 DEF Fresh, Newer

LEMMA FreshInvariant ==
  ASSUME TypeOK, Asked, Savable, Clocked, Fresh, [Next]_vars
  PROVE  Fresh'
<1>1. ASSUME NEW c \in Handler,
             List(c) \/ Refresh(c) \/ \E l \in Lamp, r \in BOOLEAN : ListScenes(c, l, r)
      PROVE Fresh'
  <2>1. c \in Client /\ UNCHANGED <<catalog, file, tmp, floor>>
    BY <1>1, Parts DEF List, Refresh, ListScenes, disk, history
  <2>2. pc'[c] = "ask" /\ Only(c)
    BY <1>1, <2>1 DEF List, Refresh, ListScenes, Begin, Only, TypeOK
  <2> QED BY <2>1, <2>2, FreshStep DEF Saving, Fetching, Fresh
<1>2. CASE UNCHANGED vars
  BY <1>2 DEF vars, disk, locals, history, Fresh, FileKind, Newer, Writing
<1> QED
  BY <1>1, <1>2, CloudFresh, StoreFresh, ReadFresh, SaveFresh, RestartFresh DEF Next

\* Neither the fallback of ListDevices, a restart nor a save that an earlier
\* process left half done takes memory or a cache file back behind what the
\* running process was primed with.
THEOREM NothingOlder == Spec => []NothingOlderThanStart
<1> DEFINE IInv == TypeOK /\ Asked /\ Sourced /\ Savable /\ Clocked /\ Fresh
<1>1. Init => IInv
  <2> SUFFICES ASSUME Init PROVE IInv
    OBVIOUS
  <2>1. /\ \A c \in Client : pc[c] \in {"idle", "ask"}
        /\ fetched = {} /\ now = 0 /\ floor = [p \in Part |-> 0] /\ catalog = NoBody
        /\ \A k \in Kind : file[k] = Missing
    BY DEF Init
  <2>2. \A c \in Client : pc[c] \notin Fetching \cup Saving \cup {"snapshot", "fallback"}
                           /\ pc[c] \notin {"open", "write", "rename"}
    BY <2>1 DEF Fetching, Saving
  <2>3. \A p \in Part : catalog[p].answer = 0 /\ floor[p] = 0
    BY <2>1, EntryFacts DEF NoBody
  <2>4. Asked /\ Savable
    BY <2>2 DEF Asked, Savable
  <2>5. Clocked
    BY <2>1, <2>2, <2>3 DEF Clocked
  <2>6. \A k \in Kind : file[k] \notin Body /\ \A c \in Client : ~Writing(c, k)
    BY <2>1, <2>2, EntryFacts DEF Writing
  <2>7. Fresh
    BY <2>2, <2>3, <2>6 DEF Fresh
  <2> QED BY <2>4, <2>5, <2>7, InitType, SourcedInit
<1>2. IInv /\ [Next]_vars => IInv'
  BY AskedInvariant, TypeInvariant, SourcedInvariant, SavableInvariant, ClockedInvariant,
     FreshInvariant
<1>3. IInv => NothingOlderThanStart
  <2> SUFFICES ASSUME TypeOK, Fresh PROVE NothingOlderThanStart
    OBVIOUS
  <2>1. \A p \in Part : p \in PartsOf(KindOf(p)) /\ KindOf(p) \in Kind
    BY Parts
  <2> QED BY <2>1 DEF NothingOlderThanStart, Fresh, Newer
<1> QED BY <1>1, <1>2, <1>3, PTL DEF Spec

-----------------------------------------------------------------------------
(* The file catches up with memory.                                         *)

\* Only ListDevices falls back to the file.
Listing == \A c \in Client : op[c] = "list" \/ pc[c] \in {"load", "fallback"} => part[c] = Account

LEMMA ListingInvariant ==
  ASSUME TypeOK, Listing, [Next]_vars
  PROVE  Listing'
<1>1. ASSUME NEW c \in Client, NEW ok \in BOOLEAN, Finish(c, ok) PROVE Listing'
  <2>1. op' = op /\ part' = part
    BY <1>1 DEF Finish
  <2> QED BY <1>1, <2>1, FinishMoves DEF Listing, Only
<1>2. ASSUME NEW c \in Client, NEW s \in Steps, pc' = [pc EXCEPT ![c] = s],
             UNCHANGED <<op, part>>, s = "load" => op[c] = "list", s = "fallback" => pc[c] = "load"
      PROVE  Listing'
  BY <1>2 DEF Listing, TypeOK
<1>3. ASSUME NEW c \in Client, NEW o, NEW p, Begin(c, o, p), o = "list" => p = Account
      PROVE  Listing'
  BY <1>3 DEF Begin, Listing, TypeOK
<1>4. ASSUME NEW c \in Client,
             NoDiy(c) \/ CannotOpen(c) \/ WriteFails(c) \/ Rename(c) \/ RenameFails(c) \/ Fallback(c)
      PROVE  Listing'
  BY <1>1, <1>4 DEF NoDiy, CannotOpen, WriteFails, Rename, RenameFails, Fallback
<1>5. ASSUME NEW c \in Client,
             Answer(c) \/ Diy(c) \/ Stamp(c) \/ StoreScenes(c) \/ Snapshot(c)
             \/ OpenTmp(c) \/ Write(c) \/ Gaps(c)
      PROVE  Listing'
  <2>1. PICK s \in Steps \ {"load", "fallback"} : pc' = [pc EXCEPT ![c] = s]
    BY <1>5 DEF Answer, Diy, Stamp, StoreScenes, Snapshot, OpenTmp, Write, Gaps, Steps
  <2>2. UNCHANGED <<op, part>>
    BY <1>5 DEF Answer, Diy, Stamp, StoreScenes, Snapshot, OpenTmp, Write, Gaps
  <2> QED BY <1>2, <2>1, <2>2
<1>6. ASSUME NEW c \in Client, NoAnswer(c) \/ StoreDevices(c) \/ Load(c) PROVE Listing'
  <2>1. CASE Finish(c, TRUE) \/ Finish(c, FALSE)
    BY <1>1, <2>1
  <2>2. CASE ~(Finish(c, TRUE) \/ Finish(c, FALSE))
    <3>1. PICK s \in Steps : /\ pc' = [pc EXCEPT ![c] = s] /\ (s = "load" => op[c] = "list")
                             /\ (s = "fallback" => pc[c] = "load")
      BY <1>6, <2>2 DEF NoAnswer, StoreDevices, Load, Steps
    <3>2. UNCHANGED <<op, part>>
      BY <1>6, <2>2 DEF NoAnswer, StoreDevices, Load
    <3> QED BY <1>2, <3>1, <3>2
  <2> QED BY <2>1, <2>2
<1>7. ASSUME NEW c \in Client, WarmNext(c) PROVE Listing'
  <2>1. CASE \E l \in todo[c] : Begin(c, "scenes", l)
    BY <1>3, <2>1
  <2>2. CASE pc' = [pc EXCEPT ![c] = "done"] /\ UNCHANGED <<op, part>>
    BY <1>2, <2>2 DEF Steps
  <2>3. CASE UNCHANGED <<pc, op, part>>
    BY <2>3 DEF Listing
  <2> QED BY <1>7, <2>1, <2>2, <2>3 DEF WarmNext
<1>8. ASSUME NEW c \in Handler,
             List(c) \/ Refresh(c) \/ \E l \in Lamp, r \in BOOLEAN : ListScenes(c, l, r)
      PROVE  Listing'
  BY <1>3, <1>8, Parts DEF List, Refresh, ListScenes
<1>9. CASE Restart
  BY <1>9 DEF Restart, Listing
<1>10. CASE UNCHANGED vars
  BY <1>10 DEF vars, locals, Listing
<1> QED
  BY <1>4, <1>5, <1>6, <1>7, <1>8, <1>9, <1>10 DEF Next

\* Unless two clients crossed, one at a time is taking kind k to its file.
Single(k) == \A c, d \in Client : Updating(c, k) /\ Updating(d, k) => c = d

Uncrossed == \A k \in Kind \ crossed : Single(k) /\ k \notin overlapped

Busy == {"open", "write", "rename", "fallback"}

\* The steps that take an update of a kind: from memory or, in Load, to it.
Takes(c) == StoreDevices(c) \/ Snapshot(c) \/ Load(c)

LEMMA Crossing ==
  ASSUME TypeOK, Savable, Listing, NEW c \in Client, Takes(c), NEW k \in Kind, k \notin crossed'
  PROVE  \/ \A d \in Client : Updating(d, k)' => Updating(d, k)
         \/ \A d \in Client : ~Updating(d, k) /\ (Updating(d, k)' => d = c)
<1>1. part' = part /\ Only(c)
  BY OneMoves, FinishMoves DEF Takes, StoreDevices, Snapshot, Load
<1>2. \A d \in Client \ {c} : Updating(d, k)' <=> Updating(d, k)
  BY <1>1 DEF Updating, Only
<1>3. CASE Cross(k)
  BY <1>2, <1>3 DEF Cross
<1>4. CASE ~Updating(c, k)'
  BY <1>2, <1>4
<1>5. CASE Updating(c, k)' /\ ~Cross(k)
  <2>1. k = KindOf(part[c]) /\ pc'[c] \in Busy
    BY <1>1, <1>5 DEF Updating, Busy
  <2>2. ~StoreDevices(c)
    BY <1>5, <2>1, KindsOfParts DEF StoreDevices
  <2>3. ~Snapshot(c)
    <3>1. Snapshot(c) => k = "scenes"
      BY <2>1, KindsOfParts DEF Snapshot, Savable, TypeOK
    <3> QED BY <1>5, <3>1 DEF Snapshot
  <2>4. ~Load(c)
    <3>1. Load(c) => k = "devices"
      BY <2>1, KindsOfParts DEF Load, Listing
    <3>2. Load(c) => ~Finish(c, FALSE)
      BY <2>1, FinishMoves DEF Busy
    <3> QED BY <1>5, <3>1, <3>2 DEF Load
  <2> QED BY <2>2, <2>3, <2>4 DEF Takes
<1> QED BY <1>3, <1>4, <1>5

LEMMA UncrossedInvariant ==
  ASSUME TypeOK, Savable, Listing, Uncrossed, [Next]_vars
  PROVE  Uncrossed'
<1> SUFFICES ASSUME NEW k \in Kind, k \notin crossed' PROVE Single(k)' /\ k \notin overlapped'
  BY DEF Uncrossed
<1>1. crossed \subseteq crossed'
  BY DEF Next, Answer, NoAnswer, Diy, NoDiy, Stamp, StoreDevices, StoreScenes, Snapshot,
     CannotOpen, OpenTmp, Write, WriteFails, Rename, RenameFails, Load, Fallback, Gaps, WarmNext,
     List, Refresh, ListScenes, Restart, Cross, vars, history
<1>2. Single(k) /\ k \notin overlapped
  BY <1>1 DEF Uncrossed
<1>3. (\A d \in Client : Updating(d, k)' => Updating(d, k)) => Single(k)'
  BY <1>2 DEF Single
<1>4. ASSUME NEW c \in Client, Takes(c) PROVE Single(k)' /\ k \notin overlapped'
  <2>1. overlapped' = overlapped
    BY <1>4 DEF Takes, StoreDevices, Snapshot, Load
  <2>2. CASE \A d \in Client : Updating(d, k)' => d = c
    BY <1>2, <2>1, <2>2 DEF Single
  <2> QED BY <1>2, <1>3, <1>4, <2>1, <2>2, Crossing
<1>5. ASSUME NEW c \in Client, OpenTmp(c) PROVE Single(k)' /\ k \notin overlapped'
  <2>1. Only(c) /\ part' = part /\ pc[c] = "open"
    BY <1>5, OneMoves DEF OpenTmp
  <2>2. \A d \in Client : Updating(d, k)' => Updating(d, k)
    BY <2>1 DEF Updating, Only
  <2>3. ~(FileKind(c) = k /\ \E d \in Client : Writing(d, k))
    BY <1>2, <2>1 DEF Single, Updating, Writing, FileKind
  <2>4. k \notin overlapped'
    BY <1>2, <1>5, <2>3 DEF OpenTmp
  <2> QED BY <1>3, <2>2, <2>4
<1>6. ASSUME NEW c \in Client,
             Answer(c) \/ NoAnswer(c) \/ Diy(c) \/ NoDiy(c) \/ Stamp(c)
             \/ StoreScenes(c) \/ CannotOpen(c) \/ Write(c) \/ WriteFails(c) \/ Rename(c)
             \/ RenameFails(c) \/ Fallback(c) \/ Gaps(c) \/ WarmNext(c)
      PROVE Single(k)' /\ k \notin overlapped'
  <2>1. Only(c) /\ overlapped' = overlapped
    BY <1>6, OneMoves DEF Answer, NoAnswer, Diy, NoDiy, Stamp, StoreScenes, CannotOpen, Write,
       WriteFails, Rename, RenameFails, Fallback, Gaps, WarmNext, history
  <2>2. pc'[c] \in Busy => pc[c] \in Busy /\ part' = part
    <3>1. CASE Finish(c, TRUE) \/ Finish(c, FALSE)
      BY <3>1, FinishMoves DEF Busy
    <3>2. CASE WarmNext(c)
      BY <3>2 DEF WarmNext, Begin, TypeOK, Busy
    <3> QED
      BY <1>6, <3>1, <3>2 DEF Answer, NoAnswer, Diy, NoDiy, Stamp, StoreScenes, CannotOpen,
         Write, WriteFails, Rename, RenameFails, Fallback, Gaps, TypeOK, Busy
  <2>3. \A d \in Client : Updating(d, k)' => Updating(d, k)
    BY <2>1, <2>2 DEF Updating, Only, Busy
  <2> QED BY <1>2, <1>3, <2>1, <2>3
<1>7. ASSUME NEW c \in Handler,
             List(c) \/ Refresh(c) \/ \E l \in Lamp, r \in BOOLEAN : ListScenes(c, l, r)
      PROVE Single(k)' /\ k \notin overlapped'
  <2>1. overlapped' = overlapped /\ c \in Client
    BY <1>7, Parts DEF List, Refresh, ListScenes, history
  <2>2. \A d \in Client : Updating(d, k)' => Updating(d, k)
    BY <1>7, <2>1 DEF List, Refresh, ListScenes, Begin, Updating, TypeOK
  <2> QED BY <1>2, <1>3, <2>1, <2>2
<1>8. CASE Restart
  <2>1. overlapped' = overlapped /\ \A c \in Client : ~Updating(c, k)'
    BY <1>8 DEF Restart, Updating
  <2> QED BY <1>2, <1>3, <2>1
<1>9. CASE UNCHANGED vars
  BY <1>2, <1>9 DEF vars, locals, history, Single, Updating
<1> QED
  BY <1>4, <1>5, <1>6, <1>7, <1>8, <1>9 DEF Next, Takes

Snapping(k) == \E c \in Client : pc[c] = "snapshot" /\ KindOf(part[c]) = k

\* The text on its way is what memory holds, unless another is to follow it.
Synced(k) ==
  /\ \A c \in Client : Updating(c, k) /\ pc[c] # "fallback" =>
       Snapping(k) \/ \A p \in PartsOf(k) : body[c][p] = catalog[p]
  /\ \A c \in Client : Updating(c, k) /\ pc[c] = "fallback" =>
       Usable(k, file[k]) /\ got[c] = file[k][Account]
  /\ Snapping(k) \/ (\E c \in Client : Updating(c, k)) \/ \A p \in PartsOf(k) : Primed(p) = catalog[p]

AllSynced == \A k \in Kind \ (crossed \cup unsaved) : Synced(k)

\* A step that neither takes nor ends an update of k, nor touches what k's hold.
LEMMA SyncedKept ==
  ASSUME NEW k \in Kind, Synced(k), file'[k] = file[k],
         \A p \in PartsOf(k) : catalog'[p] = catalog[p],
         \A d \in Client : Updating(d, k)' <=> Updating(d, k),
         \A d \in Client : Updating(d, k) =>
           /\ body'[d] = body[d] /\ got'[d] = got[d]
           /\ pc'[d] = "fallback" <=> pc[d] = "fallback",
         Snapping(k)' <=> Snapping(k)
  PROVE  Synced(k)'
<1>1. \A p \in PartsOf(k) : KindOf(p) = k
  BY DEF PartsOf
<1>2. \A p \in PartsOf(k) : Primed(p)' = Primed(p)
  BY <1>1 DEF Primed
<1> QED BY <1>2 DEF Synced

\* The same for a step of c that is not about k's part.
LEMMA SyncedStep ==
  ASSUME TypeOK, NEW c \in Client, Only(c), NEW k \in Kind, Synced(k), file'[k] = file[k],
         \A p \in PartsOf(k) : catalog'[p] = catalog[p],
         pc[c] \in Busy \cup {"snapshot"} => KindOf(part[c]) # k,
         pc'[c] \in Busy \cup {"snapshot"} => KindOf(part'[c]) # k
  PROVE  Synced(k)'
<1>1. ~Updating(c, k) /\ ~Updating(c, k)' /\ \A d \in Client \ {c} : Updating(d, k)' <=> Updating(d, k)
  BY DEF Updating, Busy, Only
<1>2. Snapping(k)' <=> Snapping(k)
  BY DEF Snapping, Only
<1>3. \A d \in Client : Updating(d, k) => d # c
  BY <1>1
<1> QED BY <1>1, <1>2, <1>3, SyncedKept DEF Only

LEMMA TakeSynced ==
  ASSUME TypeOK, Asked, Savable, Listing, Uncrossed, AllSynced, NEW c \in Client,
         Takes(c) \/ StoreScenes(c), NEW k \in Kind, k \notin crossed' \cup unsaved'
  PROVE  Synced(k)'
<1>1. /\ file' = file /\ part' = part /\ Only(c)
      /\ crossed \subseteq crossed' /\ unsaved \subseteq unsaved'
  BY OneMoves, FinishMoves
     DEF Takes, StoreDevices, StoreScenes, Snapshot, Load, Cross, disk
<1>2. Synced(k) /\ Single(k)
  BY <1>1 DEF AllSynced, Uncrossed
<1>3. CASE KindOf(part[c]) # k
  <2>1. \A p \in PartsOf(k) : catalog'[p] = catalog[p]
    BY <1>3 DEF Takes, StoreDevices, StoreScenes, Snapshot, Load, TypeOK, Body, PartsOf
  <2> QED BY <1>1, <1>2, <1>3, <2>1, SyncedStep
<1>4. CASE KindOf(part[c]) = k /\ StoreDevices(c)
  <2>1. k = "devices" /\ part[c] = Account /\ PartsOf(k) = {Account}
    BY <1>4, KindsOfParts DEF StoreDevices
  <2>2. ~KeptOut(got[c])
    BY <1>4, <2>1 DEF StoreDevices
  <2>3. /\ pc'[c] = "open" /\ body' = [body EXCEPT ![c][Account] = got[c]]
        /\ catalog' = [catalog EXCEPT ![Account] = got[c]]
    BY <1>4, <2>2 DEF StoreDevices, TypeOK
  <2>4. body'[c][Account] = catalog'[Account]
    BY <2>3, Parts DEF TypeOK, Body
  <2>5. Updating(c, k)' /\ \A d \in Client : Updating(d, k)' => d = c
    BY <1>1, <1>4, <2>1, <2>3 DEF StoreDevices, Cross, Updating, Only
  <2> QED BY <2>1, <2>3, <2>4, <2>5 DEF Synced
<1>5. CASE KindOf(part[c]) = k /\ Snapshot(c)
  <2>1. k = "scenes" /\ PartsOf(k) = Lamp /\ Account \notin Lamp
    BY <1>5, KindsOfParts, CatalogAssumption DEF Snapshot, Savable, TypeOK
  <2>2. /\ pc'[c] = "open" /\ body'[c] = [catalog EXCEPT ![Account] = NoEntry]
        /\ catalog' = catalog
    BY <1>5 DEF Snapshot, SceneMap, TypeOK
  <2>3. \A p \in PartsOf(k) : body'[c][p] = catalog'[p]
    BY <2>1, <2>2, Parts DEF TypeOK, Body
  <2>4. Updating(c, k)' /\ \A d \in Client : Updating(d, k)' => d = c
    BY <1>1, <1>5, <2>1, <2>2 DEF Snapshot, Cross, Updating, Only
  <2> QED BY <2>2, <2>3, <2>4 DEF Synced
<1>6. CASE KindOf(part[c]) = k /\ Load(c)
  <2>1. k = "devices" /\ pc[c] = "load"
    BY <1>6, KindsOfParts DEF Load, Listing
  <2>2. CASE ~Usable("devices", file["devices"])
    <3>1. Finish(c, FALSE) /\ catalog' = catalog
      BY <1>6, <2>2 DEF Load
    <3>2. pc'[c] \notin Busy \cup {"snapshot"} /\ pc[c] \notin Busy \cup {"snapshot"}
      BY <2>1, <3>1, FinishMoves DEF Busy
    <3> QED BY <1>1, <1>2, <3>1, <3>2, SyncedStep
  <2>3. CASE Usable("devices", file["devices"])
    <3>1. pc'[c] = "fallback" /\ got'[c] = file["devices"][Account] /\ Cross("devices")
      BY <1>6, <2>3 DEF Load, TypeOK
    <3>2. Updating(c, k)' /\ \A d \in Client : Updating(d, k)' => d = c
      BY <1>1, <1>6, <2>1, <3>1 DEF Cross, Updating, Only
    <3> QED BY <1>1, <2>1, <2>3, <3>1, <3>2 DEF Synced
  <2> QED BY <2>2, <2>3
<1>7. CASE KindOf(part[c]) = k /\ StoreScenes(c)
  <2>1. k = "scenes" /\ pc'[c] = "snapshot"
    BY <1>7, KindsOfParts DEF StoreScenes, TypeOK
  <2>2. Snapping(k)'
    BY <1>1, <1>7, <2>1 DEF Snapping
  <2>3. \A d \in Client : ~(Updating(d, k)' /\ pc'[d] = "fallback")
    BY <1>1, <2>1, KindsOfParts DEF Updating, Only, Listing
  <2> QED BY <2>2, <2>3 DEF Synced
<1> QED BY <1>3, <1>4, <1>5, <1>6, <1>7 DEF Takes

\* A save that does not reach the file says so in unsaved.
LEMMA SaveSynced ==
  ASSUME TypeOK, Savable, AllAlone, Uncrossed, AllSynced, NEW c \in Client,
         \/ OpenTmp(c) \/ CannotOpen(c) \/ Write(c) \/ WriteFails(c)
         \/ Rename(c) \/ RenameFails(c),
         NEW k \in Kind, k \notin crossed' \cup unsaved'
  PROVE  Synced(k)'
<1>1. /\ part' = part /\ Only(c) /\ catalog' = catalog /\ pc[c] \in {"open", "write", "rename"}
      /\ crossed' = crossed /\ unsaved \subseteq unsaved'
  BY OneMoves, FinishMoves
     DEF OpenTmp, CannotOpen, Write, WriteFails, Rename, RenameFails, history
<1>2. Synced(k) /\ Single(k) /\ Alone(k)
  BY <1>1 DEF AllSynced, Uncrossed, AllAlone
<1>3. CASE FileKind(c) # k
  <2>1. file'[k] = file[k]
    BY <1>3 DEF OpenTmp, Truncate, CannotOpen, Write, WriteFails, Put, Rename, RenameFails,
       disk, TypeOK
  <2> QED BY <1>1, <1>2, <1>3, <2>1, SyncedStep DEF FileKind
<1>4. CASE FileKind(c) = k /\ (OpenTmp(c) \/ Write(c))
  <2>1. file'[k] = file[k]
    <3>1. CASE OpenTmp(c)
      BY <3>1 DEF OpenTmp, Truncate
    <3>2. CASE Write(c)
      <4>1. fd[c] = "tmp"
        BY <1>2, <1>4, <3>2 DEF Write, Alone, Writing, FileKind
      <4> QED BY <3>2, <4>1 DEF Write, Put
    <3> QED BY <1>4, <3>1, <3>2
  <2>2. UNCHANGED <<body, got>> /\ pc'[c] \in {"write", "rename"}
    BY <1>4 DEF OpenTmp, Write, TypeOK
  <2>3. \A d \in Client : Updating(d, k)' <=> Updating(d, k)
    BY <1>1, <2>2 DEF Updating, Only
  <2>4. Snapping(k)' <=> Snapping(k)
    BY <1>1, <2>2 DEF Snapping, Only
  <2> QED BY <1>1, <1>2, <2>1, <2>2, <2>3, <2>4, SyncedKept DEF Only
<1>5. CASE FileKind(c) = k /\ Rename(c)
  <2>1. Updating(c, k) /\ pc[c] = "rename" /\ Writing(c, k)
    BY <1>5 DEF Rename, Updating, Writing, FileKind
  <2>2. file'[k] = body[c] /\ Usable(k, body[c])
    BY <1>2, <1>5, <2>1 DEF Rename, Alone, Savable, TypeOK
  <2>3. pc'[c] \notin Busy \cup {"snapshot"}
    BY <1>5, FinishMoves DEF Rename, Busy
  <2>4. \A d \in Client : ~Updating(d, k)'
    BY <1>1, <1>2, <2>1, <2>3 DEF Single, Updating, Only, Busy
  <2>5. Snapping(k) => Snapping(k)'
    BY <1>1, <2>1 DEF Snapping, Only
  <2>6. Snapping(k) \/ \A p \in PartsOf(k) : body[c][p] = catalog[p]
    BY <1>2, <2>1 DEF Synced
  <2>7. \A p \in PartsOf(k) : Primed(p)' = body[c][p]
    BY <2>2 DEF Primed, PartsOf
  <2> QED BY <1>1, <2>4, <2>5, <2>6, <2>7 DEF Synced
<1>6. CASE FileKind(c) = k /\ (CannotOpen(c) \/ WriteFails(c) \/ RenameFails(c))
  BY <1>6 DEF CannotOpen, WriteFails, RenameFails
<1> QED BY <1>3, <1>4, <1>5, <1>6

LEMMA FallbackSynced ==
  ASSUME TypeOK, Listing, Uncrossed, AllSynced, NEW c \in Client, Fallback(c),
         NEW k \in Kind, k \notin crossed' \cup unsaved'
  PROVE  Synced(k)'
<1>1. /\ part' = part /\ Only(c) /\ file' = file /\ pc[c] = "fallback" /\ part[c] = Account
      /\ catalog' = [catalog EXCEPT ![Account] = got[c]]
      /\ crossed' = crossed /\ unsaved' = unsaved
  BY OneMoves, FinishMoves DEF Fallback, Listing, disk, history
<1>2. Synced(k) /\ Single(k)
  BY <1>1 DEF AllSynced, Uncrossed
<1>3. pc'[c] \notin Busy \cup {"snapshot"}
  BY FinishMoves DEF Fallback, Busy
<1>4. CASE k # "devices"
  <2>1. \A p \in PartsOf(k) : catalog'[p] = catalog[p]
    BY <1>1, <1>4, KindsOfParts DEF PartsOf, TypeOK, Body
  <2> QED BY <1>1, <1>2, <1>3, <1>4, <2>1, KindsOfParts, SyncedStep
<1>5. CASE k = "devices"
  <2>1. Updating(c, k) /\ PartsOf(k) = {Account}
    BY <1>1, <1>5, KindsOfParts DEF Updating
  <2>2. Usable(k, file[k]) /\ got[c] = file[k][Account]
    BY <1>1, <1>2, <2>1 DEF Synced
  <2>3. \A d \in Client : ~Updating(d, k)'
    BY <1>1, <1>2, <1>3, <2>1 DEF Single, Updating, Only, Busy
  <2>4. catalog'[Account] = got[c]
    BY <1>1, Parts DEF TypeOK, Body
  <2>5. Primed(Account)' = got[c]
    BY <1>1, <1>5, <2>2, KindsOfParts DEF Primed
  <2> QED BY <2>1, <2>3, <2>4, <2>5 DEF Synced
<1> QED BY <1>4, <1>5

LEMMA SyncedInvariant ==
  ASSUME TypeOK, Asked, Savable, AllAlone, Listing, Uncrossed, AllSynced, [Next]_vars
  PROVE  AllSynced'
<1> SUFFICES ASSUME NEW k \in Kind, k \notin crossed' \cup unsaved' PROVE Synced(k)'
  BY DEF AllSynced
<1>1. ASSUME NEW c \in Client,
             Answer(c) \/ NoAnswer(c) \/ Diy(c) \/ NoDiy(c) \/ Stamp(c) \/ Gaps(c) \/ WarmNext(c)
      PROVE Synced(k)'
  <2>1. UNCHANGED <<file, catalog, crossed, unsaved>> /\ Only(c)
    BY <1>1, OneMoves DEF Answer, NoAnswer, Diy, NoDiy, Stamp, Gaps, WarmNext, disk, history
  <2>2. pc[c] \notin Busy \cup {"snapshot"}
    BY <1>1 DEF Answer, NoAnswer, Diy, NoDiy, Stamp, Gaps, WarmNext, Busy
  <2>3. pc'[c] \notin Busy \cup {"snapshot"}
    <3>1. CASE Finish(c, FALSE)
      BY <3>1, FinishMoves DEF Busy
    <3>2. CASE WarmNext(c)
      BY <3>2 DEF WarmNext, Begin, TypeOK, Busy
    <3> QED
      BY <1>1, <3>1, <3>2 DEF Answer, NoAnswer, Diy, NoDiy, Stamp, Gaps, TypeOK, Busy
  <2>4. Synced(k)
    BY <2>1 DEF AllSynced
  <2> QED BY <2>1, <2>2, <2>3, <2>4, SyncedStep
<1>2. ASSUME NEW c \in Handler,
             List(c) \/ Refresh(c) \/ \E l \in Lamp, r \in BOOLEAN : ListScenes(c, l, r)
      PROVE Synced(k)'
  <2>1. c \in Client /\ UNCHANGED <<catalog, file, crossed, unsaved>>
    BY <1>2, Parts DEF List, Refresh, ListScenes, disk, history
  <2>2. pc[c] = "idle" /\ pc'[c] = "ask" /\ Only(c)
    BY <1>2, <2>1 DEF List, Refresh, ListScenes, Begin, Only, TypeOK
  <2>3. Synced(k)
    BY <2>1 DEF AllSynced
  <2> QED BY <2>1, <2>2, <2>3, SyncedStep DEF Busy
<1>3. CASE Restart
  <2>1. \A c \in Client : ~Updating(c, k)'
    BY <1>3 DEF Restart, Updating
  <2>2. \A p \in PartsOf(k) : p \in Part /\ Primed(p)' = Primed(p)
    BY <1>3 DEF Restart, disk, Primed, PartsOf
  <2>3. \A p \in Part : catalog'[p] = Primed(p)
    BY <1>3 DEF Restart
  <2> QED BY <2>1, <2>2, <2>3 DEF Synced
<1>4. CASE UNCHANGED vars
  <2>1. UNCHANGED <<catalog, file, crossed, unsaved, pc, part, body, got>>
    BY <1>4 DEF vars, disk, locals, history
  <2>2. Synced(k)
    BY <2>1 DEF AllSynced
  <2> QED BY <2>1, <2>2, SyncedKept DEF Updating, Snapping
<1> QED
  BY <1>1, <1>2, <1>3, <1>4, TakeSynced, SaveSynced, FallbackSynced DEF Next, Takes

\* With no update under way the next start would find what memory holds, unless
\* a save failed or was skipped since the last start, or two clients crossed.
THEOREM TheFileCatchesUp == Spec => []FileCatchesUp
<1> DEFINE IInv ==
      TypeOK /\ Asked /\ Savable /\ AllAlone /\ Listing /\ Uncrossed /\ AllSynced
<1>1. Init => IInv
  <2> SUFFICES ASSUME Init PROVE IInv
    OBVIOUS
  <2>1. /\ \A c \in Client : pc[c] \in {"idle", "ask"} /\ op[c] = "refresh"
        /\ \A k \in Kind : file[k] = Missing
        /\ catalog = NoBody /\ overlapped = {} /\ saved = {}
    BY DEF Init
  <2>2. \A c \in Client, k \in Kind : ~Updating(c, k) /\ ~Writing(c, k)
    BY <2>1 DEF Updating, Writing
  <2>3. Asked /\ Savable /\ Listing
    BY <2>1 DEF Asked, Fetching, Savable, Listing
  <2>4. AllAlone /\ Uncrossed
    BY <2>1, <2>2 DEF AllAlone, Alone, Uncrossed, Single
  <2>5. \A k \in Kind : \A p \in PartsOf(k) : Primed(p) = catalog[p]
    BY <2>1, Parts, EntryFacts DEF Primed, Usable, NoBody
  <2>6. AllSynced
    BY <2>2, <2>5 DEF AllSynced, Synced
  <2> QED BY <2>3, <2>4, <2>6, InitType
<1>2. IInv /\ [Next]_vars => IInv'
  BY AskedInvariant, TypeInvariant, SavableInvariant, AloneInvariant, ListingInvariant,
     UncrossedInvariant, SyncedInvariant
<1>3. IInv => FileCatchesUp
  BY DEF FileCatchesUp, AllSynced, Synced, Snapping
<1> QED BY <1>1, <1>2, <1>3, PTL DEF Spec
=============================================================================
