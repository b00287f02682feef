---------------------------- MODULE CatalogCache ----------------------------
(***************************************************************************)
(* The catalogs of internal/govee: the account's device list and each       *)
(* lamp's scene list, kept in memory under cacheMu and, to survive a        *)
(* restart, in devices-cache.json and scenes-cache.json (client.go,         *)
(* devicecache.go, scenecache.go).                                          *)
(*                                                                          *)
(* A part is what one fetch brings: Account is the device list, a lamp is   *)
(* that lamp's scenes.  Handlers serve requests; Boot is the goroutine main *)
(* starts to bring the catalog up to date.  The cloud, the clock and the    *)
(* file system are external.  A file is written through the descriptor its  *)
(* Open returned: fd says under which name that file is reached now, so a   *)
(* descriptor follows its file through a rename.                            *)
(***************************************************************************)
EXTENDS Naturals

CONSTANTS Handler,       \* goroutines of the web server
          Boot,          \* the start-up goroutine
          Lamp,          \* lamps with scenes
          Account,
          None,          \* no part
          Missing, Blank, Torn,   \* a file that is not there, is empty, does not parse
          MaxAnswers,    \* bound on answers of the cloud
          MaxRestarts    \* bound on restarts

Client == Handler \cup {Boot}
Part == Lamp \cup {Account}
Kind == {"devices", "scenes"}
KindOf(p) == IF p = Account THEN "devices" ELSE "scenes"
PartsOf(k) == {p \in Part : KindOf(p) = k}

Time == 0 .. MaxAnswers

\* deviceCache and sceneEntry: what was fetched, the answer it came with, the
\* time it is stamped with, and is it a device list without devices.
Entry == [part : Part, answer : Time, at : Time, empty : BOOLEAN]
NoEntry == [part |-> None, answer |-> 0, at |-> 0, empty |-> TRUE]

\* The JSON text of a catalog file, or the state of a file that holds none.
Body == [Part -> Entry \cup {NoEntry}]
NoBody == [p \in Part |-> NoEntry]

ASSUME CatalogAssumption ==
  /\ Boot \notin Handler
  /\ Account \notin Lamp
  /\ None \notin Part
  /\ {Missing, Blank, Torn} \cap Body = {}
  /\ Missing # Blank /\ Missing # Torn /\ Blank # Torn
  /\ MaxAnswers \in Nat
  /\ MaxRestarts \in Nat

VARIABLES
  now,                     \* the clock: it moves with the cloud's answers
  catalog,                 \* c.devices with c.devicesFrom, and c.scenes
  file, tmp,               \* per kind: the cache file and its .tmp
  pc, op, part,            \* per client: its step, its call, the part it asks for
  got, body, fd,           \* what it holds: an entry, a text, an open file
  todo,                    \* WarmSceneCache: the lamps still missing
  restarts,
  \* history, read by no guard
  fetched,                 \* entries that came from the cloud
  saved,                   \* parts some file that was renamed into place held
  overlapped,              \* kinds whose .tmp was opened during another write of it
  crossed,                 \* kinds two clients were updating at once
  unsaved,                 \* kinds with a save that failed, or was skipped, since the start
  floor                    \* per part: the answer the last start primed it with

disk    == <<file, tmp>>
locals  == <<pc, op, part, got, body, fd, todo>>
history == <<fetched, saved, overlapped, crossed, unsaved, floor>>
vars    == <<now, catalog, disk, locals, restarts, history>>

TypeOK ==
  /\ now \in Time
  /\ catalog \in Body
  /\ file \in [Kind -> Body \cup {Missing, Blank, Torn}]
  /\ tmp \in [Kind -> Body \cup {Missing, Blank, Torn}]
  /\ pc \in [Client -> {"idle", "ask", "diy", "only diy", "answered", "stamped", "snapshot", "open",
                        "write", "rename", "load", "fallback", "gaps", "warm", "done"}]
  /\ op \in [Client -> {"list", "refresh", "scenes"}]
  /\ part \in [Client -> Part]
  /\ got \in [Client -> Entry \cup {NoEntry}]
  /\ body \in [Client -> Body]
  /\ fd \in [Client -> {"none", "tmp", "file", "gone"}]
  /\ todo \in [Client -> SUBSET Lamp]
  /\ restarts \in 0 .. MaxRestarts
  /\ fetched \subseteq Entry
  /\ saved \subseteq Part
  /\ overlapped \subseteq Kind
  /\ crossed \subseteq Kind
  /\ unsaved \subseteq Kind
  /\ floor \in [Part -> Time]

-----------------------------------------------------------------------------
(* Reading a cache file.                                                   *)

\* loadDeviceCache, loadSceneCache: the file is there, parses and is not empty.
Usable(k, text) ==
  /\ text \in Body
  /\ \E p \in PartsOf(k) : text[p] # NoEntry /\ (p = Account => ~text[p].empty)

\* Mutant of Primed: what is loaded is stamped with the time of the load.
PrimedAsNow(p) ==
  LET k == KindOf(p) IN
  IF Usable(k, file[k]) /\ file[k][p] # NoEntry THEN [file[k][p] EXCEPT !.at = now] ELSE NoEntry

\* EnableDeviceCache, EnableSceneCache: prime memory from what a file holds.
Primed(p) == IF Usable(KindOf(p), file[KindOf(p)]) THEN file[KindOf(p)][p] ELSE NoEntry

\* A client that has taken what it will put into a file of kind k, or into memory.
Updating(c, k) == pc[c] \in {"open", "write", "rename", "fallback"} /\ KindOf(part[c]) = k

Writing(c, k) == pc[c] \in {"write", "rename"} /\ KindOf(part[c]) = k

Cross(k) == crossed' = crossed \cup {j \in {k} : \E d \in Client : Updating(d, k)}

Init ==
  /\ now = 0
  /\ catalog = NoBody
  /\ file = [k \in Kind |-> Missing]
  /\ tmp = [k \in Kind |-> Missing]
  /\ pc = [c \in Client |-> IF c = Boot THEN "ask" ELSE "idle"]
  /\ op = [c \in Client |-> "refresh"]
  /\ part = [c \in Client |-> Account]
  /\ got = [c \in Client |-> NoEntry]
  /\ body = [c \in Client |-> NoBody]
  /\ fd = [c \in Client |-> "none"]
  /\ todo = [c \in Client |-> {}]
  /\ restarts = 0
  /\ fetched = {}
  /\ saved = {}
  /\ overlapped = {}
  /\ crossed = {}
  /\ unsaved = {}
  /\ floor = [p \in Part |-> 0]

-----------------------------------------------------------------------------
(* A request: the call, the cloud's answer, the entry in memory.           *)

\* saveDeviceCache keeps an empty list out of the file.
KeptOut(e) == e.empty

\* Are the scenes of lamp l to be fetched?
NoScenes(l) == catalog[l] = NoEntry

\* Mutant of SceneMap: only those just fetched.
SceneMapOfOne(l) == [NoBody EXCEPT ![l] = catalog[l]]

\* saveSceneCache writes every lamp's scenes.
SceneMap(l) == [catalog EXCEPT ![Account] = NoEntry]

\* Client c asks the cloud about part p, for call o.
Begin(c, o, p) ==
  /\ pc' = [pc EXCEPT ![c] = "ask"]
  /\ op' = [op EXCEPT ![c] = o]
  /\ part' = [part EXCEPT ![c] = p]

\* The call of c is over: Boot stops after a failed refresh, else it warms the
\* lamps; a handler has answered its request.
Finish(c, ok) ==
  LET next == CASE c # Boot -> "idle"
                [] c = Boot /\ op[c] = "scenes" -> "warm"
                [] c = Boot /\ op[c] # "scenes" -> IF ok THEN "gaps" ELSE "done"
  IN /\ pc' = [pc EXCEPT ![c] = next]
     /\ got' = [got EXCEPT ![c] = IF next = "gaps" THEN @ ELSE NoEntry]
     /\ body' = [body EXCEPT ![c] = NoBody]
     /\ UNCHANGED <<op, part, todo>>

\* ListDevices with nothing in memory (a hit changes nothing), RefreshDevices,
\* ListScenes that misses or is told to refresh.
List(c) ==
  /\ pc[c] = "idle"
  /\ catalog[Account] = NoEntry
  /\ Begin(c, "list", Account)
  /\ UNCHANGED <<now, catalog, disk, got, body, fd, todo, restarts, history>>

Refresh(c) ==
  /\ pc[c] = "idle"
  /\ Begin(c, "refresh", Account)
  /\ UNCHANGED <<now, catalog, disk, got, body, fd, todo, restarts, history>>

ListScenes(c, l, refresh) ==
  /\ pc[c] = "idle"
  /\ refresh \/ NoScenes(l)
  /\ Begin(c, "scenes", l)
  /\ UNCHANGED <<now, catalog, disk, got, body, fd, todo, restarts, history>>

\* do: the cloud answers.  A device list may be empty; after the scenes, if any,
\* ListScenes asks for the DIY ones.
Answer(c) ==
  /\ pc[c] = "ask"
  /\ now < MaxAnswers
  /\ now' = now + 1
  /\ \E next \in IF part[c] = Account THEN {"answered"} ELSE {"diy", "only diy"},
        empty \in BOOLEAN :
       /\ empty => part[c] = Account
       /\ pc' = [pc EXCEPT ![c] = next]
       /\ got' = [got EXCEPT ![c] = [part |-> part[c], answer |-> now', at |-> 0,
                                     empty |-> empty]]
  /\ UNCHANGED <<catalog, disk, op, part, body, fd, todo, restarts, history>>

\* The DIY scenes join the list, or it does without them unless it has no others.
Diy(c) ==
  /\ pc[c] \in {"diy", "only diy"}
  /\ pc' = [pc EXCEPT ![c] = "stamped"]
  /\ UNCHANGED <<now, catalog, disk, op, part, got, body, fd, todo, restarts, history>>

NoDiy(c) ==
  /\ pc[c] = "only diy"
  /\ Finish(c, FALSE)
  /\ UNCHANGED <<now, catalog, disk, fd, restarts, history>>

\* do: no answer, or one whose code is not 200.  ListDevices turns to the file.
NoAnswer(c) ==
  /\ pc[c] = "ask"
  /\ IF op[c] = "list"
     THEN /\ pc' = [pc EXCEPT ![c] = "load"]
          /\ UNCHANGED <<op, part, got, body, todo>>
     ELSE Finish(c, FALSE)
  /\ UNCHANGED <<now, catalog, disk, fd, restarts, history>>

\* Mutant of Stamp: the time is rounded up.
StampRoundedUp(c) ==
  /\ pc[c] = "answered"
  /\ got' = [got EXCEPT ![c].at = now + 1]
  /\ pc' = [pc EXCEPT ![c] = "stamped"]
  /\ UNCHANGED <<now, catalog, disk, op, part, body, fd, todo, restarts, history>>

\* RefreshDevices reads the clock before it takes the lock.
Stamp(c) ==
  /\ pc[c] = "answered"
  /\ got' = [got EXCEPT ![c].at = now]
  /\ pc' = [pc EXCEPT ![c] = "stamped"]
  /\ UNCHANGED <<now, catalog, disk, op, part, body, fd, todo, restarts, history>>

\* RefreshDevices, the store: what it will save is what it fetched, an empty
\* list is not saved.
StoreDevices(c) ==
  /\ pc[c] = "stamped" /\ part[c] = Account
  /\ catalog' = [catalog EXCEPT ![Account] = got[c]]
  /\ fetched' = fetched \cup {got[c]}
  /\ IF KeptOut(got[c])
     THEN Finish(c, TRUE) /\ unsaved' = unsaved \cup {"devices"}
     ELSE /\ pc' = [pc EXCEPT ![c] = "open"]
          /\ body' = [body EXCEPT ![c][Account] = got[c]]
          /\ UNCHANGED unsaved
          /\ UNCHANGED <<op, part, got, todo>>
  /\ Cross("devices")
  /\ UNCHANGED <<now, disk, fd, restarts, saved, overlapped, floor>>

\* ListScenes, the store: the clock is read under the lock.
StoreScenes(c) ==
  /\ pc[c] = "stamped" /\ part[c] # Account
  /\ LET entry == [got[c] EXCEPT !.at = now] IN
     /\ catalog' = [catalog EXCEPT ![part[c]] = entry]
     /\ fetched' = fetched \cup {entry}
  /\ pc' = [pc EXCEPT ![c] = "snapshot"]
  /\ UNCHANGED <<now, disk, op, part, got, body, fd, todo, restarts, saved, overlapped,
                 crossed, unsaved, floor>>

\* saveSceneCache copies the map under a read lock of its own.
Snapshot(c) ==
  /\ pc[c] = "snapshot"
  /\ body' = [body EXCEPT ![c] = SceneMap(part[c])]
  /\ pc' = [pc EXCEPT ![c] = "open"]
  /\ Cross("scenes")
  /\ UNCHANGED <<now, catalog, disk, op, part, got, fd, todo, restarts, fetched, saved,
                 overlapped, unsaved, floor>>

-----------------------------------------------------------------------------
(* os.WriteFile to the one .tmp name of the kind, then os.Rename.           *)

FileKind(c) == KindOf(part[c])

\* Open descriptors once .tmp is renamed over the cache file, or removed.
FdRenamed(d) == CASE fd[d] = "tmp" -> "file"
                  [] fd[d] = "file" -> "gone"
                  [] OTHER -> fd[d]
FdRemoved(d) == IF fd[d] = "tmp" THEN "gone" ELSE fd[d]

\* Mutant of Truncate: the cache file itself is opened.
TruncateInPlace(c) ==
  /\ file' = [file EXCEPT ![FileKind(c)] = Blank]
  /\ fd' = [fd EXCEPT ![c] = "file"]
  /\ UNCHANGED tmp

\* os.OpenFile with O_CREATE and O_TRUNC.
Truncate(c) ==
  /\ tmp' = [tmp EXCEPT ![FileKind(c)] = Blank]
  /\ fd' = [fd EXCEPT ![c] = "tmp"]
  /\ UNCHANGED file

OpenTmp(c) ==
  LET k == FileKind(c) IN
  /\ pc[c] = "open"
  /\ Truncate(c)
  /\ pc' = [pc EXCEPT ![c] = "write"]
  /\ overlapped' = overlapped \cup {j \in {k} : \E d \in Client : Writing(d, k)}
  /\ UNCHANGED <<now, catalog, op, part, got, body, todo, restarts, fetched, saved,
                 crossed, unsaved, floor>>

\* The text lands in the file the descriptor reaches: over whatever another
\* save has put there since it was opened.
Put(c, text) ==
  LET k == FileKind(c) IN
  /\ tmp' = IF fd[c] = "tmp" THEN [tmp EXCEPT ![k] = text] ELSE tmp
  /\ file' = IF fd[c] = "file" THEN [file EXCEPT ![k] = text] ELSE file

Write(c) ==
  LET k == FileKind(c)
      there == CASE fd[c] = "tmp" -> tmp[k] [] fd[c] = "file" -> file[k] [] OTHER -> Blank
  IN /\ pc[c] = "write"
     /\ \E text \in {body[c]} \cup (IF there = Blank THEN {} ELSE {Torn}) : Put(c, text)
     /\ fd' = [fd EXCEPT ![c] = "none"]
     /\ pc' = [pc EXCEPT ![c] = "rename"]
     /\ UNCHANGED <<now, catalog, op, part, got, body, todo, restarts, history>>

\* The .tmp cannot be opened: nothing was written.
CannotOpen(c) ==
  /\ pc[c] = "open"
  /\ Finish(c, TRUE)
  /\ unsaved' = unsaved \cup {FileKind(c)}
  /\ UNCHANGED <<now, catalog, disk, fd, restarts, fetched, saved, overlapped, crossed, floor>>

\* The disk is full: part of the text is in the file and stays there.
WriteFails(c) ==
  /\ pc[c] = "write"
  /\ Put(c, Torn)
  /\ fd' = [fd EXCEPT ![c] = "none"]
  /\ Finish(c, TRUE)
  /\ unsaved' = unsaved \cup {FileKind(c)}
  /\ UNCHANGED <<now, catalog, restarts, fetched, saved, overlapped, crossed, floor>>

\* Without a .tmp the rename fails and so does the
\* removal that follows it.
Rename(c) ==
  LET k == FileKind(c) IN
  /\ pc[c] = "rename"
  /\ tmp[k] # Missing
  /\ file' = [file EXCEPT ![k] = tmp[k]]
  /\ tmp' = [tmp EXCEPT ![k] = Missing]
  /\ fd' = [d \in Client |-> IF KindOf(part[d]) = k THEN FdRenamed(d) ELSE fd[d]]
  /\ saved' = saved \cup {p \in PartsOf(k) : tmp[k] \in Body /\ tmp[k][p] # NoEntry}
  /\ Finish(c, TRUE)
  /\ UNCHANGED <<now, catalog, restarts, fetched, overlapped, crossed, unsaved, floor>>

RenameFails(c) ==
  LET k == FileKind(c) IN
  /\ pc[c] = "rename"
  /\ tmp' = [tmp EXCEPT ![k] = Missing]
  /\ fd' = [d \in Client |-> IF KindOf(part[d]) = k THEN FdRemoved(d) ELSE fd[d]]
  /\ Finish(c, TRUE)
  /\ unsaved' = unsaved \cup {k}
  /\ UNCHANGED <<now, catalog, file, restarts, fetched, saved, overlapped, crossed, floor>>

-----------------------------------------------------------------------------
(* ListDevices without the cloud: the file, then memory.                    *)

Load(c) ==
  /\ pc[c] = "load"
  /\ IF Usable("devices", file["devices"])
     THEN /\ got' = [got EXCEPT ![c] = file["devices"][Account]]
          /\ pc' = [pc EXCEPT ![c] = "fallback"]
          /\ Cross("devices")
          /\ UNCHANGED <<op, part, body, todo>>
     ELSE Finish(c, FALSE) /\ UNCHANGED crossed
  /\ UNCHANGED <<now, catalog, disk, fd, restarts, fetched, saved, overlapped, unsaved, floor>>

Fallback(c) ==
  /\ pc[c] = "fallback"
  /\ catalog' = [catalog EXCEPT ![Account] = got[c]]
  /\ Finish(c, TRUE)
  /\ UNCHANGED <<now, disk, fd, restarts, history>>

-----------------------------------------------------------------------------
(* Boot: WarmSceneCache, after a refresh that brought the lamps.            *)

Gaps(c) ==
  /\ pc[c] = "gaps"
  /\ todo' = [todo EXCEPT ![c] = IF got[c].empty THEN {}
                                 ELSE {l \in Lamp : NoScenes(l)}]
  /\ got' = [got EXCEPT ![c] = NoEntry]
  /\ pc' = [pc EXCEPT ![c] = "warm"]
  /\ UNCHANGED <<now, catalog, disk, op, part, body, fd, restarts, history>>

\* One lamp of the list: fetched unless somebody else did meanwhile.
WarmNext(c) ==
  /\ pc[c] = "warm"
  /\ IF todo[c] = {}
     THEN pc' = [pc EXCEPT ![c] = "done"] /\ UNCHANGED <<op, part, todo>>
     ELSE \E l \in todo[c] :
            /\ todo' = [todo EXCEPT ![c] = @ \ {l}]
            /\ IF NoScenes(l)
               THEN Begin(c, "scenes", l)
               ELSE UNCHANGED <<pc, op, part>>
  /\ UNCHANGED <<now, catalog, disk, got, body, fd, restarts, history>>

\* The process dies at any point and starts again: Enable primes memory from
\* the files, Boot asks the cloud.
Restart ==
  /\ restarts < MaxRestarts
  /\ restarts' = restarts + 1
  /\ catalog' = [p \in Part |-> Primed(p)]
  /\ floor' = [p \in Part |-> Primed(p).answer]
  /\ pc' = [c \in Client |-> IF c = Boot THEN "ask" ELSE "idle"]
  /\ op' = [c \in Client |-> "refresh"]
  /\ part' = [c \in Client |-> Account]
  /\ got' = [c \in Client |-> NoEntry]
  /\ body' = [c \in Client |-> NoBody]
  /\ fd' = [c \in Client |-> "none"]
  /\ todo' = [c \in Client |-> {}]
  /\ unsaved' = {}
  /\ UNCHANGED <<now, disk, fetched, saved, overlapped, crossed>>

Next ==
  \/ \E c \in Client :
       \/ Answer(c) \/ NoAnswer(c) \/ Diy(c) \/ NoDiy(c) \/ Stamp(c)
       \/ StoreDevices(c) \/ StoreScenes(c) \/ Snapshot(c) \/ CannotOpen(c) \/ OpenTmp(c) \/ Write(c) \/ WriteFails(c)
       \/ Rename(c) \/ RenameFails(c) \/ Load(c) \/ Fallback(c) \/ Gaps(c) \/ WarmNext(c)
  \/ \E c \in Handler :
       \/ List(c) \/ Refresh(c)
       \/ \E l \in Lamp, refresh \in BOOLEAN : ListScenes(c, l, refresh)
  \/ Restart

Spec == Init /\ [][Next]_vars

-----------------------------------------------------------------------------
(* Properties.                                                             *)

\* Whatever memory or a cache file holds came from the cloud in one piece: the
\* list, the time it was fetched at (devicecache.go:31, not the time it was
\* written or loaded), and for a scene list the lamp it was fetched for.
CatalogsAreFetched ==
  \A p \in Part :
    LET held == {catalog[p]} \cup {text[p] : text \in {file[k] : k \in {j \in Kind : file[j] \in Body}}}
    IN \A e \in held \ {NoEntry} : e \in fetched /\ e.part = p

\* A catalog that was saved once is there, whole, at every later start, however
\* saves fail, the process dies or the account comes back empty; only two saves
\* that write the one .tmp together can tear it (devicecache.go:85).
SavedCatalogSurvives ==
  \A k \in Kind \ overlapped :
    /\ file[k] \in Body \cup {Missing}
    /\ saved \cap PartsOf(k) # {} => Usable(k, file[k])

\* Neither the fallback of ListDevices nor a save of what an earlier process
\* left behind takes the running process, or the next one, back behind what this
\* process was primed with (client.go:392).
NothingOlderThanStart ==
  \A p \in Part :
    /\ catalog[p].answer >= floor[p]
    /\ file[KindOf(p)] \in Body => file[KindOf(p)][p].answer >= floor[p]

\* With no update under way the next start would find what memory holds, unless a
\* save failed or was skipped, or two clients crossed.
FileCatchesUp ==
  \A k \in Kind :
    \/ k \in crossed \cup unsaved
    \/ \E c \in Client : Updating(c, k) \/ (pc[c] = "snapshot" /\ KindOf(part[c]) = k)
    \/ \A p \in PartsOf(k) : Primed(p) = catalog[p]

=============================================================================
