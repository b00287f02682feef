-------------------------- MODULE ConfigStoreProofs --------------------------
(***************************************************************************)
(* Theorems about the configuration for every set of handlers, mappings,    *)
(* tokens, windows and zones, and every file an operator may have written.  *)
(*                                                                          *)
(* A request does one thing to the state: it gives its handler a copy of    *)
(* the live configuration, changed.  RequestCopies says what every such     *)
(* copy keeps; the invariants are proved from that and from the steps of    *)
(* Start and Save.                                                          *)
(***************************************************************************)
EXTENDS ConfigStore, TLAPS

-----------------------------------------------------------------------------
(* Configurations. *)

NoPlaintext(c) == c.key # "plain" /\ \A t \in Token : c.tokens[t] # "plain"

LEMMA MigratedType ==
  ASSUME NEW c \in Config
  PROVE  /\ Migrated(c) \in Config
         /\ NoPlaintext(Migrated(c))
         /\ NoPlaintext(c) => Migrated(c) = c
         /\ NamesItsTokens(c) => NamesItsTokens(Migrated(c))
         /\ Migrated(c).quiet = c.quiet
<1>1. /\ c.key \in Secret
      /\ c.tokens \in [Token -> Secret]
      /\ c.mappings \in [MappingId -> Token \cup {AnyToken, NoMapping}]
  BY DEF Config
<1>2. /\ Encrypted(c.key) \in Secret \ {"plain"}
      /\ \A t \in Token : Encrypted(c.tokens[t]) \in Secret \ {"plain"}
  BY <1>1 DEF Encrypted, Secret
<1>3. Migrated(c) \in Config
  BY <1>2 DEF Migrated, Config
<1>4. /\ Migrated(c).key = Encrypted(c.key)
      /\ Migrated(c).tokens = [t \in Token |-> Encrypted(c.tokens[t])]
      /\ Migrated(c).mappings = c.mappings
      /\ Migrated(c).quiet = c.quiet
  BY DEF Migrated, Config
<1>5. NoPlaintext(Migrated(c))
  BY <1>2, <1>4 DEF NoPlaintext
<1>6. ASSUME NoPlaintext(c) PROVE Migrated(c) = c
  <2>1. Encrypted(c.key) = c.key
    BY <1>6 DEF NoPlaintext, Encrypted
  <2>2. [t \in Token |-> Encrypted(c.tokens[t])] = c.tokens
    BY <1>1, <1>6 DEF NoPlaintext, Encrypted
  <2> QED BY <2>1, <2>2 DEF Migrated, Config
<1>7. ASSUME NamesItsTokens(c) PROVE NamesItsTokens(Migrated(c))
  <2>1. \A t \in Token : Named(c, t) => Named(Migrated(c), t)
    BY <1>4 DEF Named, Encrypted
  <2> QED BY <1>1, <1>4, <1>7, <2>1 DEF NamesItsTokens
<1> QED BY <1>3, <1>4, <1>5, <1>6, <1>7

LEMMA DefaultType ==
  /\ DefaultConfig \in Config
  /\ NoPlaintext(DefaultConfig)
  /\ NamesItsTokens(DefaultConfig)
  BY DEF DefaultConfig, Config, Secret, NoPlaintext, NamesItsTokens

LEMMA KeyAndQuiet ==
  ASSUME NEW c \in Config, NEW x, NEW z
  PROVE  [c EXCEPT !.key = x, !.quiet = z] =
           [key |-> x, tokens |-> c.tokens, mappings |-> c.mappings, quiet |-> z,
            scenes |-> c.scenes]
<1>1. [c EXCEPT !.key = x] =
        [key |-> x, tokens |-> c.tokens, mappings |-> c.mappings, quiet |-> c.quiet,
         scenes |-> c.scenes]
  BY DEF Config
<1> DEFINE f == [key |-> x, tokens |-> c.tokens, mappings |-> c.mappings, quiet |-> c.quiet,
                 scenes |-> c.scenes]
<1>2. [f EXCEPT !.quiet = z] =
        [key |-> x, tokens |-> c.tokens, mappings |-> c.mappings, quiet |-> z,
         scenes |-> c.scenes]
  OBVIOUS
<1>3. [c EXCEPT !.key = x, !.quiet = z] = [[c EXCEPT !.key = x] EXCEPT !.quiet = z]
  OBVIOUS
<1>4. [c EXCEPT !.key = x] = f
  BY <1>1
<1> HIDE DEF f
<1> QED BY <1>2, <1>3, <1>4

LEMMA SettingsCopy ==
  ASSUME NEW c \in Config, NoPlaintext(c), NEW k \in BOOLEAN,
         NEW w \in QuietHours \cup {NoQuiet}
  PROVE  LET d == Updated(c, k, w) IN
         /\ d \in Config
         /\ NoPlaintext(d)
         /\ NamesItsTokens(c) => NamesItsTokens(d)
         /\ ~NamesZone(w) => ZoneOf(d) = ZoneOf(c)
<1> DEFINE z == IF w = NoQuiet THEN c.quiet
                ELSE IF w.zone = NoZone THEN [w EXCEPT !.zone = ZoneOf(c)] ELSE w
           e == [c EXCEPT !.key = IF k THEN "enc" ELSE c.key, !.quiet = z]
<1>1. Updated(c, k, w) = e
  BY DEF Updated
<1>2. e = [key |-> IF k THEN "enc" ELSE c.key, tokens |-> c.tokens,
           mappings |-> c.mappings, quiet |-> z, scenes |-> c.scenes]
  <2> HIDE DEF z
  <2> QED BY KeyAndQuiet
<1>3. c.quiet \in QuietHours \cup {NoQuiet} /\ ZoneOf(c) \in Zone \cup {NoZone}
  BY DEF Config, QuietHours, ZoneOf
<1>4. CASE w = NoQuiet
  <2>1. z = c.quiet
    BY <1>4
  <2> HIDE DEF z
  <2>2. e \in Config
    BY <1>2, <1>3, <2>1 DEF Config, Secret
  <2>3. ZoneOf(e) = ZoneOf(c)
    BY <1>2, <2>1 DEF ZoneOf
  <2> QED BY <1>1, <1>2, <2>2, <2>3 DEF NoPlaintext, NamesItsTokens, Named
<1>5. CASE w # NoQuiet
  <2>1. w \in QuietHours
    BY <1>5
  <2>2. z \in QuietHours /\ (~NamesZone(w) => z.zone = ZoneOf(c))
    <3>1. CASE w.zone = NoZone
      <4>1. z = [window |-> w.window, zone |-> ZoneOf(c)]
        BY <1>5, <2>1, <3>1 DEF QuietHours
      <4> QED BY <1>3, <2>1, <4>1 DEF QuietHours
    <3>2. CASE w.zone # NoZone
      BY <1>5, <2>1, <3>2 DEF NamesZone
    <3> QED BY <3>1, <3>2
  <2> HIDE DEF z
  <2>3. z # NoQuiet
    BY <2>2, ConfigAssumption
  <2>4. e \in Config
    BY <1>2, <2>2 DEF Config, Secret
  <2>5. ~NamesZone(w) => ZoneOf(e) = ZoneOf(c)
    BY <1>2, <2>2, <2>3 DEF ZoneOf
  <2> QED BY <1>1, <1>2, <2>4, <2>5 DEF NoPlaintext, NamesItsTokens, Named
<1> QED BY <1>4, <1>5

\* What a handler's copy keeps of the live configuration: its timezone too, unless
\* the request names one.
LEMMA RequestCopies ==
  ASSUME TypeOK, mode = "up", NoPlaintext(live), NEW h \in Handler, Request(h)
  PROVE  \E c \in Config :
           /\ Copy(h, c)
           /\ hot' \subseteq Handler /\ named \subseteq named' /\ named' \subseteq Handler
           /\ NoPlaintext(c)
           /\ NamesItsTokens(live) => NamesItsTokens(c)
           /\ h \in named' \/ ZoneOf(c) = ZoneOf(live)
<1>0. live \in Config /\ hot \subseteq Handler /\ named \subseteq Handler
  BY DEF TypeOK
<1>1. ASSUME NEW m \in MappingId, NEW t \in Token \cup {AnyToken},
             MappingCreate(h, m, t) \/ MappingUpdate(h, m, t)
      PROVE  LET c == [live EXCEPT !.mappings[m] = t] IN
             /\ c \in Config /\ Copy(h, c) /\ hot' \subseteq Handler /\ NoPlaintext(c)
             /\ named \subseteq named' /\ named' \subseteq Handler
             /\ NamesItsTokens(live) => NamesItsTokens(c)
             /\ h \in named' \/ ZoneOf(c) = ZoneOf(live)
  <2> DEFINE c == [live EXCEPT !.mappings[m] = t]
  <2>1. c \in Config
    BY <1>0 DEF Config
  <2>2. c.mappings = [live.mappings EXCEPT ![m] = t] /\ c.key = live.key
        /\ c.tokens = live.tokens /\ c.quiet = live.quiet
    BY <1>0 DEF Config
  <2>3. t = AnyToken \/ Named(live, t)
    BY <1>1 DEF MappingCreate, MappingUpdate, TokenFound
  <2>4. NamesItsTokens(live) => NamesItsTokens(c)
    BY <1>0, <2>2, <2>3 DEF NamesItsTokens, Named, Config
  <2>5. Copy(h, c) /\ hot' = hot /\ named' = named
    BY <1>1 DEF MappingCreate, MappingUpdate
  <2> QED BY <1>0, <2>1, <2>2, <2>4, <2>5 DEF NoPlaintext, ZoneOf
<1>2. ASSUME NEW m \in MappingId, MappingDelete(h, m)
      PROVE  LET c == [live EXCEPT !.mappings[m] = NoMapping] IN
             /\ c \in Config /\ Copy(h, c) /\ hot' \subseteq Handler /\ NoPlaintext(c)
             /\ named \subseteq named' /\ named' \subseteq Handler
             /\ NamesItsTokens(live) => NamesItsTokens(c)
             /\ h \in named' \/ ZoneOf(c) = ZoneOf(live)
  <2> DEFINE c == [live EXCEPT !.mappings[m] = NoMapping]
  <2>1. c \in Config
    BY <1>0 DEF Config
  <2>2. c.mappings = [live.mappings EXCEPT ![m] = NoMapping] /\ c.key = live.key
        /\ c.tokens = live.tokens /\ c.quiet = live.quiet
    BY <1>0 DEF Config
  <2>3. NamesItsTokens(live) => NamesItsTokens(c)
    BY <1>0, <2>2 DEF NamesItsTokens, Named, Config
  <2>4. Copy(h, c) /\ hot' = hot /\ named' = named
    BY <1>2 DEF MappingDelete
  <2> QED BY <1>0, <2>1, <2>2, <2>3, <2>4 DEF NoPlaintext, ZoneOf
<1>3. ASSUME NEW t \in Token, NEW s \in {"enc", "none"},
             \/ s = "enc" /\ TokenCreate(h, t)
             \/ s = "none" /\ TokenDelete(h, t)
      PROVE  LET c == [live EXCEPT !.tokens[t] = s] IN
             /\ c \in Config /\ Copy(h, c) /\ hot' \subseteq Handler /\ NoPlaintext(c)
             /\ named \subseteq named' /\ named' \subseteq Handler
             /\ NamesItsTokens(live) => NamesItsTokens(c)
             /\ h \in named' \/ ZoneOf(c) = ZoneOf(live)
  <2> DEFINE c == [live EXCEPT !.tokens[t] = s]
  <2>1. c \in Config
    BY <1>0 DEF Config, Secret
  <2>2. c.tokens = [live.tokens EXCEPT ![t] = s] /\ c.key = live.key
        /\ c.mappings = live.mappings /\ c.quiet = live.quiet
    BY <1>0 DEF Config
  <2>3. live.tokens \in [Token -> Secret]
    BY <1>0 DEF Config
  <2>4. s = "enc" \/ \A m \in MappingId : live.mappings[m] # t
    BY <1>3 DEF TokenDelete
  <2>5. ASSUME NamesItsTokens(live), NEW m \in MappingId
        PROVE  c.mappings[m] \in {AnyToken, NoMapping} \/ Named(c, c.mappings[m])
    <3>1. CASE live.mappings[m] = t
      BY <2>2, <2>3, <2>4, <3>1 DEF Named
    <3>2. CASE live.mappings[m] # t
      BY <1>0, <2>2, <2>3, <2>5, <3>2 DEF NamesItsTokens, Named, Config
    <3> QED BY <3>1, <3>2
  <2>6. NamesItsTokens(live) => NamesItsTokens(c)
    BY <2>5 DEF NamesItsTokens
  <2>7. NoPlaintext(c)
    BY <2>2, <2>3 DEF NoPlaintext
  <2>8. Copy(h, c) /\ hot' = hot /\ named' = named
    BY <1>3 DEF TokenCreate, TokenDelete
  <2> QED BY <1>0, <2>1, <2>2, <2>6, <2>7, <2>8 DEF ZoneOf
<1>4. ASSUME NEW d \in Device, NEW assigned \in BOOLEAN, SceneSet(h, d, assigned)
      PROVE  LET c == [live EXCEPT !.scenes = IF assigned THEN @ \cup {d} ELSE @ \ {d}] IN
             /\ c \in Config /\ Copy(h, c) /\ hot' \subseteq Handler /\ NoPlaintext(c)
             /\ named \subseteq named' /\ named' \subseteq Handler
             /\ NamesItsTokens(live) => NamesItsTokens(c)
             /\ h \in named' \/ ZoneOf(c) = ZoneOf(live)
  <2> DEFINE c == [live EXCEPT !.scenes = IF assigned THEN @ \cup {d} ELSE @ \ {d}]
  <2>1. c \in Config
    BY <1>0 DEF Config
  <2>2. c.mappings = live.mappings /\ c.key = live.key
        /\ c.tokens = live.tokens /\ c.quiet = live.quiet
    BY <1>0 DEF Config
  <2>3. Copy(h, c) /\ hot' = hot /\ named' = named
    BY <1>4 DEF SceneSet
  <2> QED BY <1>0, <2>1, <2>2, <2>3 DEF NoPlaintext, ZoneOf, NamesItsTokens, Named
<1>5. ASSUME NEW k \in BOOLEAN, NEW w \in QuietHours \cup {NoQuiet}, SettingsUpdate(h, k, w)
      PROVE  LET c == Updated(live, k, w) IN
             /\ c \in Config /\ Copy(h, c) /\ hot' \subseteq Handler /\ NoPlaintext(c)
             /\ named \subseteq named' /\ named' \subseteq Handler
             /\ NamesItsTokens(live) => NamesItsTokens(c)
             /\ h \in named' \/ ZoneOf(c) = ZoneOf(live)
  <2>1. /\ Copy(h, Updated(live, k, w)) /\ hot' = hot \cup {h}
        /\ named' = IF NamesZone(w) THEN named \cup {h} ELSE named
    BY <1>5 DEF SettingsUpdate
  <2> QED BY <1>0, <2>1, SettingsCopy
<1>6. CASE \E m \in MappingId, t \in Token \cup {AnyToken} :
             MappingCreate(h, m, t) \/ MappingUpdate(h, m, t)
  BY <1>1, <1>6
<1>7. CASE \E m \in MappingId : MappingDelete(h, m)
  BY <1>2, <1>7
<1>8. CASE \E t \in Token : TokenCreate(h, t) \/ TokenDelete(h, t)
  BY <1>3, <1>8
<1>9. CASE \E d \in Device, assigned \in BOOLEAN : SceneSet(h, d, assigned)
  BY <1>4, <1>9
<1>10. CASE \E newKey \in BOOLEAN, newQuiet \in QuietHours \cup {NoQuiet} :
              SettingsUpdate(h, newKey, newQuiet)
  BY <1>5, <1>10
<1> QED BY <1>6, <1>7, <1>8, <1>9, <1>10 DEF Request

-----------------------------------------------------------------------------
(* The file and the memory. *)

Loaded == mode \in {"migrating", "up"}

\* What is in memory holds no plaintext, and the file is what is in memory or
\* half-written.
FileInv ==
  /\ Loaded => live \in Config /\ NoPlaintext(live)
  /\ \A h \in Handler : stage[h] # "idle" => draft[h] \in Config /\ NoPlaintext(draft[h])
  /\ Loaded /\ Parses(file) => Migrated(file) = live

IInv == TypeOK /\ FileInv

LEMMA Constants ==
  /\ \A c \in Config : c # NoConfig /\ Parses(c)
  /\ ~Parses(Broken) /\ ~Parses(Missing)
  BY ConfigAssumption DEF Parses

LEMMA InitInv == Init => IInv
<1> SUFFICES ASSUME Init PROVE IInv
  OBVIOUS
<1>1. file \in Config \cup {Missing, Broken}
  BY FilesAssumption DEF Init
<1>2. 0 \in 0 .. MaxCrashes
  BY ConfigAssumption
<1> QED BY <1>1, <1>2 DEF Init, IInv, TypeOK, FileInv, Loaded

LEMMA StartInv ==
  ASSUME IInv, Start
  PROVE  IInv'
<1>0. mode # "up" => \A h \in Handler : stage[h] = "idle"
  BY DEF IInv, TypeOK
<1>1. CASE Load
  <2>1. file \in Config
    BY <1>1 DEF Load, IInv, TypeOK, Parses
  <2>2. Migrated(file) \in Config /\ NoPlaintext(Migrated(file))
    BY <2>1, MigratedType
  <2>3. file.quiet \in QuietHours \cup {NoQuiet}
    BY <2>1 DEF Config
  <2> QED BY <1>0, <1>1, <2>1, <2>2, <2>3, Constants
       DEF Load, IInv, TypeOK, FileInv, Loaded, handlers, history
<1>2. CASE MigrationOpens
  BY <1>0, <1>2, Constants DEF MigrationOpens, IInv, TypeOK, FileInv, Loaded, handlers, history
<1>3. CASE MigrationEnds
  <2>1. live \in Config /\ NoPlaintext(live)
    BY <1>3 DEF MigrationEnds, IInv, FileInv, Loaded
  <2>2. Migrated(live) = live
    BY <2>1, MigratedType
  <2> QED BY <1>0, <1>3, <2>1, <2>2, Constants
       DEF MigrationEnds, IInv, TypeOK, FileInv, Loaded, handlers, history
<1>4. CASE MigrationFails
  <2>1. live \in Config
    BY <1>4 DEF MigrationFails, IInv, FileInv, Loaded
  <2> QED BY <1>0, <1>4, <2>1, Constants
       DEF MigrationFails, IInv, TypeOK, FileInv, Loaded, handlers, history
<1>5. CASE Refuse
  BY <1>0, <1>5 DEF Refuse, IInv, TypeOK, FileInv, Loaded, handlers, history
<1>6. CASE FirstStart
  BY <1>0, <1>6 DEF FirstStart, IInv, TypeOK, FileInv, Loaded, handlers, history
<1>7. CASE DefaultWritten
  <2>1. Migrated(DefaultConfig) = DefaultConfig
    BY DefaultType, MigratedType
  <2> QED BY <1>0, <1>7, <2>1, DefaultType, Constants
       DEF DefaultWritten, IInv, TypeOK, FileInv, Loaded, handlers, history
<1>8. CASE DefaultFails
  BY <1>0, <1>8 DEF DefaultFails, IInv, TypeOK, FileInv, Loaded, handlers, history
<1> QED BY <1>1, <1>2, <1>3, <1>4, <1>5, <1>6, <1>7, <1>8 DEF Start

\* Only a running program has requests to serve.
LEMMA RequestIsUp ==
  ASSUME NEW h \in Handler, Request(h)
  PROVE  mode = "up"
  BY DEF Request, MappingCreate, MappingUpdate, MappingDelete, TokenCreate, TokenDelete,
         SceneSet, SettingsUpdate

LEMMA RequestInv ==
  ASSUME IInv, NEW h \in Handler, Request(h)
  PROVE  IInv'
<1>1. mode = "up" /\ NoPlaintext(live)
  BY RequestIsUp DEF IInv, FileInv, Loaded
<1>2. PICK c \in Config : Copy(h, c) /\ hot' \subseteq Handler /\ named' \subseteq Handler
                           /\ NoPlaintext(c)
  BY <1>1, RequestCopies DEF IInv
<1> QED BY <1>1, <1>2, Constants DEF Copy, IInv, TypeOK, FileInv, Loaded

LEMMA SaveInv ==
  ASSUME IInv, NEW h \in Handler, Save(h)
  PROVE  IInv'
<1>1. CASE SaveOpens(h)
  BY <1>1, Constants DEF SaveOpens, IInv, TypeOK, FileInv, Loaded, history
<1>2. CASE SaveEnds(h)
  <2>1. draft[h] \in Config /\ NoPlaintext(draft[h]) /\ mode = "up"
    BY <1>2 DEF SaveEnds, IInv, TypeOK, FileInv
  <2>2. Migrated(draft[h]) = draft[h]
    BY <2>1, MigratedType
  <2>3. /\ file' = draft[h] /\ live' = draft[h] /\ mode' = mode
        /\ UNCHANGED <<engineQuiet, crashes>>
        /\ fresh' = {} /\ stale' \in BOOLEAN /\ behind' \subseteq Handler
    BY <1>2 DEF SaveEnds, IInv, TypeOK
  <2>4. /\ stage' \in [Handler -> {"idle", "save", "saving", "apply"}]
        /\ draft' \in [Handler -> Config \cup {NoConfig}]
        /\ hot' \subseteq Handler /\ named' \subseteq Handler
        /\ \A g \in Handler : stage'[g] # "idle" => stage[g] # "idle" /\ draft'[g] = draft[g]
    BY <1>2 DEF SaveEnds, Return, IInv, TypeOK
  <2> QED BY <2>1, <2>2, <2>3, <2>4, Constants DEF IInv, TypeOK, FileInv, Loaded
<1>3. CASE SaveFails(h)
  BY <1>3, Constants DEF SaveFails, Return, IInv, TypeOK, FileInv, Loaded
<1> QED BY <1>1, <1>2, <1>3 DEF Save

LEMMA ApplyInv ==
  ASSUME IInv, NEW h \in Handler, HotApply(h)
  PROVE  IInv'
<1>1. draft[h] \in Config
  BY DEF HotApply, IInv, FileInv
<1>2. draft[h].quiet \in QuietHours \cup {NoQuiet}
  BY <1>1 DEF Config
<1> QED BY <1>1, <1>2, Constants DEF HotApply, Return, IInv, TypeOK, FileInv, Loaded, history

LEMMA CrashInv ==
  ASSUME IInv, Crash
  PROVE  IInv'
<1>1. crashes' \in 0 .. MaxCrashes
  BY ConfigAssumption DEF Crash, IInv, TypeOK
<1> QED BY <1>1 DEF Crash, IInv, TypeOK, FileInv, Loaded

LEMMA RepairInv ==
  ASSUME IInv, Repair
  PROVE  IInv'
<1>1. file' \in Config
  BY FilesAssumption DEF Repair
<1> QED BY <1>1 DEF Repair, IInv, TypeOK, FileInv, Loaded, handlers

LEMMA IInvStep == IInv /\ [Next]_vars => IInv'
<1> SUFFICES ASSUME IInv, [Next]_vars PROVE IInv'
  OBVIOUS
<1>1. CASE Start
  BY <1>1, StartInv
<1>2. CASE \E h \in Handler : Request(h) \/ Save(h) \/ HotApply(h)
  BY <1>2, RequestInv, SaveInv, ApplyInv
<1>3. CASE Crash
  BY <1>3, CrashInv
<1>4. CASE Repair
  BY <1>4, RepairInv
<1>5. CASE UNCHANGED vars
  BY <1>5 DEF vars, handlers, history, IInv, TypeOK, FileInv, Loaded
<1> QED BY <1>1, <1>2, <1>3, <1>4, <1>5 DEF Next

LEMMA IInvHolds == Spec => []IInv
  BY InitInv, IInvStep, PTL DEF Spec

-----------------------------------------------------------------------------
(* Steps. *)

\* Only the start, a save and the operator write the file; what the program writes
\* holds no plaintext.
LEMMA WritesNoPlaintext ==
  ASSUME IInv, Next
  PROVE  \/ mode = "refused"
         \/ file' = file
         \/ ~Parses(file')
         \/ NoPlaintext(file') /\ file' \in Config
<1>1. CASE Start
  <2>1. CASE Load \/ MigrationFails \/ Refuse \/ DefaultFails
    BY <2>1 DEF Load, MigrationFails, Refuse, DefaultFails
  <2>2. CASE MigrationOpens \/ FirstStart
    BY <2>2, Constants DEF MigrationOpens, FirstStart
  <2>3. CASE MigrationEnds
    BY <2>3 DEF MigrationEnds, IInv, FileInv, Loaded
  <2>4. CASE DefaultWritten
    BY <2>4, DefaultType DEF DefaultWritten
  <2> QED BY <1>1, <2>1, <2>2, <2>3, <2>4 DEF Start
<1>2. ASSUME NEW h \in Handler, Request(h) PROVE file' = file
  <2>1. mode = "up" /\ NoPlaintext(live)
    BY <1>2, RequestIsUp DEF IInv, FileInv, Loaded
  <2>2. PICK c \in Config : Copy(h, c)
    BY <1>2, <2>1, RequestCopies DEF IInv
  <2> QED BY <2>2 DEF Copy
<1>3. ASSUME NEW h \in Handler, Save(h)
      PROVE  \/ file' = file
             \/ ~Parses(file')
             \/ NoPlaintext(file') /\ file' \in Config
  BY <1>3, Constants DEF Save, SaveOpens, SaveEnds, SaveFails, IInv, FileInv
<1>4. CASE \E h \in Handler : HotApply(h)
  BY <1>4 DEF HotApply
<1>5. CASE Crash \/ Repair
  BY <1>5 DEF Crash, Repair
<1> QED BY <1>1, <1>2, <1>3, <1>4, <1>5 DEF Next

-----------------------------------------------------------------------------
(* Mappings and their tokens. *)

\* As long as no stale copy has been saved, the file, the live configuration and
\* every copy of it that is still to be saved name tokens they hold.
RefInv ==
  ~stale =>
    /\ Loaded => NamesItsTokens(live)
    /\ Parses(file) => NamesItsTokens(file)
    /\ \A h \in fresh : stage[h] # "idle" => NamesItsTokens(draft[h])

LEMMA RefInit == Init => RefInv
<1> SUFFICES ASSUME Init PROVE RefInv
  OBVIOUS
<1>1. Parses(file) => NamesItsTokens(file)
  BY FilesAssumption DEF Init, Parses
<1> QED BY <1>1 DEF Init, RefInv, Loaded

LEMMA RefStart ==
  ASSUME IInv, RefInv, Start
  PROVE  RefInv'
<1>0. UNCHANGED <<handlers, history>>
  BY DEF Start, Load, MigrationOpens, MigrationEnds, MigrationFails, Refuse, FirstStart,
         DefaultWritten, DefaultFails
<1>1. CASE Load
  <2>1. file \in Config
    BY <1>1 DEF Load, IInv, TypeOK, Parses
  <2>2. NamesItsTokens(file) => NamesItsTokens(Migrated(file))
    BY <2>1, MigratedType
  <2> QED BY <1>0, <1>1, <2>2 DEF Load, RefInv, Loaded, handlers, history
<1>2. CASE MigrationOpens \/ FirstStart
  BY <1>0, <1>2, Constants
  DEF MigrationOpens, FirstStart, RefInv, Loaded, handlers, history
<1>3. CASE MigrationEnds \/ MigrationFails
  BY <1>0, <1>3 DEF MigrationEnds, MigrationFails, RefInv, Loaded, handlers, history
<1>4. CASE Refuse \/ DefaultFails
  BY <1>0, <1>4 DEF Refuse, DefaultFails, RefInv, Loaded, handlers, history
<1>5. CASE DefaultWritten
  BY <1>0, <1>5, DefaultType DEF DefaultWritten, RefInv, Loaded, handlers, history
<1> QED BY <1>1, <1>2, <1>3, <1>4, <1>5 DEF Start

LEMMA RefSave ==
  ASSUME IInv, RefInv, NEW h \in Handler, Save(h)
  PROVE  RefInv'
<1>1. CASE SaveOpens(h)
  BY <1>1, Constants DEF SaveOpens, RefInv, Loaded, IInv, TypeOK, history
<1>2. CASE SaveEnds(h)
  <2>1. ~stale' => NamesItsTokens(draft[h])
    BY <1>2 DEF SaveEnds, RefInv
  <2> QED BY <1>2, <2>1 DEF SaveEnds, RefInv
<1>3. CASE SaveFails(h)
  BY <1>3 DEF SaveFails, Return, RefInv, Loaded, IInv, TypeOK
<1> QED BY <1>1, <1>2, <1>3 DEF Save

LEMMA RefStep == IInv /\ RefInv /\ [Next]_vars => RefInv'
<1> SUFFICES ASSUME IInv, RefInv, [Next]_vars PROVE RefInv'
  OBVIOUS
<1>1. CASE Start
  BY <1>1, RefStart
<1>2. ASSUME NEW h \in Handler, Request(h) PROVE RefInv'
  <2>1. mode = "up" /\ NoPlaintext(live)
    BY <1>2, RequestIsUp DEF IInv, FileInv, Loaded
  <2>2. PICK c \in Config : Copy(h, c) /\ (NamesItsTokens(live) => NamesItsTokens(c))
    BY <1>2, <2>1, RequestCopies DEF IInv
  <2> QED BY <2>1, <2>2 DEF Copy, RefInv, Loaded, IInv, TypeOK
<1>3. ASSUME NEW h \in Handler, Save(h) PROVE RefInv'
  BY <1>3, RefSave
<1>4. ASSUME NEW h \in Handler, HotApply(h) PROVE RefInv'
  BY <1>4 DEF HotApply, Return, RefInv, Loaded, IInv, TypeOK, history
<1>5. CASE Crash
  BY <1>5 DEF Crash, RefInv, Loaded
<1>6. CASE Repair
  <2>1. NamesItsTokens(file')
    BY <1>6, FilesAssumption DEF Repair
  <2>2. \A h \in Handler : stage[h] = "idle"
    BY <1>6 DEF Repair, IInv, TypeOK
  <2> QED BY <1>6, <2>1, <2>2 DEF Repair, RefInv, Loaded, handlers, IInv, TypeOK
<1>7. CASE UNCHANGED vars
  BY <1>7 DEF vars, handlers, history, RefInv, Loaded
<1> QED BY <1>1, <1>2, <1>3, <1>4, <1>5, <1>6, <1>7 DEF Next

-----------------------------------------------------------------------------
(* The timezone. *)

\* A copy that is still to be saved has the zone of the live configuration, unless
\* its request names one or the live one has changed since.
ZoneInv ==
  \A h \in Handler :
    stage[h] \in {"save", "saving"} /\ h \notin named /\ h \notin behind =>
      ZoneOf(draft[h]) = ZoneOf(live)

\* Who changes the zone of a program that is up.
ZoneStaysHere ==
  mode = "up" /\ mode' = "up" /\ ZoneOf(live') # ZoneOf(live) =>
    \E h \in Handler : stage[h] = "saving" /\ stage'[h] # "saving"
                         /\ (h \in named \/ h \in behind)

LEMMA ZoneRequest ==
  ASSUME IInv, ZoneInv, NEW h \in Handler, Request(h)
  PROVE  ZoneInv' /\ ZoneStaysHere
<1>1. mode = "up" /\ NoPlaintext(live)
  BY RequestIsUp DEF IInv, FileInv, Loaded
<1>2. PICK c \in Config : /\ Copy(h, c)
                          /\ named \subseteq named'
                          /\ h \in named' \/ ZoneOf(c) = ZoneOf(live)
  BY <1>1, RequestCopies DEF IInv
<1>3. live' = live /\ behind' = behind \ {h}
  BY <1>2 DEF Copy
<1>4. \A g \in Handler \ {h} : stage'[g] = stage[g] /\ draft'[g] = draft[g]
  BY <1>2 DEF Copy, IInv, TypeOK
<1>5. draft'[h] = c
  BY <1>2 DEF Copy, IInv, TypeOK
<1>6. ZoneInv'
  <2> SUFFICES ASSUME NEW g \in Handler,
                      stage'[g] \in {"save", "saving"}, g \notin named', g \notin behind'
               PROVE  ZoneOf(draft'[g]) = ZoneOf(live')
    BY DEF ZoneInv
  <2>1. CASE g = h
    BY <1>2, <1>3, <1>5, <2>1
  <2>2. CASE g # h
    BY <1>2, <1>3, <1>4, <2>2 DEF ZoneInv
  <2> QED BY <2>1, <2>2
<1> QED BY <1>3, <1>6 DEF ZoneStaysHere

LEMMA ZoneSave ==
  ASSUME IInv, ZoneInv, NEW h \in Handler, Save(h)
  PROVE  ZoneInv' /\ ZoneStaysHere
<1>1. CASE SaveOpens(h)
  BY <1>1 DEF SaveOpens, ZoneInv, ZoneStaysHere, IInv, TypeOK, history
<1>2. CASE SaveEnds(h)
  <2>1. /\ stage[h] = "saving"
        /\ live' = draft[h]
        /\ stage'[h] \in {"apply", "idle"}
        /\ behind' = IF ZoneOf(draft[h]) # ZoneOf(live)
                       THEN {g \in Handler \ {h} : stage[g] # "idle"}
                       ELSE behind
    BY <1>2 DEF SaveEnds, Return, IInv, TypeOK
  <2>2. \A g \in Handler \ {h} : /\ stage'[g] = stage[g] /\ draft'[g] = draft[g]
                                 /\ g \in named' <=> g \in named
    BY <1>2 DEF SaveEnds, Return, IInv, TypeOK
  <2>3. ZoneInv'
    <3> SUFFICES ASSUME NEW g \in Handler,
                        stage'[g] \in {"save", "saving"}, g \notin named', g \notin behind'
                 PROVE  ZoneOf(draft'[g]) = ZoneOf(live')
      BY DEF ZoneInv
    <3>1. g # h
      BY <2>1
    <3>2. ZoneOf(draft[h]) = ZoneOf(live) /\ behind' = behind
      BY <2>1, <2>2, <3>1
    <3> QED BY <2>1, <2>2, <3>1, <3>2 DEF ZoneInv
  <2>4. ZoneStaysHere
    BY <2>1 DEF ZoneStaysHere, ZoneInv
  <2> QED BY <2>3, <2>4
<1>3. CASE SaveFails(h)
  BY <1>3 DEF SaveFails, Return, ZoneInv, ZoneStaysHere, IInv, TypeOK
<1> QED BY <1>1, <1>2, <1>3 DEF Save

LEMMA ZoneStep ==
  ASSUME IInv, ZoneInv, [Next]_vars
  PROVE  ZoneInv' /\ ZoneStaysHere
<1>1. CASE Start
  <2>1. stage' = stage /\ mode # "up"
    BY <1>1 DEF Start, Load, MigrationOpens, MigrationEnds, MigrationFails, Refuse, FirstStart,
                DefaultWritten, DefaultFails, handlers
  <2>2. \A h \in Handler : stage[h] = "idle"
    BY <2>1 DEF IInv, TypeOK
  <2> QED BY <2>1, <2>2 DEF ZoneInv, ZoneStaysHere
<1>2. CASE \E h \in Handler : Request(h)
  BY <1>2, ZoneRequest
<1>3. CASE \E h \in Handler : Save(h)
  BY <1>3, ZoneSave
<1>4. CASE \E h \in Handler : HotApply(h)
  BY <1>4 DEF HotApply, Return, ZoneInv, ZoneStaysHere, IInv, TypeOK, history
<1>5. CASE Crash
  BY <1>5 DEF Crash, ZoneInv, ZoneStaysHere
<1>6. CASE Repair
  <2>1. \A h \in Handler : stage[h] = "idle"
    BY <1>6 DEF Repair, IInv, TypeOK
  <2> QED BY <1>6, <2>1 DEF Repair, ZoneInv, ZoneStaysHere, handlers
<1>7. CASE UNCHANGED vars
  BY <1>7 DEF vars, handlers, history, ZoneInv, ZoneStaysHere
<1> QED BY <1>1, <1>2, <1>3, <1>4, <1>5, <1>6, <1>7 DEF Next

-----------------------------------------------------------------------------
(* The theorems. *)

\* The process, the file and every handler keep their types; a running program has
\* a configuration, and only a running program serves requests (main.go 75-92).
THEOREM ConfigTypeCorrect == Spec => []TypeOK
<1>1. IInv => TypeOK
  BY DEF IInv
<1> QED BY <1>1, IInvHolds, PTL

\* While the program runs, config.json is what it works with or half-written, for
\* any number of overlapping requests, failures and crashes (Manager.Save).
THEOREM FileIsAlwaysLive == Spec => []FileIsLive
<1>1. IInv => FileIsLive
  BY DEF IInv, FileInv, Loaded, FileIsLive
<1> QED BY <1>1, IInvHolds, PTL

\* A mapping's token exists unless a stale copy has been saved, for any number of
\* requests in flight (HandleTokenDelete, HandleMappingCreate).
THEOREM OrphansComeFromStaleSaves == Spec => []OnlyStaleSavesOrphan
<1>1. Spec => []RefInv
  BY RefInit, RefStep, IInvHolds, PTL DEF Spec
<1>2. RefInv => OnlyStaleSavesOrphan
  BY DEF RefInv, Loaded, OnlyStaleSavesOrphan
<1> QED BY <1>1, <1>2, PTL

\* The program never writes a secret in plaintext, whatever fails or is interrupted
\* (migrateEncryption, HandleSettingsUpdate, HandleTokenCreate).
THEOREM SecretsStayEncrypted == Spec => PlaintextNeverComesBack
<1>1. IInv /\ [Next]_vars =>
        (Parses(file') /\ HoldsPlaintext(file') => mode = "refused" \/ file' = file)
  <2> SUFFICES ASSUME IInv, Next, Parses(file'), HoldsPlaintext(file')
               PROVE  mode = "refused" \/ file' = file
    BY DEF vars
  <2>1. ~(NoPlaintext(file') /\ file' \in Config)
    BY MigratedType DEF HoldsPlaintext
  <2> QED BY <2>1, WritesNoPlaintext
<1>2. IInv /\ [Next]_vars =>
        [Parses(file') /\ HoldsPlaintext(file') => mode = "refused" \/ file' = file]_vars
  BY <1>1
<1> QED BY <1>2, IInvHolds, PTL DEF Spec, PlaintextNeverComesBack

\* For any number of overlapping requests the timezone changes only when a request
\* that names one is saved, or a copy made before such a change (HandleSettingsUpdate,
\* settings.go 132-138).
THEOREM ZoneIsKept == Spec => HandEditedZoneStays
<1>1. Init => ZoneInv
  BY DEF Init, ZoneInv
<1>2. IInv /\ ZoneInv /\ [Next]_vars => ZoneInv' /\ [ZoneStaysHere]_vars
  BY ZoneStep
<1>3. Spec => [][ZoneStaysHere]_vars
  BY <1>1, <1>2, IInvHolds, PTL DEF Spec
<1> QED BY <1>3 DEF HandEditedZoneStays, ZoneStaysHere
=============================================================================
