----------------------------- MODULE ConfigStore -----------------------------
(***************************************************************************)
(* The configuration: internal/config/config.go, the handlers of            *)
(* internal/handlers/v1 that change it, and the part of main.go that loads  *)
(* it at start.                                                             *)
(*                                                                          *)
(* A handler is a goroutine that serves one request.  It reads the live     *)
(* configuration, tests the request against it and changes a copy: one      *)
(* step, since a configuration is not changed once it is live.  Save is     *)
(* another, under the manager's lock; HandleSettingsUpdate then calls       *)
(* engine.SetQuietHours without any lock.  Save and the migration write     *)
(* config.json in place: it is empty or half-written in between, and a      *)
(* crash, or a write that fails, leaves it so.  A request that is refused   *)
(* changes nothing and has no step.                                         *)
(*                                                                          *)
(* Left out: the fields no property tells apart (ports, title, log level,   *)
(* effect parameters), the values of secrets and scenes, and an error from  *)
(* security.Encrypt, which its embedded key and crypto/rand do not give.    *)
(***************************************************************************)
EXTENDS Naturals

CONSTANTS Handler,
          MappingId, Token, Device,
          AnyToken, NoMapping,       \* "*", and an ID no mapping has
          Window,                    \* quiet-hours windows
          Zone, NoZone,              \* the timezones a file or a request may name, and ""
          NoQuiet, NoConfig, Missing, Broken,
          Files,                     \* what an operator's config.json may hold
          MaxCrashes                 \* bound on crashes

\* An API key or a token's secret: absent, as the operator typed it, with ENC:.
Secret == {"none", "plain", "enc"}
QuietHours == [window : Window, zone : Zone \cup {NoZone}]
Config == [key : Secret,
           tokens : [Token -> Secret],
           mappings : [MappingId -> Token \cup {AnyToken, NoMapping}],
           quiet : QuietHours \cup {NoQuiet},
           scenes : SUBSET Device]      \* the devices with a normal scene

Named(c, t) == c.tokens[t] # "none"
ZoneOf(c) == IF c.quiet = NoQuiet THEN NoZone ELSE c.quiet.zone

\* Every mapping names a token the configuration holds, or any.
NamesItsTokens(c) ==
  \A m \in MappingId : c.mappings[m] \in {AnyToken, NoMapping} \/ Named(c, c.mappings[m])

ASSUME ConfigAssumption ==
  /\ AnyToken \notin Token /\ NoMapping \notin Token
  /\ NoQuiet \notin QuietHours
  /\ {NoConfig, Missing, Broken} \cap Config = {}
  /\ NoConfig # Missing /\ NoConfig # Broken /\ Missing # Broken
  /\ MaxCrashes \in Nat
ASSUME FilesAssumption == \A c \in Files : c \in Config /\ NamesItsTokens(c)

VARIABLES
  mode,                        \* the process: where it is in its start, or up
  file,                        \* config.json
  live,                        \* m.config
  engineQuiet,                 \* the engine's window
  stage, draft,                \* per handler: its step, its copy
  hot,                         \* handlers of HandleSettingsUpdate
  crashes,
  \* history, read by no guard
  named,                       \* handlers whose request names a timezone
  behind,                      \* handlers whose copy is older than a change of timezone
  fresh, stale                 \* handlers whose copy is of the live configuration;
                               \* has a copy of an older one been saved

handlers == <<stage, draft, hot, named>>
history  == <<behind, fresh, stale>>
vars     == <<mode, file, live, engineQuiet, handlers, crashes, history>>

Parses(f) == f \notin {Missing, Broken}

TypeOK ==
  /\ mode \in {"down", "migrating", "first", "up", "refused"}
  /\ file \in Config \cup {Missing, Broken}
  /\ live \in Config \cup {NoConfig}
  /\ mode = "up" => live # NoConfig
  /\ engineQuiet \in QuietHours \cup {NoQuiet}
  /\ stage \in [Handler -> {"idle", "save", "saving", "apply"}]
  /\ draft \in [Handler -> Config \cup {NoConfig}]
  /\ \A h \in Handler : stage[h] # "idle" => mode = "up" /\ draft[h] # NoConfig
  /\ hot \subseteq Handler
  /\ crashes \in 0 .. MaxCrashes
  /\ named \subseteq Handler
  /\ behind \subseteq Handler
  /\ fresh \subseteq Handler
  /\ stale \in BOOLEAN

Init ==
  /\ mode = "down"
  /\ file \in Files \cup {Missing, Broken}
  /\ live = NoConfig
  /\ engineQuiet = NoQuiet
  /\ stage = [h \in Handler |-> "idle"]
  /\ draft = [h \in Handler |-> NoConfig]
  /\ hot = {}
  /\ crashes = 0
  /\ named = {}
  /\ behind = {}
  /\ fresh = {}
  /\ stale = FALSE

-----------------------------------------------------------------------------
(* Start.                                                                  *)

Encrypted(s) == IF s = "plain" THEN "enc" ELSE s

\* migrateEncryption, on the configuration in memory.
Migrated(c) ==
  [c EXCEPT !.key = Encrypted(@), !.tokens = [t \in Token |-> Encrypted(c.tokens[t])]]

HoldsPlaintext(c) == Migrated(c) # c

DefaultConfig ==
  [key |-> "none", tokens |-> [t \in Token |-> "none"],
   mappings |-> [m \in MappingId |-> NoMapping], quiet |-> NoQuiet, scenes |-> {}]

\* LoadConfig.  The engine gets its window before a handler can run.
Load ==
  /\ mode = "down"
  /\ Parses(file)
  /\ live' = Migrated(file)
  /\ engineQuiet' = file.quiet
  /\ mode' = IF HoldsPlaintext(file) THEN "migrating" ELSE "up"
  /\ UNCHANGED <<file, handlers, crashes, history>>

\* The rewrite of migrateEncryption: opened, then written; its failure is only logged.
MigrationOpens ==
  /\ mode = "migrating"
  /\ Parses(file)
  /\ file' = Broken
  /\ UNCHANGED <<mode, live, engineQuiet, handlers, crashes, history>>

MigrationEnds ==
  /\ mode = "migrating"
  /\ file = Broken
  /\ file' = live
  /\ mode' = "up"
  /\ UNCHANGED <<live, engineQuiet, handlers, crashes, history>>

MigrationFails ==
  /\ mode = "migrating"
  /\ mode' = "up"
  /\ UNCHANGED <<file, live, engineQuiet, handlers, crashes, history>>

\* config.json exists but could not be loaded.
Refuse ==
  /\ mode = "down"
  /\ file = Broken
  /\ mode' = "refused"
  /\ UNCHANGED <<file, live, engineQuiet, handlers, crashes, history>>

\* WriteDefaultConfig: opened, then written.
FirstStart ==
  /\ mode = "down"
  /\ file = Missing
  /\ file' = Broken
  /\ mode' = "first"
  /\ UNCHANGED <<live, engineQuiet, handlers, crashes, history>>

DefaultWritten ==
  /\ mode = "first"
  /\ file' = DefaultConfig
  /\ live' = DefaultConfig
  /\ mode' = "up"
  /\ UNCHANGED <<engineQuiet, handlers, crashes, history>>

DefaultFails ==
  /\ mode = "first"
  /\ mode' = "refused"
  /\ UNCHANGED <<file, live, engineQuiet, handlers, crashes, history>>

-----------------------------------------------------------------------------
(* Handlers.                                                               *)

\* GetConfig waits for a Save that holds the lock.
LockFree == \A h \in Handler : stage[h] # "saving"

Copy(h, c) ==
  /\ mode = "up"
  /\ stage[h] = "idle"
  /\ LockFree
  /\ stage' = [stage EXCEPT ![h] = "save"]
  /\ draft' = [draft EXCEPT ![h] = c]
  /\ fresh' = fresh \cup {h}
  /\ behind' = behind \ {h}
  /\ UNCHANGED <<mode, file, live, engineQuiet, crashes, stale>>

Exists(m) == live.mappings[m] # NoMapping
TokenFound(t) == t \in {AnyToken} \cup {u \in Token : Named(live, u)}

\* GenerateID gives an ID nobody has used.
Unused(m) == ~Exists(m) /\ \A h \in Handler : stage[h] # "idle" => draft[h].mappings[m] = NoMapping

MappingCreate(h, m, t) ==
  /\ mode = "up"
  /\ Unused(m)
  /\ TokenFound(t)
  /\ Copy(h, [live EXCEPT !.mappings[m] = t])
  /\ UNCHANGED <<hot, named>>

MappingUpdate(h, m, t) ==
  /\ mode = "up"
  /\ Exists(m)
  /\ TokenFound(t)
  /\ Copy(h, [live EXCEPT !.mappings[m] = t])
  /\ UNCHANGED <<hot, named>>

MappingDelete(h, m) ==
  /\ mode = "up"
  /\ Exists(m)
  /\ Copy(h, [live EXCEPT !.mappings[m] = NoMapping])
  /\ UNCHANGED <<hot, named>>

TokenCreate(h, t) ==
  /\ mode = "up"
  /\ ~Named(live, t)
  /\ Copy(h, [live EXCEPT !.tokens[t] = "enc"])
  /\ UNCHANGED <<hot, named>>

\* Mutant: no test of the mappings.
TokenDeleteInUse(h, t) ==
  /\ mode = "up"
  /\ Named(live, t)
  /\ Copy(h, [live EXCEPT !.tokens[t] = "none"])
  /\ UNCHANGED <<hot, named>>

TokenDelete(h, t) ==
  /\ mode = "up"
  /\ Named(live, t)
  /\ \A m \in MappingId : live.mappings[m] # t
  /\ Copy(h, [live EXCEPT !.tokens[t] = "none"])
  /\ UNCHANGED <<hot, named>>

SceneSet(h, d, assigned) ==
  /\ mode = "up"
  /\ Copy(h, [live EXCEPT !.scenes = IF assigned THEN @ \cup {d} ELSE @ \ {d}])
  /\ UNCHANGED <<hot, named>>

\* Mutant: an empty timezone is taken as it is.
UpdatedWipingZone(c, newKey, newQuiet) ==
  [c EXCEPT !.key = IF newKey THEN "enc" ELSE @,
            !.quiet = IF newQuiet = NoQuiet THEN @ ELSE newQuiet]

\* Mutant: the key is stored as it was typed.
UpdatedUnencrypted(c, newKey, newQuiet) ==
  [c EXCEPT !.key = IF newKey THEN "plain" ELSE @,
            !.quiet = IF newQuiet = NoQuiet THEN @
                      ELSE IF newQuiet.zone = NoZone THEN [newQuiet EXCEPT !.zone = ZoneOf(c)]
                      ELSE newQuiet]

\* What a request changes.  Its quiet hours replace those of the configuration; a
\* timezone it leaves empty, as the Settings form does, is the one they had.
Updated(c, newKey, newQuiet) ==
  [c EXCEPT !.key = IF newKey THEN "enc" ELSE @,
            !.quiet = IF newQuiet = NoQuiet THEN @
                      ELSE IF newQuiet.zone = NoZone THEN [newQuiet EXCEPT !.zone = ZoneOf(c)]
                      ELSE newQuiet]

NamesZone(newQuiet) == newQuiet # NoQuiet /\ newQuiet.zone # NoZone

SettingsUpdate(h, newKey, newQuiet) ==
  /\ mode = "up"
  /\ Copy(h, Updated(live, newKey, newQuiet))
  /\ hot' = hot \cup {h}
  /\ named' = IF NamesZone(newQuiet) THEN named \cup {h} ELSE named

Return(h) ==
  /\ stage' = [stage EXCEPT ![h] = "idle"]
  /\ draft' = [draft EXCEPT ![h] = NoConfig]
  /\ hot' = hot \ {h}
  /\ named' = named \ {h}

-----------------------------------------------------------------------------
(* Save.                                                                   *)

SaveOpens(h) ==
  /\ stage[h] = "save"
  /\ LockFree
  /\ stage' = [stage EXCEPT ![h] = "saving"]
  /\ file' = Broken
  /\ UNCHANGED <<mode, live, engineQuiet, draft, hot, named, crashes, history>>

\* The file is written and the copy becomes the live configuration.
SaveEnds(h) ==
  /\ stage[h] = "saving"
  /\ file' = draft[h]
  /\ live' = draft[h]
  /\ IF h \in hot
       THEN stage' = [stage EXCEPT ![h] = "apply"] /\ UNCHANGED <<draft, hot, named>>
       ELSE Return(h)
  /\ behind' = IF ZoneOf(draft[h]) # ZoneOf(live)
                 THEN {g \in Handler \ {h} : stage[g] # "idle"}
                 ELSE behind
  /\ fresh' = {}
  /\ stale' = (stale \/ h \notin fresh)
  /\ UNCHANGED <<mode, engineQuiet, crashes>>

\* Mutant: the copy is installed before the file is written.
SaveFailsInstalled(h) ==
  /\ \/ stage[h] = "save" /\ LockFree
     \/ stage[h] = "saving"
  /\ live' = draft[h]
  /\ Return(h)
  /\ fresh' = fresh \ {h}
  /\ UNCHANGED <<mode, file, engineQuiet, crashes, behind, stale>>

\* The file cannot be opened, or written to the end.
SaveFails(h) ==
  /\ \/ stage[h] = "save" /\ LockFree
     \/ stage[h] = "saving"
  /\ Return(h)
  /\ fresh' = fresh \ {h}
  /\ UNCHANGED <<mode, file, live, engineQuiet, crashes, behind, stale>>

\* engine.SetQuietHours, after Save has released its lock.
HotApply(h) ==
  /\ stage[h] = "apply"
  /\ engineQuiet' = draft[h].quiet
  /\ Return(h)
  /\ UNCHANGED <<mode, file, live, crashes, history>>

-----------------------------------------------------------------------------
(* The process and its operator.                                           *)

Crash ==
  /\ mode \in {"migrating", "first", "up"}
  /\ crashes < MaxCrashes
  /\ crashes' = crashes + 1
  /\ mode' = "down"
  /\ live' = NoConfig
  /\ engineQuiet' = NoQuiet
  /\ stage' = [h \in Handler |-> "idle"]
  /\ draft' = [h \in Handler |-> NoConfig]
  /\ hot' = {}
  /\ named' = {}
  /\ behind' = {}
  /\ fresh' = {}
  /\ UNCHANGED <<file, stale>>

\* The operator puts a configuration in place of one that does not load, and
\* starts the program again.
Repair ==
  /\ mode = "refused"
  /\ file' \in Files
  /\ mode' = "down"
  /\ stale' = FALSE
  /\ UNCHANGED <<live, engineQuiet, handlers, crashes, behind, fresh>>

Start ==
  \/ Load
  \/ MigrationOpens
  \/ MigrationEnds
  \/ MigrationFails
  \/ Refuse
  \/ FirstStart
  \/ DefaultWritten
  \/ DefaultFails

Request(h) ==
  \/ \E m \in MappingId, t \in Token \cup {AnyToken} : MappingCreate(h, m, t) \/ MappingUpdate(h, m, t)
  \/ \E m \in MappingId : MappingDelete(h, m)
  \/ \E t \in Token : TokenCreate(h, t) \/ TokenDelete(h, t)
  \/ \E d \in Device, assigned \in BOOLEAN : SceneSet(h, d, assigned)
  \/ \E newKey \in BOOLEAN, newQuiet \in QuietHours \cup {NoQuiet} : SettingsUpdate(h, newKey, newQuiet)

Save(h) == SaveOpens(h) \/ SaveEnds(h) \/ SaveFails(h)

Next ==
  \/ Start
  \/ \E h \in Handler : Request(h) \/ Save(h) \/ HotApply(h)
  \/ Crash
  \/ Repair

Spec == Init /\ [][Next]_vars

-----------------------------------------------------------------------------
(* Properties.                                                             *)

\* While the program runs, config.json either holds what it works with or was left
\* half-written: a restart never brings back an older configuration, whenever the
\* crash comes, and a save that failed has not changed the live one.  The rewrite
\* of the secrets may have failed, so the file counts as it is once loaded.
FileIsLive ==
  mode = "up" /\ Parses(file) => Migrated(file) = live

\* A mapping names a token that exists - HandleTokenDelete refuses otherwise -
\* unless a copy of an older configuration has been saved over a newer one:
\* that lost update is the only way to a mapping whose token is gone.
OnlyStaleSavesOrphan ==
  mode = "up" /\ ~stale => NamesItsTokens(live)

\* Once on disk in encrypted form, a secret never goes back there in plaintext,
\* whether the rewrite at start succeeded, failed or was interrupted.
PlaintextNeverComesBack ==
  [][Parses(file') /\ HoldsPlaintext(file') =>
       mode = "refused" \/ file' = file]_vars

\* "Preserve a hand-edited timezone [...] an empty value from the UI must not wipe
\* it": while the program is up its timezone changes only when a request that names
\* one is saved, or a copy made before such a change; in no order of saves does any
\* other request touch it.
HandEditedZoneStays ==
  [][mode = "up" /\ mode' = "up" /\ ZoneOf(live') # ZoneOf(live) =>
       \E h \in Handler : stage[h] = "saving" /\ stage'[h] # "saving"
                            /\ (h \in named \/ h \in behind)]_vars
=============================================================================
