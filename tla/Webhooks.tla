------------------------------ MODULE Webhooks ------------------------------
(***************************************************************************)
(* The webhook listener, internal/hooks/server.go, with the mapping Test of *)
(* the UI and the activity log both report to.                              *)
(*                                                                          *)
(* A hook is one request, served by a goroutine of its own while the        *)
(* operator saves configurations.  handleHook reads the configuration       *)
(* twice: authenticate for the tokens and, after the body has arrived,      *)
(* dispatch for the mappings.  A configuration is replaced, never changed   *)
(* in place, so what a read returned stays as it was.  The engine is        *)
(* abstract: Enqueue answers with one of its results and each accepted job  *)
(* ends some time later with a verdict (Engine has the rest).               *)
(***************************************************************************)
EXTENDS ActivityLog, FiniteSets

CONSTANTS Hook,        \* requests
          Request,     \* [kind, secret, event, entity]
          Configs,     \* configurations the operator may save; the first is one of them
          NoEvent      \* a body without an event type

\* A token is [name, secret]; a mapping [id, enabled, token, events, entities, valid]
\* where token is a name or "*" and entities are those its filter lets pass.
AnyToken == "*"
NoToken == "none"

Token == UNION {c.tokens : c \in Configs}
Mapping == UNION {{c.mappings[i] : i \in 1 .. Len(c.mappings)} : c \in Configs}

Results == {"queued", "quiet hours", "cooldown", "invalid", "effect ok", "rejected", "no match"}

ASSUME ConfigAssumption == \A c \in Configs : c.mappings \in Seq(Mapping)

\* The log takes a record of every result, about a mapping or none ("-").
ASSUME RecordAssumption ==
  [hook : Hook, mapping : {m.id : m \in Mapping} \cup {"-"}, result : Results] \subseteq Record

VARIABLES
  cfg,                    \* the live configuration
  req, pc, name, todo, matched, reply,   \* per hook: the request and its handler
  running,                \* <<h, m>>: accepted jobs without a verdict
  \* history
  seen,                   \* per hook: the configurations live while it was served
  fired                   \* <<h, m>>: every job that was accepted

handlers == <<req, pc, name, todo, matched, reply>>
vars == <<cfg, handlers, running, seen, fired, ring, adding, log>>

\* Is r among the records of hook h about a whole job or request?
OfHook(r, h) == r.hook = h /\ r.result # "effect ok"

Rec(h, id, result) == [hook |-> h, mapping |-> id, result |-> result]
Add(r) == adding' = adding \cup {r} /\ UNCHANGED <<ring, log>>
AddsNothing == UNCHANGED <<adding, ring, log>>

\* The goroutine of h is inside an Add.
Adding(h) == \E r \in adding : OfHook(r, h)
At(h, step) == pc[h] = step /\ ~Adding(h)

TypeOK ==
  /\ RingOK
  /\ cfg \in Configs
  /\ req \in [Hook -> Request]
  /\ pc \in [Hook -> {"idle", "authenticate", "body", "dispatch", "loop", "end", "done"}]
  /\ name \in [Hook -> {t.name : t \in Token} \cup {NoToken}]
  /\ todo \in [Hook -> Seq(Mapping)]
  /\ matched \in [Hook -> Nat]
  /\ reply \in [Hook -> {"none", "forbidden", "bad request", "not found", "no mapping", "queued"}]
  /\ running \subseteq fired
  /\ fired \subseteq Hook \X Mapping
  /\ seen \in [Hook -> SUBSET Configs]

Init ==
  /\ RingInit
  /\ cfg \in Configs
  /\ req \in [Hook -> Request]
  /\ pc = [h \in Hook |-> "idle"]
  /\ name = [h \in Hook |-> NoToken]
  /\ todo = [h \in Hook |-> <<>>]
  /\ matched = [h \in Hook |-> 0]
  /\ reply = [h \in Hook |-> "none"]
  /\ running = {}
  /\ seen = [h \in Hook |-> {}]
  /\ fired = {}

-----------------------------------------------------------------------------
(* The environment: the operator and the senders.                          *)

Save(c) ==
  /\ c # cfg
  /\ cfg' = c
  /\ seen' = [h \in Hook |-> IF pc[h] \in {"idle", "done"} THEN seen[h] ELSE seen[h] \cup {c}]
  /\ AddsNothing
  /\ UNCHANGED <<handlers, running, fired>>

Arrive(h) ==
  /\ pc[h] = "idle"
  /\ pc' = [pc EXCEPT ![h] = IF req[h].kind = "hook" THEN "authenticate" ELSE "dispatch"]
  /\ seen' = [seen EXCEPT ![h] = {cfg}]
  /\ AddsNothing
  /\ UNCHANGED <<cfg, req, name, todo, matched, reply, running, fired>>

-----------------------------------------------------------------------------
(* handleHook.                                                             *)

Reply(h, status) ==
  /\ pc' = [pc EXCEPT ![h] = "done"]
  /\ reply' = [reply EXCEPT ![h] = status]

\* authenticate: the last token with the presented secret gives the name.
TokensOf(secret) == {t \in cfg.tokens : t.secret = secret}

Authenticate(h) ==
  /\ At(h, "authenticate")
  /\ IF TokensOf(req[h].secret) = {}
     THEN Add(Rec(h, "-", "rejected")) /\ Reply(h, "forbidden") /\ UNCHANGED name
     ELSE /\ \E t \in TokensOf(req[h].secret) : name' = [name EXCEPT ![h] = t.name]
          /\ pc' = [pc EXCEPT ![h] = "body"]
          /\ AddsNothing /\ UNCHANGED reply
  /\ UNCHANGED <<cfg, req, todo, matched, running, seen, fired>>

\* The body has been read: it, or the path, names an event.
Body(h) ==
  /\ At(h, "body")
  /\ IF req[h].event = NoEvent
     THEN Add(Rec(h, "-", "rejected")) /\ Reply(h, "bad request")
     ELSE pc' = [pc EXCEPT ![h] = "dispatch"] /\ AddsNothing /\ UNCHANGED reply
  /\ UNCHANGED <<cfg, req, name, todo, matched, running, seen, fired>>

\* Mutant of Matches: a disabled mapping matches.
MatchesDisabled(h, m) ==
  /\ m.token \in {AnyToken, name[h]}
  /\ req[h].event \in m.events
  /\ req[h].entity \in m.entities

\* dispatch: which mappings of the live configuration the request is for.
Matches(h, m) ==
  /\ m.enabled
  /\ m.token \in {AnyToken, name[h]}
  /\ req[h].event \in m.events
  /\ req[h].entity \in m.entities

Dispatch(h) ==
  /\ req[h].kind = "hook" /\ At(h, "dispatch")
  /\ todo' = [todo EXCEPT ![h] = cfg.mappings]
  /\ pc' = [pc EXCEPT ![h] = "loop"]
  /\ AddsNothing
  /\ UNCHANGED <<cfg, req, name, matched, reply, running, seen, fired>>

\* engine.Enqueue, as far as its caller and the log can tell.
Enqueue(h, m, results) ==
  \E result \in results :
    /\ Add(Rec(h, m.id, result))
    /\ IF result = "queued"
       THEN running' = running \cup {<<h, m>>} /\ fired' = fired \cup {<<h, m>>}
       ELSE UNCHANGED <<running, fired>>

\* One mapping of dispatch's loop.
DispatchOne(h) ==
  LET m == Head(todo[h]) IN
  /\ At(h, "loop") /\ todo[h] # <<>>
  /\ todo' = [todo EXCEPT ![h] = Tail(@)]
  /\ IF Matches(h, m)
     THEN /\ matched' = [matched EXCEPT ![h] = @ + 1]
          /\ IF m.valid
             THEN Enqueue(h, m, {"queued", "quiet hours", "cooldown"})
             ELSE Add(Rec(h, m.id, "invalid")) /\ UNCHANGED <<running, fired>>
     ELSE AddsNothing /\ UNCHANGED <<matched, running, fired>>
  /\ UNCHANGED <<cfg, req, pc, name, reply, seen>>

\* Mutant of Dispatched: "no match" is not recorded.
DispatchedSilently(h) ==
  /\ At(h, "loop") /\ todo[h] = <<>>
  /\ AddsNothing
  /\ Reply(h, IF matched[h] = 0 THEN "no mapping" ELSE "queued")
  /\ UNCHANGED <<cfg, req, name, todo, matched, running, seen, fired>>

Dispatched(h) ==
  /\ At(h, "loop") /\ todo[h] = <<>>
  /\ IF matched[h] = 0
     THEN Add(Rec(h, "-", "no match")) /\ Reply(h, "no mapping")
     ELSE AddsNothing /\ Reply(h, "queued")
  /\ UNCHANGED <<cfg, req, name, todo, matched, running, seen, fired>>

\* HandleMappingTest: the first mapping with the id, enabled or not, and no cooldown.
MappingTest(h) ==
  LET found == {i \in 1 .. Len(cfg.mappings) : cfg.mappings[i].id = req[h].event} IN
  /\ req[h].kind = "test" /\ At(h, "dispatch")
  /\ \/ /\ found = {} /\ Reply(h, "not found")
        /\ AddsNothing /\ UNCHANGED <<matched, running, fired>>
     \/ \E i \in found :
          /\ \A k \in found : i <= k
          /\ IF cfg.mappings[i].valid
             THEN /\ Enqueue(h, cfg.mappings[i], {"queued", "quiet hours"})
                  /\ matched' = [matched EXCEPT ![h] = 1] /\ Reply(h, "queued")
             ELSE /\ Reply(h, "bad request")
                  /\ AddsNothing /\ UNCHANGED <<matched, running, fired>>
  /\ UNCHANGED <<cfg, req, name, todo, seen>>

\* Mutant of Verdict: the job is started before "queued" is recorded.
VerdictAtOnce(h, m) ==
  /\ <<h, m>> \in running
  /\ running' = running \ {<<h, m>>}
  /\ Add(Rec(h, m.id, "effect ok"))
  /\ UNCHANGED <<cfg, handlers, seen, fired>>

\* A device of the job has its verdict; the job starts once "queued" is recorded.
Verdict(h, m) ==
  /\ <<h, m>> \in running
  /\ ~\E r \in adding : OfHook(r, h) /\ r.mapping = m.id
  /\ running' = running \ {<<h, m>>}
  /\ Add(Rec(h, m.id, "effect ok"))
  /\ UNCHANGED <<cfg, handlers, seen, fired>>

Recorded(r) ==
  /\ Insert(r)
  /\ UNCHANGED <<cfg, handlers, running, seen, fired>>

Next ==
  \/ \E h \in Hook :
       \/ Arrive(h) \/ Authenticate(h) \/ Body(h) \/ Dispatch(h) \/ DispatchOne(h)
       \/ Dispatched(h) \/ MappingTest(h)
  \/ \E j \in running : Verdict(j[1], j[2])
  \/ \E r \in adding : Recorded(r)
  \/ \E c \in Configs : Save(c)

Spec == Init /\ [][Next]_vars

-----------------------------------------------------------------------------
(* Properties.                                                             *)

\* Where the log speaks of h, and what it says.
RecordsOf(h) == {i \in 1 .. Len(log) : OfHook(log[i], h)}
ResultsOf(h) == {log[i].result : i \in RecordsOf(h)}

\* Once a request is answered the log tells what became of it: why it was turned
\* away, or one record for every mapping the answer counts.  A Test that was refused
\* leaves none.
EveryHookIsAccounted ==
  \A h \in Hook : pc[h] = "done" /\ ~Adding(h) =>
    CASE reply[h] = "queued" ->
           /\ matched[h] > 0 /\ Cardinality(RecordsOf(h)) = matched[h]
           /\ ResultsOf(h) \subseteq {"queued", "quiet hours", "cooldown", "invalid"}
      [] reply[h] = "no mapping" ->
           Cardinality(RecordsOf(h)) = 1 /\ ResultsOf(h) = {"no match"}
      [] OTHER ->
           IF req[h].kind = "hook"
           THEN Cardinality(RecordsOf(h)) = 1 /\ ResultsOf(h) = {"rejected"}
           ELSE RecordsOf(h) = {}

\* Nothing runs on a revoked token or a deleted mapping: a job a hook started has a
\* mapping that was enabled, and a token with the secret presented that the mapping
\* was for, in configurations that were live while the hook was served.
NothingRunsUnconfigured ==
  \A j \in fired :
    LET h == j[1]
        m == j[2]
    IN  req[h].kind = "hook" =>
          /\ \E c \in seen[h] : m.enabled /\ \E i \in 1 .. Len(c.mappings) : c.mappings[i] = m
          /\ \E c \in seen[h] : \E t \in c.tokens :
               t.secret = req[h].secret /\ m.token \in {AnyToken, t.name}

\* Newest first, a verdict stands above the record that says its job was queued.
QueuedBeforeVerdict ==
  \A j \in 1 .. Len(log) : log[j].result = "effect ok" =>
    \E i \in 1 .. j - 1 :
      /\ log[i].result = "queued"
      /\ log[i].hook = log[j].hook /\ log[i].mapping = log[j].mapping
=============================================================================
