---------------------------- MODULE WebhooksProofs ----------------------------
(***************************************************************************)
(* Theorems about the activity log, for a ring of any size, and about what  *)
(* the webhook listener and the engine write to it.                         *)
(***************************************************************************)
EXTENDS Webhooks, SequenceTheorems, FiniteSetTheorems, TLAPS

-----------------------------------------------------------------------------
(* The ring. *)

\* Where the k-th newest record is, without the remainder.
Place(k) == IF next >= k THEN next - k ELSE next - k + RingSize

\* The ring holds the end of the log.
RingInv ==
  /\ \E S : log \in Seq(S)
  /\ records = [i \in 0 .. RingSize - 1 |-> records[i]]
  /\ next \in 0 .. RingSize - 1
  /\ count \in 0 .. RingSize /\ count <= Len(log)
  /\ \A k \in 1 .. count : records[Place(k)] = log[Len(log) + 1 - k]

LEMMA Remainders ==
  ASSUME NEW R \in Nat \ {0}, NEW a \in 0 .. R - 1
  PROVE  a % R = a /\ (a + R) % R = a /\ (a + 2 * R) % R = a /\ R % R = 0
  BY SMT

LEMMA AdvanceWraps ==
  ASSUME next \in 0 .. RingSize - 1
  PROVE  Advance(next) = IF next + 1 = RingSize THEN 0 ELSE next + 1
<1>1. RingSize \in Nat \ {0}
  BY RingAssumption
<1>2. CASE next + 1 = RingSize
  BY <1>1, <1>2, Remainders DEF Advance
<1>3. CASE next + 1 # RingSize
  <2>1. next + 1 \in 0 .. RingSize - 1
    BY <1>1, <1>3
  <2> QED BY <1>1, <1>3, <2>1, Remainders DEF Advance
<1> QED BY <1>2, <1>3

\* The slot Recent reads is the place of the record.
LEMMA SlotIsPlace ==
  ASSUME next \in 0 .. RingSize - 1, NEW k \in 1 .. RingSize
  PROVE  Slot(k - 1) = Place(k) /\ Place(k) \in 0 .. RingSize - 1
<1>1. RingSize \in Nat \ {0} /\ next - 1 - (k - 1) + RingSize * 2 = next - k + 2 * RingSize
  BY RingAssumption
<1>2. CASE next >= k
  <2>1. next - k \in 0 .. RingSize - 1
    BY <1>1, <1>2
  <2> QED BY <1>1, <1>2, <2>1, Remainders DEF Slot, Place
<1>3. CASE next < k
  <2>1. next - k + RingSize \in 0 .. RingSize - 1
    BY <1>1, <1>3
  <2>2. (next - k + RingSize) + RingSize = next - k + 2 * RingSize
    BY <1>1
  <2> QED BY <1>1, <1>3, <2>1, <2>2, Remainders DEF Slot, Place
<1> QED BY <1>2, <1>3

LEMMA InsertKeepsRing ==
  ASSUME RingInv, NEW r, Insert(r)
  PROVE  RingInv'
<1>1. PICK S : log \in Seq(S)
  BY DEF RingInv
<1> DEFINE T == S \cup {r}
<1>2. /\ log \in Seq(T) /\ r \in T
  BY <1>1, SeqMonotonic
<1>3. /\ log' = Append(log, r) /\ records' = [records EXCEPT ![next] = r]
      /\ next' = IF next + 1 = RingSize THEN 0 ELSE next + 1
      /\ count' = IF count < RingSize THEN count + 1 ELSE count
  BY AdvanceWraps DEF Insert, RingInv
<1>4. /\ Len(log) \in Nat /\ log' \in Seq(T) /\ Len(log') = Len(log) + 1
      /\ log'[Len(log) + 1] = r /\ \A j \in 1 .. Len(log) : log'[j] = log[j]
  <2> HIDE DEF T
  <2> QED BY <1>2, <1>3, AppendProperties
<1>5. RingSize \in Nat \ {0} /\ next \in 0 .. RingSize - 1 /\ count \in 0 .. RingSize
      /\ count <= Len(log)
  BY RingAssumption DEF RingInv
<1>6. /\ next' \in 0 .. RingSize - 1 /\ count' \in 0 .. RingSize /\ count' <= Len(log')
      /\ records' = [i \in 0 .. RingSize - 1 |-> records'[i]]
  <2>1. next' \in 0 .. RingSize - 1 /\ count' \in 0 .. RingSize /\ count' <= Len(log')
    BY <1>3, <1>4, <1>5
  <2>2. records = [i \in 0 .. RingSize - 1 |-> records[i]]
    BY DEF RingInv
  <2>3. records' = [i \in 0 .. RingSize - 1 |-> IF i = next THEN r ELSE records[i]]
    BY <1>3, <2>2, Zenon
  <2> QED BY <2>1, <2>3
<1>7. ASSUME NEW k \in 1 .. count' PROVE records'[Place(k)'] = log'[Len(log') + 1 - k]
  <2>1. Place(k)' = IF next' >= k THEN next' - k ELSE next' - k + RingSize
    BY DEF Place
  <2>2. CASE k = 1
    <3>1. Place(k)' = next
      BY <1>3, <1>5, <2>1, <2>2
    <3>2. records'[next] = r
      BY <1>3, <1>5 DEF RingInv
    <3> QED BY <1>4, <2>2, <3>1, <3>2
  <2>3. CASE k > 1
    <3>1. k - 1 \in 1 .. count /\ k - 1 < RingSize
      BY <1>3, <1>5, <2>3
    <3>2. Place(k)' = Place(k - 1) /\ Place(k - 1) # next /\ Place(k - 1) \in 0 .. RingSize - 1
      BY <1>3, <1>5, <2>1, <2>3, <3>1 DEF Place
    <3>3. records'[Place(k - 1)] = records[Place(k - 1)]
      BY <1>3, <3>2 DEF RingInv
    <3>4. records[Place(k - 1)] = log[Len(log) + 1 - (k - 1)]
      BY <3>1 DEF RingInv
    <3>5. Len(log) + 1 - (k - 1) = Len(log') + 1 - k /\ Len(log') + 1 - k \in 1 .. Len(log)
      BY <1>4, <1>5, <2>3, <3>1
    <3> QED BY <1>4, <3>2, <3>3, <3>4, <3>5
  <2> QED BY <1>5, <1>6, <2>2, <2>3
<1>8. \E Q : log' \in Seq(Q)
  BY <1>4
<1> QED BY <1>6, <1>7, <1>8 DEF RingInv

\* What the listener does to the log: nothing, or one Insert.
LEMMA OneInsert ==
  ASSUME [Next]_vars
  PROVE  UNCHANGED <<records, next, count, log>> \/ \E r \in adding : Insert(r)
<1>1. ASSUME NEW h \in Hook, NEW m, NEW results, Enqueue(h, m, results)
      PROVE  UNCHANGED <<records, next, count, log>>
  BY <1>1 DEF Enqueue, Add, ring
<1>2. ASSUME NEW h \in Hook, DispatchOne(h) PROVE UNCHANGED <<records, next, count, log>>
  <2>1. \/ AddsNothing
        \/ \E id : Add(Rec(h, id, "invalid"))
        \/ \E m : Enqueue(h, m, {"queued", "quiet hours", "cooldown"})
    BY <1>2 DEF DispatchOne
  <2> QED BY <1>1, <2>1 DEF Add, AddsNothing, ring
<1>3. ASSUME NEW h \in Hook, MappingTest(h) PROVE UNCHANGED <<records, next, count, log>>
  <2>1. AddsNothing \/ \E m : Enqueue(h, m, {"queued", "quiet hours"})
    BY <1>3 DEF MappingTest
  <2> QED BY <1>1, <2>1 DEF AddsNothing, ring
<1> QED BY <1>2, <1>3 DEF Next, Arrive, Authenticate, Body, Dispatch, Dispatched,
           Verdict, Recorded, Save, Add, AddsNothing, ring, vars

LEMMA RingStep == RingInv /\ [Next]_vars => RingInv'
<1> SUFFICES ASSUME RingInv, [Next]_vars PROVE RingInv'
  OBVIOUS
<1>1. CASE UNCHANGED <<records, next, count, log>>
  BY <1>1 DEF RingInv, Place
<1> QED BY <1>1, OneInsert, InsertKeepsRing

LEMMA RingInitially == Init => RingInv
<1> SUFFICES ASSUME Init PROVE RingInv
  OBVIOUS
<1>1. log = <<>> /\ next = 0 /\ count = 0 /\ records = [i \in 0 .. RingSize - 1 |-> NoRecord]
  BY DEF Init, RingInit
<1>2. log \in Seq({}) /\ Len(log) = 0
  BY <1>1
<1> QED BY <1>1, <1>2, RingAssumption DEF RingInv

LEMMA RingShowsLatest == RingInv => RecentIsTheLatest
<1> SUFFICES ASSUME RingInv, NEW limit \in 0 .. RingSize + 1
             PROVE  /\ Len(Recent(limit)) <= Len(log)
                    /\ \A i \in 1 .. Len(Recent(limit)) : Recent(limit)[i] = log[Len(log) + 1 - i]
  BY DEF RecentIsTheLatest
<1>1. PICK S : log \in Seq(S)
  BY DEF RingInv
<1>2. /\ RingSize \in Nat \ {0} /\ next \in 0 .. RingSize - 1 /\ count \in 0 .. RingSize
      /\ count <= Len(log) /\ Len(log) \in Nat
  BY <1>1, RingAssumption DEF RingInv
<1>3. Shown(limit) \in 0 .. count
  BY <1>2 DEF Shown
<1>4. ASSUME NEW i \in 1 .. Shown(limit)
      PROVE  Recent(limit)[i] = log[Len(log) + 1 - i] /\ Recent(limit)[i] \in S
  <2>1. i \in 1 .. count /\ i \in 1 .. RingSize /\ Len(log) + 1 - i \in 1 .. Len(log)
    BY <1>2, <1>3
  <2>2. Recent(limit)[i] = records[Slot(i - 1)]
    BY DEF Recent
  <2>3. Recent(limit)[i] = log[Len(log) + 1 - i]
    BY <1>2, <2>1, <2>2, SlotIsPlace DEF RingInv
  <2> QED BY <1>1, <2>1, <2>3, ElementOfSeq
<1>5. Recent(limit) \in [1 .. Shown(limit) -> S]
  BY <1>4 DEF Recent
<1>6. Len(Recent(limit)) = Shown(limit)
  BY <1>3, <1>5
<1> QED BY <1>2, <1>3, <1>4, <1>6

\* For a ring of any size and any number of requests, the Activity page shows the
\* latest records, newest first, each once, also after the ring has wrapped.
THEOREM TheLatestAreShown == Spec => []RecentIsTheLatest
<1>1. Init => RingInv
  BY RingInitially
<1>2. RingInv /\ [Next]_vars => RingInv'
  BY RingStep
<1>3. RingInv => RecentIsTheLatest
  BY RingShowsLatest
<1> QED BY <1>1, <1>2, <1>3, PTL DEF Spec

-----------------------------------------------------------------------------
(* The queued record and the verdict. *)

\* That mapping id was queued for hook h is in the log.
Logged(h, id) ==
  \E i \in 1 .. Len(log) : log[i].result = "queued" /\ log[i].hook = h /\ log[i].mapping = id

\* A running job is recorded as queued, or the handler is still inside that Add; a
\* verdict on its way finds the record in the log.
VerdictInv ==
  /\ \A j \in running : Logged(j[1], j[2].id) \/ Rec(j[1], j[2].id, "queued") \in adding
  /\ \A r \in adding : r.result = "effect ok" => Logged(r.hook, r.mapping)
  /\ QueuedBeforeVerdict

LEMMA VerdictInitially == Init => VerdictInv
<1> SUFFICES ASSUME Init PROVE VerdictInv
  OBVIOUS
<1>1. running = {} /\ adding = {} /\ log = <<>> /\ Len(log) = 0
  BY DEF Init, RingInit
<1> QED BY <1>1 DEF VerdictInv, QueuedBeforeVerdict

\* A record other than a verdict is made, and no job starts.
LEMMA NoVerdictAdded ==
  ASSUME VerdictInv, NEW h, NEW id, NEW result, result # "effect ok",
         Add(Rec(h, id, result)), UNCHANGED running
  PROVE  VerdictInv'
<1>1. log' = log /\ adding' = adding \cup {Rec(h, id, result)}
  BY DEF Add
<1>2. \A g, x : Logged(g, x)' <=> Logged(g, x)
  BY <1>1 DEF Logged
<1>3. Rec(h, id, result).result # "effect ok"
  BY DEF Rec
<1>4. ASSUME NEW j \in running'
      PROVE  Logged(j[1], j[2].id)' \/ Rec(j[1], j[2].id, "queued")' \in adding'
  BY <1>1, <1>2 DEF VerdictInv, Rec
<1>5. ASSUME NEW r \in adding', r.result = "effect ok" PROVE Logged(r.hook, r.mapping)'
  BY <1>1, <1>2, <1>3, <1>5 DEF VerdictInv
<1>6. QueuedBeforeVerdict'
  BY <1>1 DEF VerdictInv, QueuedBeforeVerdict
<1> QED BY <1>4, <1>5, <1>6 DEF VerdictInv, Rec

LEMMA EnqueueKeepsVerdict ==
  ASSUME VerdictInv, NEW h, NEW m, NEW results, "effect ok" \notin results,
         Enqueue(h, m, results)
  PROVE  VerdictInv'
<1>1. PICK result \in results :
        /\ Add(Rec(h, m.id, result))
        /\ IF result = "queued"
           THEN running' = running \cup {<<h, m>>} /\ fired' = fired \cup {<<h, m>>}
           ELSE UNCHANGED <<running, fired>>
  BY DEF Enqueue
<1>2. CASE result # "queued"
  BY <1>1, <1>2, NoVerdictAdded
<1>3. CASE result = "queued"
  <2>1. /\ log' = log /\ adding' = adding \cup {Rec(h, m.id, "queued")}
        /\ running' = running \cup {<<h, m>>}
    BY <1>1, <1>3 DEF Add
  <2>2. \A g, x : Logged(g, x)' <=> Logged(g, x)
    BY <2>1 DEF Logged
  <2>3. Rec(h, m.id, "queued").result # "effect ok"
    BY DEF Rec
  <2>4. ASSUME NEW j \in running'
        PROVE  Logged(j[1], j[2].id)' \/ Rec(j[1], j[2].id, "queued") \in adding'
    <3>1. CASE j = <<h, m>>
      BY <2>1, <3>1
    <3>2. CASE j \in running
      BY <2>1, <2>2, <3>2 DEF VerdictInv
    <3> QED BY <2>1, <3>1, <3>2
  <2>5. ASSUME NEW r \in adding', r.result = "effect ok" PROVE Logged(r.hook, r.mapping)'
    BY <2>1, <2>2, <2>3, <2>5 DEF VerdictInv
  <2>6. QueuedBeforeVerdict'
    BY <2>1 DEF VerdictInv, QueuedBeforeVerdict
  <2> QED BY <2>4, <2>5, <2>6 DEF VerdictInv, Rec
<1> QED BY <1>2, <1>3

LEMMA VerdictKeepsVerdict ==
  ASSUME VerdictInv, NEW h, NEW m, Verdict(h, m)
  PROVE  VerdictInv'
<1>1. /\ log' = log /\ adding' = adding \cup {Rec(h, m.id, "effect ok")}
      /\ running' = running \ {<<h, m>>} /\ <<h, m>> \in running
      /\ ~\E r \in adding : OfHook(r, h) /\ r.mapping = m.id
  BY DEF Verdict, Add
<1>2. \A g, x : Logged(g, x)' <=> Logged(g, x)
  BY <1>1 DEF Logged
<1>3. Rec(h, m.id, "queued") \notin adding
  BY <1>1 DEF OfHook, Rec
<1>4. Logged(h, m.id)
  BY <1>1, <1>3 DEF VerdictInv
<1>5. ASSUME NEW j \in running'
      PROVE  Logged(j[1], j[2].id)' \/ Rec(j[1], j[2].id, "queued") \in adding'
  BY <1>1, <1>2 DEF VerdictInv
<1>6. ASSUME NEW r \in adding', r.result = "effect ok" PROVE Logged(r.hook, r.mapping)'
  <2>1. CASE r = Rec(h, m.id, "effect ok")
    BY <1>2, <1>4, <2>1 DEF Rec
  <2>2. CASE r \in adding
    BY <1>2, <1>6, <2>2 DEF VerdictInv
  <2> QED BY <1>1, <2>1, <2>2
<1>7. QueuedBeforeVerdict'
  BY <1>1 DEF VerdictInv, QueuedBeforeVerdict
<1> QED BY <1>5, <1>6, <1>7 DEF VerdictInv, Rec

LEMMA InsertKeepsVerdict ==
  ASSUME RingInv, VerdictInv, NEW r, Recorded(r)
  PROVE  VerdictInv'
<1>1. /\ r \in adding /\ adding' = adding \ {r} /\ log' = Append(log, r)
      /\ running' = running
  BY DEF Recorded, Insert
<1>2. PICK S : log \in Seq(S)
  BY DEF RingInv
<1> DEFINE T == S \cup {r}
<1>3. /\ log \in Seq(T) /\ r \in T
  BY <1>2, SeqMonotonic
<1>4. /\ Len(log) \in Nat /\ Len(log') = Len(log) + 1
      /\ log'[Len(log) + 1] = r /\ \A j \in 1 .. Len(log) : log'[j] = log[j]
  <2> HIDE DEF T
  <2> QED BY <1>1, <1>3, AppendProperties
<1>5. ASSUME NEW h, NEW id, Logged(h, id) PROVE Logged(h, id)'
  BY <1>4, <1>5 DEF Logged
<1>6. ASSUME NEW h, NEW id, r = Rec(h, id, "queued") PROVE Logged(h, id)'
  <2>1. r.result = "queued" /\ r.hook = h /\ r.mapping = id
    BY <1>6 DEF Rec
  <2> QED BY <1>4, <2>1 DEF Logged
<1>7. ASSUME NEW j \in running'
      PROVE  Logged(j[1], j[2].id)' \/ Rec(j[1], j[2].id, "queued") \in adding'
  BY <1>1, <1>5, <1>6 DEF VerdictInv
<1>8. ASSUME NEW q \in adding', q.result = "effect ok" PROVE Logged(q.hook, q.mapping)'
  BY <1>1, <1>5, <1>8 DEF VerdictInv
<1>9. ASSUME NEW j \in 1 .. Len(log'), log'[j].result = "effect ok"
      PROVE  \E i \in 1 .. j - 1 :
               /\ log'[i].result = "queued"
               /\ log'[i].hook = log'[j].hook /\ log'[i].mapping = log'[j].mapping
  <2>1. CASE j \in 1 .. Len(log)
    <3>1. log'[j] = log[j]
      BY <1>4, <2>1
    <3>2. PICK i \in 1 .. j - 1 :
            /\ log[i].result = "queued"
            /\ log[i].hook = log[j].hook /\ log[i].mapping = log[j].mapping
      BY <1>9, <2>1, <3>1 DEF VerdictInv, QueuedBeforeVerdict
    <3>3. log'[i] = log[i]
      BY <1>4, <2>1
    <3> QED BY <3>1, <3>2, <3>3
  <2>2. CASE j = Len(log) + 1
    <3>1. log'[j] = r /\ j - 1 = Len(log)
      BY <1>4, <2>2
    <3>2. Logged(r.hook, r.mapping)
      BY <1>1, <1>9, <3>1 DEF VerdictInv
    <3> QED BY <1>4, <3>1, <3>2 DEF Logged
  <2> QED BY <1>4, <2>1, <2>2
<1>10. QueuedBeforeVerdict'
  BY <1>9 DEF QueuedBeforeVerdict
<1> QED BY <1>7, <1>8, <1>10 DEF VerdictInv, Rec

LEMMA QuietStep ==
  ASSUME VerdictInv, UNCHANGED <<adding, log, running>>
  PROVE  VerdictInv'
  BY DEF VerdictInv, QueuedBeforeVerdict, Logged, Rec

LEMMA VerdictStep == RingInv /\ VerdictInv /\ [Next]_vars => VerdictInv'
<1> SUFFICES ASSUME RingInv, VerdictInv, [Next]_vars PROVE VerdictInv'
  OBVIOUS
<1>1. ASSUME NEW h \in Hook, Arrive(h) PROVE VerdictInv'
  BY <1>1, QuietStep DEF Arrive, AddsNothing
<1>2. ASSUME NEW h \in Hook, Authenticate(h) PROVE VerdictInv'
  BY <1>2, QuietStep, NoVerdictAdded DEF Authenticate, AddsNothing
<1>3. ASSUME NEW h \in Hook, Body(h) PROVE VerdictInv'
  BY <1>3, QuietStep, NoVerdictAdded DEF Body, AddsNothing
<1>4. ASSUME NEW h \in Hook, Dispatch(h) PROVE VerdictInv'
  BY <1>4, QuietStep DEF Dispatch, AddsNothing
<1>5. ASSUME NEW h \in Hook, DispatchOne(h) PROVE VerdictInv'
  <2>1. \/ (AddsNothing /\ UNCHANGED running)
        \/ \E id : Add(Rec(h, id, "invalid")) /\ UNCHANGED running
        \/ \E m : Enqueue(h, m, {"queued", "quiet hours", "cooldown"})
    BY <1>5 DEF DispatchOne
  <2> QED BY <2>1, QuietStep, EnqueueKeepsVerdict, NoVerdictAdded DEF AddsNothing
<1>6. ASSUME NEW h \in Hook, Dispatched(h) PROVE VerdictInv'
  BY <1>6, QuietStep, NoVerdictAdded DEF Dispatched, AddsNothing
<1>7. ASSUME NEW h \in Hook, MappingTest(h) PROVE VerdictInv'
  <2>1. \/ (AddsNothing /\ UNCHANGED <<matched, running, fired>>)
        \/ \E m : Enqueue(h, m, {"queued", "quiet hours"})
    BY <1>7 DEF MappingTest
  <2> QED BY <2>1, QuietStep, EnqueueKeepsVerdict DEF AddsNothing
<1>8. ASSUME NEW j \in running, Verdict(j[1], j[2]) PROVE VerdictInv'
  BY <1>8, VerdictKeepsVerdict
<1>9. ASSUME NEW r \in adding, Recorded(r) PROVE VerdictInv'
  BY <1>9, InsertKeepsVerdict
<1>10. ASSUME NEW c \in Configs, Save(c) PROVE VerdictInv'
  BY <1>10, QuietStep DEF Save, AddsNothing
<1>11. CASE UNCHANGED vars
  BY <1>11, QuietStep DEF vars
<1> QED BY <1>1, <1>2, <1>3, <1>4, <1>5, <1>6, <1>7, <1>8, <1>9, <1>10, <1>11 DEF Next

\* Whatever the hooks, the mappings and the configurations saved meanwhile, the page
\* never shows the verdict of a job below the record that queued it: Enqueue records
\* before the job starts.
THEOREM TheVerdictComesAfter == Spec => []QueuedBeforeVerdict
<1>1. Init => RingInv /\ VerdictInv
  BY RingInitially, VerdictInitially
<1>2. (RingInv /\ VerdictInv) /\ [Next]_vars => (RingInv /\ VerdictInv)'
  BY RingStep, VerdictStep
<1>3. VerdictInv => QueuedBeforeVerdict
  BY DEF VerdictInv
<1> QED BY <1>1, <1>2, <1>3, PTL DEF Spec

-----------------------------------------------------------------------------
(* The types. *)

LEMMA RecordTyped ==
  ASSUME NEW h \in Hook, NEW id, NEW result \in Results,
         id = "-" \/ \E m \in Mapping : id = m.id
  PROVE  Rec(h, id, result) \in Record
  BY RecordAssumption DEF Rec

LEMMA MappingsTyped ==
  ASSUME NEW c \in Configs
  PROVE  c.mappings \in Seq(Mapping)
  BY ConfigAssumption

LEMMA AddTyped ==
  ASSUME RingOK, NEW r \in Record, Add(r)
  PROVE  RingOK'
  BY DEF RingOK, Add, ring

LEMMA QuietTyped == RingOK /\ AddsNothing => RingOK'
  BY DEF RingOK, AddsNothing, ring

LEMMA EnqueueTyped ==
  ASSUME TypeOK, NEW h \in Hook, NEW m \in Mapping,
         NEW results \in SUBSET Results, Enqueue(h, m, results)
  PROVE  RingOK' /\ running' \subseteq fired' /\ fired' \subseteq Hook \X Mapping
<1>1. PICK result \in results :
        /\ Add(Rec(h, m.id, result))
        /\ IF result = "queued"
           THEN running' = running \cup {<<h, m>>} /\ fired' = fired \cup {<<h, m>>}
           ELSE UNCHANGED <<running, fired>>
  BY DEF Enqueue
<1>2. RingOK'
  BY <1>1, RecordTyped, AddTyped DEF TypeOK
<1>3. running' \subseteq fired' /\ fired' \subseteq Hook \X Mapping
  <2>1. /\ running \subseteq fired /\ fired \subseteq Hook \X Mapping
        /\ <<h, m>> \in Hook \X Mapping
    BY DEF TypeOK
  <2> QED BY <1>1, <2>1
<1> QED BY <1>2, <1>3

LEMMA InsertTyped ==
  ASSUME RingOK, NEW r, Insert(r)
  PROVE  RingOK'
<1>1. RingSize \in Nat \ {0} /\ r \in Record /\ next' \in 0 .. RingSize - 1
  BY RingAssumption, AdvanceWraps DEF RingOK, Insert
<1>2. records' \in [0 .. RingSize - 1 -> Record \cup {NoRecord}]
  BY <1>1 DEF RingOK, Insert
<1>3. count' \in 0 .. RingSize /\ adding' \subseteq Record
  BY <1>1 DEF RingOK, Insert
<1>4. log' \in Seq(Record)
  BY <1>1, AppendProperties DEF RingOK, Insert
<1> QED BY <1>1, <1>2, <1>3, <1>4 DEF RingOK

\* The types of the handlers.
HandlersOK ==
  /\ pc \in [Hook -> {"idle", "authenticate", "body", "dispatch", "loop", "end", "done"}]
  /\ todo \in [Hook -> Seq(Mapping)]
  /\ matched \in [Hook -> Nat]
  /\ reply \in [Hook -> {"none", "forbidden", "bad request", "not found", "no mapping", "queued"}]

LEMMA TypeStep == TypeOK /\ [Next]_vars => TypeOK'
<1> SUFFICES ASSUME TypeOK, [Next]_vars PROVE TypeOK'
  OBVIOUS
<1> USE DEF HandlersOK
<1>1. ASSUME NEW h \in Hook, Arrive(h) PROVE TypeOK'
  <2>1. RingOK'
    BY <1>1, QuietTyped DEF TypeOK, Arrive
  <2>2. HandlersOK'
    BY <1>1 DEF TypeOK, Arrive
  <2>3. seen' \in [Hook -> SUBSET Configs]
    BY <1>1 DEF TypeOK, Arrive
  <2>4. UNCHANGED <<cfg, req, name, running, fired>>
    BY <1>1 DEF Arrive
  <2> QED BY <2>1, <2>2, <2>3, <2>4 DEF TypeOK
<1>2. ASSUME NEW h \in Hook, Authenticate(h) PROVE TypeOK'
  <2>1. RingOK'
    <3>1. Rec(h, "-", "rejected") \in Record
      BY RecordTyped DEF Results
    <3>2. CASE AddsNothing
      BY <3>2, QuietTyped DEF TypeOK
    <3>3. CASE Add(Rec(h, "-", "rejected"))
      BY <3>1, <3>3, AddTyped DEF TypeOK
    <3> QED BY <1>2, <3>2, <3>3 DEF Authenticate
  <2>2. HandlersOK'
    BY <1>2 DEF TypeOK, Authenticate, Reply
  <2>3. name' \in [Hook -> {t.name : t \in Token} \cup {NoToken}]
    <3>1. cfg.tokens \subseteq Token
      BY DEF TypeOK, Token
    <3>2. name \in [Hook -> {t.name : t \in Token} \cup {NoToken}]
      BY DEF TypeOK
    <3>3. name' = name \/ \E t \in cfg.tokens : name' = [name EXCEPT ![h] = t.name]
      BY <1>2 DEF Authenticate, TokensOf
    <3> QED BY <3>1, <3>2, <3>3
  <2> QED BY <1>2, <2>1, <2>2, <2>3 DEF TypeOK, Authenticate
<1>3. ASSUME NEW h \in Hook, Body(h) PROVE TypeOK'
  <2>1. RingOK'
    <3>1. Rec(h, "-", "rejected") \in Record
      BY RecordTyped DEF Results
    <3>2. CASE AddsNothing
      BY <3>2, QuietTyped DEF TypeOK
    <3>3. CASE Add(Rec(h, "-", "rejected"))
      BY <3>1, <3>3, AddTyped DEF TypeOK
    <3> QED BY <1>3, <3>2, <3>3 DEF Body
  <2>2. HandlersOK'
    BY <1>3 DEF TypeOK, Body, Reply
  <2> QED BY <1>3, <2>1, <2>2 DEF TypeOK, Body
<1>4. ASSUME NEW h \in Hook, Dispatch(h) PROVE TypeOK'
  <2>1. RingOK'
    BY <1>4, QuietTyped DEF TypeOK, Dispatch
  <2>2. HandlersOK'
    BY <1>4, MappingsTyped DEF TypeOK, Dispatch
  <2>3. UNCHANGED <<cfg, req, name, running, seen, fired>>
    BY <1>4 DEF Dispatch
  <2> QED BY <2>1, <2>2, <2>3 DEF TypeOK
<1>5. ASSUME NEW h \in Hook, DispatchOne(h) PROVE TypeOK'
  <2> DEFINE m == Head(todo[h])
  <2>1. todo[h] \in Seq(Mapping) /\ todo[h] # <<>>
    BY <1>5 DEF TypeOK, DispatchOne
  <2>2. m \in Mapping /\ Tail(todo[h]) \in Seq(Mapping)
    BY <2>1, HeadTailProperties
  <2>3. HandlersOK'
    <3>1. /\ todo' = [todo EXCEPT ![h] = Tail(todo[h])] /\ UNCHANGED <<pc, reply>>
          /\ matched' = matched \/ matched' = [matched EXCEPT ![h] = matched[h] + 1]
      BY <1>5 DEF DispatchOne
    <3>2. todo' \in [Hook -> Seq(Mapping)]
      BY <2>2, <3>1 DEF TypeOK
    <3>3. matched' \in [Hook -> Nat]
      <4>1. matched \in [Hook -> Nat]
        BY DEF TypeOK
      <4> QED BY <3>1, <4>1
    <3> QED BY <3>1, <3>2, <3>3 DEF TypeOK
  <2>4. RingOK' /\ running' \subseteq fired' /\ fired' \subseteq Hook \X Mapping
    <3> HIDE DEF m
    <3>1. CASE AddsNothing /\ UNCHANGED <<running, fired>>
      BY <3>1, QuietTyped DEF TypeOK
    <3>2. CASE Add(Rec(h, m.id, "invalid")) /\ UNCHANGED <<running, fired>>
      <4>1. Rec(h, m.id, "invalid") \in Record
        BY <2>2, RecordTyped DEF Results
      <4> QED BY <3>2, <4>1, AddTyped DEF TypeOK
    <3>3. CASE Enqueue(h, m, {"queued", "quiet hours", "cooldown"})
      BY <2>2, <3>3, EnqueueTyped DEF Results
    <3> QED BY <1>5, <3>1, <3>2, <3>3 DEF DispatchOne, m
  <2> QED BY <1>5, <2>3, <2>4 DEF TypeOK, DispatchOne
<1>6. ASSUME NEW h \in Hook, Dispatched(h) PROVE TypeOK'
  <2>1. RingOK'
    <3>1. Rec(h, "-", "no match") \in Record
      BY RecordTyped DEF Results
    <3>2. CASE AddsNothing
      BY <3>2, QuietTyped DEF TypeOK
    <3>3. CASE Add(Rec(h, "-", "no match"))
      BY <3>1, <3>3, AddTyped DEF TypeOK
    <3> QED BY <1>6, <3>2, <3>3 DEF Dispatched
  <2>2. HandlersOK'
    BY <1>6 DEF TypeOK, Dispatched, Reply
  <2> QED BY <1>6, <2>1, <2>2 DEF TypeOK, Dispatched
<1>7. ASSUME NEW h \in Hook, MappingTest(h) PROVE TypeOK'
  <2>1. HandlersOK'
    <3>1. /\ todo' = todo
          /\ matched' = matched \/ matched' = [matched EXCEPT ![h] = 1]
          /\ pc' = [pc EXCEPT ![h] = "done"]
          /\ \E status \in {"not found", "bad request", "queued"} : reply' = [reply EXCEPT ![h] = status]
      BY <1>7 DEF MappingTest, Reply
    <3>2. matched' \in [Hook -> Nat]
      <4>1. matched \in [Hook -> Nat]
        BY DEF TypeOK
      <4>2. 1 \in Nat /\ DOMAIN matched = Hook
        BY <4>1
      <4>3. CASE matched' = [matched EXCEPT ![h] = 1]
        BY <4>1, <4>2, <4>3
      <4> QED BY <3>1, <4>1, <4>3
    <3> QED BY <3>1, <3>2 DEF TypeOK
  <2>2. RingOK' /\ running' \subseteq fired' /\ fired' \subseteq Hook \X Mapping
    <3>1. CASE AddsNothing /\ UNCHANGED <<running, fired>>
      BY <3>1, QuietTyped DEF TypeOK
    <3>2. ASSUME NEW i \in 1 .. Len(cfg.mappings), Enqueue(h, cfg.mappings[i], {"queued", "quiet hours"})
          PROVE  RingOK' /\ running' \subseteq fired' /\ fired' \subseteq Hook \X Mapping
      <4>1. cfg.mappings[i] \in Mapping
        BY MappingsTyped, ElementOfSeq DEF TypeOK
      <4> QED BY <3>2, <4>1, EnqueueTyped DEF Results
    <3> QED BY <1>7, <3>1, <3>2 DEF MappingTest
  <2> QED BY <1>7, <2>1, <2>2 DEF TypeOK, MappingTest
<1>8. ASSUME NEW j \in running, Verdict(j[1], j[2]) PROVE TypeOK'
  <2>1. j[1] \in Hook /\ j[2] \in Mapping
    BY DEF TypeOK
  <2>2. Rec(j[1], j[2].id, "effect ok") \in Record
    BY <2>1, RecordTyped DEF Results
  <2>3. RingOK'
    BY <1>8, <2>2, AddTyped DEF TypeOK, Verdict
  <2> QED BY <1>8, <2>3 DEF TypeOK, Verdict, handlers
<1>9. ASSUME NEW r \in adding, Recorded(r) PROVE TypeOK'
  <2>1. RingOK'
    BY <1>9, InsertTyped DEF TypeOK, Recorded
  <2> QED BY <1>9, <2>1 DEF TypeOK, Recorded, handlers
<1>10. ASSUME NEW c \in Configs, Save(c) PROVE TypeOK'
  <2>1. RingOK'
    BY <1>10, QuietTyped DEF TypeOK, Save
  <2>2. seen' \in [Hook -> SUBSET Configs]
    BY <1>10 DEF TypeOK, Save
  <2> QED BY <1>10, <2>1, <2>2 DEF TypeOK, Save, handlers
<1>11. CASE UNCHANGED vars
  BY <1>11 DEF TypeOK, RingOK, vars, ring, handlers
<1> QED BY <1>1, <1>2, <1>3, <1>4, <1>5, <1>6, <1>7, <1>8, <1>9, <1>10, <1>11 DEF Next

LEMMA TypeInitially == Init => TypeOK
<1> SUFFICES ASSUME Init PROVE TypeOK
  OBVIOUS
<1>1. RingOK
  BY RingAssumption DEF Init, RingInit, RingOK
<1>2. todo \in [Hook -> Seq(Mapping)]
  BY DEF Init
<1> QED BY <1>1, <1>2 DEF Init, TypeOK

\* The listener and the log keep to their types, whatever is sent, saved and tested.
THEOREM ListenerIsTyped == Spec => []TypeOK
  BY TypeInitially, TypeStep, PTL DEF Spec

-----------------------------------------------------------------------------
(* What the log says of a hook. *)

\* The Adds a goroutine of h is inside of.
Open(h) == {r \in adding : OfHook(r, h)}

\* How many records h has made so far, and what they say: those in the log and the
\* one on its way.
Made(h) == IF Open(h) = {} THEN Cardinality(RecordsOf(h)) ELSE Cardinality(RecordsOf(h)) + 1
Said(h) == ResultsOf(h) \cup {r.result : r \in Open(h)}

LEMMA AddingIsOpen ==
  ASSUME NEW h
  PROVE  Adding(h) <=> Open(h) # {}
  BY DEF Adding, Open

LEMMA RecordsAreCounted ==
  ASSUME NEW h, NEW S, log \in Seq(S)
  PROVE  IsFiniteSet(RecordsOf(h)) /\ Cardinality(RecordsOf(h)) \in Nat /\ Made(h) \in Nat
<1>1. Len(log) \in Nat
  BY LenProperties
<1>2. IsFiniteSet(1 .. Len(log)) /\ RecordsOf(h) \subseteq 1 .. Len(log)
  BY <1>1, FS_Interval DEF RecordsOf
<1>3. IsFiniteSet(RecordsOf(h))
  BY <1>2, FS_Subset
<1> QED BY <1>3, FS_CardinalityType DEF Made

LEMMA SameSaid ==
  ASSUME NEW h, log' = log, Open(h)' = Open(h)
  PROVE  RecordsOf(h)' = RecordsOf(h) /\ Made(h)' = Made(h) /\ Said(h)' = Said(h)
<1>1. RecordsOf(h)' = RecordsOf(h)
  BY DEF RecordsOf
<1>2. ResultsOf(h)' = ResultsOf(h)
  BY <1>1 DEF ResultsOf
<1> QED BY <1>1, <1>2 DEF Made, Said

\* An Add of h counts for h and for no other hook.
LEMMA AddCounts ==
  ASSUME NEW h, NEW id, NEW result, result # "effect ok", Open(h) = {},
         Add(Rec(h, id, result)), NEW S, log \in Seq(S)
  PROVE  /\ Open(h)' = {Rec(h, id, result)}
         /\ Made(h)' = Made(h) + 1
         /\ Said(h)' = Said(h) \cup {result}
         /\ \A g : g # h => Open(g)' = Open(g)
<1> DEFINE r == Rec(h, id, result)
<1>1. log' = log /\ adding' = adding \cup {r}
  BY DEF Add
<1>2. r.hook = h /\ r.result = result
  BY DEF Rec
<1> HIDE DEF r
<1>3. OfHook(r, h) /\ \A g : g # h => ~OfHook(r, g)
  BY <1>2 DEF OfHook
<1>4. Open(h)' = {r}
  BY <1>1, <1>3 DEF Open
<1>5. \A g : g # h => Open(g)' = Open(g)
  BY <1>1, <1>3 DEF Open
<1>6. RecordsOf(h)' = RecordsOf(h) /\ ResultsOf(h)' = ResultsOf(h)
  BY <1>1 DEF RecordsOf, ResultsOf
<1>7. Cardinality(RecordsOf(h)) \in Nat
  BY RecordsAreCounted
<1>8. Made(h)' = Made(h) + 1
  <2>1. Open(h)' # {}
    BY <1>4
  <2>2. Made(h)' = Cardinality(RecordsOf(h)) + 1
    BY <1>6, <2>1 DEF Made
  <2>3. Made(h) = Cardinality(RecordsOf(h))
    BY DEF Made
  <2> QED BY <1>7, <2>2, <2>3
<1>9. Said(h)' = Said(h) \cup {result}
  <2>1. {q.result : q \in {r}} = {result} /\ {q.result : q \in {}} = {}
    BY <1>2
  <2> QED BY <1>4, <1>6, <2>1 DEF Said
<1> QED BY <1>4, <1>5, <1>8, <1>9 DEF r

\* The verdict of a device is nobody's answer.
LEMMA VerdictCountsNot ==
  ASSUME NEW h, NEW id, Add(Rec(h, id, "effect ok")), NEW g
  PROVE  log' = log /\ Open(g)' = Open(g)
<1> DEFINE r == Rec(h, id, "effect ok")
<1>1. log' = log /\ adding' = adding \cup {r}
  BY DEF Add
<1>2. ~OfHook(r, g)
  BY DEF OfHook, Rec
<1> HIDE DEF r
<1> QED BY <1>1, <1>2 DEF Open

\* A record that goes into the log has been counted.
LEMMA InsertCounts ==
  ASSUME NEW r, Insert(r), NEW S, log \in Seq(S), NEW g,
         \A p, q \in Open(g) : p = q
  PROVE  /\ Open(g)' \subseteq Open(g)
         /\ Made(g)' = Made(g) /\ Said(g)' = Said(g)
<1>1. r \in adding /\ adding' = adding \ {r} /\ log' = Append(log, r)
  BY DEF Insert
<1> DEFINE T == S \cup {r}
<1>2. log \in Seq(T) /\ r \in T
  BY SeqMonotonic
<1>3. /\ Len(log) \in Nat /\ Len(log') = Len(log) + 1
      /\ log'[Len(log) + 1] = r /\ \A j \in 1 .. Len(log) : log'[j] = log[j]
  <2> HIDE DEF T
  <2> QED BY <1>1, <1>2, AppendProperties
<1> DEFINE n == Len(log) + 1
<1>4. IsFiniteSet(RecordsOf(g)) /\ Cardinality(RecordsOf(g)) \in Nat
  BY RecordsAreCounted
<1>5. CASE OfHook(r, g)
  <2>1. Open(g) = {r} /\ Open(g)' = {}
    BY <1>1, <1>5 DEF Open
  <2>2. RecordsOf(g)' = RecordsOf(g) \cup {n} /\ n \notin RecordsOf(g)
    BY <1>3, <1>5 DEF RecordsOf
  <2>3. Cardinality(RecordsOf(g)') = Cardinality(RecordsOf(g)) + 1
    BY <1>4, <2>2, FS_AddElement
  <2>4. Made(g)' = Made(g)
    BY <1>4, <2>1, <2>3 DEF Made
  <2>5. ResultsOf(g)' = ResultsOf(g) \cup {r.result}
    <3>1. \A i \in RecordsOf(g) : log'[i] = log[i]
      BY <1>3 DEF RecordsOf
    <3> QED BY <1>3, <2>2, <3>1 DEF ResultsOf
  <2>6. Said(g)' = Said(g)
    <3>1. {q.result : q \in {r}} = {r.result} /\ {q.result : q \in {}} = {}
      OBVIOUS
    <3> QED BY <2>1, <2>5, <3>1 DEF Said
  <2> QED BY <2>1, <2>4, <2>6
<1>6. CASE ~OfHook(r, g)
  <2>1. Open(g)' = Open(g)
    BY <1>1, <1>6 DEF Open
  <2>2. RecordsOf(g)' = RecordsOf(g)
    BY <1>3, <1>6 DEF RecordsOf
  <2>3. \A i \in RecordsOf(g) : log'[i] = log[i]
    BY <1>3 DEF RecordsOf
  <2>4. ResultsOf(g)' = ResultsOf(g)
    BY <2>2, <2>3 DEF ResultsOf
  <2> QED BY <2>1, <2>2, <2>4 DEF Made, Said
<1> QED BY <1>5, <1>6

-----------------------------------------------------------------------------
(* Every hook is accounted for. *)

AnswerOfMapping == {"queued", "quiet hours", "cooldown", "invalid"}

\* What a handler of that kind, at step with that reply and count, has made and said.
Account(kind, step, answer, n, made, said) ==
  /\ step \in {"authenticate", "body", "loop"} => kind = "hook"
  /\ step \notin {"loop", "done"} => made = 0 /\ n = 0 /\ said = {}
  /\ step = "loop" => made = n /\ said \subseteq AnswerOfMapping
  /\ step = "done" =>
       CASE answer = "queued" -> n > 0 /\ made = n /\ said \subseteq AnswerOfMapping
         [] answer = "no mapping" -> made = 1 /\ said \subseteq {"no match"}
         [] OTHER -> IF kind = "hook" THEN made = 1 /\ said \subseteq {"rejected"}
                     ELSE made = 0

\* The handler of h is inside one Add at most, and its account is right.
AccountOf(h) ==
  /\ \A p, q \in Open(h) : p = q
  /\ Account(req[h].kind, pc[h], reply[h], matched[h], Made(h), Said(h))

AccountInv == \A h \in Hook : AccountOf(h)

LEMMA SameAccount ==
  ASSUME NEW g, AccountOf(g), Open(g)' \subseteq Open(g), Made(g)' = Made(g), Said(g)' = Said(g),
         req'[g] = req[g], pc'[g] = pc[g], reply'[g] = reply[g], matched'[g] = matched[g]
  PROVE  AccountOf(g)'
  BY DEF AccountOf

\* Only the handler of h moves, and only for h is something added.
LEMMA OthersKeepTheirAccount ==
  ASSUME TypeOK, AccountInv, NEW h \in Hook, AccountOf(h)', log' = log,
         \A g : g # h => Open(g)' = Open(g),
         \A g \in Hook : g # h =>
           /\ req'[g] = req[g] /\ pc'[g] = pc[g]
           /\ reply'[g] = reply[g] /\ matched'[g] = matched[g]
  PROVE  AccountInv'
<1>1. ASSUME NEW g \in Hook, g # h PROVE AccountOf(g)'
  <2>1. Open(g)' = Open(g)
    BY <1>1
  <2> QED BY <1>1, <2>1, SameSaid, SameAccount DEF AccountInv
<1> QED BY <1>1 DEF AccountInv

\* One record of h, not a verdict, on top of none on its way.
LEMMA OneMore ==
  ASSUME TypeOK, AccountInv, NEW h \in Hook, ~Adding(h), NEW id, NEW result,
         result # "effect ok", Add(Rec(h, id, result)),
         Account(req'[h].kind, pc'[h], reply'[h], matched'[h], Made(h) + 1, Said(h) \cup {result})
  PROVE  AccountOf(h)' /\ log' = log /\ \A g : g # h => Open(g)' = Open(g)
<1>1. Open(h) = {} /\ log \in Seq(Record)
  BY AddingIsOpen DEF TypeOK, RingOK
<1>2. /\ Open(h)' = {Rec(h, id, result)} /\ Made(h)' = Made(h) + 1
      /\ Said(h)' = Said(h) \cup {result}
      /\ \A g : g # h => Open(g)' = Open(g)
  BY <1>1, AddCounts
<1> QED BY <1>2 DEF AccountOf, Add

\* No record of h is made.
LEMMA NoMore ==
  ASSUME AccountInv, NEW h \in Hook, AddsNothing,
         Account(req'[h].kind, pc'[h], reply'[h], matched'[h], Made(h), Said(h))
  PROVE  AccountOf(h)' /\ log' = log /\ \A g : g # h => Open(g)' = Open(g)
<1>1. log' = log /\ \A g : Open(g)' = Open(g)
  BY DEF AddsNothing, Open
<1>2. Made(h)' = Made(h) /\ Said(h)' = Said(h) /\ Open(h)' = Open(h)
  BY <1>1, SameSaid
<1> QED BY <1>1, <1>2 DEF AccountOf, AccountInv

LEMMA EnqueueAccounts ==
  ASSUME TypeOK, AccountInv, NEW h \in Hook, ~Adding(h), NEW m, NEW results,
         "effect ok" \notin results, Enqueue(h, m, results),
         \A result \in results :
           Account(req'[h].kind, pc'[h], reply'[h], matched'[h], Made(h) + 1, Said(h) \cup {result})
  PROVE  AccountOf(h)' /\ log' = log /\ \A g : g # h => Open(g)' = Open(g)
<1>1. PICK result \in results : Add(Rec(h, m.id, result))
  BY DEF Enqueue
<1> QED BY <1>1, OneMore

LEMMA AccountStep == TypeOK /\ AccountInv /\ [Next]_vars => AccountInv'
<1> SUFFICES ASSUME TypeOK, AccountInv, [Next]_vars PROVE AccountInv'
  OBVIOUS
<1>0. /\ pc \in [Hook -> {"idle", "authenticate", "body", "dispatch", "loop", "end", "done"}]
      /\ matched \in [Hook -> Nat] /\ DOMAIN reply = Hook
  BY DEF TypeOK
<1>a. ASSUME NEW h \in Hook
      PROVE  Account(req[h].kind, pc[h], reply[h], matched[h], Made(h), Said(h))
  BY DEF AccountInv, AccountOf
<1>1. ASSUME NEW h \in Hook, Arrive(h) PROVE AccountInv'
  <2>1. /\ pc[h] = "idle" /\ pc'[h] = IF req[h].kind = "hook" THEN "authenticate" ELSE "dispatch"
        /\ \A g \in Hook : g # h => pc'[g] = pc[g]
        /\ AddsNothing /\ UNCHANGED <<req, reply, matched>>
    BY <1>0, <1>1 DEF Arrive
  <2>2. Account(req'[h].kind, pc'[h], reply'[h], matched'[h], Made(h), Said(h))
    BY <1>a, <2>1 DEF Account
  <2> QED BY <2>1, <2>2, NoMore, OthersKeepTheirAccount
<1>2. ASSUME NEW h \in Hook, Authenticate(h) PROVE AccountInv'
  <2>1. /\ pc[h] = "authenticate" /\ ~Adding(h) /\ UNCHANGED <<req, matched>>
        /\ \A g \in Hook : g # h => pc'[g] = pc[g] /\ reply'[g] = reply[g]
        /\ \/ (Add(Rec(h, "-", "rejected")) /\ pc'[h] = "done" /\ reply'[h] = "forbidden")
           \/ (AddsNothing /\ pc'[h] = "body" /\ reply'[h] = reply[h])
    BY <1>0, <1>2 DEF Authenticate, At, Reply
  <2>2. CASE Add(Rec(h, "-", "rejected")) /\ pc'[h] = "done" /\ reply'[h] = "forbidden"
    <3>1. Account(req'[h].kind, pc'[h], reply'[h], matched'[h], Made(h) + 1, Said(h) \cup {"rejected"})
      <4>1. req[h].kind = "hook" /\ Made(h) + 1 = 1 /\ Said(h) \cup {"rejected"} = {"rejected"}
        <5>1. Account(req[h].kind, pc[h], reply[h], matched[h], Made(h), Said(h))
          BY <1>a
        <5>2. req[h].kind = "hook" /\ Made(h) = 0 /\ Said(h) = {}
          BY <2>1, <5>1 DEF Account
        <5> QED BY <5>2
      <4>2. Account("hook", "done", "forbidden", matched[h], 1, {"rejected"})
        BY DEF Account
      <4> QED BY <2>1, <2>2, <4>1, <4>2
    <3> QED BY <2>1, <2>2, <3>1, OneMore, OthersKeepTheirAccount
  <2>3. CASE AddsNothing /\ pc'[h] = "body" /\ reply'[h] = reply[h]
    <3>1. Account(req'[h].kind, pc'[h], reply'[h], matched'[h], Made(h), Said(h))
      BY <1>a, <2>1, <2>3 DEF Account
    <3> QED BY <2>1, <2>3, <3>1, NoMore, OthersKeepTheirAccount
  <2> QED BY <2>1, <2>2, <2>3
<1>3. ASSUME NEW h \in Hook, Body(h) PROVE AccountInv'
  <2>1. /\ pc[h] = "body" /\ ~Adding(h) /\ UNCHANGED <<req, matched>>
        /\ \A g \in Hook : g # h => pc'[g] = pc[g] /\ reply'[g] = reply[g]
        /\ \/ (Add(Rec(h, "-", "rejected")) /\ pc'[h] = "done" /\ reply'[h] = "bad request")
           \/ (AddsNothing /\ pc'[h] = "dispatch" /\ reply'[h] = reply[h])
    BY <1>0, <1>3 DEF Body, At, Reply
  <2>2. CASE Add(Rec(h, "-", "rejected")) /\ pc'[h] = "done" /\ reply'[h] = "bad request"
    <3>1. Account(req'[h].kind, pc'[h], reply'[h], matched'[h], Made(h) + 1, Said(h) \cup {"rejected"})
      <4>1. req[h].kind = "hook" /\ Made(h) + 1 = 1 /\ Said(h) \cup {"rejected"} = {"rejected"}
        <5>1. Account(req[h].kind, pc[h], reply[h], matched[h], Made(h), Said(h))
          BY <1>a
        <5>2. req[h].kind = "hook" /\ Made(h) = 0 /\ Said(h) = {}
          BY <2>1, <5>1 DEF Account
        <5> QED BY <5>2
      <4>2. Account("hook", "done", "bad request", matched[h], 1, {"rejected"})
        BY DEF Account
      <4> QED BY <2>1, <2>2, <4>1, <4>2
    <3> QED BY <2>1, <2>2, <3>1, OneMore, OthersKeepTheirAccount
  <2>3. CASE AddsNothing /\ pc'[h] = "dispatch" /\ reply'[h] = reply[h]
    <3>1. Account(req'[h].kind, pc'[h], reply'[h], matched'[h], Made(h), Said(h))
      BY <1>a, <2>1, <2>3 DEF Account
    <3> QED BY <2>1, <2>3, <3>1, NoMore, OthersKeepTheirAccount
  <2> QED BY <2>1, <2>2, <2>3
<1>4. ASSUME NEW h \in Hook, Dispatch(h) PROVE AccountInv'
  <2>1. /\ pc[h] = "dispatch" /\ req[h].kind = "hook" /\ pc'[h] = "loop"
        /\ \A g \in Hook : g # h => pc'[g] = pc[g]
        /\ AddsNothing /\ UNCHANGED <<req, reply, matched>>
    BY <1>0, <1>4 DEF Dispatch, At
  <2>2. Account(req'[h].kind, pc'[h], reply'[h], matched'[h], Made(h), Said(h))
    BY <1>a, <2>1 DEF Account
  <2> QED BY <2>1, <2>2, NoMore, OthersKeepTheirAccount
<1>5. ASSUME NEW h \in Hook, DispatchOne(h) PROVE AccountInv'
  <2> DEFINE m == Head(todo[h])
  <2>1. /\ pc[h] = "loop" /\ ~Adding(h) /\ UNCHANGED <<req, pc, reply>>
        /\ \A g \in Hook : g # h => matched'[g] = matched[g]
        /\ \/ (AddsNothing /\ UNCHANGED matched)
           \/ (Add(Rec(h, m.id, "invalid")) /\ matched'[h] = matched[h] + 1)
           \/ (Enqueue(h, m, {"queued", "quiet hours", "cooldown"}) /\ matched'[h] = matched[h] + 1)
    BY <1>0, <1>5 DEF DispatchOne, At
  <2> HIDE DEF m
  <2>2. CASE AddsNothing /\ UNCHANGED matched
    BY <1>a, <2>1, <2>2, NoMore, OthersKeepTheirAccount
  <2>3. ASSUME NEW result \in AnswerOfMapping, matched'[h] = matched[h] + 1
        PROVE  Account(req'[h].kind, pc'[h], reply'[h], matched'[h], Made(h) + 1, Said(h) \cup {result})
    BY <1>a, <2>1, <2>3 DEF Account
  <2>4. CASE Add(Rec(h, m.id, "invalid")) /\ matched'[h] = matched[h] + 1
    <3>1. Account(req'[h].kind, pc'[h], reply'[h], matched'[h], Made(h) + 1, Said(h) \cup {"invalid"})
      BY <2>3, <2>4 DEF AnswerOfMapping
    <3> QED BY <2>1, <2>4, <3>1, OneMore, OthersKeepTheirAccount
  <2>5. CASE Enqueue(h, m, {"queued", "quiet hours", "cooldown"}) /\ matched'[h] = matched[h] + 1
    <3>1. \A result \in {"queued", "quiet hours", "cooldown"} :
            Account(req'[h].kind, pc'[h], reply'[h], matched'[h], Made(h) + 1, Said(h) \cup {result})
      BY <2>3, <2>5 DEF AnswerOfMapping
    <3>2. AccountOf(h)' /\ log' = log /\ \A g : g # h => Open(g)' = Open(g)
      BY <2>1, <2>5, <3>1, EnqueueAccounts
    <3> QED BY <2>1, <3>2, OthersKeepTheirAccount
  <2> QED BY <2>1, <2>2, <2>4, <2>5
<1>6. ASSUME NEW h \in Hook, Dispatched(h) PROVE AccountInv'
  <2>1. /\ pc[h] = "loop" /\ ~Adding(h) /\ pc'[h] = "done" /\ UNCHANGED <<req, matched>>
        /\ \A g \in Hook : g # h => pc'[g] = pc[g] /\ reply'[g] = reply[g]
        /\ matched[h] \in Nat
        /\ \/ (Add(Rec(h, "-", "no match")) /\ matched[h] = 0 /\ reply'[h] = "no mapping")
           \/ (AddsNothing /\ matched[h] # 0 /\ reply'[h] = "queued")
    BY <1>0, <1>6 DEF Dispatched, At, Reply
  <2>2. CASE Add(Rec(h, "-", "no match")) /\ matched[h] = 0 /\ reply'[h] = "no mapping"
    <3>1. Said(h) = {}
      <4>1. Open(h) = {} /\ Made(h) = 0
        BY <1>a, <2>1, <2>2, AddingIsOpen DEF Account
      <4>2. RecordsOf(h) = {}
        <5>1. IsFiniteSet(RecordsOf(h)) /\ Cardinality(RecordsOf(h)) \in Nat
          BY RecordsAreCounted DEF TypeOK, RingOK
        <5>2. Cardinality(RecordsOf(h)) = 0
          BY <4>1, <5>1 DEF Made
        <5> QED BY <5>1, <5>2, FS_EmptySet
      <4> QED BY <4>1, <4>2 DEF Said, ResultsOf
    <3>2. Account(req'[h].kind, pc'[h], reply'[h], matched'[h], Made(h) + 1, Said(h) \cup {"no match"})
      <4>1. Made(h) + 1 = 1 /\ Said(h) \cup {"no match"} = {"no match"}
        <5>1. Account(req[h].kind, pc[h], reply[h], matched[h], Made(h), Said(h))
          BY <1>a
        <5>2. Made(h) = 0
          BY <2>1, <2>2, <5>1 DEF Account
        <5> QED BY <3>1, <5>2
      <4>2. \A kind : Account(kind, "done", "no mapping", 0, 1, {"no match"})
        BY DEF Account
      <4> QED BY <2>1, <2>2, <4>1, <4>2
    <3> QED BY <2>1, <2>2, <3>2, OneMore, OthersKeepTheirAccount
  <2>3. CASE AddsNothing /\ matched[h] # 0 /\ reply'[h] = "queued"
    <3>1. Account(req'[h].kind, pc'[h], reply'[h], matched'[h], Made(h), Said(h))
      <4>1. Made(h) = matched[h] /\ Said(h) \subseteq AnswerOfMapping /\ matched[h] > 0
        <5>1. Account(req[h].kind, pc[h], reply[h], matched[h], Made(h), Said(h))
          BY <1>a
        <5>2. Made(h) = matched[h] /\ Said(h) \subseteq AnswerOfMapping
          BY <2>1, <5>1 DEF Account
        <5> QED BY <2>1, <2>3, <5>2
      <4>2. Account(req[h].kind, "done", "queued", matched[h], Made(h), Said(h))
        BY <4>1 DEF Account
      <4> QED BY <2>1, <2>3, <4>2
    <3> QED BY <2>1, <2>3, <3>1, NoMore, OthersKeepTheirAccount
  <2> QED BY <2>1, <2>2, <2>3
<1>7. ASSUME NEW h \in Hook, MappingTest(h) PROVE AccountInv'
  <2>1. /\ pc[h] = "dispatch" /\ ~Adding(h) /\ pc'[h] = "done" /\ req[h].kind = "test"
        /\ req' = req
        /\ \A g \in Hook : g # h => pc'[g] = pc[g] /\ reply'[g] = reply[g] /\ matched'[g] = matched[g]
        /\ \/ (AddsNothing /\ matched' = matched /\ reply'[h] \in {"not found", "bad request"})
           \/ ((\E m : Enqueue(h, m, {"queued", "quiet hours"})) /\ matched'[h] = 1 /\ reply'[h] = "queued")
    BY <1>0, <1>7 DEF MappingTest, At, Reply
  <2>2. CASE AddsNothing /\ matched' = matched /\ reply'[h] \in {"not found", "bad request"}
    <3>1. Account(req'[h].kind, pc'[h], reply'[h], matched'[h], Made(h), Said(h))
      BY <1>a, <2>1, <2>2 DEF Account
    <3> QED BY <2>1, <2>2, <3>1, NoMore, OthersKeepTheirAccount
  <2>3. ASSUME NEW m, Enqueue(h, m, {"queued", "quiet hours"}), matched'[h] = 1, reply'[h] = "queued"
        PROVE  AccountInv'
    <3>1. \A result \in {"queued", "quiet hours"} :
            Account(req'[h].kind, pc'[h], reply'[h], matched'[h], Made(h) + 1, Said(h) \cup {result})
      <4>1. Made(h) + 1 = 1 /\ Said(h) = {}
        <5>1. Account(req[h].kind, pc[h], reply[h], matched[h], Made(h), Said(h))
          BY <1>a
        <5>2. Made(h) = 0 /\ Said(h) = {}
          BY <2>1, <5>1 DEF Account
        <5> QED BY <5>2
      <4>2. \A result \in {"queued", "quiet hours"} : Account("test", "done", "queued", 1, 1, {result})
        <5>1. 1 > 0 /\ \A result \in {"queued", "quiet hours"} : {result} \subseteq AnswerOfMapping
          BY DEF AnswerOfMapping
        <5> QED BY <5>1 DEF Account
      <4>3. ASSUME NEW result \in {"queued", "quiet hours"}
            PROVE  Account(req'[h].kind, pc'[h], reply'[h], matched'[h], Made(h) + 1, Said(h) \cup {result})
        <5>1. Said(h) \cup {result} = {result}
          BY <4>1
        <5> QED BY <2>1, <2>3, <4>1, <4>2, <5>1
      <4> QED BY <4>3
    <3>2. AccountOf(h)' /\ log' = log /\ \A g : g # h => Open(g)' = Open(g)
      BY <2>1, <2>3, <3>1, EnqueueAccounts
    <3> QED BY <2>1, <3>2, OthersKeepTheirAccount
  <2> QED BY <2>1, <2>2, <2>3
<1>8. ASSUME NEW j \in running, Verdict(j[1], j[2]) PROVE AccountInv'
  <2>1. UNCHANGED <<req, pc, reply, matched>> /\ Add(Rec(j[1], j[2].id, "effect ok"))
    BY <1>8 DEF Verdict, handlers
  <2>2. ASSUME NEW g \in Hook PROVE AccountOf(g)'
    BY <2>1, VerdictCountsNot, SameSaid, SameAccount DEF AccountInv
  <2> QED BY <2>2 DEF AccountInv
<1>9. ASSUME NEW r \in adding, Recorded(r) PROVE AccountInv'
  <2>1. UNCHANGED <<req, pc, reply, matched>> /\ Insert(r) /\ log \in Seq(Record)
    BY <1>9 DEF Recorded, handlers, TypeOK, RingOK
  <2>2. ASSUME NEW g \in Hook PROVE AccountOf(g)'
    <3>1. \A p, q \in Open(g) : p = q
      BY DEF AccountInv, AccountOf
    <3> QED BY <2>1, <3>1, InsertCounts, SameAccount DEF AccountInv
  <2> QED BY <2>2 DEF AccountInv
<1>10. CASE UNCHANGED <<req, pc, reply, matched, adding, log>>
  <2>1. ASSUME NEW g \in Hook PROVE AccountOf(g)'
    <3>1. Open(g)' = Open(g)
      BY <1>10 DEF Open
    <3> QED BY <1>10, <3>1, SameSaid, SameAccount DEF AccountInv
  <2> QED BY <2>1 DEF AccountInv
<1>11. ASSUME NEW c \in Configs, Save(c) PROVE AccountInv'
  BY <1>10, <1>11 DEF Save, AddsNothing, handlers
<1>12. CASE UNCHANGED vars
  BY <1>10, <1>12 DEF vars, handlers
<1> QED BY <1>1, <1>2, <1>3, <1>4, <1>5, <1>6, <1>7, <1>8, <1>9, <1>11, <1>12 DEF Next

LEMMA AccountInitially == Init => AccountInv
<1> SUFFICES ASSUME Init, NEW h \in Hook PROVE AccountOf(h)
  BY DEF AccountInv
<1>1. log = <<>> /\ Len(log) = 0 /\ Open(h) = {}
  BY DEF Init, RingInit, Open
<1>2. RecordsOf(h) = {} /\ Made(h) = 0 /\ Said(h) = {}
  BY <1>1, FS_EmptySet DEF RecordsOf, Made, Said, ResultsOf
<1> QED BY <1>1, <1>2 DEF Init, AccountOf, Account

LEMMA AccountsAnswer == TypeOK /\ AccountInv => EveryHookIsAccounted
<1> SUFFICES ASSUME TypeOK, AccountInv, NEW h \in Hook, pc[h] = "done", ~Adding(h)
             PROVE  CASE reply[h] = "queued" ->
                           /\ matched[h] > 0 /\ Cardinality(RecordsOf(h)) = matched[h]
                           /\ ResultsOf(h) \subseteq AnswerOfMapping
                      [] reply[h] = "no mapping" ->
                           Cardinality(RecordsOf(h)) = 1 /\ ResultsOf(h) = {"no match"}
                      [] OTHER ->
                           IF req[h].kind = "hook"
                           THEN Cardinality(RecordsOf(h)) = 1 /\ ResultsOf(h) = {"rejected"}
                           ELSE RecordsOf(h) = {}
  BY DEF EveryHookIsAccounted, AnswerOfMapping
<1>1. IsFiniteSet(RecordsOf(h)) /\ Cardinality(RecordsOf(h)) \in Nat
  BY RecordsAreCounted DEF TypeOK, RingOK
<1>2. Open(h) = {}
  BY AddingIsOpen
<1>3. Made(h) = Cardinality(RecordsOf(h)) /\ ResultsOf(h) \subseteq Said(h)
  BY <1>1, <1>2 DEF Made, Said
<1>4. Account(req[h].kind, "done", reply[h], matched[h], Made(h), Said(h))
  BY DEF AccountInv, AccountOf
<1>5. Made(h) = 0 => RecordsOf(h) = {}
  BY <1>1, <1>3, FS_EmptySet
<1>6. Made(h) = 1 => ResultsOf(h) # {}
  <2>1. Made(h) = 1 => RecordsOf(h) # {}
    <3>1. RecordsOf(h) = {} => Made(h) = 0
      <4>1. RecordsOf(h) = {} <=> Cardinality(RecordsOf(h)) = 0
        BY <1>1, FS_EmptySet
      <4> QED BY <1>3, <4>1
    <3> QED BY <3>1
  <2> QED BY <2>1 DEF ResultsOf
<1> QED BY <1>3, <1>4, <1>5, <1>6 DEF Account

\* Whatever the hooks and the saves, and however the records of many goroutines are
\* interleaved: once a request is answered and its Add is over, the log tells what
\* became of it, one record for every mapping the answer counts.
THEOREM HooksAreAccounted == Spec => []EveryHookIsAccounted
<1>1. Init => TypeOK /\ AccountInv
  BY TypeInitially, AccountInitially
<1>2. (TypeOK /\ AccountInv) /\ [Next]_vars => (TypeOK /\ AccountInv)'
  BY TypeStep, AccountStep
<1>3. TypeOK /\ AccountInv => EveryHookIsAccounted
  BY AccountsAnswer
<1> QED BY <1>1, <1>2, <1>3, PTL DEF Spec

-----------------------------------------------------------------------------
(* Nothing runs that was not configured. *)

\* What the configurations that were live while h was served contain.
LiveTokens(h) == UNION {c.tokens : c \in seen[h]}
LiveMappings(h) == UNION {{c.mappings[i] : i \in 1 .. Len(c.mappings)} : c \in seen[h]}

\* The token h was authenticated with, and the mappings it still has to match, were live.
KnownToken(h) == \E t \in LiveTokens(h) : t.secret = req[h].secret /\ name[h] = t.name

OriginOf(h) ==
  /\ pc[h] \notin {"idle", "done"} => cfg \in seen[h]
  /\ pc[h] \in {"body", "dispatch", "loop"} /\ req[h].kind = "hook" => KnownToken(h)
  /\ pc[h] = "loop" => \A i \in 1 .. Len(todo[h]) : todo[h][i] \in LiveMappings(h)

\* A job that h started has a live mapping and a live token.
JobOrigin(h, m) ==
  /\ m.enabled /\ m \in LiveMappings(h)
  /\ \E t \in LiveTokens(h) : t.secret = req[h].secret /\ m.token \in {AnyToken, t.name}

\* Nothing is fired before a hook arrives, when the first configuration is seen.
OriginInv ==
  /\ \A h \in Hook : OriginOf(h)
  /\ \A j \in fired : pc[j[1]] # "idle"
  /\ \A j \in fired : req[j[1]].kind = "hook" => JobOrigin(j[1], j[2])

LEMMA OriginIsConfigured == OriginInv => NothingRunsUnconfigured
<1> SUFFICES ASSUME NEW h, NEW m, JobOrigin(h, m)
             PROVE  /\ \E c \in seen[h] : m.enabled /\ \E i \in 1 .. Len(c.mappings) : c.mappings[i] = m
                    /\ \E c \in seen[h] : \E t \in c.tokens :
                         t.secret = req[h].secret /\ m.token \in {AnyToken, t.name}
  BY DEF OriginInv, NothingRunsUnconfigured
<1>1. \E c \in seen[h] : m.enabled /\ \E i \in 1 .. Len(c.mappings) : c.mappings[i] = m
  BY DEF JobOrigin, LiveMappings
<1>2. \E c \in seen[h] : \E t \in c.tokens :
        t.secret = req[h].secret /\ m.token \in {AnyToken, t.name}
  BY DEF JobOrigin, LiveTokens
<1> QED BY <1>1, <1>2

\* What is seen is never forgotten.
LEMMA LiveLasts ==
  ASSUME NEW h, seen[h] \subseteq seen'[h]
  PROVE  LiveTokens(h) \subseteq LiveTokens(h)' /\ LiveMappings(h) \subseteq LiveMappings(h)'
  BY DEF LiveTokens, LiveMappings

LEMMA LiveStays ==
  ASSUME NEW h, seen'[h] = seen[h]
  PROVE  LiveTokens(h)' = LiveTokens(h) /\ LiveMappings(h)' = LiveMappings(h)
  BY DEF LiveTokens, LiveMappings

LEMMA OriginLasts ==
  ASSUME NEW h, NEW m, seen[h] \subseteq seen'[h], req' = req
  PROVE  /\ JobOrigin(h, m) => JobOrigin(h, m)'
         /\ KnownToken(h) /\ name'[h] = name[h] => KnownToken(h)'
  BY LiveLasts DEF JobOrigin, KnownToken

LEMMA SameOrigin ==
  ASSUME NEW h, OriginOf(h), UNCHANGED <<cfg, req>>, seen'[h] = seen[h], pc'[h] = pc[h],
         name'[h] = name[h], todo'[h] = todo[h]
  PROVE  OriginOf(h)'
  BY LiveStays DEF OriginOf, KnownToken

\* One handler moves; it starts what it may.
LEMMA OriginStep1 ==
  ASSUME TypeOK, OriginInv, NEW h \in Hook, OriginOf(h)', UNCHANGED <<cfg, req>>,
         \A g \in Hook : g # h =>
           seen'[g] = seen[g] /\ pc'[g] = pc[g] /\ name'[g] = name[g] /\ todo'[g] = todo[g],
         pc'[h] # "idle",
         pc[h] = "idle" \/ seen'[h] = seen[h],
         \A j \in fired' : j \notin fired =>
           j[1] = h /\ (req[h].kind = "hook" => JobOrigin(h, j[2])')
  PROVE  OriginInv'
<1>1. ASSUME NEW g \in Hook PROVE OriginOf(g)'
  BY SameOrigin DEF OriginInv
<1>2. ASSUME NEW j \in fired'
      PROVE  pc'[j[1]] # "idle" /\ (req'[j[1]].kind = "hook" => JobOrigin(j[1], j[2])')
  <2>1. CASE j \in fired
    <3>1. j[1] \in Hook /\ pc[j[1]] # "idle" /\ (req[j[1]].kind = "hook" => JobOrigin(j[1], j[2]))
      BY <2>1 DEF OriginInv, TypeOK
    <3>2. seen'[j[1]] = seen[j[1]] /\ pc'[j[1]] # "idle"
      BY <3>1
    <3> QED BY <3>1, <3>2, OriginLasts
  <2>2. CASE j \notin fired
    BY <2>2
  <2> QED BY <2>1, <2>2
<1> QED BY <1>1, <1>2 DEF OriginInv

\* Handler steps leave the history of the configurations alone and start at most m.
LEMMA EnqueueFires ==
  ASSUME NEW h, NEW m, NEW results, Enqueue(h, m, results)
  PROVE  \A j \in fired' : j \notin fired => j = <<h, m>>
  BY DEF Enqueue

LEMMA OriginStep == TypeOK /\ OriginInv /\ [Next]_vars => OriginInv'
<1> SUFFICES ASSUME TypeOK, OriginInv, [Next]_vars PROVE OriginInv'
  OBVIOUS
<1>0. /\ DOMAIN pc = Hook /\ DOMAIN name = Hook /\ DOMAIN todo = Hook /\ DOMAIN seen = Hook
      /\ todo \in [Hook -> Seq(Mapping)]
  BY DEF TypeOK
<1>a. \A h \in Hook : OriginOf(h)
  BY DEF OriginInv
<1>1. ASSUME NEW h \in Hook, Arrive(h) PROVE OriginInv'
  <2>1. /\ pc[h] = "idle" /\ seen'[h] = {cfg} /\ UNCHANGED <<cfg, req, name, todo, fired>>
        /\ pc'[h] = IF req[h].kind = "hook" THEN "authenticate" ELSE "dispatch"
        /\ \A g \in Hook : g # h => seen'[g] = seen[g] /\ pc'[g] = pc[g]
    BY <1>0, <1>1 DEF Arrive
  <2>2. OriginOf(h)'
    BY <2>1 DEF OriginOf
  <2>3. pc'[h] # "idle"
    BY <2>1
  <2> QED BY <2>1, <2>2, <2>3, OriginStep1
<1>2. ASSUME NEW h \in Hook, Authenticate(h) PROVE OriginInv'
  <2>1. /\ pc[h] = "authenticate" /\ UNCHANGED <<cfg, req, todo, seen, fired>>
        /\ \A g \in Hook : g # h => pc'[g] = pc[g] /\ name'[g] = name[g]
        /\ \/ pc'[h] = "done"
           \/ (pc'[h] = "body" /\ \E t \in TokensOf(req[h].secret) : name'[h] = t.name)
    BY <1>0, <1>2 DEF Authenticate, At, Reply
  <2>2. cfg \in seen[h]
    BY <1>a, <2>1 DEF OriginOf
  <2>3. pc'[h] = "body" => KnownToken(h)'
    <3>1. cfg.tokens \subseteq LiveTokens(h) /\ LiveTokens(h)' = LiveTokens(h)
      BY <2>1, <2>2, LiveStays DEF LiveTokens
    <3> QED BY <2>1, <3>1 DEF KnownToken, TokensOf
  <2>4. OriginOf(h)'
    BY <2>1, <2>2, <2>3 DEF OriginOf
  <2>5. pc'[h] # "idle"
    BY <2>1
  <2> QED BY <2>1, <2>4, <2>5, OriginStep1
<1>3. ASSUME NEW h \in Hook, Body(h) PROVE OriginInv'
  <2>1. /\ pc[h] = "body" /\ pc'[h] \in {"done", "dispatch"}
        /\ UNCHANGED <<cfg, req, name, todo, seen, fired>>
        /\ \A g \in Hook : g # h => pc'[g] = pc[g]
    BY <1>0, <1>3 DEF Body, At, Reply
  <2>2. KnownToken(h)' = KnownToken(h)
    BY <2>1, LiveStays DEF KnownToken
  <2>3. OriginOf(h)'
    BY <1>a, <2>1, <2>2 DEF OriginOf
  <2>4. pc'[h] # "idle"
    BY <2>1
  <2> QED BY <2>1, <2>3, <2>4, OriginStep1
<1>4. ASSUME NEW h \in Hook, Dispatch(h) PROVE OriginInv'
  <2>1. /\ pc[h] = "dispatch" /\ pc'[h] = "loop" /\ req[h].kind = "hook" /\ todo'[h] = cfg.mappings
        /\ UNCHANGED <<cfg, req, name, seen, fired>>
        /\ \A g \in Hook : g # h => pc'[g] = pc[g] /\ todo'[g] = todo[g]
    BY <1>0, <1>4 DEF Dispatch, At
  <2>2. cfg \in seen[h] /\ KnownToken(h)
    BY <1>a, <2>1 DEF OriginOf
  <2>3. KnownToken(h)' /\ \A i \in 1 .. Len(todo'[h]) : todo'[h][i] \in LiveMappings(h)'
    <3>1. LiveTokens(h)' = LiveTokens(h) /\ LiveMappings(h)' = LiveMappings(h)
      BY <2>1, LiveStays
    <3>2. \A i \in 1 .. Len(cfg.mappings) : cfg.mappings[i] \in LiveMappings(h)
      BY <2>2 DEF LiveMappings
    <3>3. KnownToken(h)'
      BY <2>1, <2>2, <3>1 DEF KnownToken
    <3> QED BY <2>1, <3>1, <3>2, <3>3
  <2>4. OriginOf(h)'
    <3>1. cfg' \in seen'[h]
      BY <2>1, <2>2
    <3> QED BY <2>3, <3>1 DEF OriginOf
  <2> QED BY <2>1, <2>4, OriginStep1
<1>5. ASSUME NEW h \in Hook, DispatchOne(h) PROVE OriginInv'
  <2> DEFINE m == Head(todo[h])
  <2>1. /\ pc[h] = "loop" /\ todo[h] # <<>> /\ todo'[h] = Tail(todo[h])
        /\ UNCHANGED <<cfg, req, pc, name, seen>>
        /\ \A g \in Hook : g # h => todo'[g] = todo[g]
    BY <1>0, <1>5 DEF DispatchOne, At
  <2>2. todo[h] \in Seq(Mapping)
    BY <1>0
  <2>3. /\ Len(todo[h]) \in Nat \ {0} /\ Len(Tail(todo[h])) = Len(todo[h]) - 1
        /\ \A i \in 1 .. Len(Tail(todo[h])) : Tail(todo[h])[i] = todo[h][i + 1]
        /\ m = todo[h][1]
    BY <2>1, <2>2, HeadTailProperties, EmptySeq
  <2>4. LiveTokens(h)' = LiveTokens(h) /\ LiveMappings(h)' = LiveMappings(h)
    BY <2>1, LiveStays
  <2>5. /\ cfg \in seen[h] /\ (req[h].kind = "hook" => KnownToken(h))
        /\ \A i \in 1 .. Len(todo[h]) : todo[h][i] \in LiveMappings(h)
    BY <1>a, <2>1 DEF OriginOf
  <2>6. (req'[h].kind = "hook" => KnownToken(h)') /\ cfg' \in seen'[h]
    BY <2>1, <2>4, <2>5 DEF KnownToken
  <2>7. OriginOf(h)'
    <3>1. ASSUME NEW i \in 1 .. Len(todo'[h]) PROVE todo'[h][i] \in LiveMappings(h)'
      <4>1. i + 1 \in 1 .. Len(todo[h]) /\ todo'[h][i] = todo[h][i + 1]
        BY <2>1, <2>3
      <4> QED BY <2>4, <2>5, <4>1
    <3> QED BY <2>6, <3>1 DEF OriginOf
  <2>8. ASSUME NEW j \in fired', j \notin fired
        PROVE  j[1] = h /\ (req[h].kind = "hook" => JobOrigin(h, j[2])')
    <3>1. Matches(h, m) /\ j = <<h, m>>
      BY <1>5, <2>8, EnqueueFires DEF DispatchOne
    <3>2. j[1] = h /\ j[2] = m
      BY <3>1
    <3>3. j[2] \in LiveMappings(h)
      <4>1. 1 \in 1 .. Len(todo[h])
        BY <2>3
      <4> QED BY <2>3, <2>5, <3>2, <4>1
    <3>4. j[2].enabled /\ j[2].token \in {AnyToken, name[h]}
      BY <3>1, <3>2 DEF Matches
    <3>5. req[h].kind = "hook" => JobOrigin(h, j[2])'
      BY <2>1, <2>4, <2>5, <3>3, <3>4 DEF JobOrigin, KnownToken
    <3> QED BY <3>2, <3>5
  <2>9. pc'[h] # "idle"
    BY <2>1
  <2> QED BY <2>1, <2>7, <2>8, <2>9, OriginStep1
<1>6. ASSUME NEW h \in Hook, Dispatched(h) PROVE OriginInv'
  <2>1. /\ pc'[h] = "done" /\ UNCHANGED <<cfg, req, name, todo, seen, fired>>
        /\ \A g \in Hook : g # h => pc'[g] = pc[g]
    BY <1>0, <1>6 DEF Dispatched, Reply
  <2>2. OriginOf(h)'
    BY <2>1 DEF OriginOf
  <2> QED BY <2>1, <2>2, OriginStep1
<1>7. ASSUME NEW h \in Hook, MappingTest(h) PROVE OriginInv'
  <2>1. /\ pc'[h] = "done" /\ UNCHANGED <<cfg, req, name, todo, seen>> /\ req[h].kind = "test"
        /\ \A g \in Hook : g # h => pc'[g] = pc[g]
        /\ (UNCHANGED fired \/ \E m : Enqueue(h, m, {"queued", "quiet hours"}))
    BY <1>0, <1>7 DEF MappingTest, Reply
  <2>2. OriginOf(h)'
    BY <2>1 DEF OriginOf
  <2>3. \A j \in fired' : j \notin fired => j[1] = h
    <3>1. ASSUME NEW m, Enqueue(h, m, {"queued", "quiet hours"})
          PROVE  \A j \in fired' : j \notin fired => j[1] = h
      <4>1. \A j \in fired' : j \notin fired => j = <<h, m>>
        BY <3>1, EnqueueFires
      <4> QED BY <4>1
    <3> QED BY <2>1, <3>1
  <2> QED BY <2>1, <2>2, <2>3, OriginStep1
<1>8. CASE UNCHANGED <<cfg, req, pc, name, todo, seen, fired>>
  <2>1. \A h \in Hook : OriginOf(h)'
    BY <1>a, <1>8, SameOrigin
  <2>2. \A h, m : JobOrigin(h, m)' <=> JobOrigin(h, m)
    BY <1>8, LiveStays DEF JobOrigin
  <2> QED BY <1>8, <2>1, <2>2 DEF OriginInv
<1>9. ASSUME NEW j \in running, Verdict(j[1], j[2]) PROVE OriginInv'
  BY <1>8, <1>9 DEF Verdict, handlers
<1>10. ASSUME NEW r \in adding, Recorded(r) PROVE OriginInv'
  BY <1>8, <1>10 DEF Recorded, handlers
<1>11. ASSUME NEW c \in Configs, Save(c) PROVE OriginInv'
  <2>1. /\ cfg' = c /\ UNCHANGED <<req, pc, name, todo, fired>>
        /\ \A h \in Hook : seen[h] \subseteq seen'[h]
        /\ \A h \in Hook : pc[h] \notin {"idle", "done"} => c \in seen'[h]
    BY <1>0, <1>11 DEF Save, handlers
  <2>2. ASSUME NEW h \in Hook PROVE OriginOf(h)'
    <3>1. OriginOf(h) /\ seen[h] \subseteq seen'[h]
      BY <1>a, <2>1
    <3>2. KnownToken(h) => KnownToken(h)'
      BY <2>1, <3>1, OriginLasts
    <3>3. LiveMappings(h) \subseteq LiveMappings(h)'
      BY <3>1, LiveLasts
    <3> QED BY <2>1, <3>1, <3>2, <3>3 DEF OriginOf
  <2>3. ASSUME NEW j \in fired
        PROVE  req[j[1]].kind = "hook" => JobOrigin(j[1], j[2])'
    <3>1. j[1] \in Hook
      BY DEF TypeOK
    <3>2. seen[j[1]] \subseteq seen'[j[1]]
      BY <2>1, <3>1
    <3> QED BY <2>1, <3>2, OriginLasts DEF OriginInv
  <2> QED BY <2>1, <2>2, <2>3 DEF OriginInv
<1>12. CASE UNCHANGED vars
  BY <1>8, <1>12 DEF vars, handlers
<1> QED BY <1>1, <1>2, <1>3, <1>4, <1>5, <1>6, <1>7, <1>9, <1>10, <1>11, <1>12 DEF Next

LEMMA OriginInitially == Init => OriginInv
  BY DEF Init, OriginInv, OriginOf

\* However the operator revokes, re-issues, disables and deletes while hooks are
\* served: a job that a hook started had an enabled mapping and a token with the
\* secret presented in configurations that were live while it was served.
THEOREM NothingUnconfiguredRuns == Spec => []NothingRunsUnconfigured
<1>1. Init => TypeOK /\ OriginInv
  BY TypeInitially, OriginInitially
<1>2. (TypeOK /\ OriginInv) /\ [Next]_vars => (TypeOK /\ OriginInv)'
  BY TypeStep, OriginStep
<1>3. OriginInv => NothingRunsUnconfigured
  BY OriginIsConfigured
<1> QED BY <1>1, <1>2, <1>3, PTL DEF Spec
=============================================================================
