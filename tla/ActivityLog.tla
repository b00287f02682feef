---------------------------- MODULE ActivityLog ----------------------------
(***************************************************************************)
(* The activity log, internal/activity/activity.go: a ring of the last      *)
(* RingSize records, read newest first by the Activity page.  An Add is     *)
(* two steps: the record is made and stamped, then inserted under the lock. *)
(***************************************************************************)
EXTENDS Integers, Sequences

CONSTANTS Record,
          RingSize,
          NoRecord

ASSUME RingAssumption ==
  /\ RingSize \in Nat \ {0}
  /\ NoRecord \notin Record

VARIABLES
  records, next, count,   \* the Log
  adding,                 \* records that are stamped and wait for l.mu
  log                     \* history: every record, oldest first

ring == <<records, next, count>>

RingOK ==
  /\ records \in [0 .. RingSize - 1 -> Record \cup {NoRecord}]
  /\ next \in 0 .. RingSize - 1
  /\ count \in 0 .. RingSize
  /\ adding \subseteq Record
  /\ log \in Seq(Record)

RingInit ==
  /\ records = [i \in 0 .. RingSize - 1 |-> NoRecord]
  /\ next = 0
  /\ count = 0
  /\ adding = {}
  /\ log = <<>>

\* Mutant of Advance: one slot too far.
AdvanceBeyond(n) == n + 1

Advance(n) == (n + 1) % RingSize

\* Add, under the lock.
Insert(r) ==
  /\ r \in adding
  /\ adding' = adding \ {r}
  /\ records' = [records EXCEPT ![next] = r]
  /\ next' = Advance(next)
  /\ count' = IF count < RingSize THEN count + 1 ELSE count
  /\ log' = Append(log, r)

\* Recent: no limit, or one beyond the ring, is all of it.
Shown(limit) == IF limit = 0 \/ limit > count THEN count ELSE limit

\* Mutant of Slot: the slot that is written next comes first.
SlotFromNext(i) == (next - i + RingSize * 2) % RingSize

\* Where the i-th newest record is, from 0.
Slot(i) == (next - 1 - i + RingSize * 2) % RingSize

Recent(limit) ==
  [i \in 1 .. Shown(limit) |-> records[Slot(i - 1)]]

RingNext ==
  \/ \E r \in Record \ adding : adding' = adding \cup {r} /\ UNCHANGED <<ring, log>>
  \/ \E r \in adding : Insert(r)

RingSpec == RingInit /\ [][RingNext]_<<ring, adding, log>>

-----------------------------------------------------------------------------
(* Properties.                                                             *)

\* The page shows the latest records and no others, newest first, each once,
\* also after the ring has wrapped around (activity.go:84).
RecentIsTheLatest ==
  \A limit \in 0 .. RingSize + 1 :
    /\ Len(Recent(limit)) <= Len(log)
    /\ \A i \in 1 .. Len(Recent(limit)) : Recent(limit)[i] = log[Len(log) + 1 - i]
=============================================================================
