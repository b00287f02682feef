------------------------------ MODULE SendSlots ------------------------------
(***************************************************************************)
(* How requests are spaced: spend in internal/govee/client.go keeps calls   *)
(* to the cloud apart, pace in lan.go the packets to one lamp's address.    *)
(* Both reserve the next slot under a lock, release it, sleep until the     *)
(* slot and send.  A lane is the cloud or one address.  Time is discrete;   *)
(* the scheduler may wake a sleeper late.                                   *)
(***************************************************************************)
EXTENDS Naturals, Sequences, FiniteSets

CONSTANTS Lane,
          Gap,          \* minCallInterval, lanMinSendInterval
          Callers,      \* bound on the goroutines that send at a time
          MaxLate,      \* bound on how late a sleeper sends
          MaxSends,     \* bound on the requests of a lane
          MaxTime       \* bound on the clock

ASSUME SlotsAssumption ==
  /\ Gap \in [Lane -> Nat \ {0}]
  /\ Callers \in Nat /\ MaxLate \in Nat /\ MaxSends \in Nat /\ MaxTime \in Nat

VARIABLES
  now,       \* the clock
  slots,     \* per lane: every slot reserved so far; the last one is lastCall, lastSend
  asleep,    \* <<l, n>>: the n-th request of lane l waits for its slot
  sends      \* history: <<l, n, t>>, that request left at t

slotVars == <<now, slots, asleep, sends>>

SlotsOK ==
  /\ now \in Nat
  /\ slots \in [Lane -> Seq(Nat)]
  /\ asleep \subseteq Lane \X Nat
  /\ \A r \in asleep : r[2] \in 1 .. Len(slots[r[1]])
  /\ sends \subseteq Lane \X Nat \X Nat
  /\ \A s \in sends : s[2] \in 1 .. Len(slots[s[1]])

SlotsInit ==
  /\ now = 0
  /\ slots = [l \in Lane |-> <<>>]
  /\ asleep = {}
  /\ sends = {}

Last(l) == slots[l][Len(slots[l])]

\* Mutant of NextSlot: the time nobody used is handed out later.
NextSlotWithCredit(l) == IF slots[l] = <<>> THEN now ELSE Last(l) + Gap[l]

\* Mutant of NextSlot: the wait is added to the slot once more.
NextSlotPlusWait(l) ==
  LET next == Last(l) + Gap[l] IN
  IF slots[l] = <<>> \/ now >= next THEN now ELSE next + (next - now)

\* lastCall is long ago at the start.
NextSlot(l) ==
  IF slots[l] = <<>> \/ now >= Last(l) + Gap[l] THEN now ELSE Last(l) + Gap[l]

Reserve(l) ==
  /\ Cardinality(asleep) < Callers
  /\ Len(slots[l]) < MaxSends
  /\ slots' = [slots EXCEPT ![l] = Append(@, NextSlot(l))]
  /\ asleep' = asleep \cup {<<l, Len(slots[l]) + 1>>}
  /\ UNCHANGED <<now, sends>>

\* time.Sleep sleeps at least until the slot.
Due(l, n) == now >= slots[l][n]

Send(l, n) ==
  /\ <<l, n>> \in asleep
  /\ Due(l, n)
  /\ sends' = sends \cup {<<l, n, now>>}
  /\ asleep' = asleep \ {<<l, n>>}
  /\ UNCHANGED <<now, slots>>

SlotsTick ==
  /\ now < MaxTime
  /\ \A r \in asleep : now < slots[r[1]][r[2]] + MaxLate
  /\ now' = now + 1
  /\ UNCHANGED <<slots, asleep, sends>>

SlotsNext ==
  \/ \E l \in Lane : Reserve(l) \/ \E n \in 1 .. MaxSends : Send(l, n)
  \/ SlotsTick

SlotsSpec == SlotsInit /\ [][SlotsNext]_slotVars

-----------------------------------------------------------------------------
(* Properties.                                                             *)

\* Two requests of a lane hold slots a gap apart for every request from one to
\* the other, in the order they were reserved.
SlotsAreSpaced ==
  \A l \in Lane : \A i, j \in 1 .. Len(slots[l]) :
    i <= j => slots[l][j] >= slots[l][i] + (j - i) * Gap[l]

\* What the cloud and a lamp see: however callers are interleaved and woken, a run
\* of requests takes as long as its gaps but for the lateness of its first.
NoBurst ==
  \A s, r \in sends :
    s[1] = r[1] /\ s[2] <= r[2] => r[3] + MaxLate >= s[3] + (r[2] - s[2]) * Gap[s[1]]

\* The queue of a lane is its waiting callers: a caller waits a gap for each of
\* them and never for slots nobody uses.
BacklogIsCallers ==
  \A l \in Lane : slots[l] # <<>> =>
    Last(l) <= now + Gap[l] * Cardinality({r \in asleep : r[1] = l /\ ~Due(l, r[2])})
=============================================================================
