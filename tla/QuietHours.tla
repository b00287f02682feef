------------------------------ MODULE QuietHours ------------------------------
(***************************************************************************)
(* The quiet-hours window of the effects engine: internal/effects/engine.go *)
(* QuietHours, Location, inQuietHours and parseHHMM.  Times are minutes; a  *)
(* setting holds the parsed start and end, Malformed where parseHHMM would  *)
(* return an error, and the offset of its timezone, NoZone where the name   *)
(* is empty or time.LoadLocation rejects it.                                *)
(***************************************************************************)
EXTENDS Integers

CONSTANTS DayMinutes,   \* minutes in a day (1440 in the code)
          LocalOffset,  \* the host's own offset from UTC, in minutes
          NoZone        \* stands for an empty or unknown timezone name

ASSUME DayAssumption == DayMinutes \in Nat \ {0}
ASSUME ZoneAssumption == LocalOffset \in Int /\ NoZone \notin Int

MinuteOfDay == 0 .. DayMinutes - 1
Malformed == -1

QuietSetting ==
  [enabled : BOOLEAN,
   start   : MinuteOfDay \cup {Malformed},
   end     : MinuteOfDay \cup {Malformed},
   zone    : Int \cup {NoZone}]

\* The engine before SetQuietHours is first called: the zero struct.
NotConfigured ==
  [enabled |-> FALSE, start |-> Malformed, end |-> Malformed, zone |-> NoZone]

\* An unusable name falls back to host local time.
Location(q) == IF q.zone = NoZone THEN LocalOffset ELSE q.zone

LocalMinute(q, now) == (now + Location(q)) % DayMinutes

\* Mutant of InWindow: the window's last minute is counted in.
InWindowInclusive(start, end, minute) ==
  \/ start < end /\ start <= minute /\ minute <= end
  \/ end < start /\ (start <= minute \/ minute <= end)

\* The comparison itself: an equal pair is an empty window, a start after the
\* end wraps midnight.
InWindow(start, end, minute) ==
  \/ start < end /\ start <= minute /\ minute < end
  \/ end < start /\ (start <= minute \/ minute < end)

\* A malformed window fails open: effects fire.
InQuietHours(q, now) ==
  /\ q.enabled
  /\ q.start # Malformed
  /\ q.end # Malformed
  /\ InWindow(q.start, q.end, LocalMinute(q, now))

-----------------------------------------------------------------------------
(***************************************************************************)
(* Reference definition: walk the clock from start towards end; a minute is *)
(* quiet when the walk passes it before it arrives.                         *)
(***************************************************************************)
QuietMinutes(start, end) ==
  {(start + k) % DayMinutes : k \in 0 .. ((end - start) % DayMinutes) - 1}

QuietByTheClock(q, now) ==
  /\ q.enabled
  /\ Malformed \notin {q.start, q.end}
  /\ LocalMinute(q, now) \in QuietMinutes(q.start, q.end)
=============================================================================
