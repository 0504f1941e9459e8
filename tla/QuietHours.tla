----------------------------- MODULE QuietHours -----------------------------
(* The quiet hours of package notification: preferences.go, on a clock of hours. *)
EXTENDS Integers

CONSTANT DayLength  \* hours of a day, 24 in the code

QuietHoursAssumption == DayLength \in Nat \ {0}

Hours == 0 .. DayLength - 1

\* start = end is a window that is never quiet, as good as none.
NoWindow == [start |-> 0, end |-> 0]

\* A window may wrap around midnight.
IsQuietHours(window, hour) ==
  IF window.start <= window.end
  THEN hour >= window.start /\ hour < window.end
  ELSE hour >= window.start \/ hour < window.end

\* Slip: the end is always today's.
UntilEndToday(window, hour) == IF window.end > hour THEN window.end - hour ELSE 0

\* QuietHoursEndTime, in hours from now: the end that comes next, tomorrow's if today's
\* has passed or is just now.
UntilQuietHoursEnd(window, hour) ==
  IF window.end > hour THEN window.end - hour ELSE window.end - hour + DayLength

=============================================================================
