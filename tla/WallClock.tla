----------------------------- MODULE WallClock -----------------------------
(***************************************************************************)
(* Instants, wall clocks and days: internal/when/when.go and               *)
(* internal/when/resolve.go.  An instant is a number of ticks; a day is    *)
(* Day ticks long on a clock that does not change; a zone has one change   *)
(* of offset, at a given instant.                                          *)
(***************************************************************************)
EXTENDS Integers

CONSTANTS
    Day,    \* ticks in a day
    Hour    \* ticks in an hour, the step WallStrict looks around by

ASSUME ClockAssumption == Day \in Nat \ {0} /\ Hour \in Nat \ {0}

\* A zone is [before, after, at]: its offsets on each side of the change.
Offset(z, t) == IF t < z.at THEN z.before ELSE z.after

\* The reading of an instant on the zone's clock, and the date it is on.
Local(z, t) == t + Offset(z, t)
DateIn(z, t) == Local(z, t) \div Day

\* What Go's time.Date makes of a reading: the offset in force had the
\* reading been UTC, unless that lands on the other side of the change.
Wall(z, reading) ==
    LET guess == Offset(z, reading)
        utc == reading - guess
    IN  reading - (IF (utc < z.at) = (reading < z.at) THEN guess ELSE Offset(z, utc))

\* WallStrict: the instant, and what the zone made of the reading.
Ambiguity(z, reading) ==
    LET t == Wall(z, reading)
        changes == Offset(z, t + Hour) # Offset(z, t) \/ Offset(z, t - Hour) # Offset(z, t)
        again == Local(z, t + Hour) = reading \/ Local(z, t - Hour) = reading
    IN  CASE Local(z, t) # reading -> "skipped"
          [] Local(z, t) = reading /\ changes /\ again -> "repeated"
          [] OTHER -> "unique"

\* A date's own day: from its midnight to the next date's.
StartIn(z, d) == Wall(z, d * Day)
DayWindow(z, d) == [from |-> StartIn(z, d), to |-> StartIn(z, d + 1)]

\* parseBound: a date is the start of its day, and as an upper bound the
\* end of it; a timestamp is the instant it names.
ParseBound(z, b, upper) ==
    CASE b.kind = "instant" -> b.at
      [] b.kind = "date" /\ upper -> DayWindow(z, b.at).to
      [] b.kind = "date" /\ ~upper -> DayWindow(z, b.at).from

\* Resolve: the call's zone, then the calendar's, then the settings'.  A
\* broken name is refused on the call and passed over elsewhere.
ResolveZone(call, calendar, settings) ==
    CASE call = "broken" -> "refused"
      [] call \notin {"", "broken"} -> call
      [] call = "" /\ calendar \notin {"", "broken"} -> calendar
      [] call = "" /\ calendar \in {"", "broken"} /\ settings \notin {"", "broken"} -> settings
      [] OTHER -> "refused"
=============================================================================
