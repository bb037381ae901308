----------------------------- MODULE Recurrence -----------------------------
(***************************************************************************)
(* The occurrences of a series: Parse of internal/recur/recur.go and       *)
(* ExpandDates and ExpandTimes of internal/recur/expand.go, on a calendar  *)
(* of numbered dates whose weeks, months and years are as long as the      *)
(* constants say.  RuleDates and Occurring are what RFC 5545 says of the   *)
(* same rule; they are not in the code.                                    *)
(***************************************************************************)
EXTENDS WallClock, FiniteSets, Sequences, SequencesExt

CONSTANTS
    Week,           \* days in a week
    YearMonths,     \* months in a year
    Lengths,        \* the months' lengths, from the first to the calendar's end
    Zones,          \* the zones there are, by name
    MaxOccurrences, \* the longest walk, in occurrences and in years
    MaxCandidates   \* and in candidates: MaxOccurrences*12

ASSUME CalendarAssumption ==
    /\ Week \in Nat \ {0} /\ YearMonths \in Nat \ {0}
    /\ Lengths \in Seq(Nat \ {0}) /\ \A i \in DOMAIN Lengths : Lengths[i] >= Week
    /\ MaxOccurrences \in Nat \ {0} /\ MaxCandidates \in Nat \ {0}

\* A zone's clock is less than a day from UTC, and moves by an hour or not
\* at all: the step Ambiguity looks around by.
ASSUME ZoneAssumption ==
    /\ Hour < Day
    /\ \A n \in DOMAIN Zones :
        /\ Zones[n] \in [before : -Day .. Day, after : -Day .. Day, at : Int]
        /\ Zones[n].after - Zones[n].before \in {-Hour, 0, Hour}

\* A date, a moment or an end that is not there (Go's zero value).
Zero == -1

FirstDay[m \in 0 .. Len(Lengths)] == IF m = 0 THEN 0 ELSE FirstDay[m - 1] + Lengths[m]
LastDate == FirstDay[Len(Lengths)] - 1
MonthOf == [d \in 0 .. LastDate |->
    CHOOSE m \in 0 .. Len(Lengths) - 1 : FirstDay[m] <= d /\ d < FirstDay[m + 1]]
DaysIn(m) == Lengths[m + 1]
DayOf(d) == d - FirstDay[MonthOf[d]] + 1
YearOf(d) == MonthOf[d] \div YearMonths
MonthInYear(d) == MonthOf[d] % YearMonths
Weekday(d) == d % Week
DaysSince(w, first) == (w - first + Week) % Week

\* A sequence without what is not in the set, and the numbers of one in
\* order: each behind the smaller ones and its equals written before it.
Kept(s, set) ==
    LET kept[n \in 0 .. Len(s)] ==
            IF n = 0 THEN <<>>
            ELSE IF s[n] \in set THEN Append(kept[n - 1], s[n]) ELSE kept[n - 1]
    IN  kept[Len(s)]
Ahead(s, i) == {j \in DOMAIN s : s[j] < s[i] \/ (s[j] = s[i] /\ j < i)}
Ascending(s) ==
    [k \in 1 .. Len(s) |-> s[CHOOSE i \in 1 .. Len(s) : Cardinality(Ahead(s, i)) = k - 1]]
AtMost(s, n) == IF Len(s) > n THEN SubSeq(s, 1, n) ELSE s

-----------------------------------------------------------------------------
(* Parse.  A line is a rule, dates taken off, dates added, or one this     *)
(* server does not expand; "rules" holds the first rule, if there is one.  *)

\* ParseRule refuses a rule without a frequency, or with two ends.
RuleRefused(r) ==
    r.freq = "" \/ (r.count > 0 /\ (r.until # Zero \/ r.untilDate # Zero))
ParseRefused(lines) ==
    \E i \in DOMAIN lines : lines[i].name = "RRULE" /\ RuleRefused(lines[i].rule)

ReadLine(set, l) ==
    CASE l.name = "RRULE" /\ set.rules = <<>> -> [set EXCEPT !.rules = <<l.rule>>]
      [] l.name = "EXDATE" -> [set EXCEPT !.excluded = @ \union l.points]
      [] l.name = "RDATE" -> [set EXCEPT !.added = @ \union l.points]
      [] OTHER -> [set EXCEPT !.unsupported = TRUE]
NothingRead == [rules |-> <<>>, excluded |-> {}, added |-> {}, unsupported |-> FALSE]
Parse(lines) ==
    LET read[n \in 0 .. Len(lines)] ==
            IF n = 0 THEN NothingRead ELSE ReadLine(read[n - 1], lines[n])
    IN  read[Len(lines)]

\* Expandable, and the refusal of what this server cannot compute: a
\* frequency, or a line, but not a part of the rule that is not known.
Frequencies == {"DAILY", "WEEKLY", "MONTHLY", "YEARLY"}
Expandable(set) ==
    ~set.unsupported /\ set.rules # <<>> /\ set.rules[1].freq \in Frequencies

\* Point.Instant: a point is a date, or a reading in UTC, in the zone its
\* line names, or in the series' own; a zone nobody knows has no instant.
HasInstant(p) == ~p.allDay /\ p.zone # "unknown"
Instant(p, z) ==
    CASE p.zone = "utc" -> p.at
      [] p.zone = "own" -> Wall(z, p.at)
      [] OTHER -> Wall(Zones[p.zone], p.at)

\* What is written: rules whose numbers ParseRule takes, and lines.  ParseRule
\* keeps the parts it does not know (BYSETPOS, BYYEARDAY, ...) as Unknown;
\* here they are the dates on which they overrule the other parts, by taking
\* one off or putting one in.  Nothing the server computes reads them.
WrittenRules ==
    [freq : STRING, interval : Nat \ {0}, count : Nat, until : Int, untilDate : Int,
     byDay : Seq([day : 0 .. Week - 1, ordinal : Int]), byMonthDay : Seq(Int),
     byMonth : Seq(0 .. YearMonths - 1), weekStart : 0 .. Week - 1, unknown : SUBSET Int]
WrittenPoints ==
    [allDay : BOOLEAN, at : Int, zone : {"own", "utc", "unknown"} \union DOMAIN Zones]
WrittenLines ==
    [name : {"RRULE"}, rule : WrittenRules]
    \union {l \in [name : STRING \ {"RRULE"}, points : SUBSET WrittenPoints] : IsFiniteSet(l.points)}

-----------------------------------------------------------------------------
(* The walkers: the candidate dates of each frequency, in order.           *)

LastYear(start) == YearOf(start) + MaxOccurrences
\* Bound: no walk passes the end of the model's calendar.
From(start, dates) == Kept(dates, start .. LastDate)

Steps(first, step, n) == [i \in 1 .. n |-> first + (i - 1) * step]
Daily(start, r) ==
    Kept(Steps(start, r.interval, (LastDate - start) \div r.interval + 1),
         {d \in start .. LastDate : YearOf(d) <= LastYear(start)})

\* weeklyWalker: in week order from WKST, whatever order they were written in.
WeekDays(start, r) ==
    IF r.byDay = <<>> THEN <<Weekday(start)>> ELSE [i \in DOMAIN r.byDay |-> r.byDay[i].day]
Offsets(start, r) ==
    LET days == WeekDays(start, r) IN [i \in DOMAIN days |-> DaysSince(days[i], r.weekStart)]
WeekOrderWritten(start, r) == Offsets(start, r)   \* mutant: not sorted
WeekOrder(start, r) == Ascending(Offsets(start, r))
WeekOn(first, days) == [i \in DOMAIN days |-> first + days[i]]
OfWeeks(weeks, days) == FlattenSeq([i \in DOMAIN weeks |-> WeekOn(weeks[i], days)])
WeeksOn(days, first, step, start) ==
    From(start, OfWeeks(Steps(first, step, (LastDate - first) \div step + 1), days))
Weekly(start, r) ==
    WeeksOn(WeekOrder(start, r), start - DaysSince(Weekday(start), r.weekStart),
            Week * r.interval, start)

\* nthWeekdays and monthDay: none, one or all such days of a month.
Nth(all, ordinal) ==
    CASE ordinal = 0 -> all
      [] ordinal > 0 /\ ordinal <= Len(all) -> <<all[ordinal]>>
      [] ordinal < 0 /\ -ordinal <= Len(all) -> <<all[Len(all) + ordinal + 1]>>
      [] OTHER -> <<>>
WeekdaysFrom(first, m) ==
    Steps(first, Week, (FirstDay[m + 1] - 1 - first) \div Week + 1)
NthWeekdays(m, bd) ==
    Nth(WeekdaysFrom(FirstDay[m] + ((Week + bd.day - Weekday(FirstDay[m])) % Week), m), bd.ordinal)
MonthDay(m, n) ==
    LET day == IF n < 0 THEN DaysIn(m) + n + 1 ELSE n
    IN  IF day < 1 \/ day > DaysIn(m) THEN <<>> ELSE <<FirstDay[m] + day - 1>>

\* monthCandidates: BYDAY and BYMONTHDAY together are both asked for.
AskedFor(byDay, byMonthDay, startDay) ==
    CASE byDay # <<>> /\ byMonthDay # <<>> -> Kept(byMonthDay, ToSet(byDay))
      [] byDay # <<>> /\ byMonthDay = <<>> -> byDay
      [] byDay = <<>> /\ byMonthDay # <<>> -> byMonthDay
      [] OTHER -> startDay
WeekdaysAsked(m, byDay) == FlattenSeq([i \in DOMAIN byDay |-> NthWeekdays(m, byDay[i])])
MonthDaysAsked(m, days) == FlattenSeq([i \in DOMAIN days |-> MonthDay(m, days[i])])
MonthCandidates(m, start, r) ==
    Ascending(AskedFor(WeekdaysAsked(m, r.byDay), MonthDaysAsked(m, r.byMonthDay),
                       MonthDay(m, DayOf(start))))

\* The months or years a walk visits: it stops when the next one is too late.
Periods(first, step, last) == Steps(first, step, (last - first) \div step)
LastPeriod(start) ==
    LET year == LastYear(start)
    IN  IF (year + 1) * YearMonths <= Len(Lengths) THEN year ELSE Len(Lengths) \div YearMonths - 1

OfMonths(months, start, r) ==
    FlattenSeq([i \in DOMAIN months |-> MonthCandidates(months[i], start, r)])
Monthly(start, r) ==
    From(start, OfMonths(Periods(MonthOf[start], r.interval,
                                 (LastPeriod(start) + 1) * YearMonths - 1), start, r))

YearMonthsOf(start, r) == IF r.byMonth = <<>> THEN <<MonthInYear(start)>> ELSE r.byMonth
MonthsOfYear(year, months) == [i \in DOMAIN months |-> year * YearMonths + months[i]]
OfYears(years, months, start, r) ==
    FlattenSeq([i \in DOMAIN years |-> Ascending(OfMonths(MonthsOfYear(years[i], months), start, r))])
Yearly(start, r) ==
    From(start, OfYears(Periods(YearOf(start), r.interval, LastPeriod(start)),
                        YearMonthsOf(start, r), start, r))

Candidates(start, r) ==
    AtMost(CASE r.freq = "DAILY" -> Daily(start, r)
             [] r.freq = "WEEKLY" -> Weekly(start, r)
             [] r.freq = "MONTHLY" -> Monthly(start, r)
             [] r.freq = "YEARLY" -> Yearly(start, r), MaxCandidates)

\* matches: the parts that filter rather than generate.
MatchesMonthDay(d, days) ==
    \E n \in ToSet(days) : n = DayOf(d) \/ (n < 0 /\ DaysIn(MonthOf[d]) + n + 1 = DayOf(d))
RuleMatches(d, r) ==
    /\ r.byMonth # <<>> /\ r.freq # "YEARLY" => MonthInYear(d) \in ToSet(r.byMonth)
    /\ r.freq = "DAILY" /\ r.byDay # <<>> => \E i \in DOMAIN r.byDay : r.byDay[i].day = Weekday(d)
    /\ r.freq \in {"DAILY", "WEEKLY"} /\ r.byMonthDay # <<>> => MatchesMonthDay(d, r.byMonthDay)

-----------------------------------------------------------------------------
(* ExpandDates and ExpandTimes.  A series is [allDay, start, zone, lines]: *)
(* start is a date or an instant.  They differ in what a date becomes, in  *)
(* the points that count, and in what UNTIL is compared with.              *)

ZoneOf(s) == Zones[s.zone]
StartDate(s) == IF s.allDay THEN s.start ELSE DateIn(ZoneOf(s), s.start)
Reading(s, d) == d * Day + (Local(ZoneOf(s), s.start) % Day)
At(s, d) ==
    IF s.allDay THEN d ELSE Wall(ZoneOf(s), Reading(s, d))
Unclear(s, d) == ~s.allDay /\ Ambiguity(ZoneOf(s), Reading(s, d)) # "unique"
Points(s, ps) ==
    IF s.allDay THEN {p.at : p \in {q \in ps : q.allDay}}
    ELSE {Instant(p, ZoneOf(s)) : p \in {q \in ps : HasInstant(q)}}
UntilOf(s, r) == IF s.allDay /\ r.until # Zero THEN r.until \div Day ELSE r.until

ClampLimitZero(limit) ==   \* mutant: no limit is a limit of none
    IF limit > MaxOccurrences THEN MaxOccurrences ELSE limit
ClampLimit(limit) == IF limit <= 0 \/ limit > MaxOccurrences THEN MaxOccurrences ELSE limit

\* What an expansion keeps: from, to, the rule's UNTIL, the dates taken off.
Late(range, m) ==
    (range.until # Zero /\ m > range.until) \/ (range.to # Zero /\ m >= range.to)
Wanted(range, m) ==
    m \notin range.excluded /\ (range.from = Zero \/ m >= range.from) /\ ~Late(range, m)

\* The walk over the candidates; m is what the date d becomes.
Visited(s, r, range, walk, d, m) ==
    CASE \/ walk.over
         \/ Len(walk.out) > range.limit
         \/ r.count > 0 /\ walk.emitted >= r.count
         \/ r.untilDate # Zero /\ d > r.untilDate -> [walk EXCEPT !.over = TRUE]
      [] OTHER ->
            IF ~RuleMatches(d, r) THEN walk
            ELSE IF Late(range, m) THEN [walk EXCEPT !.over = TRUE]
            ELSE IF ~Wanted(range, m) \/ m \in ToSet(walk.out) THEN [walk EXCEPT !.emitted = @ + 1]
            ELSE [walk EXCEPT !.emitted = @ + 1, !.out = Append(@, m),
                              !.noted = @ \union {x \in {m} : Unclear(s, d)}]
AtTheStart == [over |-> FALSE, emitted |-> 0, out |-> <<>>, noted |-> {}]
WalkOver(s, r, range, dates) ==
    LET walk[n \in 0 .. Len(dates)] ==
            IF n = 0 THEN AtTheStart
            ELSE Visited(s, r, range, walk[n - 1], dates[n], At(s, dates[n]))
    IN  walk[Len(dates)]
Walk(s, r, range) == WalkOver(s, r, range, Candidates(StartDate(s), r))

\* The dates added by hand come after the walk, and the limit last.
Limited(all, noted, limit) ==
    [at |-> AtMost(all, limit), truncated |-> Len(all) > limit, noted |-> noted]
WithAdded(walk, added, limit) ==
    Limited(Ascending(walk.out \o SetToSeq(added \ ToSet(walk.out))), walk.noted, limit)
ExpandWithin(s, set, range) ==
    WithAdded(Walk(s, set.rules[1], range), {m \in Points(s, set.added) : Wanted(range, m)},
              range.limit)
ExpandSet(s, set, from, to, limit) ==
    ExpandWithin(s, set, [from |-> from, to |-> to, limit |-> limit,
                          until |-> UntilOf(s, set.rules[1]), excluded |-> Points(s, set.excluded)])
Expand(s, from, to, asked) == ExpandSet(s, Parse(s.lines), from, to, ClampLimit(asked))

\* ReachTold: what the refusal of a write without a scope says of the series.
Open(r) == r.count = 0 /\ r.until = Zero /\ r.untilDate = Zero
ReachOf(set, occ) ==
    CASE set.rules = <<>> -> [says |-> "does not repeat", count |-> 0]
      [] set.rules # <<>> /\ ~Expandable(set) -> [says |-> "cannot count", count |-> 0]
      [] OTHER ->
            [says |-> IF occ.truncated \/ Open(set.rules[1]) THEN "no end" ELSE "ends",
             count |-> Len(occ.at)]
ReachTold(s, limit) == ReachOf(Parse(s.lines), Expand(s, Zero, Zero, limit))

-----------------------------------------------------------------------------
(* RFC 5545, for comparison.                                               *)

InPeriod(start, r, d) ==
    LET week(x) == (x - DaysSince(Weekday(x), r.weekStart) - start
                      + DaysSince(Weekday(start), r.weekStart)) \div Week
    IN  CASE r.freq = "DAILY" -> (d - start) % r.interval = 0
          [] r.freq = "WEEKLY" -> week(d) % r.interval = 0
          [] r.freq = "MONTHLY" -> (MonthOf[d] - MonthOf[start]) % r.interval = 0
          [] r.freq = "YEARLY" -> (YearOf(d) - YearOf(start)) % r.interval = 0

\* The weekday an entry names, and its place in the month from either end.
Named(d, r, bd) ==
    /\ bd.day = Weekday(d)
    /\ \/ bd.ordinal = 0 \/ r.freq \in {"DAILY", "WEEKLY"}
       \/ bd.ordinal = (DayOf(d) - 1) \div Week + 1
       \/ -bd.ordinal = (DaysIn(MonthOf[d]) - DayOf(d)) \div Week + 1
Selected(start, r, d) ==
    /\ r.byMonth # <<>> => MonthInYear(d) \in ToSet(r.byMonth)
    /\ r.byDay # <<>> => \E i \in DOMAIN r.byDay : Named(d, r, r.byDay[i])
    /\ r.byMonthDay # <<>> => MatchesMonthDay(d, r.byMonthDay)
    /\ r.byDay = <<>> /\ r.byMonthDay = <<>> =>
          /\ r.freq = "WEEKLY" => Weekday(d) = Weekday(start)
          /\ r.freq \in {"MONTHLY", "YEARLY"} => DayOf(d) = DayOf(start)
          /\ r.freq = "YEARLY" /\ r.byMonth = <<>> => MonthInYear(d) = MonthInYear(start)
    /\ r.freq = "WEEKLY" /\ r.byDay = <<>> => Weekday(d) = Weekday(start)

Bounded(all, r) ==
    {d \in all :
        /\ r.count > 0 => Cardinality({x \in all : x < d}) < r.count
        /\ r.untilDate # Zero => d <= r.untilDate}
RuleDates(start, r) ==
    Bounded({d \in start .. LastDate :
                d \notin r.unknown <=> InPeriod(start, r, d) /\ Selected(start, r, d)}, r)

OccurringOf(s, set, until) ==
    ({m \in {At(s, d) : d \in RuleDates(StartDate(s), set.rules[1])} : until = Zero \/ m <= until}
        \union Points(s, set.added)) \ Points(s, set.excluded)
Occurring(s) == OccurringOf(s, Parse(s.lines), UntilOf(s, Parse(s.lines).rules[1]))
=============================================================================
