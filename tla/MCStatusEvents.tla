--------------------------- MODULE MCStatusEvents ---------------------------
(***************************************************************************)
(* Rules, events and calls for TLC: a week of three days, a year of two    *)
(* months of five or six days, and a clock that moves by one of the four   *)
(* ticks of a day.                                                         *)
(***************************************************************************)
EXTENDS StatusEvents

MCLengths == <<5, 6, 5, 5, 6, 6, 5, 6, 5, 5, 6, 6>>
MCZones ==
    [none |-> [before |-> 0, after |-> 0, at |-> 400],
     forward |-> [before |-> 1, after |-> 2, at |-> 21],
     back |-> [before |-> 2, after |-> 1, at |-> 21]]

Rule == [freq |-> "DAILY", interval |-> 1, count |-> 0, until |-> Zero, untilDate |-> Zero,
         byDay |-> <<>>, byMonthDay |-> <<>>, byMonth |-> <<>>, weekStart |-> 1,
         unknown |-> {}]
On(day, ordinal) == [day |-> day, ordinal |-> ordinal]
RuleLine(r) == [name |-> "RRULE", rule |-> r]
DateLine(name, points) == [name |-> name, points |-> points]
OnDate(d) == [allDay |-> TRUE, at |-> d, zone |-> "own"]
OnClock(t, zone) == [allDay |-> FALSE, at |-> t, zone |-> zone]

Daily1 == {Rule, [Rule EXCEPT !.interval = 2, !.count = 3],
           [Rule EXCEPT !.byDay = <<On(2, 0)>>], [Rule EXCEPT !.byMonthDay = <<-1, 2>>],
           [Rule EXCEPT !.byMonth = <<1>>], [Rule EXCEPT !.until = 33], [Rule EXCEPT !.untilDate = 8],
           [Rule EXCEPT !.untilDate = 5, !.unknown = {4}]}
Weekly1 == {[Rule EXCEPT !.freq = "WEEKLY"],
            [Rule EXCEPT !.freq = "WEEKLY", !.byDay = <<On(0, 0), On(2, 0)>>],
            [Rule EXCEPT !.freq = "WEEKLY", !.byDay = <<On(2, 0), On(0, 0)>>, !.interval = 2, !.count = 3],
            [Rule EXCEPT !.freq = "WEEKLY", !.byDay = <<On(2, 0), On(1, 0)>>, !.interval = 2,
                         !.weekStart = 0],
            [Rule EXCEPT !.freq = "WEEKLY", !.byMonthDay = <<1, -1>>]}
Monthly1 == {[Rule EXCEPT !.freq = "MONTHLY"],
             [Rule EXCEPT !.freq = "MONTHLY", !.byDay = <<On(1, -1)>>],
             [Rule EXCEPT !.freq = "MONTHLY", !.byDay = <<On(1, 1)>>, !.interval = 2, !.count = 2],
             [Rule EXCEPT !.freq = "MONTHLY", !.byDay = <<On(0, 0)>>, !.byMonthDay = <<4, 5, 3>>],
             [Rule EXCEPT !.freq = "MONTHLY", !.byMonthDay = <<-1, 1>>, !.count = 3],
             [Rule EXCEPT !.freq = "MONTHLY", !.byDay = <<On(2, 2)>>]}
Yearly1 == {[Rule EXCEPT !.freq = "YEARLY", !.count = 3],
            [Rule EXCEPT !.freq = "YEARLY", !.byMonth = <<1, 0>>, !.byDay = <<On(2, -1)>>],
            [Rule EXCEPT !.freq = "YEARLY", !.byMonth = <<1>>, !.byMonthDay = <<2>>, !.interval = 2,
                         !.count = 2]}
\* BYSETPOS=1 of a weekday in a month, three times; a part that moves a date.
Unread1 == {[Rule EXCEPT !.freq = "MONTHLY", !.byDay = <<On(1, 0)>>, !.count = 3,
                         !.unknown = {10, 19, 25, 31}],
            [Rule EXCEPT !.interval = 3, !.unknown = {6, 7}]}
RuleLines ==
    {<<RuleLine(r)>> : r \in Daily1 \union Weekly1 \union Monthly1 \union Yearly1 \union Unread1}
DatedLines ==
    {<<RuleLine(r), DateLine("EXDATE", {OnDate(4), OnClock(25, "own"), OnClock(28, "utc")}),
       DateLine("RDATE", {OnDate(6), OnClock(30, "utc"), OnClock(38, "back"), OnClock(31, "unknown")})>> :
        r \in {Rule, [Rule EXCEPT !.interval = 2, !.count = 3],
               [Rule EXCEPT !.freq = "WEEKLY", !.until = 40]}}
OddLines ==
    {<<RuleLine([Rule EXCEPT !.freq = ""])>>, <<RuleLine([Rule EXCEPT !.freq = "HOURLY"])>>,
     <<RuleLine([Rule EXCEPT !.count = 2, !.untilDate = 9])>>, <<RuleLine(Rule), RuleLine(Rule)>>,
     <<DateLine("RDATE", {OnDate(6)})>>, <<RuleLine(Rule), DateLine("EXRULE", {})>>}
AllLines == {<<>>} \union RuleLines \union DatedLines \union OddLines

Default ==
    [there |-> TRUE, type |-> "default", details |-> FALSE, decline |-> "", onPrimary |-> TRUE,
     allDay |-> FALSE, start |-> 12, end |-> 14, zone |-> "none", lines |-> <<>>, busy |-> "",
     visibility |-> ""]
Series ==
    {[Default EXCEPT !.allDay = TRUE, !.start = d, !.end = d + 1, !.lines = l] :
        d \in {3, 4}, l \in AllLines}
    \union {[Default EXCEPT !.start = t[1], !.end = t[1] + 2, !.lines = l, !.zone = t[2]] :
        t \in {<<12, "forward">>, <<17, "back">>}, l \in AllLines}
    \union {[Default EXCEPT !.lines = l] : l \in AllLines}
Out(lines, zone) ==
    [Default EXCEPT !.type = "outOfOffice", !.details = TRUE, !.decline = "all", !.busy = "opaque",
                    !.lines = lines, !.zone = zone]
AtWork ==
    [Default EXCEPT !.type = Working, !.details = TRUE, !.busy = "transparent",
                    !.visibility = "public", !.allDay = TRUE, !.start = 3, !.end = 4]
MCElsewhere ==
    Series \union {Out(l, z) : l \in {<<>>} \union DatedLines \union {<<RuleLine(r)>> : r \in Daily1},
                              z \in {"none", "forward"}}
           \union {AtWork, [AtWork EXCEPT !.allDay = FALSE], [AtWork EXCEPT !.onPrimary = FALSE],
                   [Out(<<>>, "none") EXCEPT !.type = "focusTime", !.decline = "new"]}

Draft ==
    [start |-> Unsaid, end |-> Unsaid, zone |-> "none", recurs |-> FALSE, lines |-> <<>>, busy |-> "",
     visibility |-> "", invites |-> FALSE, conference |-> FALSE, title |-> FALSE]
Times ==
    {<<Unsaid, Unsaid>>, <<Side(TRUE, FALSE, 12), Unsaid>>, <<Side(TRUE, FALSE, 13), Unsaid>>,
     <<Unsaid, Side(TRUE, FALSE, 13)>>, <<Unsaid, Side(TRUE, FALSE, 16)>>,
     <<Side(TRUE, FALSE, 16), Side(TRUE, FALSE, 17)>>,
     <<Side(TRUE, TRUE, 3), Side(TRUE, TRUE, 3)>>, <<Side(TRUE, TRUE, 3), Side(TRUE, TRUE, 4)>>,
     <<Unsaid, Side(TRUE, TRUE, 4)>>, <<Side(TRUE, FALSE, 14), Side(TRUE, TRUE, 4)>>}
Timing(d, t) == [d EXCEPT !.start = t[1], !.end = t[2]]
Retimed == {Timing([Draft EXCEPT !.zone = z], t) : t \in Times, z \in {"none", "forward", "nowhere"}}
Reruled ==
    {Timing([Draft EXCEPT !.recurs = TRUE, !.lines = l], t) :
        l \in {<<>>, <<RuleLine(Rule)>>, <<RuleLine([Rule EXCEPT !.interval = 2])>>,
               <<RuleLine([Rule EXCEPT !.interval = 2, !.count = 3])>>,
               <<RuleLine([Rule EXCEPT !.freq = ""])>>,
               <<RuleLine([Rule EXCEPT !.untilDate = 5])>>},
        t \in {<<Unsaid, Unsaid>>, <<Side(TRUE, FALSE, 13), Unsaid>>}}
Reshown ==
    {[Draft EXCEPT !.busy = b, !.visibility = v, !.title = i, !.invites = i] :
        b \in {"", "opaque", "transparent"}, v \in {"", "default", "public", "private", "secret"},
        i \in BOOLEAN}
MCDrafts == Retimed \union Reruled \union Reshown

Status ==
    [type |-> "outOfOffice", decline |-> "new", message |-> FALSE, chat |-> "", working |-> "",
     label |-> FALSE, onPrimary |-> TRUE, declineAll |-> FALSE]
Aways ==
    {[Status EXCEPT !.type = k, !.decline = a, !.declineAll = all, !.message = m, !.chat = c] :
        k \in Away, a \in {"", "none", "new", "all", "maybe"}, all \in BOOLEAN, m \in BOOLEAN,
        c \in {"", "available"}}
Workings ==
    {[Status EXCEPT !.type = Working, !.decline = a, !.working = w, !.label = l] :
        a \in {"", "none"}, w \in {"", "home", "office", "attic"}, l \in BOOLEAN}
Others == {[Status EXCEPT !.type = k, !.decline = a] : k \in {"", "default", "birthday"}, a \in {"", "new"}}
NewTimes ==
    {Timing(Draft, t) : t \in {<<Side(TRUE, FALSE, 12), Side(TRUE, FALSE, 14)>>,
                               <<Side(TRUE, TRUE, 3), Side(TRUE, TRUE, 3)>>,
                               <<Side(TRUE, TRUE, 3), Side(TRUE, TRUE, 4)>>,
                               <<Side(TRUE, FALSE, 12), Unsaid>>,
                               <<Side(TRUE, FALSE, 14), Side(TRUE, FALSE, 12)>>}}
MCCreates ==
    [status : Aways \union Workings \union Others \union {[Status EXCEPT !.onPrimary = FALSE]},
     draft : NewTimes]
    \union [status : {Status, [Status EXCEPT !.type = Working, !.decline = "", !.working = "home"]},
             draft : {[d EXCEPT !.busy = b, !.visibility = v, !.invites = i] : d \in NewTimes,
                        b \in {"", "opaque", "transparent"}, v \in {"", "public", "private"},
                        i \in BOOLEAN}]
=============================================================================
