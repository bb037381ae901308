---------------------------- MODULE Availability ----------------------------
(***************************************************************************)
(* check_availability: Availability of internal/service/service.go, from   *)
(* the references a caller gives to the free gaps of the answer.  Google   *)
(* answers for at most Batch calendars per query, a group's members        *)
(* included, so a call is several queries and some calendars are asked     *)
(* about twice.                                                            *)
(***************************************************************************)
EXTENDS FreeTime

CONSTANTS
    Calendars,      \* calendars Google knows, by address
    Groups,         \* group addresses
    Named,          \* what a title or "primary" names: [title -> address]
    Zones,          \* the zones there are, by name
    Asks,           \* the calls made: see AskSpace
    Worlds,         \* what Google holds: see World
    MaxRefs,        \* MaxFreeBusyCalendars
    Batch,          \* FreeBusyBatch
    MaxMembers,     \* maxGroupMembers
    MaxAskedAgain   \* maxAskedAgain

Addresses == Calendars \union Groups

\* One call: the references in order, the zone named or "", the bounds of
\* the window, the hours as given (see ParseHours) and the shortest gap.
AskSpace(refs, zones, windows, hours, least) ==
    [refs : refs, zone : zones, window : windows, hours : hours, least : least]

\* Google's side.  A calendar is read, not to be read, never answered for,
\* or answered with a period this server cannot read; pastCap is how Google
\* shows the calendars a query has no room for, which is undocumented.
Conditions == {"read", "error", "omitted", "garbled"}
World(members, conditions, busy, pastCap, zones, settings) ==
    [members : members, condition : conditions, busy : busy, pastCap : pastCap,
     zone : zones, settings : settings]

\* A zone is named, not given, or given as a name that is none; a bound is
\* an instant or a date.
ZoneNames == DOMAIN Zones \union {"", "broken"}
Bounds == [kind : {"instant", "date"}, at : Int]

AvailabilityAssumption ==
    /\ Calendars \intersect Groups = {}
    /\ \A name \in DOMAIN Named : Named[name] \in Addresses
    /\ "untitled" \notin Addresses \union DOMAIN Named
    /\ Batch \in Nat \ {0} /\ MaxMembers \in Nat \ {0}
    /\ MaxAskedAgain \in Nat /\ MaxRefs \in Nat
    /\ "refused" \notin DOMAIN Zones
    /\ \A name \in DOMAIN Zones :
          Zones[name] \in [before : -Day .. Day, after : -Day .. Day, at : Int]
    /\ \A a \in Asks :
          /\ a.refs \in Seq(Addresses \union DOMAIN Named \union {"untitled"})
          /\ a.zone \in ZoneNames
          /\ a.window.from \in Bounds /\ a.window.to \in Bounds
          /\ a.hours.from \in -1 .. Day /\ a.hours.to \in -1 .. Day
          /\ a.least \in Nat
    /\ \A g \in Worlds :
          /\ g.condition \in [Calendars -> Conditions]
          /\ g.members \in [Groups -> Seq(Calendars)]
          /\ g.pastCap \in {"left out", "too many"}
          /\ g.zone \in [Addresses -> ZoneNames] /\ g.settings \in ZoneNames
          /\ \A c \in Calendars :
                /\ IsFiniteSet(g.busy[c]) /\ g.busy[c] \subseteq Interval
                /\ \A b \in g.busy[c] : b.from < b.to
ASSUME AvailabilityAssumption

VARIABLES
    google,     \* what Google holds
    ask,        \* the call made
    pc,         \* where the call is
    todo,       \* the queries still to send, each a sequence of ids
    resp,       \* what came back: per calendar, and per group its members
    report      \* the answers: per id, unknown or busy

availVars == <<google, ask, pc, todo, resp, report>>

AvailInit ==
    /\ google \in Worlds /\ ask \in Asks
    /\ pc = "idle" /\ todo = <<>>
    /\ resp = [calendars |-> <<>>, groups |-> <<>>]
    /\ report = <<>>

-----------------------------------------------------------------------------
(* The ids asked about, in batches.                                        *)

\* freeBusyTargets: an address is asked about as it is, a title resolved,
\* and each id once.
Target(ref) == IF ref \in DOMAIN Named THEN Named[ref] ELSE ref
Firsts(s) == {i \in DOMAIN s : \A j \in 1 .. i - 1 : s[j] # s[i]}
Picked(s, places) ==
    LET kept[n \in 0 .. Len(s)] ==
            IF n = 0 THEN <<>>
            ELSE IF n \in places THEN Append(kept[n - 1], s[n]) ELSE kept[n - 1]
    IN  kept[Len(s)]
Distinct(s) == Picked(s, Firsts(s))
Ids == Distinct([i \in DOMAIN ask.refs |-> Target(ask.refs[i])])

\* slices.Chunk.
Chunks(s) ==
    [i \in 1 .. (Len(s) + Batch - 1) \div Batch |->
        SubSeq(s, (i - 1) * Batch + 1, IF i * Batch < Len(s) THEN i * Batch ELSE Len(s))]

\* The call's zone: named, or that of the first calendar that has one.
FirstZone ==
    LET zoned == {i \in DOMAIN Ids : google.zone[Ids[i]] # ""}
    IN  IF zoned = {} THEN ""
        ELSE google.zone[Ids[CHOOSE i \in zoned : \A j \in zoned : i <= j]]
ZoneName == ResolveZone(ask.zone, FirstZone, google.settings)
Zone == Zones[ZoneName]
Window ==
    [from |-> ParseBound(Zone, ask.window.from, FALSE),
     to |-> ParseBound(Zone, ask.window.to, TRUE)]
Hours == ParseHours(ask.hours.from, ask.hours.to, ask.hours.days)

\* A call is refused before anything is asked, or goes out in batches.
Refused ==
    \/ Len(ask.refs) > MaxRefs
    \/ "untitled" \in ToSet(ask.refs)
    \/ ZoneName = "refused"
    \/ ZoneName # "refused" /\ Window.to <= Window.from
    \/ HoursRefused(ask.hours.from, ask.hours.to, ask.hours.days)
Start ==
    /\ pc = "idle"
    /\ IF Refused THEN pc' = "refused" /\ UNCHANGED todo
                  ELSE pc' = "asking" /\ todo' = Chunks(Ids)
    /\ UNCHANGED <<google, ask, resp, report>>

-----------------------------------------------------------------------------
(* Google answers a query.                                                 *)

\* The groups of a query Google expands, and the calendars it is then about.
Expands(g) == Len(google.members[g]) <= MaxMembers
About(query) ==
    {id \in Calendars :
        \/ id \in ToSet(query)
        \/ \E g \in Groups \intersect ToSet(query) : Expands(g) /\ id \in ToSet(google.members[g])}

\* A calendar's slot: what Google says of one it has room for.
Slot(c) ==
    CASE google.condition[c] = "read" -> "read"
      [] google.condition[c] = "error" -> "error"
      [] google.condition[c] = "garbled" -> "garbled"

Answered(query, room) ==
    [c \in room \union (IF google.pastCap = "too many"
                        THEN {x \in About(query) : google.condition[x] # "omitted"}
                        ELSE {}) |->
        IF c \in room THEN Slot(c) ELSE "too many"]
Expanded(query) ==
    [g \in Groups \intersect ToSet(query) |->
        IF Expands(g) THEN [error |-> FALSE, members |-> google.members[g]]
        ELSE [error |-> TRUE, members |-> <<>>]]

\* maps.Copy: the newer answer stands.
Copied(old, new) ==
    [x \in DOMAIN old \union DOMAIN new |-> IF x \in DOMAIN new THEN new[x] ELSE old[x]]

\* unanswered: what no answer came for, each once, in the order asked.
PastCap(c) == resp.calendars[c] = "too many"
LackingMissing(c) == c \notin DOMAIN resp.calendars   \* mutant: an error slot is an answer
Lacking(c) == c \notin DOMAIN resp.calendars \/ PastCap(c)
IsGroup(id) == id \in DOMAIN resp.groups /\ id \notin DOMAIN resp.calendars
Parts(id) == IF IsGroup(id) THEN resp.groups[id].members ELSE <<id>>
Unanswered ==
    LET asked == FlattenSeq([n \in DOMAIN Ids |-> Parts(Ids[n])])
    IN  Picked(asked, {i \in Firsts(asked) : Lacking(asked[i])})

\* One query is answered, for any calendars Google has room for.
Query ==
    /\ pc \in {"asking", "again"} /\ todo # <<>>
    /\ \E room \in SUBSET {c \in About(Head(todo)) : google.condition[c] # "omitted"} :
          /\ Cardinality(room) <= Batch
          /\ Cardinality(room) = Batch
                \/ room = {c \in About(Head(todo)) : google.condition[c] # "omitted"}
          /\ resp' = [calendars |-> Copied(resp.calendars, Answered(Head(todo), room)),
                      groups |-> Copied(resp.groups, Expanded(Head(todo)))]
    /\ todo' = Tail(todo)
    /\ UNCHANGED <<google, ask, pc, report>>

\* What no answer came for is asked about once more, up to a bound.
AskAgain ==
    /\ pc = "asking" /\ todo = <<>> /\ Unanswered # <<>>
    /\ pc' = "again"
    /\ todo' = Chunks(SubSeq(Unanswered, 1, IF Len(Unanswered) < MaxAskedAgain
                                            THEN Len(Unanswered) ELSE MaxAskedAgain))
    /\ UNCHANGED <<google, ask, resp, report>>

\* A query that fails, its retries spent, fails the call.
QueryFails ==
    /\ pc \in {"asking", "again"} /\ todo # <<>>
    /\ pc' = "failed"
    /\ UNCHANGED <<google, ask, todo, resp, report>>

-----------------------------------------------------------------------------
(* The answers and the gaps.                                               *)

Unknown == [unknown |-> TRUE, busy |-> {}]

\* calendarAnswer: a missing slot is unknown, and so is half a busy list.
CalendarAnswerMissing(c) ==   \* mutant: no answer is no busy time
    IF c \in DOMAIN resp.calendars /\ resp.calendars[c] # "read"
    THEN Unknown ELSE [unknown |-> FALSE, busy |-> google.busy[c]]
CalendarAnswer(c) ==
    IF c \notin DOMAIN resp.calendars \/ resp.calendars[c] # "read"
    THEN Unknown
    ELSE [unknown |-> FALSE, busy |-> google.busy[c]]

\* groupAnswer: known when every member is.
GroupAnswer(g) ==
    LET members == ToSet(resp.groups[g].members)
    IN  IF \/ resp.groups[g].error \/ members = {}
           \/ \E c \in members : CalendarAnswer(c).unknown
        THEN Unknown
        ELSE [unknown |-> FALSE,
              busy |-> ToSet(Merge(UNION {CalendarAnswer(c).busy : c \in members}))]

AnswerFor(id) == IF IsGroup(id) THEN GroupAnswer(id) ELSE CalendarAnswer(id)

\* The gaps the result shows come from the answers that are known, and
\* from none of them there are none.
GapsFrom == {id \in DOMAIN report : ~report[id].unknown}
Gaps ==
    IF GapsFrom = {}
    THEN {}
    ELSE FreeGaps(Zone, Window, UNION {report[id].busy : id \in GapsFrom}, ask.least, Hours)

Report ==
    /\ todo = <<>>
    /\ pc = "again" \/ (pc = "asking" /\ Unanswered = <<>>)
    /\ report' = [id \in ToSet(Ids) |-> AnswerFor(id)]
    /\ pc' = "answered"
    /\ UNCHANGED <<google, ask, todo, resp>>

AvailNext == Start \/ Query \/ AskAgain \/ QueryFails \/ Report

AvailSpec == AvailInit /\ [][AvailNext]_availVars

-----------------------------------------------------------------------------

\* What Google has of an id: its calendars, and whether they can be read.
Held(id) == IF id \in Groups THEN ToSet(google.members[id]) ELSE {id}
Readable(id) ==
    /\ \A c \in Held(id) : google.condition[c] = "read"
    /\ id \in Groups => google.members[id] # <<>> /\ Expands(id)

\* A calendar or a group is reported busy at just the times Google has for
\* it, and never as free because nobody answered: a known answer is about
\* calendars that were all read, whatever the cap left out.
KnownMeansRead ==
    pc = "answered" =>
        \A id \in DOMAIN report :
            ~report[id].unknown =>
                /\ Readable(id)
                /\ \A t \in Window.from .. Window.to :
                      (\E b \in report[id].busy : b.from <= t /\ t < b.to)
                      <=> (\E c \in Held(id) : \E b \in google.busy[c] : b.from <= t /\ t < b.to)

\* What Google can answer for is not reported unknown because of its cap,
\* while the calendars to ask again are within the bound.
AskedAgainIsAnswered ==
    pc = "answered" =>
        \/ \A id \in DOMAIN report : Readable(id) => ~report[id].unknown
        \/ Cardinality(UNION {Held(id) : id \in DOMAIN report}) > MaxAskedAgain

\* An instant the gaps may hold: nobody known is busy, and the clock of the
\* zone shows a reading inside the hours.
Busy(t) ==
    \E id \in GapsFrom :
        \E c \in Held(id) : \E b \in google.busy[c] : b.from <= t /\ t < b.to
InHours(t) ==
    \/ Hours = NoHours
    \/ LET reading == Local(Zone, t) % Day
       IN  /\ Keeps(Hours, DateIn(Zone, t))
           /\ Hours.from <= reading /\ reading < Hours.to
Free(t) == ~Busy(t) /\ InHours(t)

\* Two instants next to each other are of one gap, unless the hours begin
\* again with a local day between them.
SameGap(s, t) ==
    Free(s) /\ Free(t) /\ (Hours = NoHours \/ DateIn(Zone, s) = DateIn(Zone, t))

\* Every edge of the hours is one instant on the days the window touches.
EdgesAreClear ==
    \A d \in DateIn(Zone, Window.from) - 1 .. DateIn(Zone, Window.to) + 1 :
        \A r \in {0, Hours.from, Hours.to} :
            Cardinality({t \in (d - 1) * Day .. (d + 2) * Day :
                            Local(Zone, t) = d * Day + r}) = 1

\* The gaps are the free time of the window as its zone's clock shows it:
\* each a whole stretch that is free on the timeline, inside the hours and
\* long enough, and every such stretch is there, on a day of 23 hours as on
\* one of 25.
GapsAreTheFreeTime ==
    pc = "answered" /\ GapsFrom # {} /\ EdgesAreClear =>
        LET w == Window
            free == {t \in w.from .. w.to - 1 : Free(t)}
            joined == {t \in free : t + 1 \in free /\ SameGap(t, t + 1)}
        IN  Gaps =
                {g \in [from : free, to : {t + 1 : t \in free}] :
                    /\ g.from < g.to /\ g.to - g.from >= ask.least
                    /\ g.from .. g.to - 2 \subseteq joined
                    /\ g.to - 1 \in free
                    /\ g.from - 1 \notin joined /\ g.to - 1 \notin joined}
=============================================================================
