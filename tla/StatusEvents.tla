---------------------------- MODULE StatusEvents ----------------------------
(***************************************************************************)
(* Making and changing one event on the account's own calendar: Insert and *)
(* Patch of internal/plan/plan.go with the rules for out-of-office, focus  *)
(* time and working locations in internal/plan/status.go, and the warning  *)
(* that a change makes an event decline over more time.  What concerns     *)
(* guests, mail and etags is in EventPlan and EventWrite.                  *)
(***************************************************************************)
EXTENDS Recurrence

CONSTANTS
    Creates,    \* the calls of create_event: [status, draft], see below
    Drafts,     \* the drafts of update_event
    Elsewhere,  \* events made outside this server
    Limits,     \* the limits asked of an expansion
    MaxChanges  \* bound: changes of an event

\* What every event has, and the words a draft has for busy (a *bool).
EventFields ==
    {"there", "type", "details", "decline", "onPrimary", "allDay", "start", "end", "zone", "lines",
     "busy", "visibility"}
BusyWords == {"", "opaque", "transparent"}

\* A side of an event as a caller gives it: not at all, a date, or an instant.
Side(given, allDay, at) == [given |-> given, allDay |-> allDay, at |-> at]
Unsaid == Side(FALSE, FALSE, Zero)
Sides == [given : BOOLEAN, allDay : BOOLEAN, at : Int]

\* Dates the model's calendar has, in any zone.
OnCalendar(allDay, at) ==
    IF allDay THEN at \in 0 .. LastDate
    ELSE \A n \in DOMAIN Zones : DateIn(Zones[n], at) \in 0 .. LastDate
SoundDraft(d) ==
    /\ d.busy \in BusyWords /\ d.start \in Sides /\ d.end \in Sides /\ d.lines \in Seq(WrittenLines)
    /\ d.start.given => OnCalendar(d.start.allDay, d.start.at)
SoundEvent(e) ==
    /\ DOMAIN e = EventFields /\ e.allDay \in BOOLEAN /\ e.start \in Int /\ e.end \in Int
    /\ e.allDay \/ e.zone \in DOMAIN Zones
    /\ OnCalendar(e.allDay, e.start) /\ e.lines \in Seq(WrittenLines)
ASSUME StatusAssumption ==
    /\ \A e \in Elsewhere : SoundEvent(e)
    /\ \A d \in Drafts : SoundDraft(d)
    /\ \A c \in Creates : SoundDraft(c.draft)
    /\ Limits \subseteq 1 .. MaxOccurrences

VARIABLES
    event,      \* Google's event, or NoEvent
    answer,     \* how the last call ended, whether it warned, the reach it told
    changes     \* changes made so far

statusVars == <<event, answer, changes>>

NoEvent == [there |-> FALSE]

Away == {"outOfOffice", "focusTime"}
Working == "workingLocation"
StatusTypes == Away \union {Working}

-----------------------------------------------------------------------------
(* times: the caller's start and end as the wire pair.                     *)

\* An all-day end is given as the last day and sent as the day after.
EndOf(side) == IF side.allDay THEN side.at + 1 ELSE side.at
NewStart(d, e) == IF d.start.given THEN d.start.at ELSE e.start
NewEnd(d, e) == IF d.end.given THEN EndOf(d.end) ELSE e.end
KindGiven(d) == IF d.start.given THEN d.start.allDay ELSE d.end.allDay
NewAllDay(d, e) == IF d.start.given \/ d.end.given THEN KindGiven(d) ELSE e.allDay

OneSide(d) == d.start.given # d.end.given
TimesRefused(d, e) ==
    /\ d.start.given \/ d.end.given
    /\ \/ d.start.given /\ d.end.given /\ d.start.allDay # d.end.allDay
       \/ OneSide(d) /\ KindGiven(d) # e.allDay
       \/ ~KindGiven(d) /\ d.zone \notin DOMAIN Zones
       \/ NewEnd(d, e) <= NewStart(d, e)

\* sameMoment compares what is written, the offset included.
SameMoment(allDay, zone, at, was, wasZone, wasAt) ==
    allDay = was /\ at = wasAt /\ (allDay \/ Offset(Zones[zone], at) = Offset(Zones[wasZone], at))

\* A patch of the times: a side that says what stood is not sent.
WithTimes(e, d) ==
    LET sentStart == d.start.given
                     /\ ~SameMoment(KindGiven(d), d.zone, d.start.at, e.allDay, e.zone, e.start)
    IN  [e EXCEPT !.allDay = NewAllDay(d, e), !.start = NewStart(d, e), !.end = NewEnd(d, e),
                  !.zone = IF sentStart /\ ~KindGiven(d) THEN d.zone ELSE @]

-----------------------------------------------------------------------------
(* The shapes Google takes, and the fields a status event must have.       *)

\* shape: as the event would stand after the write.
ShapeRefusedTimed(e) ==   \* mutant: the transparency alone is looked at
    e.type \in Away /\ e.busy = "transparent"
ShapeRefused(e) ==
    \/ e.type \in Away /\ (e.allDay \/ e.busy = "transparent")
    \/ /\ e.type = Working
       /\ \/ e.allDay /\ e.end # e.start + 1
          \/ e.visibility \notin {"", "public"}
          \/ e.busy = "opaque"

\* statusGuests: none on a status event.
GuestsRefused(d, type) == type \in StatusTypes /\ (d.invites \/ d.conference)

\* declinesAllHere: only create_event_declining_all makes one of these.
DeclinesAllHere(s) == s.type \in Away /\ s.decline = "all" /\ ~s.declineAll

AwayRefused(s) ==
    \/ s.working # "" \/ s.label
    \/ s.decline \notin {"none", "new", "all"}
    \/ s.message /\ s.decline = "none"
    \/ s.type = "outOfOffice" /\ s.chat # ""
    \/ s.chat \notin {"", "available", "do_not_disturb"}
WorkingRefused(s) ==
    \/ s.decline # "" \/ s.message \/ s.chat # ""
    \/ s.working \notin {"home", "office", "custom"}
    \/ s.working = "home" /\ s.label

\* firstGiven: a status input without a status type.
StatusGiven(s) ==
    s.decline # "" \/ s.message \/ s.chat # "" \/ s.working # "" \/ s.label

\* Status.apply: refused, or the event made a status event.
ApplyRefused(s, d, e) ==
    CASE s.type \in {"", "default"} -> StatusGiven(s)
      [] s.type \in StatusTypes ->
            \/ DeclinesAllHere(s) \/ ~s.onPrimary \/ GuestsRefused(d, s.type)
            \/ ShapeRefused([e EXCEPT !.type = s.type])
            \/ s.type \in Away /\ AwayRefused(s)
            \/ s.type = Working /\ WorkingRefused(s)
      [] OTHER -> TRUE
AppliedStatus(s, e) ==
    CASE s.type \in Away ->
            [e EXCEPT !.type = s.type, !.details = TRUE, !.onPrimary = s.onPrimary,
                      !.decline = s.decline, !.busy = "opaque"]
      [] s.type = Working ->
            [e EXCEPT !.type = s.type, !.details = TRUE, !.onPrimary = s.onPrimary,
                      !.busy = "transparent", !.visibility = "public"]
      [] OTHER -> [e EXCEPT !.onPrimary = s.onPrimary]

Visibilities == {"", "default", "public", "private"}

-----------------------------------------------------------------------------
(* Insert and Patch.  A draft is [start, end, zone, recurs, lines, busy,   *)
(* visibility, invites, conference, title]; "" and FALSE say nothing.      *)

Plain(d) ==
    [there |-> TRUE, type |-> "default", details |-> FALSE, decline |-> "", onPrimary |-> TRUE,
     allDay |-> d.start.allDay, start |-> d.start.at, end |-> EndOf(d.end), zone |-> d.zone,
     lines |-> d.lines, busy |-> IF d.busy = "transparent" THEN "transparent" ELSE "",
     visibility |-> d.visibility]

InsertRefused(s, d) ==
    \/ ~d.start.given \/ ~d.end.given
    \/ TimesRefused(d, NoEvent)
    \/ d.visibility \notin Visibilities
    \/ ParseRefused(d.lines)
    \/ ApplyRefused(s, d, Plain(d))
Inserted(s, d) == AppliedStatus(s, Plain(d))

\* ApplyTo of the patch that Patch builds.
Patched(e, d) ==
    [WithTimes(e, d) EXCEPT
        !.lines = IF d.recurs THEN d.lines ELSE @,
        !.busy = IF d.busy = "" \/ d.busy = (IF @ = "" THEN "opaque" ELSE @) THEN @ ELSE d.busy,
        !.visibility = IF \/ d.visibility = ""
                          \/ d.visibility = (IF @ = "" THEN "default" ELSE @)
                       THEN @ ELSE d.visibility]

\* statusPatch: a shape the event did not have before is refused.
StatusPatchRefused(e, after) ==
    e.type \in StatusTypes /\ ShapeRefused(after) /\ ~ShapeRefused(e)
NothingChanges(e, d, patched) == patched = e /\ ~d.invites /\ ~d.conference /\ ~d.title
PatchRefused(e, d, patched) ==
    \/ GuestsRefused(d, e.type)
    \/ d.visibility \notin Visibilities
    \/ TimesRefused(d, e)
    \/ d.recurs /\ ParseRefused(d.lines)
    \/ StatusPatchRefused(e, patched)
    \/ NothingChanges(e, d, patched)

-----------------------------------------------------------------------------
(* DeclinesMore.                                                           *)

DeclinesAll(e) == e.type \in Away /\ e.decline = "all"

\* spans: one per occurrence that starts before "stop", as [ok, complete, at].
Unreadable == [ok |-> FALSE, complete |-> FALSE, at |-> <<>>]
Starts(occ) == [ok |-> TRUE, complete |-> ~occ.truncated, at |-> occ.at]
Spans(e, stop) ==
    CASE e.allDay -> Unreadable
      [] ~e.allDay /\ e.lines = <<>> -> [ok |-> TRUE, complete |-> TRUE, at |-> <<e.start>>]
      [] ~e.allDay /\ e.lines # <<>> ->
            IF ParseRefused(e.lines) \/ ~Expandable(Parse(e.lines))
            THEN Unreadable
            ELSE Starts(Expand(e, Zero, stop, MaxOccurrences))

\* within: the latest occurrence of before to start by one of after's
\* covers it.
LengthOf(e) == e.end - e.start
StopsAtLast(e, a) == a.at[Len(a.at)] + LengthOf(e)
CoveredBy(b, m, length, lengthBefore) ==
    \E i \in DOMAIN b.at :
        /\ b.at[i] <= m /\ b.at[i] + lengthBefore >= m + length
        /\ \A j \in DOMAIN b.at : b.at[j] <= m => j <= i
AllWithin(before, after, a, b) ==
    /\ a.ok
    /\ a.complete \/ before.lines = after.lines
    /\ \/ a.at = <<>>
       \/ /\ b.ok /\ b.at # <<>>
          /\ \A m \in ToSet(a.at) : CoveredBy(b, m, LengthOf(after), LengthOf(before))
WithinThese(before, after, a) ==
    AllWithin(before, after, a, Spans(before, StopsAtLast(after, a)))
Within(before, after) == WithinThese(before, after, Spans(after, Zero))

SameWhen(before, after) ==
    /\ before.allDay = after.allDay /\ before.start = after.start /\ before.end = after.end
    /\ before.zone = after.zone /\ before.lines = after.lines
DeclinesMoreStarts(before, after) ==   \* mutant: what starts inside is inside
    /\ DeclinesAll(after)
    /\ ~DeclinesAll(before)
          \/ (before.start > after.start \/ before.end < after.start)
DeclinesMore(before, after) ==
    /\ DeclinesAll(after)
    /\ ~DeclinesAll(before) \/ (~SameWhen(before, after) /\ ~Within(before, after))

-----------------------------------------------------------------------------
(* Google, and the calls.                                                  *)

\* The status-events guide's rules, for an event as it would stand.
GoogleRefuses(e) ==
    /\ e.type \in StatusTypes
    /\ \/ ~e.onPrimary \/ ~e.details
       \/ e.type \in Away /\ (e.allDay \/ e.busy = "transparent")
       \/ /\ e.type = Working
          /\ e.visibility # "public" \/ e.busy # "transparent" \/ (e.allDay /\ e.end # e.start + 1)

NoReach == [says |-> "", count |-> 0]
Says(how, warned) == [how |-> how, warned |-> warned, reach |-> NoReach]

StatusInit ==
    /\ event \in {NoEvent} \union {e \in Elsewhere : ~GoogleRefuses(e)}
    /\ answer = Says("nothing", FALSE) /\ changes = 0

\* create_event.
Answering(refused, e, warned) ==
    IF refused THEN answer' = Says("refused", FALSE) /\ UNCHANGED event
    ELSE IF GoogleRefuses(e) THEN answer' = Says("refused by Google", FALSE) /\ UNCHANGED event
    ELSE answer' = Says("written", warned) /\ event' = e
Create ==
    /\ ~event.there
    /\ \E c \in Creates :
          Answering(InsertRefused(c.status, c.draft), Inserted(c.status, c.draft), FALSE)
    /\ UNCHANGED changes

\* update_event, at the scope that writes the event itself.
Update(d, patched) ==
    Answering(PatchRefused(event, d, patched), patched, DeclinesMore(event, patched))
Change ==
    /\ event.there /\ changes < MaxChanges
    /\ \E d \in Drafts : Update(d, Patched(event, d))
    /\ changes' = changes + 1

\* update_event on a series without a scope: refused, with how far the
\* series goes.
Unscoped ==
    /\ event.there /\ event.lines # <<>> /\ ~ParseRefused(event.lines)
    /\ answer' = [how |-> "no scope", warned |-> FALSE, reach |-> ReachTold(event, 0)]
    /\ UNCHANGED <<event, changes>>

StatusNext == Create \/ Change \/ Unscoped

StatusSpec == StatusInit /\ [][StatusNext]_statusVars

-----------------------------------------------------------------------------
\* The calls of this server are never refused for the shape of a status
\* event: what it makes itself and what it changes keeps the fields and
\* times Google's guide requires, although the guide is checked here on
\* the caller's words and at Google on the event that stands.
GoogleTakesIt == answer.how # "refused by Google"

\* A series this server and RFC 5545 read alike: one rule it expands, without
\* a part it does not know (expandable lets those through), whose BY parts
\* each select a day of every month, with nothing counted twice and no date
\* added behind an UNTIL.  The README says what differs.
DescribedBy(s, set, r) ==
    /\ r.unknown = {}
    /\ r.freq \in {"MONTHLY", "YEARLY"} =>
          \A m \in 0 .. Len(Lengths) - 1 :
            /\ r.byDay # <<>> => \E i \in DOMAIN r.byDay : NthWeekdays(m, r.byDay[i]) # <<>>
            /\ r.byMonthDay # <<>> =>
                  \E i \in DOMAIN r.byMonthDay : MonthDay(m, r.byMonthDay[i]) # <<>>
    /\ r.freq = "YEARLY" /\ r.byMonth = <<>> => r.byDay = <<>> /\ r.byMonthDay = <<>>
    /\ r.count > 0 => IsInjective(Candidates(StartDate(s), r))
    /\ r.until # Zero => \A m \in Points(s, set.added) : m <= UntilOf(s, r)
DescribedIn(s, set) == Expandable(set) /\ DescribedBy(s, set, set.rules[1])
Described(s) == ~ParseRefused(s.lines) /\ DescribedIn(s, Parse(s.lines))

\* An expansion is the first occurrences of the rule as RFC 5545 has them,
\* in order, from and to the ends asked for, and says it was cut short
\* just when there are more, of a rule it knows every part of: whatever order the weekdays were written in,
\* across a change of the clock, and with dates added and taken off.  It
\* has a note on each occurrence of the rule whose reading the zone's clock
\* skips or shows twice, and on no other.
FirstIn(all, limit) ==
    LET place(m) == Cardinality({x \in all : x <= m})
    IN  [at |-> [i \in 1 .. IF Cardinality(all) > limit THEN limit ELSE Cardinality(all) |->
                    CHOOSE m \in all : place(m) = i],
         truncated |-> Cardinality(all) > limit]
Asked(occurring, from, to) ==
    {m \in occurring : (from = Zero \/ m >= from) /\ (to = Zero \/ m < to)}
Ends(s) == {Zero} \union {s.start, s.start + (IF s.allDay THEN 7 ELSE 7 * Day)}
OneInstant(s, d) ==
    Cardinality({t \in (d - 1) * Day .. (d + 2) * Day : Local(ZoneOf(s), t) = Reading(s, d)}) = 1
NoteIsTrue(s, occ, d, m) ==
    m \in ToSet(occ.at) => (m \in occ.noted <=> ~s.allDay /\ ~OneInstant(s, d))
ExpandsTo(s, occ, first, dates) ==
    /\ occ.at = first.at /\ occ.truncated = first.truncated
    /\ \A d \in dates : NoteIsTrue(s, occ, d, At(s, d))

\* The walk gets to a date when neither the last period it looks at nor the
\* number of candidates it takes is before it.  It gets far enough for what
\* is asked when all of that is there, or more than the limit.
LooksAt(start, r, d) ==
    /\ r.freq = "DAILY" => YearOf(d) <= LastYear(start)
    /\ r.freq = "MONTHLY" => MonthOf[d] + r.interval < (LastPeriod(start) + 1) * YearMonths
    /\ r.freq = "YEARLY" => YearOf(d) + r.interval <= LastPeriod(start)
GetsTo(start, r, candidates, d) ==
    LooksAt(start, r, d) /\ (Len(candidates) = MaxCandidates => d <= candidates[MaxCandidates])
GotTo(start, r, candidates) == {d \in RuleDates(start, r) : GetsTo(start, r, candidates, d)}
DatesOf(s, r) == GotTo(StartDate(s), r, Candidates(StartDate(s), r))
Reached(s, dates) == {At(s, d) : d \in dates}
FarEnough(reached, added, asked, limit) ==
    Cardinality(asked \intersect reached) > limit \/ asked \subseteq reached \union added

ExpandsAlike(s, dates, reached, added, occurring) ==
    \A limit \in Limits : \A from, to \in Ends(s) :
        LET asked == Asked(occurring, from, to)
        IN  FarEnough(reached, added, asked, limit) =>
                ExpandsTo(s, Expand(s, from, to, limit), FirstIn(asked, limit), dates)
ExpandsAsDates(s, dates, added, occurring) ==
    ExpandsAlike(s, dates, Reached(s, dates), added, occurring)
ExpandsAsRule(s, set) ==
    ExpandsAsDates(s, DatesOf(s, set.rules[1]), Points(s, set.added),
                   OccurringOf(s, set, UntilOf(s, set.rules[1])))
ExpansionIsTheRule ==
    event.there /\ event.lines # <<>> /\ Described(event) =>
        ExpandsAsRule(event, Parse(event.lines))

\* The refusal that asks for a scope counts the series right: of one that
\* ends within what this server expands it says how many occurrences there
\* are, dates added and taken off, and of one without an end that it has
\* none.  Of a rule with parts it does not know it counts what the others
\* say, which is not claimed to be right (Described).
ReachCounts(open, occurring, reached) ==
    IF open THEN answer.reach.says = "no end"
    ELSE Cardinality(occurring) <= MaxOccurrences /\ occurring \subseteq reached =>
             answer.reach = [says |-> "ends", count |-> Cardinality(occurring)]
ReachesAll(s, set) ==
    ReachCounts(Open(set.rules[1]), OccurringOf(s, set, UntilOf(s, set.rules[1])),
                Reached(s, DatesOf(s, set.rules[1])) \union Points(s, set.added))
ReachIsTrue ==
    answer.how = "no scope" /\ Described(event) => ReachesAll(event, Parse(event.lines))

\* What an event covers, and a series whose first occurrences show the rest.
Covered(e) ==
    UNION {m .. m + LengthOf(e) - 1 :
              m \in IF e.lines = <<>> THEN {e.start} ELSE Occurring(e)}
ShowsTheRest(e) ==
    e.lines # <<>> =>
        /\ Described(e)
        /\ \/ Cardinality(Occurring(e)) <= MaxOccurrences
           \/ Open(Parse(e.lines).rules[1]) /\ Parse(e.lines).excluded = {}

\* A change after which an event that declines every meeting does so at an
\* hour it did not before is never answered without the warning, as far as
\* the rules before and after have no part this server does not know: those
\* are compared all the same, by the other parts.
WarnsOfDeclines ==
    [][event.there /\ event'.there /\ event' # event /\ DeclinesAll(event')
         /\ ShowsTheRest(event) /\ ShowsTheRest(event') =>
            \/ answer'.warned
            \/ DeclinesAll(event) /\ Covered(event') \subseteq Covered(event)]_statusVars

=============================================================================
