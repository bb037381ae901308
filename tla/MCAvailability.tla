--------------------------- MODULE MCAvailability ---------------------------
(***************************************************************************)
(* Two families of calls for TLC.  In the first, up to four references go  *)
(* out in batches of two, to calendars and groups of which one cannot be   *)
(* read.  In the second, one calendar is busy at times chosen around the   *)
(* edges of the hours and the change of the clock.                         *)
(***************************************************************************)
EXTENDS Availability

MCCalendars == {"c1", "c2", "c3", "c4"}
MCGroups == {"g1", "g2", "g3"}
MCNamed == [title |-> "c1", primary |-> "c2"]

\* A day is six ticks, an hour two: clocks go forward and back by a tick or
\* by two, east and west of UTC, on the second of the days asked about.
MCZones ==
    [none |-> [before |-> 0, after |-> 0, at |-> 60],
     east |-> [before |-> 2, after |-> 4, at |-> 51],
     back |-> [before |-> 4, after |-> 2, at |-> 51],
     west |-> [before |-> -2, after |-> -1, at |-> 53]]

Moment(t) == [kind |-> "instant", at |-> t]
OnDate(d) == [kind |-> "date", at |-> d]
NoStrings == [from |-> -1, to |-> -1, days |-> {}]

Sequences123 ==
    {<<"c1", "c2", "c3">>, <<"c1", "title", "c4">>, <<"c1", "c2", "g1">>,
     <<"g1", "g2">>, <<"c4", "g2", "primary", "g1">>, <<"g3", "c3">>, <<"c3", "untitled">>,
     <<"c1", "c2", "c3", "c4", "g1">>}
Wide == [from |-> Moment(48), to |-> Moment(60)]
Batched ==
    AskSpace(Sequences123, {"none"}, {Wide}, {NoStrings}, {0})
Timed ==
    AskSpace({<<"c1">>}, {"", "east", "back", "west", "broken"},
        {[from |-> OnDate(8), to |-> OnDate(9)], [from |-> Moment(47), to |-> Moment(62)],
         [from |-> Moment(50), to |-> Moment(50)]},
        {NoStrings,
         [from |-> 1, to |-> 5, days |-> {}], [from |-> 0, to |-> 4, days |-> {1, 2}],
         [from |-> -1, to |-> -1, days |-> {2}], [from |-> 3, to |-> -1, days |-> {}],
         [from |-> 4, to |-> 2, days |-> {}], [from |-> 1, to |-> 2, days |-> {7}]},
        {0, 2})
MCAsks == Batched \union Timed

Period(a, b) == [from |-> a, to |-> b]
BusyTimes ==
    {{}, {Period(48, 50), Period(49, 53)}, {Period(49, 55), Period(50, 51)},
     {Period(40, 49), Period(51, 52), Period(52, 54)}, {Period(45, 70)}}
Members == [g1 |-> <<"c1", "c3">>, g2 |-> <<"c3", "c4">>, g3 |-> <<"c1", "c2", "c4">>]
NoMembers == [Members EXCEPT !.g2 = <<>>]
AllRead == [c \in MCCalendars |-> "read"]
OneBad == {[AllRead EXCEPT ![c] = k] : c \in MCCalendars, k \in Conditions}
Busily ==
    [c \in MCCalendars |->
        CASE c = "c1" -> {Period(48, 50)} [] c = "c2" -> {Period(49, 53)}
          [] c = "c3" -> {Period(53, 54)} [] c = "c4" -> {Period(57, 58)}]
Unzoned == [a \in MCCalendars \union MCGroups |-> ""]
ManyWorlds ==
    World({Members, NoMembers}, OneBad, {Busily}, {"left out", "too many"}, {Unzoned}, {""})
OneWorlds ==
    World({Members}, {AllRead}, {[Busily EXCEPT !["c1"] = b] : b \in BusyTimes}, {"left out"},
          {Unzoned, [Unzoned EXCEPT !["c1"] = "east"], [Unzoned EXCEPT !["c1"] = "broken"]},
          {"", "west"})

\* Each family of calls meets its own worlds.
MCWorlds == ManyWorlds \union OneWorlds
MCInit == AvailInit /\ (ask \in Batched <=> google \in ManyWorlds)
MCSpec == MCInit /\ [][AvailNext]_availVars
=============================================================================
