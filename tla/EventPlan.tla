----------------------------- MODULE EventPlan ------------------------------
(***************************************************************************)
(* What a write to an existing event plans, refuses and sends: the rules   *)
(* of internal/plan and of internal/service/write.go, as operators on the  *)
(* request and on the event a read showed.  EventWrite runs them in many   *)
(* steps; AtomicWrite says what they amount to.                            *)
(*                                                                         *)
(* An event is its etag (ver) and the parts the properties tell apart: one *)
(* shared field (title), the guest list with its answers, the status, and  *)
(* whether it still is on the calendar it is addressed on.                 *)
(***************************************************************************)
EXTENDS Naturals

CONSTANTS
    Calls,        \* tool calls
    Events,       \* event ids on one calendar
    SeriesOf,     \* an occurrence's series; any other event maps to itself
    Guests,       \* addresses, rooms left out
    Me,           \* the signed-in account
    Outside,      \* guests outside the organizer's domain
    Hidden,       \* guests Google leaves out of a truncated list
    Titles,       \* values of the shared field
    Keep,         \* "this update leaves the field alone"
    Requests,     \* the arguments a tool call may carry
    Stored        \* what an event may be when the calls begin

Answers == {"absent", "needsAction", "accepted"}
Statuses == {"confirmed", "cancelled", "deleted"}

\* The arguments of a call that its control depends on.  quotes says the
\* caller passed an etag; personal, that the field an update sets is one
\* Google keeps per person (reminders).
RequestSpace ==
    {r \in [op: {"update", "respond", "cancel", "move"}, at: Events,
            scope: {"instance", "series"}, title: Titles \union {Keep},
            personal: BOOLEAN, add: SUBSET Guests, drop: SUBSET Guests,
            answer: Answers \ {"absent"},
            notify: {"", "none", "external_only", "all"}, quotes: BOOLEAN,
            force: BOOLEAN, dryRun: BOOLEAN] :
        r.op # "update" => r.title = Keep /\ r.add = {} /\ r.drop = {}}

EventState ==
    [ver: Nat \ {0}, title: Titles, answers: [Guests -> Answers],
     status: Statuses, here: BOOLEAN, omits: BOOLEAN]

ASSUME EventsAssumption ==
    /\ SeriesOf \in [Events -> Events]
    /\ \A e \in Events : SeriesOf[SeriesOf[e]] = SeriesOf[e]
ASSUME PeopleAssumption ==
    /\ Me \in Guests
    /\ Outside \subseteq Guests
    /\ Hidden \subseteq Guests \ {Me}
ASSUME RequestsAssumption ==
    /\ Keep \notin Titles /\ Titles # {}
    /\ Requests \subseteq RequestSpace
    /\ Stored \subseteq EventState

-----------------------------------------------------------------------------
(* Events and guests.                                                      *)

IsOccurrence(e) == SeriesOf[e] # e
IsSeries(e) == \E o \in Events : IsOccurrence(o) /\ SeriesOf[o] = e

\* Which event a scoped write lands on.
Target(r) == IF r.scope = "series" THEN SeriesOf[r.at] ELSE r.at

On(s) == {g \in Guests : s.answers[g] # "absent"}

\* The people a write can reach: the guests it read, never the account.
GuestsOf(s) == On(s) \ {Me}

\* What a read answers with: a truncated list leaves some guests out.
Shown(s) ==
    [s EXCEPT !.answers = [g \in Guests |->
        IF s.omits /\ g \in Hidden THEN "absent" ELSE s.answers[g]]]

-----------------------------------------------------------------------------
(* The plan of a write, made from what a read showed.                      *)

\* What an update changes: the field, and the guest list.  An address both
\* removed and added goes and comes back.
Retitles(r, s) == r.title \notin {Keep, s.title}
Stay(r, s) == On(s) \ r.drop
Invited(r, s) == r.add \ Stay(r, s)
Relists(r, s) == Invited(r, s) # {} \/ r.drop \intersect On(s) # {}

\* A write that changes only what Google keeps per person reaches nobody.
OnlyPersonal(r) ==
    r.op = "update" /\ r.personal /\ r.add = {} /\ r.drop = {}

\* ReachOfEvent: the guests on the event and the ones the write adds.
Reach(r, s) ==
    IF OnlyPersonal(r) THEN {} ELSE GuestsOf(s) \union (r.add \ {Me})

\* cancel_event deletes, except one occurrence of a series.
ByDelete(r) ==
    r.op = "cancel" /\ ~(IsOccurrence(r.at) /\ r.scope = "instance")

\* ifMatch: the etag of the read the plan was made from, or "*" (here AnyVersion)
\* under force.  The target's etag, not the addressed event's.
AnyVersion == 0
IfMatchNothing(r, s) == AnyVersion   \* mutant: the header is left out
IfMatch(r, s) == IF r.force THEN AnyVersion ELSE s.ver

\* gapi's mark on a request that may be sent again: every write but a move.
IdempotentAll(r) == TRUE   \* mutant: a move is sent again too
Idempotent(r) == r.op # "move"

\* What attempt.commit holds a second try to.  The code records the size of
\* the guest list; with the addresses reached, that is the list itself.
PlanOf(r, s) ==
    [event |-> Target(r), reached |-> GuestsOf(s),
     outside |-> Reach(r, s) \intersect Outside,
     title |-> IF Retitles(r, s) THEN s.title ELSE Keep,
     rows |-> IF Relists(r, s) THEN On(s) ELSE {},
     answer |-> IF r.op = "respond" THEN s.answers[Me] ELSE "absent",
     status |-> IF r.op = "cancel" /\ ~ByDelete(r) THEN s.status
                                                   ELSE "confirmed"]

Plan == [event: Events, reached: SUBSET Guests, outside: SUBSET Guests,
         title: Titles \union {Keep}, rows: SUBSET Guests, answer: Answers,
         status: Statuses]

\* plan.Patch and setOwnResponse: there must be something to write, and a
\* truncated list is not rewritten by an update.
BodyRefusal(r, s) ==
    IF r.add \union r.drop # {} /\ s.omits THEN "blocked"
    ELSE IF r.op = "update" /\ ~Retitles(r, s) /\ ~Relists(r, s) THEN "invalid"
    ELSE IF r.op = "respond" /\ Me \notin On(s) THEN "invalid"
    ELSE "none"

\* Mutant: only the guests already on the list count.
NotifyRefusalListed(r, s) ==
    IF r.notify = "" /\ GuestsOf(s) # {} /\ ~OnlyPersonal(r) THEN "invalid"
    ELSE IF r.notify = "none" /\ GuestsOf(s) \intersect Outside # {}
         THEN "blocked"
    ELSE "none"

\* plan.Notification, and PersonalNotification where it is called instead.
NotifyRefusal(r, s) ==
    IF r.notify = "" /\ Reach(r, s) # {} THEN "invalid"
    ELSE IF r.notify = "none" /\ Reach(r, s) \intersect Outside # {}
         THEN "blocked"
    ELSE "none"

\* The event after Google carries the write out.  A guest list in a patch
\* replaces the stored one, so it is the list the plan read.
Applied(r, s, cur) ==
    [ver |-> cur.ver + 1,
     title |-> IF Retitles(r, s) THEN r.title ELSE cur.title,
     answers |->
        IF Relists(r, s) THEN
            [g \in Guests |-> IF g \in Invited(r, s) THEN "needsAction"
                              ELSE IF g \in Stay(r, s) THEN s.answers[g]
                              ELSE "absent"]
        ELSE IF r.op = "respond" THEN [s.answers EXCEPT ![Me] = r.answer]
        ELSE cur.answers,
     status |-> IF r.op # "cancel" THEN cur.status
                ELSE IF ByDelete(r) THEN "deleted" ELSE "cancelled",
     here |-> cur.here /\ r.op # "move",
     omits |-> cur.omits]
=============================================================================
