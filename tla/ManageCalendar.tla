--------------------------- MODULE ManageCalendar ---------------------------
(***************************************************************************)
(* The calendar tools of internal/service/calendars.go and the calendar    *)
(* list internal/service/service.go reads once and keeps for the life of   *)
(* the process: list_calendars, create_calendar, manage_calendar (its      *)
(* three axes, in the order one call writes them), unsubscribe,            *)
(* delete_calendar and clear_calendar.                                     *)
(*                                                                         *)
(* Tool calls run concurrently.  The mutex of Service covers one look at   *)
(* the kept list, or one replacement of it, never the requests between; an *)
(* answer reaches the list some time after Google acted.  A calendar is    *)
(* two resources with an etag each: what everybody sees (name) and this    *)
(* account's entry for it (look).  The version stands for the content.     *)
(***************************************************************************)
EXTENDS Naturals, Sequences, Functions

CONSTANTS
    Calls,        \* tool calls
    Cals,         \* calendar ids
    Primary,      \* the account's own calendar, referred to by its alias
    Fresh,        \* ids Google mints for create_calendar
    Unlisted,     \* calendars the account can reach but has not in its list
    Owned,        \* calendars Google refuses to take off this list
    PageOf,       \* the page of calendarList.list an entry is on
    Pages,        \* how many pages it has
    Requests,     \* what a call may be: the calendar and its steps
    MaxRetries,   \* gapi.Client.MaxRetries
    MaxEdits      \* bound: changes made from outside this process

Steps == {"create", "subscribe", "rename", "recolor", "unsubscribe", "delete",
          "clear"}

\* manageGuards, DeleteCalendar and ClearCalendar: removing stands alone and
\* is never of the primary, clearing is of nothing else.  No step at all is
\* list_calendars.
Allowed(r) ==
    LET has(s) == s \in Range(r.steps) IN
    /\ has("create") => r.at \in Fresh
    /\ has("create") \/ has("unsubscribe") \/ has("delete") \/ has("clear")
           => Len(r.steps) = 1
    /\ has("clear") => r.at = Primary
    /\ r.at = Primary => ~has("unsubscribe") /\ ~has("delete")
                            /\ ~has("subscribe")

ASSUME CalendarAssumption ==
    /\ Primary \in Cals \ (Fresh \union Unlisted)
    /\ Fresh \subseteq Cals /\ Unlisted \subseteq Cals /\ Owned \subseteq Cals
    /\ Pages \in Nat \ {0} /\ PageOf \in [Cals -> 1 .. Pages]
    /\ MaxRetries \in Nat /\ MaxEdits \in Nat
    /\ \A r \in Requests :
        /\ r.at \in Cals /\ r.steps \in Seq(Steps) /\ IsInjective(r.steps)
        /\ Allowed(r)

VARIABLES
    google,    \* each calendar and this account's entry for it, at Google
    cache,     \* Service.calendars and Service.calendarsAt
    call,      \* each tool call's goroutine
    tainted,   \* history: calendars whose row may rightly be out of date
    edits      \* bound: how many changes came from outside

vars == <<google, cache, call, tainted, edits>>

RowIn(g, c) == [cal |-> c, name |-> g[c].name, look |-> g[c].look]
Row(c) == RowIn(google, c)
Bare(row) == [row EXCEPT !.look = 0]   \* without the entry's half
NoRow == [cal |-> Primary, name |-> 0, look |-> 0]
Listed == {c \in Cals : google[c].live /\ google[c].inList}
CalsOf(rows) == {r.cal : r \in rows}

Init ==
    /\ google = [c \in Cals |->
            [live |-> c \notin Fresh, inList |-> c \notin Fresh \union Unlisted,
             name |-> 1, look |-> 1]]
    /\ cache = [read |-> FALSE, rows |-> {}]
    /\ call \in
        [Calls -> [pc: {"idle"}, req: Requests, todo: {<<>>}, page: {0},
                   got: {{}}, row: {NoRow}, base: {0}, sends: {0},
                   unsure: {FALSE}, changed: {{}},
                   outcome: {"none"}, did: {{}}, last: {NoRow}]]
    /\ tainted = {}
    /\ edits = 0

-----------------------------------------------------------------------------
(* A call begins, and resolves the calendar it names.                      *)

At(k) == call[k].req.at
Step(k) == Head(call[k].todo)
Running(k) == call[k].pc \notin {"idle", "done"}
Writers(c) == {k \in Calls : Running(k) /\ call[k].req.steps # <<>> /\ At(k) = c}
Fetching == {k \in Calls : call[k].pc \in {"page", "install"}}

Finish(k, o) == call' = [call EXCEPT ![k].pc = "done", ![k].outcome = o]

Creates(k) == "create" \in Range(call[k].req.steps)

\* create_calendar resolves nothing, and the alias never fetches the list.
Fetches(k) ==
    /\ ~cache.read
    /\ At(k) # Primary
    /\ ~Creates(k)

\* A fetch and a write under way together, or two writes to one calendar,
\* may leave a row out of date.
Overlaps(k) ==
    {c \in Cals : \/ Fetches(k) /\ Writers(c) # {}
                  \/ /\ c = At(k) /\ call[k].req.steps # <<>>
                     /\ Writers(c) \union Fetching # {}}

Begin(k) ==
    /\ call[k].pc = "idle"
    /\ call' = [call EXCEPT
            ![k].pc = IF Creates(k) THEN "send"
                      ELSE IF Fetches(k) THEN "page" ELSE "found",
            ![k].todo = call[k].req.steps,
            ![k].page = 1,
            ![k].got = IF cache.read THEN cache.rows ELSE {},
            ![k].last = Row(At(k))]
    /\ tainted' = tainted \union Overlaps(k)
    /\ UNCHANGED <<google, cache, edits>>

\* allCalendars: page by page, with no lock held, and then over whatever
\* the list is by now.
ReadPage(k) ==
    /\ call[k].pc = "page"
    /\ call' = [call EXCEPT
            ![k].got = @ \union
                {Row(c) : c \in {x \in Listed : PageOf[x] = call[k].page}},
            ![k].page = @ + 1,
            ![k].pc = IF call[k].page = Pages THEN "install" ELSE "page"]
    /\ UNCHANGED <<google, cache, tainted, edits>>

Install(k) ==
    /\ call[k].pc = "install"
    /\ cache' = [read |-> TRUE, rows |-> call[k].got]
    /\ call' = [call EXCEPT ![k].pc = "found"]
    /\ UNCHANGED <<google, tainted, edits>>

\* ResolveCalendar, for an id or the alias; list_calendars ends here.
Resolve(k) ==
    /\ call[k].pc = "found"
    /\ \/ /\ call[k].todo = <<>>
          /\ Finish(k, "ok")
       \/ /\ call[k].todo # <<>>
          /\ \E r \in call[k].got : r.cal = At(k) /\
                call' = [call EXCEPT ![k].pc = "do", ![k].row = r]
       \/ /\ call[k].todo # <<>>
          /\ At(k) \notin CalsOf(call[k].got)
          /\ call' = [call EXCEPT ![k].pc = "byid"]
    /\ UNCHANGED <<google, cache, tainted, edits>>

\* calendarByID: the entry, or the calendar alone when there is none.
ReadByID(k) ==
    /\ call[k].pc = "byid"
    /\ google[At(k)].live
    /\ call' = [call EXCEPT ![k].pc = "do",
            ![k].row = IF google[At(k)].inList THEN Row(At(k))
                       ELSE Bare(Row(At(k)))]
    /\ UNCHANGED <<google, cache, tainted, edits>>

-----------------------------------------------------------------------------
(* One step of a call: the read it is planned from, the request, and what  *)
(* the answer does to the kept list.                                       *)

After(k) ==
    [call[k] EXCEPT !.todo = Tail(@),
                    !.pc = IF Tail(call[k].todo) = <<>> THEN "done" ELSE "do",
                    !.outcome = IF Tail(call[k].todo) = <<>> THEN "ok" ELSE @]

\* subscribe looks in the kept list first.
Subscribe(k) ==
    /\ call[k].pc = "do" /\ Step(k) = "subscribe"
    /\ call' = [call EXCEPT ![k] =
            IF At(k) \in CalsOf(cache.rows) THEN After(k)
            ELSE [@ EXCEPT !.pc = "send", !.sends = 0, !.unsure = FALSE]]
    /\ UNCHANGED <<google, cache, tainted, edits>>

\* The resource a step writes, and the etag it is held to: from a read just
\* before it, or from the entry this same call has just created.
OnEntry(s) == s \in {"recolor", "unsubscribe"}
There(k) == IF OnEntry(Step(k)) THEN google[At(k)].inList ELSE google[At(k)].live
Version(k) == IF OnEntry(Step(k)) THEN google[At(k)].look ELSE google[At(k)].name

VersionKept(k) ==   \* mutant: the etag of the resolved calendar is sent
    IF OnEntry(Step(k)) THEN call[k].row.look ELSE call[k].row.name
VersionRead(k) ==
    IF Step(k) = "recolor" /\ "subscribe" \in call[k].changed
    THEN call[k].row.look ELSE Version(k)

ListingEarly(k) ==   \* mutant: every axis lists its change before the write
    {Step(k)} \ {"delete", "unsubscribe"}
\* patchSubscription lists its changes here, patchCalendarItself only once
\* they landed.
Listing(k) == IF Step(k) = "recolor" THEN {"recolor"} ELSE {}

ReadVersion(k) ==
    /\ call[k].pc = "do" /\ Step(k) # "subscribe"
    /\ There(k)
    /\ call' = [call EXCEPT ![k].pc = "send", ![k].sends = 0,
            ![k].unsure = FALSE, ![k].base = VersionRead(k),
            ![k].changed = @ \union Listing(k)]
    /\ UNCHANGED <<google, cache, tainted, edits>>

\* The patch would change nothing, so nothing is sent and the call goes on.
NothingToSend(k) ==
    /\ call[k].pc = "do" /\ Step(k) \in {"rename", "recolor"}
    /\ There(k)
    /\ call' = [call EXCEPT ![k] = After(k)]
    /\ UNCHANGED <<google, cache, tainted, edits>>

\* What ends a call between its requests: a guard, a dry run, a read that
\* failed, a confirmation that is missing.
GivesUp(k) ==
    /\ call[k].pc \in {"page", "byid", "do"}
    /\ Finish(k, "failed")
    /\ UNCHANGED <<google, cache, tainted, edits>>

\* Google: the resource is there at the version the request names.
Able(k) ==
    CASE Step(k) = "create" -> ~google[At(k)].live
      [] Step(k) = "subscribe" -> google[At(k)].live /\ ~google[At(k)].inList
      [] Step(k) = "unsubscribe" ->
            There(k) /\ Version(k) = call[k].base /\ At(k) \notin Owned
      [] OTHER -> There(k) /\ Version(k) = call[k].base

Effect(k) ==
    LET c == At(k) IN
    CASE Step(k) = "clear" -> google
      [] Step(k) = "create" ->
            [google EXCEPT ![c] = [live |-> TRUE, inList |-> TRUE,
                                   name |-> @.name + 1, look |-> @.look + 1]]
      [] Step(k) = "subscribe" ->
            [google EXCEPT ![c].inList = TRUE, ![c].look = @ + 1]
      [] Step(k) = "rename" -> [google EXCEPT ![c].name = @ + 1]
      [] Step(k) = "recolor" -> [google EXCEPT ![c].look = @ + 1]
      [] Step(k) = "unsubscribe" -> [google EXCEPT ![c].inList = FALSE]
      [] Step(k) = "delete" ->
            [google EXCEPT ![c].live = FALSE, ![c].inList = FALSE]

Carried(k) == call[k].did \union {<<Step(k), call[k].sends>>}

\* The calendar as the report has it after the step: mergeCalendar keeps
\* the entry's half of what was known, and of a calendar just created only
\* its own half is known, with the role and the selection set beside it.
Reported(k, known) ==
    LET row == RowIn(Effect(k), At(k)) IN
    IF Step(k) = "rename" THEN [row EXCEPT !.look = known.look]
    ELSE IF Step(k) = "create" THEN Bare(row) ELSE row

Lands(k) ==
    /\ call[k].pc = "send" /\ Able(k)
    /\ google' = Effect(k)
    /\ call' = [call EXCEPT ![k].pc = "back", ![k].did = Carried(k),
                            ![k].row = Reported(k, call[k].row),
                            ![k].last = Reported(k, call[k].last)]
    /\ tainted' = tainted \union
            (IF Step(k) = "rename" /\ ~google[At(k)].inList THEN {At(k)} ELSE {})
    /\ UNCHANGED <<cache, edits>>

\* A 412, a 404, or any other refusal: Google did not act.
Refused(k) ==
    /\ call[k].pc = "send"
    /\ Finish(k, IF There(k) /\ Version(k) # call[k].base
                    /\ Step(k) \notin {"create", "subscribe"} THEN "stale"
                 ELSE IF ~There(k) /\ call[k].unsure
                    /\ Step(k) \in {"unsubscribe", "delete"} THEN "ambiguous"
                 ELSE "failed")
    /\ UNCHANGED <<google, cache, tainted, edits>>

\* No answer, or a 5xx: it may have landed.  An insert is not sent again.
Retryable(k) ==
    Step(k) \notin {"create", "subscribe"} /\ call[k].sends < MaxRetries

Unanswered(k) ==
    /\ call[k].pc = "send"
    /\ LET next == IF Retryable(k)
                   THEN [call[k] EXCEPT !.sends = @ + 1, !.unsure = TRUE]
                   ELSE [call[k] EXCEPT !.pc = "done",
                            !.outcome = IF Step(k) = "create" THEN "ambiguous"
                                        ELSE "unavailable"]
       IN  \/ /\ call' = [call EXCEPT ![k] = next]
              /\ UNCHANGED google
           \/ /\ Able(k)
              /\ google' = Effect(k)
              /\ call' = [call EXCEPT ![k] = [next EXCEPT !.did = Carried(k)]]
    /\ tainted' = tainted \union {At(k)}
    /\ UNCHANGED <<cache, edits>>

\* rememberCalendar and forgetCalendar: nothing to correct before the list
\* was read, and otherwise one replacement under the lock.  Clearing
\* corrects nothing: the calendar is the one it was.
Without(rows, c) == {r \in rows : r.cal # c}
Returned(k) ==
    IF Step(k) \in {"unsubscribe", "delete"} THEN {} ELSE {call[k].row}

CorrectedOld(k, rows) ==      \* mutant: from the rows the call resolved with
    Without(call[k].got, At(k)) \union Returned(k)
Corrected(k, rows) == Without(rows, At(k)) \union Returned(k)

Answered(k) ==
    /\ call[k].pc = "back"
    /\ cache' = IF cache.read /\ Step(k) # "clear"
                THEN [cache EXCEPT !.rows = Corrected(k, @)] ELSE cache
    /\ call' = [call EXCEPT ![k] = [After(k) EXCEPT
                    !.changed = @ \union {Step(k)}]]
    /\ UNCHANGED <<google, tainted, edits>>

-----------------------------------------------------------------------------
\* Somebody renames the calendar, or this account's entry changes elsewhere.
Edited(c) ==
    LET g == google[c] IN
    {[g EXCEPT !.name = @ + 1]}
    \union (IF g.inList THEN {[g EXCEPT !.look = @ + 1]} ELSE {})
    \union (IF c \in Owned THEN {} ELSE {[g EXCEPT !.inList = ~@, !.look = @ + 1]})
    \union (IF c = Primary THEN {}
            ELSE {[g EXCEPT !.live = FALSE, !.inList = FALSE]})

Edit(c) ==
    /\ edits < MaxEdits
    /\ google[c].live
    /\ \E g \in Edited(c) : google' = [google EXCEPT ![c] = g]
    /\ edits' = edits + 1
    /\ tainted' = tainted \union {c}
    /\ UNCHANGED <<cache, call>>

Works(k) ==
    \/ ReadPage(k) \/ Install(k) \/ Resolve(k) \/ ReadByID(k)
    \/ Subscribe(k) \/ ReadVersion(k) \/ NothingToSend(k) \/ GivesUp(k)

Request(k) == Lands(k) \/ Refused(k) \/ Unanswered(k) \/ Answered(k)

Next ==
    \/ \E k \in Calls : Begin(k) \/ Works(k) \/ Request(k)
    \/ \E c \in Cals : Edit(c)

\* Every call is run to its end; nobody has to edit a calendar.
Fairness == \A k \in Calls : WF_vars(Begin(k) \/ Works(k) \/ Request(k))

Spec == Init /\ [][Next]_vars /\ Fairness

-----------------------------------------------------------------------------
(* Properties.                                                             *)

RowSpace == [cal: Cals, name: Nat, look: Nat]
Sends == 0 .. MaxRetries

TypeOK ==
    /\ google \in [Cals ->
            [live: BOOLEAN, inList: BOOLEAN, name: Nat \ {0}, look: Nat \ {0}]]
    /\ cache \in [read: BOOLEAN, rows: SUBSET RowSpace]
    /\ call \in [Calls ->
            [pc: {"idle", "page", "install", "found", "byid", "do", "send",
                  "back", "done"},
             req: Requests, todo: Seq(Steps), page: 0 .. Pages + 1,
             got: SUBSET RowSpace, row: RowSpace, base: Nat, sends: Sends,
             unsure: BOOLEAN, changed: SUBSET Steps,
             outcome: {"none", "ok", "failed", "stale", "ambiguous",
                       "unavailable"},
             did: SUBSET (Steps \X Sends), last: RowSpace]]
    /\ tainted \subseteq Cals
    /\ edits \in 0 .. MaxEdits

\* The kept list is what a fresh calendarList.list would say of every
\* calendar with no write under way, whatever the other calls do to their
\* own calendars meanwhile -- as long as no answer for this calendar was
\* lost, no other write or fetch overlapped one of its writes, nobody else
\* changed it, and it was not renamed while off the list.  The row of a
\* calendar this process created may lack the entry's half (its colour, its
\* reminders), as create_calendar kept it: its own half is current.
KeptRowsAreCurrent ==
    cache.read => \A c \in Cals \ tainted : Writers(c) = {} =>
        LET kept == {r \in cache.rows : r.cal = c} IN
        \/ kept = IF c \in Listed THEN {Row(c)} ELSE {}
        \/ c \in Fresh \intersect Listed /\ kept = {Bare(Row(c))}

\* A refusal as stale is somebody's change since the call began (or since
\* its own last write there): the kept list, however old, never causes one.
\* entryETag and calendarETag read afresh for this.
StaleMeansChanged ==
    \A k \in Calls : call[k].outcome = "stale" /\ ~call[k].unsure =>
        Version(k) # IF OnEntry(Step(k)) THEN call[k].last.look
                                         ELSE call[k].last.name

\* Each step a call reports as changed was carried out, and none was carried
\* out twice: create_calendar never makes two calendars, a repeated patch
\* finds its etag gone, and a list of changes is added to after its write.
\* (Two steps apart: patchSubscription reports the account's own settings
\* before its request, and a clear, which leaves the calendar's etag as it
\* was, is carried out again when it is sent again.)
ClaimsLanded ==
    \A k \in Calls :
        /\ \A s \in call[k].changed \ {"recolor"} :
               \E d \in call[k].did : d[1] = s
        /\ \A d, e \in call[k].did : d[1] = e[1] /\ d[1] # "clear" => d = e
=============================================================================
