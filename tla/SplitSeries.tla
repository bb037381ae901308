---------------------------- MODULE SplitSeries -----------------------------
(***************************************************************************)
(* The event writes that insert, and the ones that cut a series: update    *)
(* and cancel with scope this_and_following, and create_event, of          *)
(* internal/service/write.go.  A this_and_following update is two requests *)
(* with nothing to undo the first: the series is truncated under the etag  *)
(* of the read that planned it, then the rest is inserted as a new series. *)
(* The truncate is sent again after a missing answer and planned again     *)
(* after a 412, unless the caller forces it; an insert is sent once.       *)
(***************************************************************************)
EXTENDS RecurSplit

CONSTANTS
    Calls,        \* tool calls
    Requests,     \* what a call may be
    Stored,       \* what the series may be when the calls begin
    MaxRetries,   \* gapi.Client.MaxRetries
    MaxEdits      \* bound: changes made by anybody else

RequestSpace ==
    [op: {"split", "cut", "create"}, at: Dates, quotes: BOOLEAN, force: BOOLEAN]

ASSUME SplitAssumption ==
    /\ Requests \subseteq RequestSpace /\ Stored \subseteq Series
    /\ MaxRetries \in Nat /\ MaxEdits \in Nat

VARIABLES
    series,   \* the series at Google
    made,     \* Google: how many events a call's insert has made
    call,     \* each tool call's goroutine
    edits     \* bound: how many changes anybody else has made

vars == <<series, made, call, edits>>

Plans == [from: Rules \X (SUBSET Dates) \X (SUBSET Dates), to: Rules]

Init ==
    /\ series \in Stored
    /\ made = [c \in Calls |-> 0]
    /\ call \in
        [Calls -> [pc: {"idle"}, req: Requests, seen: {series},
                   second: {FALSE}, first: {{}}, sends: {0}, unsure: {FALSE},
                   cut: {FALSE}, outcome: {"none"}]]
    /\ edits = 0

Finish(c, o) == call' = [call EXCEPT ![c].pc = "done", ![c].outcome = o]

Start(c) ==
    /\ call[c].pc = "idle"
    /\ call' = [call EXCEPT ![c].pc =
            IF call[c].req.op = "create" THEN "insert" ELSE "target"]
    /\ UNCHANGED <<series, made, edits>>

-----------------------------------------------------------------------------
(* One try: the occurrence, its series, the plan.                          *)

\* A date the series no longer has still reads, as a canceled occurrence.
ReadTarget(c) ==
    /\ call[c].pc = "target"
    /\ IF call[c].req.op = "cut" /\ call[c].req.at \notin Occurrences(series)
       THEN Finish(c, "conflict")
       ELSE call' = [call EXCEPT ![c].pc = "parent"]
    /\ UNCHANGED <<series, made, edits>>

\* A read that fails, an etag of the caller's that is not the occurrence's,
\* a notify that is missing or blocked, a dry run.
GivesUp(c) ==
    /\ call[c].pc \in {"target", "parent"}
    /\ Finish(c, "given_up")
    /\ UNCHANGED <<series, made, edits>>

\* The change commit holds a second try to: the lines the series had, and
\* the rule it is truncated to.  A second try that gets by it starts from a
\* series that has the later dates (again).
PlanOf(s, d) ==
    [from |-> <<s.rule, s.excluded, s.added>>, to |-> BeforeRule(s, d)]

ReadParent(c) ==
    /\ call[c].pc = "parent"
    /\ LET d == call[c].req.at IN
       IF Unsplittable(series, d) THEN Finish(c, "invalid")
       ELSE IF call[c].first \notin {{}, {PlanOf(series, d)}}
       THEN Finish(c, "stale_plan")
       ELSE call' = [call EXCEPT ![c].pc = "cut", ![c].seen = series,
                                 ![c].first = {PlanOf(series, d)},
                                 ![c].sends = 0, ![c].unsure = FALSE,
                                 ![c].cut = FALSE]
    /\ UNCHANGED <<series, made, edits>>

-----------------------------------------------------------------------------
(* The truncate, under the etag of the series that was read -- or, forced, *)
(* under "*", whatever has become of the series.                           *)

Matches(c) == call[c].req.force \/ series.ver = call[c].seen.ver

Cut(c) == [Truncated(call[c].seen, call[c].req.at) EXCEPT !.ver = series.ver + 1]

\* A split goes on to its insert, a cut is done.
OnceCut(c) ==
    IF call[c].req.op = "split" THEN [call[c] EXCEPT !.cut = TRUE, !.pc = "insert"]
    ELSE [call[c] EXCEPT !.cut = TRUE, !.pc = "done", !.outcome = "ok"]

CutLands(c) ==
    /\ call[c].pc = "cut" /\ Matches(c)
    /\ series' = Cut(c)
    /\ call' = [call EXCEPT ![c] = OnceCut(c)]
    /\ UNCHANGED <<made, edits>>

\* retrying: planned again once, unless the caller quoted an etag.
CutStale(c) ==
    /\ call[c].pc = "cut" /\ ~Matches(c)
    /\ IF ~call[c].req.quotes /\ ~call[c].second
       THEN call' = [call EXCEPT ![c].pc = "target", ![c].second = TRUE]
       ELSE Finish(c, "stale")
    /\ UNCHANGED <<series, made, edits>>

CutRefused(c) ==
    /\ call[c].pc = "cut"
    /\ Finish(c, "refused")
    /\ UNCHANGED <<series, made, edits>>

\* No answer, or a 5xx: carried out or not, and sent again.
MayRetry(c) == call[c].sends < MaxRetries

CutUnanswered(c) ==
    /\ call[c].pc = "cut"
    /\ \E carried \in {FALSE, Matches(c)} :
        /\ series' = IF carried THEN Cut(c) ELSE series
        /\ LET k == [call[c] EXCEPT !.cut = @ \/ carried, !.unsure = TRUE]
           IN  call' = [call EXCEPT ![c] =
                    IF MayRetry(c) THEN [k EXCEPT !.sends = @ + 1]
                    ELSE [k EXCEPT !.pc = "done", !.outcome = "unavailable"]]
    /\ UNCHANGED <<made, edits>>

-----------------------------------------------------------------------------
(* The insert, under an id this process minted.                            *)

Body(c) ==
    IF call[c].req.op = "split" THEN Rest(call[c].seen, call[c].req.at)
    ELSE [ver |-> 1, start |-> call[c].req.at, excluded |-> {}, added |-> {},
          rule |-> [every |-> 1, count |-> 1, until |-> 0, unknown |-> {}]]

InsertLands(c) ==
    /\ call[c].pc = "insert"
    /\ made' = [made EXCEPT ![c] = @ + 1]
    /\ Finish(c, "ok")
    /\ UNCHANGED <<series, edits>>

\* A split reports any failure of its insert as ambiguous_outcome, since
\* its truncate stands.
InsertRefusedPlain(c) ==   \* mutant: the refusal is passed on
    /\ call[c].pc = "insert"
    /\ Finish(c, "refused")
    /\ UNCHANGED <<series, made, edits>>
InsertRefused(c) ==
    /\ call[c].pc = "insert"
    /\ Finish(c, IF call[c].req.op = "split" THEN "ambiguous" ELSE "refused")
    /\ UNCHANGED <<series, made, edits>>

\* An insert is never sent again: the event may exist.
InsertUnanswered(c) ==
    /\ call[c].pc = "insert"
    /\ made' \in {made, [made EXCEPT ![c] = @ + 1]}
    /\ Finish(c, "ambiguous")
    /\ UNCHANGED <<series, edits>>

-----------------------------------------------------------------------------
\* Anybody else touches the series, takes a date off it, or ends it sooner.
Edited(s) ==
    {s} \union {[s EXCEPT !.excluded = @ \union {d}] : d \in Occurrences(s)}
        \union {[s EXCEPT !.rule.until = d] :
                    d \in {x \in Dates : x >= s.start /\ s.rule.count = 0
                                /\ (s.rule.until > 0 => x < s.rule.until)}}

Edit ==
    /\ edits < MaxEdits
    /\ \E s \in Edited(series) : series' = [s EXCEPT !.ver = @ + 1]
    /\ edits' = edits + 1
    /\ UNCHANGED <<made, call>>

Try(c) == ReadTarget(c) \/ ReadParent(c) \/ GivesUp(c)
Truncate(c) == CutLands(c) \/ CutStale(c) \/ CutRefused(c) \/ CutUnanswered(c)
Insert(c) == InsertLands(c) \/ InsertRefused(c) \/ InsertUnanswered(c)

Next ==
    \/ \E c \in Calls : Start(c) \/ Try(c) \/ Truncate(c) \/ Insert(c)
    \/ Edit

\* Each call runs to its end; nobody else has to do anything.
Fairness ==
    \A c \in Calls : WF_vars(Start(c) \/ Try(c) \/ Truncate(c) \/ Insert(c))

Spec == Init /\ [][Next]_vars /\ Fairness

-----------------------------------------------------------------------------
(* Properties.                                                             *)

TypeOK ==
    /\ series \in Series
    /\ made \in [Calls -> Nat]
    /\ call \in [Calls ->
            [pc: {"idle", "target", "parent", "cut", "insert", "done"},
             req: Requests, seen: Series, second: BOOLEAN, first: SUBSET Plans,
             sends: 0 .. MaxRetries, unsure: BOOLEAN, cut: BOOLEAN,
             outcome: {"none", "ok", "given_up", "invalid", "conflict",
                       "stale_plan", "stale", "refused", "unavailable",
                       "ambiguous"}]]
    /\ edits \in 0 .. MaxEdits

Splits == {c \in Calls : call[c].req.op = "split" /\ made[c] > 0}

\* No truncate that was sent whatever the series had become was carried
\* out, and the rule has no part this server does not read.
Unforced == \A c \in Calls : call[c].req.force => ~call[c].cut
ReadWhole(r) == r.unknown = {}

\* However splits of one series follow each other, and whatever becomes of
\* an insert's answer, no date is on two of the series they leave: the
\* truncate comes first, it counts what the rule generates, its etag is the
\* one of the read the rest was planned on, and the rest is inserted once.
\* Two things the code does not promise are left out: a forced truncate
\* puts back the dates another call has moved to its new series, and a
\* rule's unknown parts make the count wrong.
NothingDuplicated ==
    \A c \in Splits :
        LET rest == Occurrences(Body(c)) IN
        /\ made[c] = 1
        /\ Unforced /\ ReadWhole(series.rule) =>
            /\ rest \intersect Occurrences(series) = {}
            /\ \A e \in Splits \ {c} : rest \intersect Occurrences(Body(e)) = {}

\* A split loses no date and adds none: the truncated series and the rest
\* are the dates the rule generated, when this server reads the whole of it.
\* (Dates added to or taken off the rule are reset, and a target that is
\* itself an added date starts the rule there.)
RuleDividedExactly ==
    \A c \in Splits :
        LET s == call[c].seen
            d == call[c].req.at
        IN  ReadWhole(s.rule) /\ d \in Generated(s.start, s.rule) =>
                Occurrences(Truncated(s, d)) \union Occurrences(Rest(s, d))
                    = Generated(s.start, s.rule)

\* A call whose truncate took the later dates away, and which made no new
\* series for them, says so with ambiguous_outcome -- if it got its answer.
LostRestIsTold ==
    \A c \in Calls :
        LET k == call[c] IN
        /\ k.pc = "done" /\ k.req.op = "split"
        /\ k.cut /\ ~k.unsure /\ made[c] = 0
        => k.outcome = "ambiguous"
=============================================================================
