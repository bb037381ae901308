----------------------------- MODULE EventWrite -----------------------------
(***************************************************************************)
(* The writes to an existing event: update_event, respond_to_event,        *)
(* cancel_event and move_event of internal/service/write.go, over the      *)
(* request loop of internal/gapi/client.go and the plans of internal/plan. *)
(*                                                                         *)
(* Tool calls run concurrently, each as a small machine: read the          *)
(* addressed event, read the series when the scope redirects the write,    *)
(* plan, send the write under the etag of the read that planned it, and    *)
(* once more from a fresh read after a 412.  Between any two of its steps  *)
(* another call, a guest, or Google itself may change the event.  An       *)
(* answer may be lost, and a request whose answer was lost may still be    *)
(* carried out later.                                                      *)
(***************************************************************************)
EXTENDS EventPlan

CONSTANTS
    MaxRetries,   \* gapi.Client.MaxRetries
    MaxEdits      \* bound: changes made by anybody else

ASSUME BoundsAssumption == MaxRetries \in Nat /\ MaxEdits \in Nat

VARIABLES
    events,   \* Google's copy of each event
    call,     \* each tool call's goroutine
    late,     \* requests the client gave up on and Google has not handled
    landed,   \* history: the writes Google carried out, and on what
    edits     \* bound: how many changes anybody else has made

vars == <<events, call, late, landed, edits>>

-----------------------------------------------------------------------------
(* A tool call.  pc: "idle" before it starts, "read" the addressed event,  *)
(* "aim" the series, "send" a request, "wait" for its answer, "done".      *)

CallState ==
    [pc: {"idle", "read", "aim", "send", "wait", "done"}, req: Requests,
     quoted: Nat, second: BOOLEAN, addressed: EventState, seen: EventState,
     first: SUBSET Plan, sends: 0 .. MaxRetries + 1, unsure: BOOLEAN,
     outcome: {"none", "ok", "dry_run", "invalid", "blocked", "conflict",
               "not_read", "stale_etag", "stale_plan", "stale", "gone",
               "refused", "rate_limited", "unavailable", "ambiguous"}]

Blank ==
    [ver |-> 1, title |-> CHOOSE t \in Titles : TRUE,
     answers |-> [g \in Guests |-> "absent"], status |-> "confirmed",
     here |-> TRUE, omits |-> FALSE]

Init ==
    /\ events \in [Events -> Stored]
    /\ call \in
        [Calls -> [pc: {"idle"}, req: Requests, quoted: {0}, second: {FALSE},
                   addressed: {Blank}, seen: {Blank}, first: {{}}, sends: {0},
                   unsure: {FALSE}, outcome: {"none"}]]
    /\ late = {}
    /\ landed = {}
    /\ edits = 0

\* The call's result; what it had read goes with it.
Finish(c, o) ==
    call' = [call EXCEPT ![c].pc = "done", ![c].outcome = o,
                         ![c].addressed = Blank, ![c].seen = Blank]

\* The call begins.  An etag the caller quotes is one they read before.
Start(c) ==
    /\ call[c].pc = "idle"
    /\ call' = [call EXCEPT ![c].pc = "read",
                            ![c].quoted = events[call[c].req.at].ver]
    /\ UNCHANGED <<events, late, landed, edits>>

-----------------------------------------------------------------------------
(* One try, up to its request.                                             *)

\* Mutants: no comparison with the first try's plan, and none with the
\* caller's etag.
RefusalUnplanned(k, addressed, s) ==
    LET r == k.req IN
    IF BodyRefusal(r, s) # "none" THEN BodyRefusal(r, s)
    ELSE IF NotifyRefusal(r, s) # "none" THEN NotifyRefusal(r, s)
    ELSE IF r.quotes /\ ~r.force /\ k.quoted # addressed.ver THEN "stale_etag"
    ELSE IF r.dryRun THEN "dry_run"
    ELSE "none"
RefusalUnquoted(k, addressed, s) ==
    LET r == k.req IN
    IF BodyRefusal(r, s) # "none" THEN BodyRefusal(r, s)
    ELSE IF NotifyRefusal(r, s) # "none" THEN NotifyRefusal(r, s)
    ELSE IF r.dryRun THEN "dry_run"
    ELSE IF k.first \notin {{}, {PlanOf(r, s)}} THEN "stale_plan"
    ELSE "none"

\* The early returns between the last read and the request, in order: the
\* body, the notification, the caller's etag against the event they
\* addressed, the dry run, and the comparison with the first try's plan.
Refusal(k, addressed, s) ==
    LET r == k.req IN
    IF BodyRefusal(r, s) # "none" THEN BodyRefusal(r, s)
    ELSE IF NotifyRefusal(r, s) # "none" THEN NotifyRefusal(r, s)
    ELSE IF r.quotes /\ ~r.force /\ k.quoted # addressed.ver THEN "stale_etag"
    ELSE IF r.dryRun THEN "dry_run"
    ELSE IF k.first \notin {{}, {PlanOf(r, s)}} THEN "stale_plan"
    ELSE "none"

\* Everything a try does between its last read and its request: no request
\* and no shared state in between, so it is one step with that read.
PlanFrom(c, addressed, s) ==
    LET k == call[c]
        no == Refusal(k, addressed, s)
    IN  IF no # "none"
        THEN Finish(c, no)
        ELSE call' = [call EXCEPT ![c].pc = "send",
                                  ![c].addressed = addressed,
                                  ![c].seen = s,
                                  ![c].first = {PlanOf(k.req, s)},
                                  ![c].sends = 0,
                                  ![c].unsure = FALSE]

\* A deleted event still reads, as canceled, or is not found.
Readable(e) == events[e].here

ReadAddressed(c) ==
    /\ call[c].pc = "read"
    /\ LET r == call[c].req
           s == Shown(events[r.at])
       IN  /\ Readable(r.at)
           /\ IF r.op = "cancel" /\ s.status # "confirmed"
              THEN Finish(c, "conflict")
              ELSE IF r.scope = "instance" /\ IsSeries(r.at)
              THEN Finish(c, "invalid")
              ELSE IF Target(r) # r.at
              THEN call' = [call EXCEPT ![c].pc = "aim",
                                        ![c].addressed = s]
              ELSE PlanFrom(c, s, s)
    /\ UNCHANGED <<events, late, landed, edits>>

ReadSeries(c) ==
    /\ call[c].pc = "aim"
    /\ Readable(Target(call[c].req))
    /\ PlanFrom(c, call[c].addressed, Shown(events[Target(call[c].req)]))
    /\ UNCHANGED <<events, late, landed, edits>>

\* A read is a GET, sent again until its retries run out; what matters here
\* is that it may end without the event.
ReadFails(c) ==
    /\ call[c].pc \in {"read", "aim"}
    /\ Finish(c, "not_read")
    /\ UNCHANGED <<events, late, landed, edits>>

-----------------------------------------------------------------------------
(* One write request.  n counts the attempts gapi makes at it.             *)

Request ==
    [call: Calls, req: Requests, seen: EventState, match: Nat, n: Nat]

Pending(c) ==
    [call |-> c, req |-> call[c].req, seen |-> call[c].seen,
     match |-> IfMatch(call[c].req, call[c].seen), n |-> call[c].sends]

SendUncounted(c) ==   \* mutant: the attempt is not counted
    /\ call[c].pc = "send"
    /\ call' = [call EXCEPT ![c].pc = "wait"]
    /\ UNCHANGED <<events, late, landed, edits>>

Send(c) ==
    /\ call[c].pc = "send"
    /\ call' = [call EXCEPT ![c].pc = "wait", ![c].sends = @ + 1]
    /\ UNCHANGED <<events, late, landed, edits>>

\* Google: a moved or deleted event is not there to write, and If-Match
\* names the current version or is "*".
Gone(m) == LET t == events[Target(m.req)] IN ~t.here \/ t.status = "deleted"
Matches(m) == m.match \in {AnyVersion, events[Target(m.req)].ver}

\* The history keeps, of each write, the version its plan read, the version
\* it landed on, and what the plan would be for the event it landed on.
Landing ==
    [call: Calls, event: Events, basis: Nat, on: Nat, plan: Plan]

Land(m) ==
    LET e == Target(m.req) IN
    /\ events' = [events EXCEPT ![e] = Applied(m.req, m.seen, @)]
    /\ landed' = landed \union
        {[call |-> m.call, event |-> e, basis |-> m.seen.ver,
          on |-> events[e].ver, plan |-> PlanOf(m.req, Shown(events[e]))]}

\* A class gapi retries, for a request that may be sent again.
MayRetry(c) == Idempotent(call[c].req) /\ call[c].sends <= MaxRetries

\* Google carries the write out and the answer arrives.
Accepted(c) ==
    /\ call[c].pc = "wait"
    /\ ~Gone(Pending(c)) /\ Matches(Pending(c))
    /\ Land(Pending(c))
    /\ Finish(c, "ok")
    /\ UNCHANGED <<late, edits>>

\* retrying: a 412 under the server's own etag is planned again, once.
MayReplan(c) == ~call[c].req.quotes /\ ~call[c].second

\* Mutant: the old plan is sent again under a fresh etag.
PreconditionFailedResent(c) ==
    /\ call[c].pc = "wait"
    /\ ~Gone(Pending(c)) /\ ~Matches(Pending(c))
    /\ IF MayReplan(c)
       THEN call' = [call EXCEPT ![c].pc = "send", ![c].second = TRUE,
                        ![c].sends = 0,
                        ![c].seen.ver = events[Target(call[c].req)].ver]
       ELSE Finish(c, "stale")
    /\ UNCHANGED <<events, late, landed, edits>>

PreconditionFailed(c) ==
    /\ call[c].pc = "wait"
    /\ ~Gone(Pending(c)) /\ ~Matches(Pending(c))
    /\ IF MayReplan(c)
       THEN call' = [call EXCEPT ![c].pc = "read", ![c].second = TRUE,
                                 ![c].addressed = Blank, ![c].seen = Blank]
       ELSE Finish(c, "stale")
    /\ UNCHANGED <<events, late, landed, edits>>

NotTherePlain(c) ==   \* mutant: the request before it is forgotten
    /\ call[c].pc = "wait"
    /\ Gone(Pending(c))
    /\ Finish(c, "gone")
    /\ UNCHANGED <<events, late, landed, edits>>

\* goneAfterRetry: a DELETE that finds nothing after an unanswered one may
\* itself have removed the event.
NotThere(c) ==
    /\ call[c].pc = "wait"
    /\ Gone(Pending(c))
    /\ Finish(c, IF call[c].unsure /\ ByDelete(call[c].req)
                 THEN "ambiguous" ELSE "gone")
    /\ UNCHANGED <<events, late, landed, edits>>

\* 400, 401, 403: Google did not act, and a repeat would not change that.
Refused(c) ==
    /\ call[c].pc = "wait"
    /\ Finish(c, "refused")
    /\ UNCHANGED <<events, late, landed, edits>>

\* 429, or a 403 with a usageLimits reason: Google did not act.
RateLimited(c) ==
    /\ call[c].pc = "wait"
    /\ IF MayRetry(c)
       THEN call' = [call EXCEPT ![c].pc = "send"]
       ELSE Finish(c, "rate_limited")
    /\ UNCHANGED <<events, late, landed, edits>>

\* No answer, or a 5xx: the request may still be carried out, now or later.
\* A move is not sent again and its outcome is reported as unknown.
Unanswered(c) ==
    /\ call[c].pc = "wait"
    /\ late' \in {late, late \union {Pending(c)}}
    /\ IF MayRetry(c)
       THEN call' = [call EXCEPT ![c].pc = "send", ![c].unsure = TRUE]
       ELSE Finish(c, IF Idempotent(call[c].req)
                      THEN "unavailable" ELSE "ambiguous")
    /\ UNCHANGED <<events, landed, edits>>

\* Google carries out a request nobody waits for any more.
LandLate(m) ==
    /\ m \in late
    /\ ~Gone(m) /\ Matches(m)
    /\ Land(m)
    /\ late' = late \ {m}
    /\ UNCHANGED <<call, edits>>

\* Anybody else changes the event: a guest answers, is invited or leaves,
\* somebody edits or deletes it, or Google touches it.
Edited(s) ==
    {s} \union {[s EXCEPT !.title = t] : t \in Titles}
        \union {[s EXCEPT !.answers[g] = a] : g \in Guests, a \in Answers}
        \union {[s EXCEPT !.status = "deleted"]}

Edit(e) ==
    /\ edits < MaxEdits
    /\ events[e].here /\ events[e].status # "deleted"
    /\ \E s \in Edited(events[e]) :
        events' = [events EXCEPT ![e] = [s EXCEPT !.ver = @ + 1]]
    /\ edits' = edits + 1
    /\ UNCHANGED <<call, late, landed>>

-----------------------------------------------------------------------------
Read(c) == ReadAddressed(c) \/ ReadSeries(c) \/ ReadFails(c)

Answer(c) ==
    \/ Accepted(c) \/ PreconditionFailed(c) \/ NotThere(c)
    \/ Refused(c) \/ RateLimited(c) \/ Unanswered(c)

Next ==
    \/ \E c \in Calls : Start(c) \/ Read(c) \/ Send(c) \/ Answer(c)
    \/ \E m \in late : LandLate(m)
    \/ \E e \in Events : Edit(e)

\* The SDK runs each call's goroutine to its end and every request is
\* answered or times out.  Nothing makes anybody else change an event, or
\* Google carry out a request nobody waits for.
Fairness ==
    \A c \in Calls : WF_vars(Start(c) \/ Read(c) \/ Send(c) \/ Answer(c))

Spec == Init /\ [][Next]_vars /\ Fairness

-----------------------------------------------------------------------------
(* Properties.                                                             *)

TypeOK ==
    /\ events \in [Events -> EventState]
    /\ call \in [Calls -> CallState]
    /\ late \subseteq Request
    /\ landed \subseteq Landing
    /\ edits \in 0 .. MaxEdits

Forced(l) == call[l.call].req.force

\* A write that Google carries out, on the first try or the second, in time
\* or long after its answer was given up on, makes the change and reaches
\* the guests of the plan the caller's notify was first judged on.  (The
\* comparison in attempt.commit, the etag, and the fresh read together.)
LandsAsFirstPlanned ==
    \A l \in landed : ~Forced(l) => call[l.call].first = {l.plan}

\* Nobody is emailed by surprise: a write without a notify choice finds
\* nobody to reach when it lands, and one with "none" finds nobody outside
\* the organization, as far as a read shows the list.  (plan.Notification,
\* and whatever changed since.)
NobodyReachedUnasked ==
    \A l \in landed :
        LET r == call[l.call].req IN
        ~Forced(l) /\ ~OnlyPersonal(r) =>
            /\ r.notify = "" => l.plan.reached = {} /\ r.add \subseteq {Me}
            /\ r.notify \in {"", "none"} => l.plan.outside = {}

\* A caller who quotes an etag decides on that version of the event they
\* addressed: no write of theirs lands on another one.  (ifMatch's
\* comparison, and no second try for such a call.)
CallerEtagDecides ==
    \A l \in landed :
        LET k == call[l.call] IN
        k.req.quotes /\ ~k.req.force /\ l.event = k.req.at => l.on = k.quoted

\* Of all the requests a move makes, at most one was or can still be carried
\* out: events.move is not sent again once an answer is missing, and is
\* planned again only after Google refused it.
MoveMayLandOnce ==
    \A c \in Calls : call[c].req.op = "move" =>
        \A x, y \in {m \in late : m.call = c}
                     \union {l \in landed : l.call = c} : x = y

\* A cancel that removed the event never answers that somebody else did, or
\* that it changed, or that it was not there: through every retry and the
\* second try, an answer that was lost is remembered.  (goneAfterRetry and
\* alreadyGone.)
OwnDeleteNotDenied ==
    \A l \in landed : ByDelete(call[l.call].req) =>
        call[l.call].outcome \notin {"gone", "conflict", "stale", "stale_plan"}

\* A landing write l leaves every other guest it was not asked to remove,
\* with the answer they gave.
KeepsOthers(l) ==
    \A g \in Guests \ ({Me} \union call[l.call].req.drop) :
        events[l.event].answers[g] # "absent" =>
            events'[l.event].answers[g] = events[l.event].answers[g]

\* No write loses what another guest answered, however the answer and the
\* two tries interleave; setOwnResponse and guestList rebuild the list from
\* the read the etag names.  A response to an event whose list Google
\* truncated is left out: respond_to_event writes the truncated list back.
OthersKept ==
    [][\A l \in landed' \ landed :
        ~Forced(l) /\ (call[l.call].req.op = "respond" =>
                           ~events[l.event].omits)
            => KeepsOthers(l)]_vars

\* The tool calls implement AtomicWrite: whatever lands, when it lands, is
\* what one step that reads, judges and writes the event would have written.
Atomic == INSTANCE AtomicWrite WITH
    store <- events,
    asks <- [c \in Calls |-> call[c].req],
    writes <- {[call |-> l.call, event |-> l.event, on |-> l.on] : l \in landed}
ImplementsAtomic == Atomic!Spec

\* Every tool call is answered: the retries end, the second try is the last.
AllAnswered == \A c \in Calls : <>(call[c].pc = "done")
=============================================================================
